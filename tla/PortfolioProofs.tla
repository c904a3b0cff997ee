-------------------------- MODULE PortfolioProofs ---------------------------
(***************************************************************************)
(* Theorems about what is bought and what is reported: the reports of      *)
(* module Reports, for any rows, disclosures and trades and any writes     *)
(* between their queries; the walks of module Series, for every input that *)
(* its assumptions admit; and the runs of module DCA, for any number of    *)
(* runs, plans, funds, dates and user operations.                          *)
(***************************************************************************)
EXTENDS DCA, Reports, Series, Sums, TLAPS

-----------------------------------------------------------------------------
(* Reports                                                                 *)

\* Half a unit at most is lost or won by rounding.
LEMMA RoundBounds ==
    ASSUME NEW a \in Nat, NEW b \in Nat, b > 0
    PROVE  /\ round2(a, b) \in Nat
           /\ (2 * b) * round2(a, b) <= 2 * a + b
           /\ 2 * a < (2 * b) * round2(a, b) + b
<1> DEFINE n == 2 * a + b
           d == 2 * b
           q == n \div d
<1>1. n \in Nat /\ d \in Nat /\ d > 0
    OBVIOUS
<1>2. round2(a, b) = q
    BY DEF round2
<1> HIDE DEF n, d
<1>3. n = d * q + (n % d) /\ (n % d) \in Nat /\ (n % d) < d /\ q \in Nat
    BY <1>1
<1> HIDE DEF q
<1>4. d * q \in Nat
    BY <1>1, <1>3
<1>5. d * q <= n /\ n < d * q + d
    BY <1>1, <1>3, <1>4
<1>6. n = 2 * a + b /\ d = 2 * b
    BY DEF n, d
<1> QED
    BY <1>2, <1>3, <1>4, <1>5, <1>6

LEMMA Cancels ==
    ASSUME NEW m \in Nat, m > 0, NEW a \in Int, NEW b \in Int, m * a <= m * b
    PROVE  a <= b
OBVIOUS

LEMMA RoundGrows ==
    ASSUME NEW a \in Nat, NEW c \in Nat, NEW b \in Nat, b > 0, a <= c
    PROVE  round2(a, b) <= round2(c, b)
<1> DEFINE p == round2(a, b)
           q == round2(c, b)
<1>1. /\ p \in Nat /\ (2 * b) * p <= 2 * a + b
      /\ q \in Nat /\ 2 * c < (2 * b) * q + b
    BY RoundBounds
<1> SUFFICES ASSUME p > q PROVE FALSE
    BY <1>1
<1> HIDE DEF p, q
<1>2. PICK e \in Nat : p = q + 1 + e
  <2>1. p - (q + 1) \in Nat /\ p = q + 1 + (p - (q + 1))
      BY <1>1
  <2> QED
      BY <2>1
<1>3. (2 * b) * p = (2 * b) * q + 2 * b + (2 * b) * e /\ (2 * b) * e >= 0
    BY <1>1, <1>2
<1> QED
    BY <1>1, <1>3

\* Sums of values rounded one by one.
LEMMA RoundedSums ==
    ASSUME NEW S, IsFiniteSet(S), NEW b \in Nat, b > 0, NEW g, NEW w,
           \A x \in S : g[x] \in Nat /\ w[x] = round2(g[x], b)
    PROVE  /\ SumOver(w, S) \in Int /\ SumOver(g, S) \in Int /\ Cardinality(S) \in Nat
           /\ (2 * b) * SumOver(w, S) <= 2 * SumOver(g, S) + b * Cardinality(S)
           /\ 2 * SumOver(g, S) <= (2 * b) * SumOver(w, S) + b * Cardinality(S)
<1> DEFINE n == Cardinality(S)
           one == [x \in S |-> b]
           w2 == [x \in S |-> (2 * b) * w[x]]
           g2 == [x \in S |-> 2 * g[x]]
           up == [x \in S |-> g2[x] + one[x]]
           down == [x \in S |-> w2[x] + one[x]]
<1>1. n \in Nat
    BY FS_CardinalityType
<1>2. ASSUME NEW x \in S
      PROVE  /\ g[x] \in Int /\ w[x] \in Int /\ g2[x] \in Int /\ w2[x] \in Int /\ one[x] \in Int
             /\ g2[x] = 2 * g[x] /\ w2[x] = (2 * b) * w[x] /\ one[x] = b
             /\ up[x] = g2[x] + one[x] /\ down[x] = w2[x] + one[x]
             /\ up[x] \in Int /\ down[x] \in Int
             /\ w2[x] <= up[x] /\ g2[x] <= down[x]
  <2>0. g[x] \in Nat /\ w[x] = round2(g[x], b)
      OBVIOUS
  <2>1. /\ w[x] \in Nat /\ (2 * b) * w[x] <= 2 * g[x] + b
        /\ 2 * g[x] < (2 * b) * w[x] + b
      BY <2>0, RoundBounds
  <2>2. (2 * b) * w[x] \in Int
      BY <2>1
  <2>3. /\ g2[x] = 2 * g[x] /\ w2[x] = (2 * b) * w[x] /\ one[x] = b
        /\ up[x] = g2[x] + one[x] /\ down[x] = w2[x] + one[x]
      OBVIOUS
  <2> HIDE DEF g2, w2, one, up, down
  <2> QED
      BY <2>0, <2>1, <2>2, <2>3
<1> HIDE DEF n, g2, w2, one, up, down
<1>3. SumOver(w, S) \in Int /\ SumOver(g, S) \in Int
    BY <1>2, SumOverType
<1>4. SumOver(g2, S) = 2 * SumOver(g, S)
    BY <1>2, SumOverScaled
<1>5. SumOver(w2, S) = (2 * b) * SumOver(w, S)
  <2>1. 2 * b \in Int
      OBVIOUS
  <2> QED
      BY <1>2, <2>1, SumOverScaled
<1>6. SumOver(one, S) = b * n
  <2>1. \A x \in S : one[x] = b
      BY <1>2
  <2> QED
      BY <2>1, SumOverConstant DEF n
<1>7. SumOver(up, S) = SumOver(g2, S) + SumOver(one, S)
    BY <1>2, SumOverSum
<1>8. SumOver(down, S) = SumOver(w2, S) + SumOver(one, S)
    BY <1>2, SumOverSum
<1>9. SumOver(w2, S) <= SumOver(up, S) /\ SumOver(g2, S) <= SumOver(down, S)
    BY <1>2, SumOverLE
<1> QED
    BY <1>1, <1>3, <1>4, <1>5, <1>6, <1>7, <1>8, <1>9 DEF n

\* The keys of a GROUP BY are finitely many, and what is added up over each
\* group adds up to what is added up over all rows.
LEMMA GroupsAddUp ==
    ASSUME NEW S, IsFiniteSet(S), NEW key, NEW g, \A x \in S : g[x] \in Int,
           NEW h, \A k \in {key[x] : x \in S} : h[k] = SumOver(g, Group(S, key, k))
    PROVE  /\ IsFiniteSet({key[x] : x \in S})
           /\ SumOver(h, {key[x] : x \in S}) = SumOver(g, S)
<1> DEFINE K == {key[x] : x \in S}
           c == [x \in S |-> key[x]]
<1>1. c \in [S -> K] /\ \A x \in S : c[x] = key[x]
    OBVIOUS
<1>2. c \in Surjection(S, K)
    BY <1>1 DEF Surjection
<1>3. IsFiniteSet(K)
  <2> HIDE DEF c, K
  <2> QED
      BY <1>2, FS_Surjection
<1>4. \A k \in K : h[k] = SumOver(g, Group(S, c, k))
  <2>1. \A k \in K : Group(S, c, k) = Group(S, key, k)
      BY DEF Group
  <2> QED
      BY <2>1
<1>5. SumOver(h, K) = SumOver(g, S)
  <2> HIDE DEF c, K
  <2> QED
      BY <1>1, <1>3, <1>4, SumOverGroups
<1> QED
    BY <1>3, <1>5

\* The same of counts.
LEMMA GroupsCount ==
    ASSUME NEW S, IsFiniteSet(S), NEW key,
           NEW h, \A k \in {key[x] : x \in S} : h[k] = Cardinality(Group(S, key, k))
    PROVE  SumOver(h, {key[x] : x \in S}) = Cardinality(S)
<1> DEFINE one == [x \in S |-> 1]
           K == {key[x] : x \in S}
<1>1. ASSUME NEW T \in SUBSET S PROVE SumOver(one, T) = Cardinality(T)
  <2>1. IsFiniteSet(T) /\ Cardinality(T) \in Nat
      BY FS_Subset, FS_CardinalityType
  <2>2. \A x \in T : one[x] = 1
      OBVIOUS
  <2> HIDE DEF one
  <2>3. SumOver(one, T) = 1 * Cardinality(T)
      BY <2>1, <2>2, SumOverConstant
  <2> QED
      BY <2>1, <2>3
<1>2. \A k \in K : h[k] = SumOver(one, Group(S, key, k))
  <2>1. \A k \in K : Group(S, key, k) \in SUBSET S
      BY DEF Group
  <2> HIDE DEF one
  <2> QED
      BY <1>1, <2>1
<1>3. \A x \in S : one[x] \in Int
    OBVIOUS
<1>4. SumOver(h, K) = SumOver(one, S)
  <2> HIDE DEF one
  <2> QED
      BY <1>2, <1>3, GroupsAddUp
<1> QED
    BY <1>1, <1>4

\* One more answer joins those of a report.
LEMMA Appended ==
    ASSUME NEW n \in Nat, NEW r, r = [i \in 1..n |-> r[i]], NEW x
    PROVE  /\ Append(r, x) = [i \in 1..(n + 1) |-> Append(r, x)[i]]
           /\ Append(r, x)[n + 1] = x
           /\ \A i \in 1..n : Append(r, x)[i] = r[i]
<1> DEFINE T == {r[i] : i \in 1..n} \cup {x}
<1>1. r \in [1..n -> T]
    OBVIOUS
<1>2. r \in Seq(T) /\ Len(r) = n
    BY <1>1
<1> QED
    BY <1>2

-----------------------------------------------------------------------------
(* The tables                                                              *)

PositionsOK == position \in [RFunds -> Positions]
Values == [f \in RFunds |-> Or(position[f].value, 0)]
Pnls   == [f \in RFunds |-> Or(position[f].pnl, 0)]

LEMMA RowsFinite == IsFiniteSet(RFunds)
BY ReportsAssumption, FS_Interval DEF RFunds

\* What is added up is a number, and what is held is worth something or nothing.
LEMMA ValuesType ==
    ASSUME PositionsOK
    PROVE  /\ \A f \in RFunds : Values[f] \in Int /\ Pnls[f] \in Int
           /\ HeldRows \in SUBSET RFunds /\ IsFiniteSet(HeldRows)
           /\ \A f \in HeldRows : Values[f] \in Nat
<1>1. \A f \in RFunds : position[f] \in Positions
    BY DEF PositionsOK
<1>2. \A f \in RFunds : Values[f] \in Int /\ Pnls[f] \in Int
    BY <1>1, PositionsAssumption DEF Values, Pnls, Or
<1>3. HeldRows \in SUBSET RFunds
    BY DEF HeldRows, InPortfolio
<1>4. IsFiniteSet(HeldRows)
    BY <1>3, RowsFinite, FS_Subset
<1>5. \A f \in HeldRows : f \in RFunds /\ position[f].held
    BY <1>3 DEF HeldRows
<1>6. \A f \in HeldRows : Values[f] \in Nat
    BY <1>1, <1>5, PositionsAssumption DEF Values, Or
<1> QED
    BY <1>2, <1>3, <1>4, <1>6

LEMMA SumValueIs ==
    ASSUME NEW T \in SUBSET RFunds
    PROVE  SumValue(T) = SumOver(Values, T) /\ SumPNL(T) = SumOver(Pnls, T)
<1>1. [f \in T |-> Or(position[f].value, 0)] = [f \in T |-> Values[f]]
    BY DEF Values
<1>2. [f \in T |-> Or(position[f].pnl, 0)] = [f \in T |-> Pnls[f]]
    BY DEF Pnls
<1> QED
    BY <1>1, <1>2 DEF SumValue, SumPNL, SumOver

\* A column of a table of groups.
LEMMA TotalAs ==
    ASSUME NEW b, NEW column, NEW h, \A k \in DOMAIN b : h[k] = b[k][column]
    PROVE  Total(b, column) = SumOver(h, DOMAIN b)
<1>1. [k \in DOMAIN b |-> b[k][column]] = [k \in DOMAIN b |-> h[k]]
    OBVIOUS
<1> QED
    BY <1>1 DEF Total, SumOver

-----------------------------------------------------------------------------
(* The allocation                                                          *)

\* What a grouping of the allocation returns: buckets with value, weighed
\* against the total.
IsBuckets(b, total) ==
    /\ IsFiniteSet(DOMAIN b)
    /\ \A k \in DOMAIN b :
          /\ b[k].value \in Nat
          /\ b[k].weight = IF total > 0 THEN round2(b[k].value * 10000, total) ELSE 0

KeyedBy(key) == [k \in {key[f] : f \in HeldRows} |-> Group(HeldRows, key, k)]

\* The buckets carry the values of all the positions held.
LEMMA BucketsAddUp ==
    ASSUME PositionsOK, NEW key, NEW total
    PROVE  LET b == bucketizeAllocationRows(KeyedBy(key), total)
           IN  IsBuckets(b, total) /\ Total(b, "value") = SumValue(HeldRows)
<1> DEFINE groups == KeyedBy(key)
           b == bucketizeAllocationRows(groups, total)
           K == {key[f] : f \in HeldRows}
           P == {k \in K : SumValue(groups[k]) > 0}
           h == [k \in K |-> SumValue(groups[k])]
<1>1. DOMAIN groups = K
    BY DEF KeyedBy
<1>2. \A k \in K : groups[k] = Group(HeldRows, key, k) /\ groups[k] \in SUBSET HeldRows
    BY DEF KeyedBy, Group
<1>3. IsFiniteSet(HeldRows) /\ HeldRows \in SUBSET RFunds /\ \A f \in HeldRows : Values[f] \in Nat
    BY ValuesType
<1>4. \A k \in K : h[k] = SumOver(Values, Group(HeldRows, key, k))
  <2>1. \A k \in K : groups[k] \in SUBSET RFunds
      BY <1>2, <1>3
  <2>2. \A k \in K : h[k] = SumValue(groups[k])
      OBVIOUS
  <2> HIDE DEF groups, h, K
  <2> QED
      BY <1>2, <2>1, <2>2, SumValueIs
<1>5. IsFiniteSet(K) /\ SumOver(h, K) = SumOver(Values, HeldRows)
  <2>1. \A f \in HeldRows : Values[f] \in Int
      BY <1>3
  <2> HIDE DEF h
  <2> QED
      BY <1>3, <1>4, <2>1, GroupsAddUp
<1>6. \A k \in K : h[k] \in Nat
  <2>1. ASSUME NEW k \in K PROVE SumOver(Values, Group(HeldRows, key, k)) \in Nat
    <3>1. Group(HeldRows, key, k) \in SUBSET HeldRows
        BY DEF Group
    <3>2. IsFiniteSet(Group(HeldRows, key, k))
        BY <1>3, <3>1, FS_Subset
    <3> QED
        BY <1>3, <3>1, <3>2, SumOverNat
  <2> QED
      BY <1>4, <2>1
<1>7. DOMAIN b = P
    BY <1>1 DEF bucketizeAllocationRows
<1>8. \A k \in P : /\ k \in K
                   /\ b[k].value = h[k]
                   /\ b[k].weight = IF total > 0 THEN round2(h[k] * 10000, total) ELSE 0
    BY <1>1 DEF bucketizeAllocationRows
<1>9. P \in SUBSET K /\ \A k \in K \ P : h[k] = 0
  <2>1. \A k \in K \ P : ~(h[k] > 0)
      OBVIOUS
  <2> QED
      BY <1>6, <2>1
<1> HIDE DEF b, h, groups, K, P
<1>10. IsFiniteSet(P)
    BY <1>5, <1>9, FS_Subset
<1>11. IsBuckets(b, total)
    BY <1>6, <1>7, <1>8, <1>10 DEF IsBuckets
<1>12. Total(b, "value") = SumOver(h, P)
    BY <1>7, <1>8, TotalAs
<1>13. SumOver(h, P) = SumOver(h, K)
    BY <1>5, <1>6, <1>9, SumOverPart
<1>14. Total(b, "value") = SumValue(HeldRows)
    BY <1>3, <1>5, <1>12, <1>13, SumValueIs
<1> QED
    BY <1>11, <1>14 DEF b, groups

\* Weights of buckets that add up to the total add up to 100 %, each rounded.
LEMMA WeightsAddUp ==
    ASSUME NEW b, NEW total \in Nat, total > 0, IsBuckets(b, total), Total(b, "value") = total
    PROVE  Near(Total(b, "weight"), 10000, Cardinality(DOMAIN b))
<1> DEFINE S == DOMAIN b
           g == [k \in S |-> b[k].value]
           g2 == [k \in S |-> 10000 * b[k].value]
           w == [k \in S |-> b[k].weight]
<1>1. \A k \in S : /\ g[k] = b[k].value /\ g[k] \in Int
                   /\ g2[k] = 10000 * g[k] /\ g2[k] \in Nat
                   /\ w[k] = b[k].weight
    BY DEF IsBuckets
<1>2. \A k \in S : w[k] = round2(g2[k], total)
  <2>1. \A k \in S : b[k].value \in Nat /\ w[k] = round2(b[k].value * 10000, total)
      BY DEF IsBuckets
  <2>2. \A k \in S : b[k].value * 10000 = g2[k]
      BY <2>1
  <2> QED
      BY <2>1, <2>2
<1>3. IsFiniteSet(S)
    BY DEF IsBuckets
<1> HIDE DEF g, g2, w, S
<1>4. Total(b, "value") = SumOver(g, S) /\ Total(b, "weight") = SumOver(w, S)
    BY <1>1, TotalAs DEF S
<1>5. SumOver(g2, S) = 10000 * total
  <2> DEFINE m == 10000
  <2>1. m \in Int /\ \A k \in S : g[k] \in Int /\ g2[k] = m * g[k]
      BY <1>1
  <2> HIDE DEF m
  <2>2. SumOver(g2, S) = m * SumOver(g, S)
      BY <1>3, <2>1, SumOverScaled
  <2> QED
      BY <1>4, <2>2 DEF m
<1> DEFINE W == SumOver(w, S)
           n == Cardinality(S)
<1>6. /\ W \in Int /\ n \in Nat
      /\ (2 * total) * W <= 2 * (10000 * total) + total * n
      /\ 2 * (10000 * total) <= (2 * total) * W + total * n
  <2>1. \A k \in S : g2[k] \in Nat /\ w[k] = round2(g2[k], total)
      BY <1>1, <1>2
  <2>2. /\ SumOver(w, S) \in Int /\ Cardinality(S) \in Nat
        /\ (2 * total) * SumOver(w, S) <= 2 * SumOver(g2, S) + total * Cardinality(S)
        /\ 2 * SumOver(g2, S) <= (2 * total) * SumOver(w, S) + total * Cardinality(S)
      BY <1>3, <2>1, RoundedSums, FS_CardinalityType
  <2> QED
      BY <1>5, <2>2
<1> HIDE DEF W, n
<1>7. /\ total * (2 * W) <= total * (20000 + n)
      /\ total * 20000 <= total * (2 * W + n)
    BY <1>6
<1>8. 2 * W <= 20000 + n /\ 20000 <= 2 * W + n
    BY <1>6, <1>7, Cancels
<1> QED
    BY <1>4, <1>6, <1>8 DEF Near, W, n, S

\* Some bucket has the largest value, and with it the largest weight.
LEMMA LeadingIs ==
    ASSUME NEW b, NEW total \in Nat, IsBuckets(b, total), NEW bound \in Nat
    PROVE  LeadingWeight(b) > bound <=> \E k \in DOMAIN b : b[k].weight > bound
<1> DEFINE S == DOMAIN b
           Top(T) == T = {} \/ \E k \in T : \A j \in T : b[j].value <= b[k].value
           U == {T \in SUBSET S : Top(T)}
           first == CHOOSE k \in S : \A j \in S : b[j].value <= b[k].value
<1>1. IsFiniteSet(S) /\ \A k \in S : b[k].value \in Nat
    BY DEF IsBuckets
<1>2. {} \in U
    OBVIOUS
<1>3. ASSUME NEW T \in SUBSET S, T # {}, T \ {Chosen(T)} \in U PROVE T \in U
  <2> DEFINE c == Chosen(T)
  <2>1. c \in T
      BY <1>3 DEF Chosen
  <2>2. Top(T \ {c})
      BY <1>3
  <2>3. Top(T)
    <3> HIDE DEF c, S
    <3>1. CASE T \ {c} = {}
      <4>1. T = {c}
          BY <2>1, <3>1
      <4>2. b[c].value <= b[c].value
          BY <1>1, <2>1
      <4> QED
          BY <4>1, <4>2
    <3>2. ASSUME NEW k \in T \ {c}, \A j \in T \ {c} : b[j].value <= b[k].value PROVE Top(T)
      <4>1. CASE b[c].value <= b[k].value
          BY <3>2, <4>1
      <4>2. CASE ~(b[c].value <= b[k].value)
          BY <1>1, <2>1, <3>2, <4>2
      <4> QED
          BY <4>1, <4>2
    <3> QED
        BY <2>2, <3>1, <3>2
  <2> QED
      BY <2>3
<1>4. S \in U
  <2> HIDE DEF U, S
  <2> QED
      BY <1>1, <1>2, <1>3, SubsetsBySize
<1>5. CASE S = {}
    BY <1>5 DEF LeadingWeight
<1>6. CASE S # {}
  <2>1. first \in S /\ \A j \in S : b[j].value <= b[first].value
      BY <1>4, <1>6
  <2>2. LeadingWeight(b) = b[first].weight
      BY <1>6 DEF LeadingWeight
  <2> HIDE DEF first
  <2>3. ASSUME NEW j \in S PROVE b[j].weight <= b[first].weight
    <3>1. b[j].value \in Nat /\ b[first].value \in Nat /\ b[j].value <= b[first].value
        BY <1>1, <2>1
    <3>2. CASE total > 0
      <4>1. /\ b[j].weight = round2(b[j].value * 10000, total)
            /\ b[first].weight = round2(b[first].value * 10000, total)
          BY <2>1, <3>2 DEF IsBuckets
      <4>2. /\ b[j].value * 10000 \in Nat /\ b[first].value * 10000 \in Nat
            /\ b[j].value * 10000 <= b[first].value * 10000
          BY <3>1
      <4> QED
          BY <3>2, <4>1, <4>2, RoundGrows
    <3>3. CASE ~(total > 0)
        BY <2>1, <3>3 DEF IsBuckets
    <3> QED
        BY <3>2, <3>3
  <2>4. \A j \in S : b[j].weight \in Nat
    <3>1. ASSUME NEW j \in S PROVE b[j].weight \in Nat
      <4>1. CASE total > 0
        <5> DEFINE e == b[j].value * 10000
        <5>1. b[j].weight = round2(e, total) /\ e \in Nat
            BY <4>1 DEF IsBuckets
        <5> HIDE DEF e
        <5> QED
            BY <4>1, <5>1, RoundBounds
      <4>2. CASE ~(total > 0)
          BY <4>2 DEF IsBuckets
      <4> QED
          BY <4>1, <4>2
    <3> QED
        BY <3>1
  <2> HIDE DEF S
  <2>5. LeadingWeight(b) > bound => \E k \in S : b[k].weight > bound
      BY <2>1, <2>2
  <2>6. ASSUME NEW k \in S, b[k].weight > bound PROVE LeadingWeight(b) > bound
      BY <2>1, <2>2, <2>3, <2>4, <2>6
  <2> QED
      BY <2>5, <2>6 DEF S
<1> QED
    BY <1>5, <1>6

\* Whether a position or a trade was written since the report began.
Torn  == "position" \in written
Quiet == ~Torn /\ ~("trade" \in written)

\* The answers of a report so far, n of them.
Asked(n) == rep = [i \in 1..n |-> rep[i]]

AllocationAt == [start |-> 0, type |-> 1, market |-> 2, ftype |-> 3, flags |-> 4, done |-> 5]
AllocationSteps == {"start", "type", "market", "ftype", "flags", "done"}

\* A grouping that is weighed against the total and, in one piece, carries it.
Distributes(b, total, torn) == IsBuckets(b, total) /\ (~torn => Total(b, "value") = total)

\* What the answers of an allocation are when a query is due.
AllocationInv ==
    rkind = "allocation" =>
        /\ rpc \in AllocationSteps /\ Asked(AllocationAt[rpc])
        /\ AllocationAt[rpc] >= 1 =>
              rep[1] \in Nat /\ (~Torn => rep[1] = SumValue(HeldRows))
        /\ AllocationAt[rpc] >= 2 => Distributes(rep[2], rep[1], Torn)
        /\ AllocationAt[rpc] >= 3 => Distributes(rep[3], rep[1], Torn)
        /\ AllocationAt[rpc] >= 4 => Distributes(rep[4], rep[1], Torn)
        /\ AllocationAt[rpc] >= 5 =>
              /\ "market" \in rep[5] <=> LeadingWeight(rep[3]) > 7000
              /\ "theme" \in rep[5] <=> LeadingWeight(rep[4]) > 5000

LEMMA AllocationEnds == AllocationInv => AllocationAddsUp
<1> SUFFICES ASSUME AllocationInv, rkind = "allocation", rpc = "done" PROVE AllocationAddsUp
    BY DEF AllocationAddsUp
<1>1. /\ rep[1] \in Nat /\ Distributes(rep[2], rep[1], Torn)
      /\ Distributes(rep[3], rep[1], Torn) /\ Distributes(rep[4], rep[1], Torn)
      /\ "market" \in rep[5] <=> LeadingWeight(rep[3]) > 7000
      /\ "theme" \in rep[5] <=> LeadingWeight(rep[4]) > 5000
    BY DEF AllocationInv, AllocationAt
<1>2. \A i \in 2..4 : IsBuckets(rep[i], rep[1]) /\ (~Torn => Total(rep[i], "value") = rep[1])
    BY <1>1 DEF Distributes
<1>3. ASSUME ~Torn, NEW i \in 2..4
      PROVE  /\ Total(rep[i], "value") = rep[1]
             /\ rep[1] > 0 => Near(Total(rep[i], "weight"), 10000, Cardinality(DOMAIN rep[i]))
    BY <1>1, <1>2, <1>3, WeightsAddUp
<1>4. "market" \in rep[5] <=> \E k \in DOMAIN rep[3] : rep[3][k].weight > 7000
  <2>1. IsBuckets(rep[3], rep[1])
      BY <1>2
  <2> QED
      BY <1>1, <2>1, LeadingIs
<1>5. "theme" \in rep[5] <=> \E k \in DOMAIN rep[4] : rep[4][k].weight > 5000
  <2>1. IsBuckets(rep[4], rep[1])
      BY <1>2
  <2> QED
      BY <1>1, <2>1, LeadingIs
<1> QED
    BY <1>3, <1>4, <1>5 DEF AllocationAddsUp, Torn

\* As long as no position is written, what is read from the positions stays.
LEMMA PositionsStay ==
    ASSUME position' = position
    PROVE  /\ HeldRows' = HeldRows /\ InPortfolio' = InPortfolio
           /\ SumValue(HeldRows)' = SumValue(HeldRows)
           /\ SumPNL(HeldRows)' = SumPNL(HeldRows)
<1>1. InPortfolio' = InPortfolio
    BY DEF InPortfolio
<1>2. HeldRows' = HeldRows
    BY <1>1 DEF HeldRows
<1> QED
    BY <1>1, <1>2 DEF SumValue, SumPNL

\* A write during a report leaves its answers and says what it wrote.
Interference ==
    /\ UNCHANGED <<rkind, rpc, rep>>
    /\ written \subseteq written'
    /\ Torn' \/ position' = position
    /\ Torn' \/ ("trade" \in written') \/ (position' = position /\ trades' = trades)

LEMMA WritesInterfere ==
    ASSUME SnapshotRebuilt \/ SecurityEdited \/ HoldingsRewritten \/ TradeAdded
    PROVE  Interference
<1>1. CASE SnapshotRebuilt
    BY <1>1 DEF SnapshotRebuilt, Commit, Interference, Torn
<1>2. CASE SecurityEdited
    BY <1>2 DEF SecurityEdited, Commit, Interference, Torn
<1>3. CASE HoldingsRewritten
    BY <1>3 DEF HoldingsRewritten, Commit, Interference, Torn
<1>4. CASE TradeAdded
    BY <1>4 DEF TradeAdded, Commit, Interference, Torn
<1> QED
    BY <1>1, <1>2, <1>3, <1>4

\* A query leaves the tables, its answer joins those before.
LEMMA QueryAnswers ==
    ASSUME NEW kind, NEW at, NEW next, NEW result, Query(kind, at, next, result),
           NEW n \in Nat, Asked(n)
    PROVE  /\ rkind = kind /\ rkind' = rkind /\ rpc = at /\ rpc' = next
           /\ written' = written /\ position' = position /\ trades' = trades
           /\ Asked(n + 1)' /\ rep'[n + 1] = result
           /\ \A i \in 1..n : rep'[i] = rep[i]
<1>1. /\ rkind = kind /\ rkind' = rkind /\ rpc = at /\ rpc' = next
      /\ written' = written /\ position' = position /\ trades' = trades
      /\ rep' = Append(rep, result)
    BY DEF Query, tables
<1>2. /\ Append(rep, result) = [i \in 1..(n + 1) |-> Append(rep, result)[i]]
      /\ Append(rep, result)[n + 1] = result
      /\ \A i \in 1..n : Append(rep, result)[i] = rep[i]
    BY Appended DEF Asked
<1> QED
    BY <1>1, <1>2 DEF Asked

LEMMA AllocationUndisturbed ==
    ASSUME AllocationInv, Interference
    PROVE  AllocationInv'
<1> SUFFICES ASSUME rkind = "allocation" PROVE AllocationInv'
    BY DEF AllocationInv, Interference
<1>1. rkind' = rkind /\ rpc' = rpc /\ rep' = rep /\ (~Torn' => ~Torn)
    BY DEF Interference, Torn
<1>2. ~Torn' => SumValue(HeldRows)' = SumValue(HeldRows)
    BY PositionsStay DEF Interference
<1>3. /\ rpc \in AllocationSteps /\ Asked(AllocationAt[rpc])
      /\ AllocationAt[rpc] >= 1 => rep[1] \in Nat /\ (~Torn => rep[1] = SumValue(HeldRows))
      /\ AllocationAt[rpc] >= 2 => Distributes(rep[2], rep[1], Torn)
      /\ AllocationAt[rpc] >= 3 => Distributes(rep[3], rep[1], Torn)
      /\ AllocationAt[rpc] >= 4 => Distributes(rep[4], rep[1], Torn)
      /\ AllocationAt[rpc] >= 5 =>
              /\ "market" \in rep[5] <=> LeadingWeight(rep[3]) > 7000
              /\ "theme" \in rep[5] <=> LeadingWeight(rep[4]) > 5000
    BY DEF AllocationInv
<1>4. \A b, total : Distributes(b, total, Torn) => Distributes(b, total, Torn')
    BY <1>1 DEF Distributes
<1>5. Asked(AllocationAt[rpc])'
    BY <1>1, <1>3 DEF Asked
<1> QED
    BY <1>1, <1>2, <1>3, <1>4, <1>5 DEF AllocationInv

\* Each of the three groupings carries the values of all the positions held.
LEMMA GroupingsAddUp ==
    ASSUME PositionsOK, NEW total,
           NEW groups \in {allocationByType, allocationByMarket, allocationByFundType}
    PROVE  LET b == bucketizeAllocationRows(groups, total)
           IN  IsBuckets(b, total) /\ Total(b, "value") = SumValue(HeldRows)
<1>1. ASSUME NEW key, groups = KeyedBy(key)
      PROVE  LET b == bucketizeAllocationRows(groups, total)
             IN  IsBuckets(b, total) /\ Total(b, "value") = SumValue(HeldRows)
    BY <1>1, BucketsAddUp
<1> HIDE DEF HeldRows
<1>2. CASE groups = allocationByType
  <2> DEFINE key == [f \in HeldRows |-> typeKey(f)]
  <2>1. groups = KeyedBy(key)
      BY <1>2 DEF allocationByType, GroupBy, KeyedBy, Group
  <2> HIDE DEF key
  <2> QED
      BY <1>1, <2>1
<1>3. CASE groups = allocationByMarket
  <2> DEFINE key == [f \in HeldRows |-> marketKey(f)]
  <2>1. groups = KeyedBy(key)
      BY <1>3 DEF allocationByMarket, GroupBy, KeyedBy, Group
  <2> HIDE DEF key
  <2> QED
      BY <1>1, <2>1
<1>4. CASE groups = allocationByFundType
  <2> DEFINE key == [f \in HeldRows |-> fundTypeKey(f)]
  <2>1. groups = KeyedBy(key)
      BY <1>4 DEF allocationByFundType, GroupBy, KeyedBy, Group
  <2> HIDE DEF key
  <2> QED
      BY <1>1, <2>1
<1> QED
    BY <1>2, <1>3, <1>4

\* Each of its queries adds its answer to those before.
LEMMA AllocationAsks ==
    ASSUME AllocationInv, PositionsOK,
           \/ AllocationTotal \/ AllocationByType \/ AllocationByMarket \/ AllocationByFundType
           \/ AllocationFlags
    PROVE  AllocationInv'
<1>1. ASSUME NEW at \in AllocationSteps, NEW next \in AllocationSteps, NEW result,
             Query("allocation", at, next, result), AllocationAt[next] = AllocationAt[at] + 1
      PROVE  /\ rkind = "allocation" /\ rkind' = rkind /\ rpc = at /\ rpc' = next
             /\ written' = written /\ position' = position
             /\ Asked(AllocationAt[next])' /\ rep'[AllocationAt[next]] = result
             /\ \A i \in 1..AllocationAt[at] : rep'[i] = rep[i]
  <2>1. /\ rkind = "allocation" /\ rkind' = rkind /\ rpc = at /\ rpc' = next
        /\ written' = written /\ position' = position
      BY <1>1 DEF Query, tables
  <2>2. Asked(AllocationAt[at]) /\ AllocationAt[at] \in Nat
      BY <2>1 DEF AllocationInv, AllocationAt, AllocationSteps
  <2> QED
      BY <1>1, <2>1, <2>2, QueryAnswers
<1>2. AllocationTotal => SumValue(HeldRows) \in Nat
  <2>1. IsFiniteSet(HeldRows) /\ HeldRows \in SUBSET RFunds /\ \A f \in HeldRows : Values[f] \in Nat
      BY ValuesType
  <2>2. SumOver(Values, HeldRows) \in Nat
      BY <2>1, SumOverNat
  <2> QED
      BY <2>1, <2>2, SumValueIs
<1>3. ASSUME AllocationTotal PROVE AllocationInv'
  <2>1. Query("allocation", "start", "type", SumValue(HeldRows))
      BY <1>3 DEF AllocationTotal
  <2>2. /\ rkind' = "allocation" /\ rpc' = "type" /\ position' = position
        /\ Asked(1)' /\ rep'[1] = SumValue(HeldRows)
      BY <1>1, <2>1 DEF AllocationSteps, AllocationAt
  <2>3. SumValue(HeldRows)' = SumValue(HeldRows)
      BY <2>2, PositionsStay
  <2> QED
      BY <1>2, <1>3, <2>2, <2>3 DEF AllocationInv, AllocationSteps, AllocationAt
<1>4. ASSUME AllocationByType PROVE AllocationInv'
  <2>1. Query("allocation", "type", "market", bucketizeAllocationRows(allocationByType, rep[1]))
      BY <1>4 DEF AllocationByType
  <2>2. /\ rkind = "allocation" /\ rpc = "type" /\ written' = written
        /\ rkind' = "allocation" /\ rpc' = "market" /\ position' = position
        /\ Asked(2)' /\ rep'[2] = bucketizeAllocationRows(allocationByType, rep[1])
        /\ rep'[1] = rep[1]
      BY <1>1, <2>1 DEF AllocationSteps, AllocationAt
  <2>3. SumValue(HeldRows)' = SumValue(HeldRows)
      BY <2>2, PositionsStay
  <2>4. rep[1] \in Nat /\ (~Torn => rep[1] = SumValue(HeldRows))
      BY <2>2 DEF AllocationInv, AllocationAt
  <2>5. Distributes(rep'[2], rep[1], Torn)
      BY <2>2, <2>4, GroupingsAddUp DEF Distributes
  <2>6. Torn' = Torn
      BY <2>2 DEF Torn
  <2> QED
      BY <2>2, <2>3, <2>4, <2>5, <2>6 DEF AllocationInv, AllocationSteps, AllocationAt
<1>5. ASSUME AllocationByMarket PROVE AllocationInv'
  <2>1. Query("allocation", "market", "ftype", bucketizeAllocationRows(allocationByMarket, rep[1]))
      BY <1>5 DEF AllocationByMarket
  <2>2. /\ rkind = "allocation" /\ rpc = "market" /\ written' = written
        /\ rkind' = "allocation" /\ rpc' = "ftype" /\ position' = position
        /\ Asked(3)' /\ rep'[3] = bucketizeAllocationRows(allocationByMarket, rep[1])
        /\ rep'[1] = rep[1] /\ rep'[2] = rep[2]
      BY <1>1, <2>1 DEF AllocationSteps, AllocationAt
  <2>3. SumValue(HeldRows)' = SumValue(HeldRows)
      BY <2>2, PositionsStay
  <2>4. /\ rep[1] \in Nat /\ (~Torn => rep[1] = SumValue(HeldRows))
        /\ Distributes(rep[2], rep[1], Torn)
      BY <2>2 DEF AllocationInv, AllocationAt
  <2>5. Distributes(rep'[3], rep[1], Torn)
      BY <2>2, <2>4, GroupingsAddUp DEF Distributes
  <2>6. Torn' = Torn
      BY <2>2 DEF Torn
  <2> QED
      BY <2>2, <2>3, <2>4, <2>5, <2>6 DEF AllocationInv, AllocationSteps, AllocationAt
<1>6. ASSUME AllocationByFundType PROVE AllocationInv'
  <2>1. Query("allocation", "ftype", "flags", bucketizeAllocationRows(allocationByFundType, rep[1]))
      BY <1>6 DEF AllocationByFundType
  <2>2. /\ rkind = "allocation" /\ rpc = "ftype" /\ written' = written
        /\ rkind' = "allocation" /\ rpc' = "flags" /\ position' = position
        /\ Asked(4)' /\ rep'[4] = bucketizeAllocationRows(allocationByFundType, rep[1])
        /\ rep'[1] = rep[1] /\ rep'[2] = rep[2] /\ rep'[3] = rep[3]
      BY <1>1, <2>1 DEF AllocationSteps, AllocationAt
  <2>3. SumValue(HeldRows)' = SumValue(HeldRows)
      BY <2>2, PositionsStay
  <2>4. /\ rep[1] \in Nat /\ (~Torn => rep[1] = SumValue(HeldRows))
        /\ Distributes(rep[2], rep[1], Torn) /\ Distributes(rep[3], rep[1], Torn)
      BY <2>2 DEF AllocationInv, AllocationAt
  <2>5. Distributes(rep'[4], rep[1], Torn)
      BY <2>2, <2>4, GroupingsAddUp DEF Distributes
  <2>6. Torn' = Torn
      BY <2>2 DEF Torn
  <2> QED
      BY <2>2, <2>3, <2>4, <2>5, <2>6 DEF AllocationInv, AllocationSteps, AllocationAt
<1>7. ASSUME AllocationFlags PROVE AllocationInv'
  <2>1. Query("allocation", "flags", "done", allocationRiskFlags)
      BY <1>7 DEF AllocationFlags
  <2>2. /\ rkind = "allocation" /\ rpc = "flags" /\ written' = written
        /\ rkind' = "allocation" /\ rpc' = "done" /\ position' = position
        /\ Asked(5)' /\ rep'[5] = allocationRiskFlags
        /\ rep'[1] = rep[1] /\ rep'[2] = rep[2] /\ rep'[3] = rep[3] /\ rep'[4] = rep[4]
      BY <1>1, <2>1 DEF AllocationSteps, AllocationAt
  <2>3. SumValue(HeldRows)' = SumValue(HeldRows)
      BY <2>2, PositionsStay
  <2>4. /\ rep[1] \in Nat /\ (~Torn => rep[1] = SumValue(HeldRows))
        /\ Distributes(rep[2], rep[1], Torn) /\ Distributes(rep[3], rep[1], Torn)
        /\ Distributes(rep[4], rep[1], Torn)
      BY <2>2 DEF AllocationInv, AllocationAt
  <2>5. /\ "market" \in rep'[5] <=> LeadingWeight(rep[3]) > 7000
        /\ "theme" \in rep'[5] <=> LeadingWeight(rep[4]) > 5000
      BY <2>2 DEF allocationRiskFlags
  <2>6. Torn' = Torn
      BY <2>2 DEF Torn
  <2> QED
      BY <2>2, <2>3, <2>4, <2>5, <2>6 DEF AllocationInv, AllocationSteps, AllocationAt
<1> QED
    BY <1>3, <1>4, <1>5, <1>6, <1>7

-----------------------------------------------------------------------------
(* The summary                                                             *)

\* The order of the contributors, as a relation of two rows.
AheadBy(gain, f, g) ==
    \/ gain[f] > gain[g]
    \/ gain[f] = gain[g] /\ Values[f] > Values[g]
    \/ gain[f] = gain[g] /\ Values[f] = Values[g] /\ f < g
FirstBy(T, gain) == {f \in T : \A g \in T \ {f} : AheadBy(gain, f, g)}
Losses == [f \in RFunds |-> -Pnls[f]]

\* Where there are rows, one of them is first.
LEMMA FirstExists ==
    ASSUME PositionsOK, NEW S \in SUBSET RFunds, S # {}, NEW gain, \A f \in S : gain[f] \in Int
    PROVE  FirstBy(S, gain) # {}
<1> DEFINE Led(T) == T = {} \/ \E f \in T : \A g \in T \ {f} : AheadBy(gain, f, g)
           U == {T \in SUBSET S : Led(T)}
<1>1. IsFiniteSet(S)
    BY RowsFinite, FS_Subset
<1>2. \A f \in S : f \in Nat /\ gain[f] \in Int /\ Values[f] \in Int
    BY ReportsAssumption, ValuesType DEF RFunds
<1>3. {} \in U
    OBVIOUS
<1>4. ASSUME NEW T \in SUBSET S, T # {}, T \ {Chosen(T)} \in U PROVE T \in U
  <2> DEFINE c == Chosen(T)
  <2>1. c \in T /\ Led(T \ {c})
      BY <1>4 DEF Chosen
  <2>2. Led(T)
    <3> HIDE DEF c
    <3>1. CASE T \ {c} = {}
      <4>1. \A g \in T \ {c} : AheadBy(gain, c, g)
          BY <3>1
      <4> QED
          BY <2>1, <4>1
    <3>2. ASSUME NEW f \in T \ {c}, \A g \in (T \ {c}) \ {f} : AheadBy(gain, f, g) PROVE Led(T)
      <4>1. AheadBy(gain, c, f) \/ AheadBy(gain, f, c)
          BY <1>2, <2>1 DEF AheadBy
      <4>2. ASSUME AheadBy(gain, f, c) PROVE Led(T)
        <5>1. \A g \in T \ {f} : AheadBy(gain, f, g)
            BY <3>2, <4>2
        <5> QED
            BY <5>1
      <4>3. ASSUME AheadBy(gain, c, f) PROVE Led(T)
        <5>1. ASSUME NEW g \in T \ {c} PROVE AheadBy(gain, c, g)
          <6>1. CASE g = f
              BY <4>3, <6>1
          <6>2. CASE g # f
            <7>1. AheadBy(gain, f, g)
                BY <3>2, <6>2
            <7> QED
                BY <1>2, <2>1, <4>3, <7>1 DEF AheadBy
          <6> QED
              BY <6>1, <6>2
        <5> QED
            BY <2>1, <5>1
      <4> QED
          BY <4>1, <4>2, <4>3
    <3> QED
        BY <2>1, <3>1, <3>2
  <2> QED
      BY <2>2
<1>5. S \in U
  <2> HIDE DEF U
  <2> QED
      BY <1>1, <1>3, <1>4, SubsetsBySize
<1> QED
    BY <1>5 DEF FirstBy

\* The order of the query is that one.
LEMMA FirstIs ==
    ASSUME NEW T \in SUBSET RFunds
    PROVE  First(T, Gain) = FirstBy(T, Pnls) /\ First(T, Loss) = FirstBy(T, Losses)
<1>1. \A f \in T : Or(position[f].value, 0) = Values[f] /\ Gain(f) = Pnls[f] /\ Loss(f) = Losses[f]
    BY DEF Values, Gain, Pnls, Loss, Losses
<1>2. \A f \in T, g \in T : Ahead(f, g, Gain) <=> AheadBy(Pnls, f, g)
    BY <1>1 DEF Ahead, AheadBy
<1>3. \A f \in T, g \in T : Ahead(f, g, Loss) <=> AheadBy(Losses, f, g)
    BY <1>1 DEF Ahead, AheadBy
<1>4. First(T, Gain) = FirstBy(T, Pnls)
    BY <1>2 DEF First, FirstBy
<1>5. First(T, Loss) = FirstBy(T, Losses)
    BY <1>3 DEF First, FirstBy
<1> QED
    BY <1>4, <1>5

\* The best contributor and the worst one, by the gains they had.
Ranked(c) == \A g \in c.gainer, l \in c.loser : g[1] # l[1] /\ g[2] >= l[2]
LossesNamed(c, rows, pnls) ==
    \A f \in rows : \E x \in c.gainer \cup c.loser : pnls[f] < 0 => x[2] <= pnls[f]

LEMMA ContributorsRight ==
    ASSUME PositionsOK
    PROVE  Ranked(fillContributors) /\ LossesNamed(fillContributors, HeldRows, Pnls)
<1> DEFINE losing == {f \in HeldRows : Pnls[f] < 0}
           G == FirstBy(HeldRows, Pnls)
           L == FirstBy(losing, Losses)
<1>1. HeldRows \in SUBSET RFunds /\ \A f \in RFunds : Pnls[f] \in Int
    BY ValuesType
<1>2. \A f \in RFunds : Gain(f) = Pnls[f] /\ Losses[f] = -Pnls[f] /\ Losses[f] \in Int
    BY <1>1 DEF Gain, Pnls, Losses
<1>3. losing \in SUBSET RFunds /\ {f \in HeldRows : Gain(f) < 0} = losing
    BY <1>1, <1>2
<1>4. /\ fillContributors.gainer = {<<f, Gain(f)>> : f \in G}
      /\ fillContributors.loser = {<<f, Gain(f)>> : f \in L \ G}
  <2>1. First(HeldRows, Gain) = G /\ First(losing, Loss) = L
    <3> HIDE DEF losing
    <3> QED
        BY <1>1, <1>3, FirstIs
  <2> HIDE DEF losing, G, L
  <2> QED
      BY <1>3, <2>1 DEF fillContributors
<1>5. G \in SUBSET HeldRows /\ L \in SUBSET HeldRows
    BY DEF FirstBy
<1>6. \A g \in G, f \in HeldRows : Pnls[g] >= Pnls[f]
  <2> SUFFICES ASSUME NEW g \in G, NEW f \in HeldRows PROVE Pnls[g] >= Pnls[f]
      OBVIOUS
  <2>1. Pnls[g] \in Int /\ Pnls[f] \in Int
      BY <1>1, <1>5
  <2>2. f = g \/ AheadBy(Pnls, g, f)
      BY DEF FirstBy
  <2> QED
      BY <2>1, <2>2 DEF AheadBy
<1>7. \A l \in L, f \in losing : Pnls[l] <= Pnls[f]
  <2> SUFFICES ASSUME NEW l \in L, NEW f \in losing PROVE Pnls[l] <= Pnls[f]
      OBVIOUS
  <2>1. /\ Pnls[l] \in Int /\ Pnls[f] \in Int /\ Losses[l] = -Pnls[l] /\ Losses[f] = -Pnls[f]
      BY <1>1, <1>2, <1>5
  <2>2. f = l \/ AheadBy(Losses, l, f)
      BY DEF FirstBy
  <2> QED
      BY <2>1, <2>2 DEF AheadBy
<1>8. Ranked(fillContributors)
  <2> SUFFICES ASSUME NEW g \in fillContributors.gainer, NEW l \in fillContributors.loser
               PROVE  g[1] # l[1] /\ g[2] >= l[2]
      BY DEF Ranked
  <2> HIDE DEF G, L, losing
  <2>1. PICK x \in G : g = <<x, Gain(x)>>
      BY <1>4
  <2>2. PICK y \in L \ G : l = <<y, Gain(y)>>
      BY <1>4
  <2>3. x # y /\ Pnls[x] >= Pnls[y] /\ Gain(x) = Pnls[x] /\ Gain(y) = Pnls[y]
      BY <1>1, <1>2, <1>5, <1>6
  <2> QED
      BY <2>1, <2>2, <2>3
<1>9. LossesNamed(fillContributors, HeldRows, Pnls)
  <2> SUFFICES ASSUME NEW f \in HeldRows
               PROVE  \E x \in fillContributors.gainer \cup fillContributors.loser :
                         Pnls[f] < 0 => x[2] <= Pnls[f]
      BY DEF LossesNamed
  <2>1. CASE ~(Pnls[f] < 0)
    <3>1. G # {}
        BY <1>1, FirstExists
    <3> HIDE DEF G, L, losing
    <3>2. PICK g \in G : TRUE
        BY <3>1
    <3>3. <<g, Gain(g)>> \in {<<x, Gain(x)>> : x \in G}
        OBVIOUS
    <3>4. <<g, Gain(g)>> \in fillContributors.gainer
        BY <1>4, <3>3
    <3> QED
        BY <2>1, <3>4
  <2>2. CASE Pnls[f] < 0
    <3>1. f \in losing
        BY <2>2
    <3>2. L # {}
      <4>1. losing # {} /\ \A x \in losing : Losses[x] \in Int
          BY <1>2, <1>3, <3>1
      <4> HIDE DEF losing
      <4> QED
          BY <1>3, <4>1, FirstExists
    <3> HIDE DEF G, L, losing
    <3>3. PICK l \in L : TRUE
        BY <3>2
    <3>4. Pnls[l] <= Pnls[f] /\ Gain(l) = Pnls[l]
        BY <1>1, <1>2, <1>5, <1>7, <3>1
    <3>5. <<l, Gain(l)>> \in fillContributors.gainer \cup fillContributors.loser
        BY <1>4
    <3>6. <<l, Gain(l)>>[2] <= Pnls[f]
        BY <3>4
    <3> QED
        BY <3>5, <3>6
  <2> QED
      BY <2>1, <2>2
<1> QED
    BY <1>8, <1>9

SummaryAt == [start |-> 0, counts |-> 1, contributors |-> 2, settlement |-> 3, kinds |-> 4,
              balances |-> 5, done |-> 6]
SummarySteps == {"start", "counts", "contributors", "settlement", "kinds", "balances", "done"}

\* What the header says of the rows held.
Header(h, rows, value, pnl) == h.held = Cardinality(rows) /\ h.value = value /\ h.pnl = pnl
\* The balances add up to what a header says.
Balanced(b, h) ==
    Total(b, "count") = h.held /\ Total(b, "value") = h.value /\ Total(b, "pnl") = h.pnl

\* What the first n answers of a summary are, given what the tables hold now.
SummaryFacts(n, torn, quiet, tx, rows, value, pnl, pnls, r) ==
    /\ n >= 1 => (quiet => r[1].tx = tx)
    /\ n >= 2 => (~torn => Header(r[2], rows, value, pnl))
    /\ n >= 3 => Ranked(r[3]) /\ (~torn => LossesNamed(r[3], rows, pnls))
    /\ n >= 4 => (quiet => SumFunction(r[4]) <= r[1].tx)
    /\ n >= 5 => (quiet => SumFunction(r[5]) = r[1].tx)
    /\ n >= 6 => (~torn => Balanced(r[6], r[2]))

SummaryInv ==
    rkind = "summary" =>
        /\ rpc \in SummarySteps /\ Asked(SummaryAt[rpc])
        /\ SummaryFacts(SummaryAt[rpc], Torn, Quiet, Cardinality(Scoped), HeldRows,
                        SumValue(HeldRows), SumPNL(HeldRows), Pnls, rep)

LEMMA SummaryEnds == SummaryInv => SummaryAddsUp
<1> SUFFICES ASSUME SummaryInv, rkind = "summary", rpc = "done" PROVE SummaryAddsUp
    BY DEF SummaryAddsUp
<1>1. /\ Ranked(rep[3]) /\ (~Torn => LossesNamed(rep[3], HeldRows, Pnls))
      /\ Quiet => SumFunction(rep[4]) <= rep[1].tx /\ SumFunction(rep[5]) = rep[1].tx
      /\ ~Torn => Balanced(rep[6], rep[2])
    BY DEF SummaryInv, SummaryFacts, SummaryAt
<1>2. ~Torn => \A f \in HeldRows : \E c \in rep[3].gainer \cup rep[3].loser :
                    Gain(f) < 0 => c[2] <= Gain(f)
  <2>1. \A f \in HeldRows : Pnls[f] = Gain(f)
      BY DEF HeldRows, InPortfolio, Pnls, Gain
  <2> QED
      BY <1>1, <2>1 DEF LossesNamed
<1> QED
    BY <1>1, <1>2 DEF SummaryAddsUp, Ranked, Balanced, Torn, Quiet

LEMMA TradesStay ==
    ASSUME position' = position, trades' = trades
    PROVE  Scoped' = Scoped
BY PositionsStay DEF Scoped

LEMMA PnlsStay ==
    ASSUME position' = position
    PROVE  Pnls' = Pnls
BY DEF Pnls

LEMMA SummaryUndisturbed ==
    ASSUME SummaryInv, Interference
    PROVE  SummaryInv'
<1> SUFFICES ASSUME rkind = "summary" PROVE SummaryInv'
    BY DEF SummaryInv, Interference
<1>1. rkind' = rkind /\ rpc' = rpc /\ rep' = rep /\ (~Torn' => ~Torn) /\ (Quiet' => Quiet)
    BY DEF Interference, Torn, Quiet
<1>2. ~Torn' => /\ HeldRows' = HeldRows /\ SumValue(HeldRows)' = SumValue(HeldRows)
                /\ SumPNL(HeldRows)' = SumPNL(HeldRows) /\ Pnls' = Pnls
    BY PositionsStay, PnlsStay DEF Interference
<1>3. Quiet' => Scoped' = Scoped
    BY TradesStay DEF Interference, Quiet
<1>4. Asked(SummaryAt[rpc])'
    BY <1>1 DEF SummaryInv, Asked
<1> QED
    BY <1>1, <1>2, <1>3, <1>4 DEF SummaryInv, SummaryFacts

\* A breakdown of trades counts each of them.
LEMMA BreakdownCounts ==
    ASSUME NEW ts, IsFiniteSet(ts), NEW key, NEW h,
           h = [k \in {key[t] : t \in ts} |-> Cardinality(Group(ts, key, k))]
    PROVE  SumFunction(h) = Cardinality(ts)
<1> DEFINE K == {key[t] : t \in ts}
<1>1. h = [k \in K |-> h[k]]
    OBVIOUS
<1>2. \A k \in K : h[k] = Cardinality(Group(ts, key, k))
    OBVIOUS
<1>3. SumOver(h, K) = Cardinality(ts)
    BY <1>2, GroupsCount
<1>4. SumFunction(h) = SumOver(h, K)
  <2> HIDE DEF K
  <2> QED
      BY <1>1 DEF SumOver
<1> QED
    BY <1>3, <1>4

LEMMA BreakdownsRight ==
    ASSUME trades \subseteq TradeRows
    PROVE  /\ SumFunction(CountBy({t \in Scoped : t.days # Null}, LAMBDA t : t.days))
                 <= Cardinality(Scoped)
           /\ SumFunction(CountBy(Scoped, LAMBDA t : t.kind)) = Cardinality(Scoped)
<1> DEFINE settled == {t \in Scoped : t.days # Null}
<1>1. IsFiniteSet(Scoped) /\ IsFiniteSet(settled)
  <2>1. IsFiniteSet(trades)
      BY TradesAssumption, FS_Subset
  <2>2. Scoped \in SUBSET trades
      BY DEF Scoped
  <2> QED
      BY <2>1, <2>2, FS_Subset
<1>2. Cardinality(settled) <= Cardinality(Scoped)
  <2>1. settled \in SUBSET Scoped
      OBVIOUS
  <2> HIDE DEF settled
  <2> QED
      BY <1>1, <2>1, FS_Subset
<1> HIDE DEF settled
<1>3. SumFunction(CountBy(settled, LAMBDA t : t.days)) = Cardinality(settled)
  <2> DEFINE key == [t \in settled |-> t.days]
             h == CountBy(settled, LAMBDA t : t.days)
  <2>1. h = [k \in {key[t] : t \in settled} |-> Cardinality(Group(settled, key, k))]
      BY DEF CountBy, Group
  <2> HIDE DEF key, h
  <2>2. SumFunction(h) = Cardinality(settled)
      BY <1>1, <2>1, BreakdownCounts
  <2> QED
      BY <2>2 DEF h
<1>4. SumFunction(CountBy(Scoped, LAMBDA t : t.kind)) = Cardinality(Scoped)
  <2> DEFINE key == [t \in Scoped |-> t.kind]
             h == CountBy(Scoped, LAMBDA t : t.kind)
  <2>1. h = [k \in {key[t] : t \in Scoped} |-> Cardinality(Group(Scoped, key, k))]
      BY DEF CountBy, Group
  <2> HIDE DEF key, h
  <2>2. SumFunction(h) = Cardinality(Scoped)
      BY <1>1, <2>1, BreakdownCounts
  <2> QED
      BY <2>2 DEF h
<1> QED
    BY <1>2, <1>3, <1>4 DEF settled

\* The answer of the last query.
Balances ==
    LET groups == GroupBy(HeldRows, balanceKey)
    IN  [k \in DOMAIN groups |-> [count |-> Cardinality(groups[k]),
                                  value |-> SumValue(groups[k]), pnl |-> SumPNL(groups[k])]]

LEMMA BalancesAddUp ==
    ASSUME PositionsOK
    PROVE  /\ Total(Balances, "count") = Cardinality(HeldRows)
           /\ Total(Balances, "value") = SumValue(HeldRows)
           /\ Total(Balances, "pnl") = SumPNL(HeldRows)
<1> DEFINE key == [f \in HeldRows |-> balanceKey(f)]
           K == {key[f] : f \in HeldRows}
           count == [k \in K |-> Cardinality(Group(HeldRows, key, k))]
           value == [k \in K |-> SumValue(Group(HeldRows, key, k))]
           pnl == [k \in K |-> SumPNL(Group(HeldRows, key, k))]
<1>1. /\ DOMAIN Balances = K
      /\ \A k \in K : /\ Balances[k].count = Cardinality(Group(HeldRows, key, k))
                      /\ Balances[k].value = SumValue(Group(HeldRows, key, k))
                      /\ Balances[k].pnl = SumPNL(Group(HeldRows, key, k))
  <2> DEFINE groups == GroupBy(HeldRows, balanceKey)
  <2>1. groups = [k \in K |-> Group(HeldRows, key, k)]
      BY DEF GroupBy, Group
  <2>2. DOMAIN groups = K /\ \A k \in K : groups[k] = Group(HeldRows, key, k)
      BY <2>1
  <2>3. Balances = [k \in DOMAIN groups |->
                       [count |-> Cardinality(groups[k]),
                        value |-> SumValue(groups[k]), pnl |-> SumPNL(groups[k])]]
      BY DEF Balances
  <2> HIDE DEF groups, K, key
  <2> QED
      BY <2>2, <2>3
<1>2. /\ HeldRows \in SUBSET RFunds /\ IsFiniteSet(HeldRows)
      /\ \A f \in HeldRows : Values[f] \in Int /\ Pnls[f] \in Int
    BY ValuesType
<1>3. \A k \in K : Group(HeldRows, key, k) \in SUBSET RFunds
    BY <1>2 DEF Group
<1>4. \A k \in K : /\ count[k] = Balances[k].count /\ count[k] = Cardinality(Group(HeldRows, key, k))
                   /\ value[k] = Balances[k].value /\ value[k] = SumOver(Values, Group(HeldRows, key, k))
                   /\ pnl[k] = Balances[k].pnl /\ pnl[k] = SumOver(Pnls, Group(HeldRows, key, k))
  <2>1. \A k \in K : /\ count[k] = Cardinality(Group(HeldRows, key, k))
                     /\ value[k] = SumValue(Group(HeldRows, key, k))
                     /\ pnl[k] = SumPNL(Group(HeldRows, key, k))
      OBVIOUS
  <2> HIDE DEF count, value, pnl, key, K
  <2> QED
      BY <1>1, <1>3, <2>1, SumValueIs
<1> HIDE DEF count, value, pnl, key
<1>5. SumOver(count, K) = Cardinality(HeldRows)
    BY <1>2, <1>4, GroupsCount
<1>6. SumOver(value, K) = SumOver(Values, HeldRows)
    BY <1>2, <1>4, GroupsAddUp
<1>7. SumOver(pnl, K) = SumOver(Pnls, HeldRows)
    BY <1>2, <1>4, GroupsAddUp
<1> HIDE DEF K
<1>8. /\ Total(Balances, "count") = SumOver(count, K)
      /\ Total(Balances, "value") = SumOver(value, K)
      /\ Total(Balances, "pnl") = SumOver(pnl, K)
    BY <1>1, <1>4, TotalAs
<1> QED
    BY <1>2, <1>5, <1>6, <1>7, <1>8, SumValueIs

LEMMA SummaryAsks ==
    ASSUME SummaryInv, PositionsOK, trades \subseteq TradeRows,
           \/ SummaryTrades \/ SummaryCounts \/ SummaryContributors \/ SummarySettlement
           \/ SummaryKinds \/ SummaryBalances
    PROVE  SummaryInv'
<1>1. ASSUME NEW at \in SummarySteps, NEW next \in SummarySteps, NEW result,
             Query("summary", at, next, result), SummaryAt[next] = SummaryAt[at] + 1
      PROVE  /\ rkind = "summary" /\ rkind' = rkind /\ rpc = at /\ rpc' = next
             /\ Torn' = Torn /\ Quiet' = Quiet /\ Scoped' = Scoped /\ HeldRows' = HeldRows
             /\ SumValue(HeldRows)' = SumValue(HeldRows) /\ SumPNL(HeldRows)' = SumPNL(HeldRows)
             /\ Pnls' = Pnls
             /\ Asked(SummaryAt[next])' /\ rep'[SummaryAt[next]] = result
             /\ \A i \in 1..SummaryAt[at] : rep'[i] = rep[i]
  <2>1. /\ rkind = "summary" /\ rpc = at
      BY <1>1 DEF Query
  <2>2. Asked(SummaryAt[at]) /\ SummaryAt[at] \in Nat
      BY <2>1 DEF SummaryInv, SummaryAt, SummarySteps
  <2>3. /\ rkind' = rkind /\ rpc' = next /\ written' = written /\ position' = position
        /\ trades' = trades
        /\ Asked(SummaryAt[at] + 1)' /\ rep'[SummaryAt[at] + 1] = result
        /\ \A i \in 1..SummaryAt[at] : rep'[i] = rep[i]
      BY <1>1, <2>2, QueryAnswers
  <2>4. Torn' = Torn /\ Quiet' = Quiet
      BY <2>3 DEF Torn, Quiet
  <2>5. Scoped' = Scoped /\ Pnls' = Pnls
      BY <2>3, TradesStay, PnlsStay
  <2>6. /\ HeldRows' = HeldRows /\ SumValue(HeldRows)' = SumValue(HeldRows)
        /\ SumPNL(HeldRows)' = SumPNL(HeldRows)
      BY <2>3, PositionsStay
  <2>7. Asked(SummaryAt[next])'
      BY <1>1, <2>3
  <2> QED
      BY <1>1, <2>1, <2>3, <2>4, <2>5, <2>6, <2>7
<1> DEFINE facts(n, r) == SummaryFacts(n, Torn, Quiet, Cardinality(Scoped), HeldRows,
                                       SumValue(HeldRows), SumPNL(HeldRows), Pnls, r)
<1>2. rkind = "summary" => rpc \in SummarySteps /\ facts(SummaryAt[rpc], rep)
    BY DEF SummaryInv
<1>3. ASSUME NEW at \in SummarySteps, NEW next \in SummarySteps, NEW result,
             Query("summary", at, next, result), SummaryAt[next] = SummaryAt[at] + 1,
             facts(SummaryAt[next], rep')
      PROVE  SummaryInv'
  <2>1. SummaryFacts(SummaryAt[next], Torn', Quiet', Cardinality(Scoped'), HeldRows',
                     SumValue(HeldRows)', SumPNL(HeldRows)', Pnls', rep')
      BY <1>1, <1>3
  <2>2. rpc' = next /\ Asked(SummaryAt[next])' /\ rpc' \in SummarySteps
      BY <1>1, <1>3
  <2>3. Asked(SummaryAt[rpc])'
      BY <2>2
  <2> HIDE DEF facts
  <2> QED
      BY <2>1, <2>2, <2>3 DEF SummaryInv
<1>4. ASSUME SummaryTrades PROVE SummaryInv'
  <2> DEFINE result == [tx   |-> Cardinality(Scoped),
                        auto |-> Cardinality({t \in Scoped : t.kind = "auto"})]
  <2>1. Query("summary", "start", "counts", result)
      BY <1>4 DEF SummaryTrades
  <2>2. result.tx = Cardinality(Scoped)
      OBVIOUS
  <2> HIDE DEF result
  <2>3. rep'[1] = result
      BY <1>1, <2>1 DEF SummarySteps, SummaryAt
  <2>4. facts(1, rep')
      BY <2>2, <2>3 DEF SummaryFacts
  <2> QED
      BY <1>3, <2>1, <2>4 DEF SummarySteps, SummaryAt
<1>5. ASSUME SummaryCounts PROVE SummaryInv'
  <2> DEFINE result == [held |-> Cardinality(HeldRows), pnl |-> SumPNL(HeldRows),
                        value |-> SumValue(HeldRows)]
  <2>1. Query("summary", "counts", "contributors", result)
      BY <1>5 DEF SummaryCounts
  <2>2. Header(result, HeldRows, SumValue(HeldRows), SumPNL(HeldRows))
      BY DEF Header
  <2> HIDE DEF result
  <2>3. rep'[2] = result /\ rep'[1] = rep[1] /\ rkind = "summary" /\ rpc = "counts"
      BY <1>1, <2>1 DEF SummarySteps, SummaryAt
  <2>4. facts(1, rep)
      BY <1>2, <2>3 DEF SummaryAt
  <2>5. facts(2, rep')
      BY <2>2, <2>3, <2>4 DEF SummaryFacts
  <2> QED
      BY <1>3, <2>1, <2>5 DEF SummarySteps, SummaryAt
<1>6. ASSUME SummaryContributors PROVE SummaryInv'
  <2>1. Query("summary", "contributors", "settlement", fillContributors)
      BY <1>6 DEF SummaryContributors
  <2>2. Ranked(fillContributors) /\ LossesNamed(fillContributors, HeldRows, Pnls)
      BY ContributorsRight
  <2>3. /\ rep'[3] = fillContributors /\ rep'[2] = rep[2] /\ rep'[1] = rep[1]
        /\ rkind = "summary" /\ rpc = "contributors"
      BY <1>1, <2>1 DEF SummarySteps, SummaryAt
  <2>4. facts(2, rep)
      BY <1>2, <2>3 DEF SummaryAt
  <2>5. facts(3, rep')
      BY <2>2, <2>3, <2>4 DEF SummaryFacts
  <2> QED
      BY <1>3, <2>1, <2>5 DEF SummarySteps, SummaryAt
<1>7. ASSUME SummarySettlement PROVE SummaryInv'
  <2> DEFINE result == CountBy({t \in Scoped : t.days # Null}, LAMBDA t : t.days)
  <2>1. Query("summary", "settlement", "kinds", result)
      BY <1>7 DEF SummarySettlement
  <2>2. SumFunction(result) <= Cardinality(Scoped)
      BY BreakdownsRight
  <2> HIDE DEF result
  <2>3. /\ rep'[4] = result /\ rep'[3] = rep[3] /\ rep'[2] = rep[2] /\ rep'[1] = rep[1]
        /\ rkind = "summary" /\ rpc = "settlement"
      BY <1>1, <2>1 DEF SummarySteps, SummaryAt
  <2>4. facts(3, rep)
      BY <1>2, <2>3 DEF SummaryAt
  <2>5. facts(4, rep')
      BY <2>2, <2>3, <2>4 DEF SummaryFacts
  <2> QED
      BY <1>3, <2>1, <2>5 DEF SummarySteps, SummaryAt
<1>8. ASSUME SummaryKinds PROVE SummaryInv'
  <2> DEFINE result == CountBy(Scoped, LAMBDA t : t.kind)
  <2>1. Query("summary", "kinds", "balances", result)
      BY <1>8 DEF SummaryKinds
  <2>2. SumFunction(result) = Cardinality(Scoped)
      BY BreakdownsRight
  <2> HIDE DEF result
  <2>3. /\ rep'[5] = result /\ rep'[4] = rep[4] /\ rep'[3] = rep[3] /\ rep'[2] = rep[2]
        /\ rep'[1] = rep[1] /\ rkind = "summary" /\ rpc = "kinds"
      BY <1>1, <2>1 DEF SummarySteps, SummaryAt
  <2>4. facts(4, rep)
      BY <1>2, <2>3 DEF SummaryAt
  <2>5. facts(5, rep')
      BY <2>2, <2>3, <2>4 DEF SummaryFacts
  <2> QED
      BY <1>3, <2>1, <2>5 DEF SummarySteps, SummaryAt
<1>9. ASSUME SummaryBalances PROVE SummaryInv'
  <2>1. Query("summary", "balances", "done", Balances)
      BY <1>9 DEF SummaryBalances, Balances
  <2>2. /\ Total(Balances, "count") = Cardinality(HeldRows)
        /\ Total(Balances, "value") = SumValue(HeldRows)
        /\ Total(Balances, "pnl") = SumPNL(HeldRows)
      BY BalancesAddUp
  <2>3. /\ rep'[6] = Balances /\ rep'[5] = rep[5] /\ rep'[4] = rep[4] /\ rep'[3] = rep[3]
        /\ rep'[2] = rep[2] /\ rep'[1] = rep[1] /\ rkind = "summary" /\ rpc = "balances"
      BY <1>1, <2>1 DEF SummarySteps, SummaryAt
  <2>4. facts(5, rep)
      BY <1>2, <2>3 DEF SummaryAt
  <2>5. ~Torn => Balanced(rep'[6], rep'[2])
    <3>1. ~Torn => Header(rep[2], HeldRows, SumValue(HeldRows), SumPNL(HeldRows))
        BY <2>4 DEF SummaryFacts
    <3> QED
        BY <2>2, <2>3, <3>1 DEF Header, Balanced
  <2>6. facts(6, rep')
      BY <2>3, <2>4, <2>5 DEF SummaryFacts
  <2> QED
      BY <1>3, <2>1, <2>6 DEF SummarySteps, SummaryAt
<1> QED
    BY <1>4, <1>5, <1>6, <1>7, <1>8, <1>9

-----------------------------------------------------------------------------
(* The look-through                                                        *)

\* The funds looked through, and for each the rows of one report date.
FundsOK(funds) ==
    /\ DOMAIN funds \subseteq RFunds /\ IsFiniteSet(DOMAIN funds)
    /\ \A f \in DOMAIN funds : funds[f].value \in Nat
DisclosedOK(funds, holdings) ==
    \A f \in DOMAIN funds : \E h \in SUBSET DisclosedRows : holdings[f] = Latest(h)

\* What is computed once the three answers are there.
Built(sortBy) ==
    [found       |-> Cardinality(LookedThrough),
     covered     |-> WithHoldings,
     stocks      |-> buildPenetrationStocks(sortBy),
     sectors     |-> buildPenetrationSectors,
     unavailable |-> buildUnavailableFunds,
     dates       |-> buildPenetrationReportDates]

LookedAt == FundsOK(rep[1]) /\ DisclosedOK(rep[1], rep[2])

LEMMA ImageFinite ==
    ASSUME NEW S, IsFiniteSet(S), NEW key
    PROVE  IsFiniteSet({key[x] : x \in S})
<1> DEFINE K == {key[x] : x \in S}
           c == [x \in S |-> key[x]]
<1>1. c \in Surjection(S, K)
    BY DEF Surjection
<1> HIDE DEF c, K
<1>2. IsFiniteSet(K)
    BY <1>1, FS_Surjection
<1> QED
    BY <1>2 DEF K

\* The weights of the rows of T.
Weights(T) == [r \in T |-> r.weight]

LEMMA SumWeightsIs ==
    ASSUME NEW S, NEW T \in SUBSET S
    PROVE  SumWeights(T) = SumOver(Weights(S), T)
<1>1. [r \in T |-> r.weight] = [r \in T |-> Weights(S)[r]]
    BY DEF Weights
<1> QED
    BY <1>1 DEF SumWeights, SumOver

\* What a fund exposes are finitely many rows of its latest disclosure.
LEMMA ExposedIs ==
    ASSUME LookedAt, NEW f \in DOMAIN rep[1]
    PROVE  /\ IsFiniteSet(Exposed(f))
           /\ \A r \in Exposed(f) : r.stock \in Int /\ r.weight \in Nat /\ r \in rep[2][f]
           /\ SumWeights(Exposed(f)) \in Nat
<1> DEFINE E == Exposed(f)
<1>1. PICK h \in SUBSET DisclosedRows : rep[2][f] = Latest(h)
    BY DEF LookedAt, DisclosedOK
<1>2. E \in SUBSET DisclosedRows /\ \A r \in E : r.weight > 0 /\ r \in rep[2][f]
    BY <1>1 DEF Exposed, Latest
<1>3. IsFiniteSet(DisclosedRows) /\ \A r \in DisclosedRows : r.stock \in Int /\ r.weight \in Int
    BY HoldingsAssumption
<1> HIDE DEF E
<1>4. IsFiniteSet(E)
    BY <1>2, <1>3, FS_Subset
<1>5. \A r \in E : r.stock \in Int /\ r.weight \in Nat
    BY <1>2, <1>3
<1>6. \A r \in E : Weights(E)[r] \in Nat
    BY <1>5 DEF Weights
<1>7. SumWeights(E) = SumOver(Weights(E), E) /\ SumOver(Weights(E), E) \in Nat
    BY <1>4, <1>6, SumWeightsIs, SumOverNat
<1> QED
    BY <1>2, <1>4, <1>5, <1>7 DEF E

\* They are all of one date, which is the one the report names.
LEMMA CoveredIs ==
    ASSUME LookedAt, NEW f \in WithHoldings
    PROVE  /\ f \in DOMAIN buildPenetrationReportDates
           /\ SumWeights(Exposed(f)) = WeightOn(f, buildPenetrationReportDates[f])
<1> DEFINE R == rep[2][f]
           dates == {r.date : r \in R}
           date == buildPenetrationReportDates[f]
<1>1. f \in DOMAIN rep[1] /\ Exposed(f) # {}
    BY DEF WithHoldings
<1>2. PICK e : e \in Exposed(f)
    BY <1>1
<1>3. e \in R /\ rep[1][f].value > 0
    BY <1>2 DEF Exposed
<1>4. PICK h \in SUBSET DisclosedRows : R = Latest(h)
    BY <1>1 DEF LookedAt, DisclosedOK
<1>5. ASSUME NEW q \in R PROVE q.date = e.date
  <2>1. q \in h /\ e \in h /\ q.date <= e.date /\ e.date <= q.date
      BY <1>3, <1>4 DEF Latest
  <2>2. q.date \in Int /\ e.date \in Int
      BY <2>1, HoldingsAssumption
  <2> QED
      BY <2>1, <2>2
<1>6. e.date \in Int
    BY <1>3, <1>4, HoldingsAssumption DEF Latest
<1>7. dates = {e.date}
    BY <1>3, <1>5
<1>8. f \in DOMAIN buildPenetrationReportDates /\ date = Max(dates)
    BY <1>1, <1>3 DEF buildPenetrationReportDates
<1>9. Max({e.date}) = e.date
    BY <1>6 DEF Max
<1>10. Exposed(f) = {q \in R : q.date = date /\ q.weight > 0}
  <2>1. Exposed(f) = {q \in R : q.weight > 0}
      BY <1>3 DEF Exposed
  <2>2. \A q \in R : q.date = date
      BY <1>5, <1>7, <1>8, <1>9
  <2> HIDE DEF R, date
  <2> QED
      BY <2>1, <2>2
<1> QED
    BY <1>8, <1>10 DEF WeightOn

LEMMA LookedThroughIs ==
    ASSUME LookedAt
    PROVE  /\ IsFiniteSet(LookedThrough) /\ LookedThrough \subseteq Int
           /\ \A f \in DOMAIN rep[1] : \A r \in Exposed(f) : r.stock \in LookedThrough
<1> DEFINE D == DOMAIN rep[1]
           e == [f \in D |-> Exposed(f)]
           R == UNION {e[f] : f \in D}
           stock == [r \in R |-> r.stock]
<1>1. IsFiniteSet(D)
    BY DEF LookedAt, FundsOK
<1>2. \A f \in D : e[f] = Exposed(f)
    OBVIOUS
<1>3. {Exposed(f) : f \in D} = {e[f] : f \in D}
    BY <1>2
<1>4. LookedThrough = {stock[r] : r \in R}
    BY <1>3 DEF LookedThrough
<1> HIDE DEF e
<1>5. IsFiniteSet({e[f] : f \in D})
    BY <1>1, ImageFinite
<1>6. \A T \in {e[f] : f \in D} : IsFiniteSet(T)
    BY <1>2, ExposedIs
<1>7. IsFiniteSet(R)
    BY <1>5, <1>6, FS_UNION
<1>8. \A r \in R : stock[r] \in Int
    BY <1>2, ExposedIs
<1>9. \A f \in D : \A r \in Exposed(f) : r \in R /\ r.stock = stock[r]
    BY <1>2
<1> HIDE DEF R, stock
<1>10. IsFiniteSet({stock[r] : r \in R})
    BY <1>7, ImageFinite
<1> QED
    BY <1>4, <1>8, <1>9, <1>10

\* Of a fund, the weight it exposes is attributed.
LEMMA FundAttributed ==
    ASSUME LookedAt, NEW f \in DOMAIN rep[1]
    PROVE  /\ \A s \in LookedThrough : WeightIn(f, s) \in Nat
           /\ SumOver([s \in LookedThrough |-> WeightIn(f, s)], LookedThrough)
                 = SumWeights(Exposed(f))
<1> DEFINE S == Exposed(f)
           L == LookedThrough
           key == [r \in S |-> r.stock]
           h == [s \in L |-> WeightIn(f, s)]
<1>1. /\ IsFiniteSet(S) /\ IsFiniteSet(L)
      /\ \A r \in S : r.weight \in Nat /\ r.stock \in L
    BY ExposedIs, LookedThroughIs
<1>2. \A r \in S : Weights(S)[r] \in Nat
    BY <1>1 DEF Weights
<1>3. ASSUME NEW s \in L
      PROVE  h[s] = SumOver(Weights(S), Group(S, key, s)) /\ h[s] \in Nat
  <2>1. {r \in S : r.stock = s} = Group(S, key, s) /\ Group(S, key, s) \in SUBSET S
      BY DEF Group
  <2>2. h[s] = SumWeights(Group(S, key, s))
      BY <2>1 DEF WeightIn
  <2> HIDE DEF S, key, h, L
  <2>3. h[s] = SumOver(Weights(S), Group(S, key, s))
      BY <2>1, <2>2, SumWeightsIs
  <2>4. IsFiniteSet(Group(S, key, s))
      BY <1>1, <2>1, FS_Subset
  <2>5. \A r \in Group(S, key, s) : Weights(S)[r] \in Nat
      BY <1>2, <2>1
  <2> QED
      BY <2>3, <2>4, <2>5, SumOverNat
<1>4. key \in [S -> L]
    BY <1>1
<1>5. \A s \in L : h[s] = WeightIn(f, s)
    OBVIOUS
<1> HIDE DEF S, key, h, L
<1>6. SumOver(h, L) = SumOver(Weights(S), S)
  <2>1. \A r \in S : Weights(S)[r] \in Int
      BY <1>2
  <2> QED
      BY <1>1, <1>3, <1>4, <2>1, SumOverGroups
<1>7. SumOver(Weights(S), S) = SumWeights(S)
    BY SumWeightsIs
<1> QED
    BY <1>3, <1>5, <1>6, <1>7 DEF S, h, L

\* Over all stocks, what the covered funds expose is attributed; it is more than
\* the funds are worth only if one of them exposes more than all it has.
WithinBounds == \A f \in WithHoldings : SumWeights(Exposed(f)) <= 100
LEMMA Attributed ==
    ASSUME LookedAt
    PROVE  /\ \A s \in LookedThrough : AggValue(s) \in Nat /\ AggWeight(s) \in Int
           /\ LookedThroughValue \in Nat
           /\ SumAggValue(LookedThrough)
                 = SumFunction([f \in WithHoldings |-> rep[1][f].value * SumWeights(Exposed(f))])
           /\ WithinBounds => SumAggValue(LookedThrough) <= 100 * LookedThroughValue
<1> DEFINE D == DOMAIN rep[1]
           L == LookedThrough
           v == [f \in D |-> rep[1][f].value]
           w == [f \in D |-> [s \in L |-> WeightIn(f, s)]]
           m == [s \in L |-> [f \in D |-> v[f] * w[f][s]]]
           agg == [s \in L |-> AggValue(s)]
           part == [f \in D |-> SumOver(Column(m, L, f), L)]
           most == [f \in D |-> 100 * v[f]]
           W == WithHoldings
<1>1. IsFiniteSet(D) /\ IsFiniteSet(L) /\ \A f \in D : v[f] \in Nat
    BY LookedThroughIs DEF LookedAt, FundsOK
<1>2. ASSUME NEW f \in D
      PROVE  /\ \A s \in L : w[f][s] = WeightIn(f, s) /\ w[f][s] \in Nat
             /\ SumOver(w[f], L) = SumWeights(Exposed(f)) /\ SumOver(w[f], L) \in Nat
  <2>1. w[f] = [s \in LookedThrough |-> WeightIn(f, s)]
      OBVIOUS
  <2>2. \A s \in LookedThrough : w[f][s] = WeightIn(f, s)
      OBVIOUS
  <2>3. SumWeights(Exposed(f)) \in Nat
      BY ExposedIs
  <2> HIDE DEF w
  <2> QED
      BY <2>1, <2>2, <2>3, FundAttributed
<1>3. \A s \in L, f \in D : m[s][f] = v[f] * w[f][s] /\ m[s][f] \in Nat
  <2>1. \A s \in L, f \in D : m[s][f] = v[f] * w[f][s]
      OBVIOUS
  <2> HIDE DEF m, v, w, L, D
  <2>2. \A s \in L, f \in D : v[f] \in Nat /\ w[f][s] \in Nat
      BY <1>1, <1>2
  <2>3. \A a \in Nat, b \in Nat : a * b \in Nat
      OBVIOUS
  <2> QED
      BY <2>1, <2>2, <2>3
<1>4. \A s \in L : agg[s] = AggValue(s) /\ AggValue(s) = SumOver(m[s], D)
  <2> SUFFICES ASSUME NEW s \in L PROVE AggValue(s) = SumOver(m[s], D)
      OBVIOUS
  <2>1. ASSUME NEW f \in D PROVE rep[1][f].value * WeightIn(f, s) = m[s][f]
    <3>1. rep[1][f].value = v[f] /\ w[f][s] = WeightIn(f, s)
        OBVIOUS
    <3> HIDE DEF v, w, m
    <3> QED
        BY <1>3, <3>1
  <2>2. [f \in D |-> rep[1][f].value * WeightIn(f, s)] = [f \in D |-> m[s][f]]
      BY <2>1
  <2> QED
      BY <2>2 DEF AggValue, SumOver
<1>5. \A s \in L : AggWeight(s) \in Int
  <2> SUFFICES ASSUME NEW s \in L PROVE AggWeight(s) \in Int
      OBVIOUS
  <2> DEFINE x == [f \in D |-> WeightIn(f, s)]
  <2>1. ASSUME NEW f \in D PROVE x[f] \in Int
    <3>1. WeightIn(f, s) \in Nat
        BY FundAttributed
    <3> QED
        BY <3>1
  <2>2. [f \in D |-> WeightIn(f, s)] = [f \in D |-> x[f]]
      OBVIOUS
  <2>3. AggWeight(s) = SumOver(x, D)
      BY <2>2 DEF AggWeight, SumOver
  <2> HIDE DEF x
  <2> QED
      BY <1>1, <2>1, <2>3, SumOverType
<1>6. \A f \in D : part[f] = SumOver(Column(m, L, f), L) /\ most[f] = 100 * v[f]
    OBVIOUS
<1>7. LookedThroughValue = SumOver(v, D)
  <2>1. [f \in D |-> rep[1][f].value] = [f \in D |-> v[f]]
      OBVIOUS
  <2> QED
      BY <2>1 DEF LookedThroughValue, SumOver
<1>8. SumAggValue(L) = SumOver(agg, L)
  <2>1. [s \in L |-> AggValue(s)] = [s \in L |-> agg[s]]
      OBVIOUS
  <2> QED
      BY <2>1 DEF SumAggValue, SumOver
<1> HIDE DEF v, w, m, agg, part, most, L, D, W
<1>9. \A s \in L : agg[s] = SumOver(m[s], D) /\ agg[s] \in Nat
    BY <1>1, <1>3, <1>4, SumOverNat
<1>10. SumOver(agg, L) = SumOver(part, D)
  <2>1. \A s \in L, f \in D : m[s][f] \in Int
      BY <1>3
  <2>2. /\ \A s \in L : agg[s] = SumOver(m[s], D)
        /\ \A f \in D : part[f] = SumOver(Column(m, L, f), L)
      BY <1>6, <1>9
  <2> QED
      BY <1>1, <2>1, <2>2, SumOverExchange
<1>11. ASSUME NEW f \in D
       PROVE  part[f] = v[f] * SumWeights(Exposed(f)) /\ part[f] \in Nat /\ most[f] \in Int
  <2>1. ASSUME NEW s \in L
        PROVE  Column(m, L, f)[s] = v[f] * w[f][s] /\ w[f][s] \in Int
    <3>1. Column(m, L, f)[s] = m[s][f]
        BY DEF Column
    <3> QED
        BY <1>2, <1>3, <3>1
  <2>2. v[f] \in Int /\ v[f] \in Nat /\ part[f] = SumOver(Column(m, L, f), L) /\ most[f] = 100 * v[f]
      BY <1>1, <1>6
  <2>3. SumOver(Column(m, L, f), L) = v[f] * SumOver(w[f], L)
      BY <1>1, <2>1, <2>2, SumOverScaled
  <2>4. SumOver(w[f], L) = SumWeights(Exposed(f)) /\ SumOver(w[f], L) \in Nat
      BY <1>2
  <2>5. \A a, x \in Nat : a * x \in Nat
      OBVIOUS
  <2> QED
      BY <2>2, <2>3, <2>4, <2>5
<1>12. W \in SUBSET D /\ \A f \in D \ W : Exposed(f) = {}
    BY DEF WithHoldings, W, D
<1>13. \A f \in D \ W : part[f] = 0
  <2> SUFFICES ASSUME NEW f \in D \ W PROVE part[f] = 0
      OBVIOUS
  <2>1. SumWeights({}) = SumOver(Weights({}), {}) /\ SumOver(Weights({}), {}) = 0
      BY SumWeightsIs, SumOverChosen, FS_EmptySet
  <2>2. part[f] = v[f] * 0 /\ v[f] \in Nat
      BY <1>1, <1>11, <1>12, <2>1
  <2> QED
      BY <2>2
<1>14. SumOver(part, D) = SumOver(part, W)
  <2>1. \A f \in D : part[f] \in Int
      BY <1>11
  <2> QED
      BY <1>1, <1>12, <1>13, <2>1, SumOverPart
<1>15. SumOver(part, W) = SumFunction([f \in W |-> rep[1][f].value * SumWeights(Exposed(f))])
  <2>1. \A f \in W : part[f] = rep[1][f].value * SumWeights(Exposed(f))
      BY <1>11, <1>12 DEF v, D
  <2>2. [f \in W |-> part[f]] = [f \in W |-> rep[1][f].value * SumWeights(Exposed(f))]
      BY <2>1
  <2> QED
      BY <2>2 DEF SumOver
<1>16. ASSUME WithinBounds PROVE SumOver(part, D) <= SumOver(most, D)
  <2>1. ASSUME NEW f \in D PROVE part[f] <= most[f]
    <3>1. CASE f \in W
      <4>1. SumWeights(Exposed(f)) <= 100 /\ SumWeights(Exposed(f)) \in Nat
          BY <1>2, <1>16, <3>1 DEF WithinBounds, W
      <4>2. \A a, x \in Nat : x <= 100 => a * x <= 100 * a
        <5>1. ASSUME NEW a \in Nat, NEW x \in Nat, x <= 100 PROVE a * x <= 100 * a
          <6>1. 100 - x \in Nat /\ a * (100 - x) \in Nat
              BY <5>1
          <6>2. a * (x + (100 - x)) = a * x + a * (100 - x)
              BY <6>1, TimesSum
          <6> QED
              BY <6>1, <6>2
        <5> QED
            BY <5>1
      <4>3. part[f] = v[f] * SumWeights(Exposed(f)) /\ most[f] = 100 * v[f] /\ v[f] \in Nat
          BY <1>1, <1>6, <1>11
      <4> QED
          BY <4>1, <4>2, <4>3
    <3>2. CASE ~(f \in W)
      <4>1. part[f] = 0 /\ most[f] = 100 * v[f] /\ v[f] \in Nat
          BY <1>1, <1>6, <1>13, <3>2
      <4> QED
          BY <4>1
    <3> QED
        BY <3>1, <3>2
  <2>2. \A f \in D : part[f] \in Int /\ most[f] \in Int
      BY <1>11
  <2> QED
      BY <1>1, <2>1, <2>2, SumOverLE
<1>17. SumOver(most, D) = 100 * SumOver(v, D)
  <2>1. \A f \in D : v[f] \in Int /\ most[f] = 100 * v[f]
      BY <1>1, <1>6
  <2> QED
      BY <1>1, <2>1, SumOverScaled
<1>18. SumOver(v, D) \in Nat
    BY <1>1, SumOverNat
<1> QED
    BY <1>4, <1>5, <1>7, <1>8, <1>9, <1>10, <1>14, <1>15, <1>16, <1>17, <1>18 DEF L, W

\* The values of the sectors are those of their stocks, rounded once each.
LEMMA SectorsCarry ==
    ASSUME LookedAt
    PROVE  /\ Total(buildPenetrationSectors, "value") \in Int
           /\ Cardinality(DOMAIN buildPenetrationSectors) \in Nat
           /\ SumAggValue(LookedThrough) \in Int
           /\ Near(100 * Total(buildPenetrationSectors, "value"), SumAggValue(LookedThrough),
                   100 * Cardinality(DOMAIN buildPenetrationSectors))
<1> DEFINE L == LookedThrough
           b == buildPenetrationSectors
           key == [s \in L |-> SectorOf(s)]
           agg == [s \in L |-> AggValue(s)]
           K == {key[s] : s \in L}
           g == [x \in K |-> SumOver(agg, Group(L, key, x))]
           w == [x \in K |-> b[x].value]
<1>1. IsFiniteSet(L) /\ \A s \in L : agg[s] = AggValue(s) /\ agg[s] \in Nat
    BY LookedThroughIs, Attributed
<1>2. K = {SectorOf(s) : s \in L}
    OBVIOUS
<1>3. DOMAIN b = K
    BY <1>2 DEF buildPenetrationSectors
<1>4. ASSUME NEW T \in SUBSET L PROVE SumAggValue(T) = SumOver(agg, T)
  <2>1. [s \in T |-> AggValue(s)] = [s \in T |-> agg[s]]
      OBVIOUS
  <2> QED
      BY <2>1 DEF SumAggValue, SumOver
<1>5. ASSUME NEW x \in K
      PROVE  /\ b[x].value = round2(SumAggValue({s \in L : SectorOf(s) = x}), 100)
             /\ {s \in L : SectorOf(s) = x} = Group(L, key, x)
             /\ Group(L, key, x) \in SUBSET L
  <2>1. x \in {SectorOf(s) : s \in L}
      BY <1>2
  <2>2. b[x].value = round2(SumAggValue({s \in L : SectorOf(s) = x}), 100)
      BY <2>1 DEF buildPenetrationSectors
  <2>3. {s \in L : SectorOf(s) = x} = Group(L, key, x) /\ Group(L, key, x) \in SUBSET L
      BY DEF Group
  <2> QED
      BY <2>2, <2>3
<1>6. \A x \in K : g[x] = SumOver(agg, Group(L, key, x)) /\ w[x] = b[x].value
    OBVIOUS
<1> HIDE DEF key, agg, g, w, b, L
<1>7. ASSUME NEW x \in K PROVE g[x] \in Nat /\ w[x] = round2(g[x], 100)
  <2>1. IsFiniteSet(Group(L, key, x)) /\ \A s \in Group(L, key, x) : agg[s] \in Nat
      BY <1>1, <1>5, FS_Subset
  <2>2. SumOver(agg, Group(L, key, x)) \in Nat
      BY <2>1, SumOverNat
  <2>3. b[x].value = round2(SumAggValue(Group(L, key, x)), 100)
      BY <1>5
  <2>4. SumAggValue(Group(L, key, x)) = SumOver(agg, Group(L, key, x))
      BY <1>4, <1>5
  <2> QED
      BY <1>6, <2>2, <2>3, <2>4
<1>8. IsFiniteSet(K) /\ SumOver(g, K) = SumOver(agg, L)
  <2>1. \A s \in L : agg[s] \in Int
      BY <1>1
  <2>2. \A x \in {key[s] : s \in L} : g[x] = SumOver(agg, Group(L, key, x))
      BY <1>6
  <2> QED
      BY <1>1, <2>1, <2>2, GroupsAddUp
<1>9. Total(b, "value") = SumOver(w, K)
  <2>1. \A x \in DOMAIN b : w[x] = b[x]["value"]
      BY <1>3, <1>6
  <2> QED
      BY <1>3, <2>1, TotalAs
<1>10. SumAggValue(L) = SumOver(g, K)
    BY <1>4, <1>8
<1> HIDE DEF K
<1>11. /\ SumOver(w, K) \in Int /\ SumOver(g, K) \in Int /\ Cardinality(K) \in Nat
       /\ 200 * SumOver(w, K) <= 2 * SumOver(g, K) + 100 * Cardinality(K)
       /\ 2 * SumOver(g, K) <= 200 * SumOver(w, K) + 100 * Cardinality(K)
  <2>1. 100 \in Nat /\ 100 > 0 /\ 2 * 100 = 200
      OBVIOUS
  <2> QED
      BY <1>7, <1>8, <2>1, RoundedSums
<1> QED
    BY <1>3, <1>9, <1>10, <1>11 DEF Near, L, b

\* The stocks listed are among those found, all of them if there are no more
\* than the limit.
LEMMA StocksListed ==
    ASSUME LookedAt, NEW sortBy
    PROVE  /\ DOMAIN buildPenetrationStocks(sortBy) \in SUBSET LookedThrough
           /\ Cardinality(LookedThrough) <= ListLimit =>
                 DOMAIN buildPenetrationStocks(sortBy) = LookedThrough
           /\ \A s \in DOMAIN buildPenetrationStocks(sortBy) :
                 /\ buildPenetrationStocks(sortBy)[s].value = round2(AggValue(s), 100)
                 /\ buildPenetrationStocks(sortBy)[s].pct = PctOfTotal(AggValue(s), 100)
<1> DEFINE L == LookedThrough
           Rank(s) == IF sortBy = "weight_pct" THEN AggWeight(s) ELSE 0
           Cents(s) == round2(AggValue(s), 100)
           Prior(s, t) ==
               \/ Rank(s) > Rank(t)
               \/ Rank(s) = Rank(t) /\ Cents(s) > Cents(t)
               \/ Rank(s) = Rank(t) /\ Cents(s) = Cents(t) /\ s < t
           listed == {s \in L : Cardinality({t \in L : Prior(t, s)}) < ListLimit}
<1>1. buildPenetrationStocks(sortBy) =
          [s \in listed |-> [value |-> Cents(s), pct |-> PctOfTotal(AggValue(s), 100)]]
    BY DEF buildPenetrationStocks
<1>2. DOMAIN buildPenetrationStocks(sortBy) = listed
    BY <1>1
<1>3. \A s \in listed :
         /\ buildPenetrationStocks(sortBy)[s].value = round2(AggValue(s), 100)
         /\ buildPenetrationStocks(sortBy)[s].pct = PctOfTotal(AggValue(s), 100)
    BY <1>1
<1>4. ASSUME Cardinality(L) <= ListLimit, NEW s \in L PROVE s \in listed
  <2> DEFINE T == {t \in L : Prior(t, s)}
  <2>1. Rank(s) \in Int /\ Cents(s) \in Int /\ s \in Int
    <3>1. AggValue(s) \in Nat /\ AggWeight(s) \in Int /\ s \in Int
        BY Attributed, LookedThroughIs
    <3>2. 100 \in Nat /\ 100 > 0
        OBVIOUS
    <3>3. Cents(s) \in Nat
        BY <3>1, <3>2, RoundBounds
    <3> QED
        BY <3>1, <3>3
  <2>2. ~Prior(s, s)
    <3> HIDE DEF Rank, Cents
    <3> QED
        BY <2>1
  <2>3. T \in SUBSET (L \ {s})
    <3> HIDE DEF Prior
    <3> QED
        BY <2>2
  <2>4. IsFiniteSet(L)
      BY LookedThroughIs
  <2> HIDE DEF T, L
  <2>5. /\ Cardinality(L) \in Nat /\ Cardinality(L \ {s}) = Cardinality(L) - 1
        /\ IsFiniteSet(L \ {s})
      BY <1>4, <2>4, FS_CardinalityType, FS_RemoveElement
  <2>6. Cardinality(T) <= Cardinality(L \ {s}) /\ Cardinality(T) \in Nat
      BY <2>3, <2>5, FS_Subset, FS_CardinalityType
  <2>7. ListLimit \in Nat
      BY ReportsAssumption
  <2>8. Cardinality(T) < ListLimit
      BY <1>4, <2>5, <2>6, <2>7
  <2> QED
      BY <1>4, <2>8 DEF T
<1> QED
    BY <1>2, <1>3, <1>4

\* What the stocks listed are worth, rounded once each, and the shares of all
\* that they are.
LEMMA StocksCarry ==
    ASSUME LookedAt, NEW b, DOMAIN b \in SUBSET LookedThrough,
           \A s \in DOMAIN b : /\ b[s].value = round2(AggValue(s), 100)
                               /\ b[s].pct = PctOfTotal(AggValue(s), 100)
    PROVE  /\ Total(b, "value") \in Int /\ Cardinality(DOMAIN b) \in Nat
           /\ DOMAIN b = LookedThrough =>
                 Near(100 * Total(b, "value"), SumAggValue(LookedThrough),
                      100 * Cardinality(DOMAIN b))
           /\ WithinBounds => Total(b, "pct") <= 10000 + Cardinality(DOMAIN b)
<1> DEFINE L == LookedThrough
           V == LookedThroughValue
           S == DOMAIN b
           n == Cardinality(S)
           g == [s \in L |-> AggValue(s)]
           g2 == [s \in S |-> 100 * AggValue(s)]
           w == [s \in S |-> b[s].value]
           p == [s \in S |-> b[s].pct]
<1>1. /\ IsFiniteSet(L) /\ IsFiniteSet(S) /\ S \in SUBSET L /\ n \in Nat /\ V \in Nat
      /\ \A s \in L : AggValue(s) \in Nat
      /\ WithinBounds => SumAggValue(L) <= 100 * V
    BY LookedThroughIs, Attributed, FS_Subset, FS_CardinalityType
<1>2. \A s \in L : g[s] = AggValue(s) /\ g[s] \in Nat /\ g[s] \in Int
    BY <1>1
<1>3. ASSUME NEW s \in S
      PROVE  /\ w[s] = round2(g[s], 100) /\ w[s] = b[s].value
             /\ p[s] = PctOfTotal(g[s], 100) /\ p[s] = b[s].pct
             /\ g2[s] = 100 * g[s] /\ g[s] \in Nat /\ g[s] \in Int
    BY <1>2
<1>4. SumAggValue(L) = SumOver(g, L)
  <2>1. [s \in L |-> AggValue(s)] = [s \in L |-> g[s]]
      OBVIOUS
  <2> QED
      BY <2>1 DEF SumAggValue, SumOver
<1> HIDE DEF g, g2, w, p, L
<1>5. Total(b, "value") = SumOver(w, S) /\ Total(b, "pct") = SumOver(p, S)
    BY <1>3, TotalAs
<1> HIDE DEF V, S
<1>6. /\ SumOver(w, S) \in Int /\ SumOver(g, S) \in Int
      /\ 200 * SumOver(w, S) <= 2 * SumOver(g, S) + 100 * n
      /\ 2 * SumOver(g, S) <= 200 * SumOver(w, S) + 100 * n
  <2> DEFINE c == 100
  <2>1. c \in Nat /\ c > 0 /\ 2 * c = 200 /\ c = 100
      OBVIOUS
  <2>2. \A s \in S : g[s] \in Nat /\ w[s] = round2(g[s], c)
      BY <1>3
  <2> HIDE DEF c
  <2>3. /\ SumOver(w, S) \in Int /\ SumOver(g, S) \in Int
        /\ (2 * c) * SumOver(w, S) <= 2 * SumOver(g, S) + c * Cardinality(S)
        /\ 2 * SumOver(g, S) <= (2 * c) * SumOver(w, S) + c * Cardinality(S)
      BY <1>1, <2>1, <2>2, RoundedSums
  <2> QED
      BY <2>1, <2>3
<1>7. WithinBounds => SumOver(g, S) <= 100 * V
  <2>1. \A s \in L \ S : g[s] >= 0
      BY <1>2
  <2>2. SumOver(g, S) <= SumOver(g, L) /\ SumOver(g, L) \in Int
      BY <1>1, <1>2, <2>1, SumOverPart, SumOverType
  <2> QED
      BY <1>1, <1>4, <1>6, <2>2
<1>8. ASSUME WithinBounds PROVE SumOver(p, S) <= 10000 + n
  <2>1. CASE V = 0
    <3>1. \A s \in S : p[s] = 0
        BY <1>3, <2>1 DEF PctOfTotal, V
    <3>2. SumOver(p, S) = 0 * n
        BY <1>1, <3>1, SumOverConstant
    <3> QED
        BY <1>1, <3>2
  <2>2. CASE V # 0
    <3>1. V \in Nat /\ V > 0
        BY <1>1, <2>2
    <3>2. ASSUME NEW s \in S PROVE g2[s] \in Nat /\ p[s] = round2(g2[s], V)
      <4>1. p[s] = round2(g[s] * 100, V)
          BY <1>3, <2>2 DEF PctOfTotal, V
      <4>2. g[s] * 100 = g2[s] /\ g2[s] \in Nat
          BY <1>3
      <4> QED
          BY <4>1, <4>2
    <3>3. /\ SumOver(p, S) \in Int /\ SumOver(g2, S) \in Int
          /\ (2 * V) * SumOver(p, S) <= 2 * SumOver(g2, S) + V * n
        BY <1>1, <3>1, <3>2, RoundedSums
    <3>4. SumOver(g2, S) = 100 * SumOver(g, S)
        BY <1>1, <1>3, SumOverScaled
    <3> DEFINE P == SumOver(p, S)
    <3>5. P \in Int /\ (2 * V) * P <= 20000 * V + V * n
        BY <1>1, <1>6, <1>7, <1>8, <3>3, <3>4
    <3> HIDE DEF P, n
    <3>6. V * (2 * P) <= V * (20000 + n)
        BY <1>1, <3>1, <3>5
    <3>7. 2 * P <= 20000 + n
        BY <1>1, <3>1, <3>5, <3>6, Cancels
    <3> QED
        BY <1>1, <3>5, <3>7 DEF P
  <2> QED
      BY <2>1, <2>2
<1>9. S = L => Near(100 * SumOver(w, S), SumOver(g, L), 100 * n)
    BY <1>1, <1>6 DEF Near
<1> QED
    BY <1>1, <1>4, <1>5, <1>6, <1>8, <1>9 DEF S, L

\* What the report promises of the answers of its three queries.
DisclosedOn(rows, f, date) ==
    SumFunction([q \in {p \in rows[f] : p.date = date /\ p.weight > 0} |-> q.weight])
Beyond(r, rows) == \E f \in r.covered : DisclosedOn(rows, f, r.dates[f]) > 100
LookThroughRight(r, funds, rows, total, worth) ==
    /\ total = SumFunction([f \in r.covered |->
                               funds[f].value * DisclosedOn(rows, f, r.dates[f])])
    /\ ~Beyond(r, rows) => /\ total <= 100 * worth
                           /\ Total(r.stocks, "pct") <= 10000 + Cardinality(DOMAIN r.stocks)
    /\ Near(100 * Total(r.sectors, "value"), total, 100 * Cardinality(DOMAIN r.sectors))
    /\ r.found <= ListLimit =>
          Near(Total(r.sectors, "value"), Total(r.stocks, "value"),
               Cardinality(DOMAIN r.sectors) + Cardinality(DOMAIN r.stocks))
    /\ r.covered \cup r.unavailable = DOMAIN funds
    /\ \A f \in r.covered \cap r.unavailable : funds[f].notApplicable
    /\ r.covered \subseteq DOMAIN r.dates

LEMMA BuiltRight ==
    ASSUME LookedAt, NEW sortBy
    PROVE  LookThroughRight(Built(sortBy), rep[1], rep[2], SumAggValue(LookedThrough),
                            LookedThroughValue)
<1> DEFINE r == Built(sortBy)
           sec == buildPenetrationSectors
           sto == buildPenetrationStocks(sortBy)
           dat == buildPenetrationReportDates
<1>1. /\ r.found = Cardinality(LookedThrough) /\ r.covered = WithHoldings
      /\ r.stocks = sto /\ r.sectors = sec
      /\ r.unavailable = buildUnavailableFunds /\ r.dates = dat
    BY DEF Built
<1>2. /\ Total(sec, "value") \in Int /\ Cardinality(DOMAIN sec) \in Nat
      /\ SumAggValue(LookedThrough) \in Int
      /\ Near(100 * Total(sec, "value"), SumAggValue(LookedThrough),
              100 * Cardinality(DOMAIN sec))
    BY SectorsCarry
<1>3. /\ DOMAIN sto \in SUBSET LookedThrough
      /\ Cardinality(LookedThrough) <= ListLimit => DOMAIN sto = LookedThrough
      /\ \A s \in DOMAIN sto : /\ sto[s].value = round2(AggValue(s), 100)
                               /\ sto[s].pct = PctOfTotal(AggValue(s), 100)
    BY StocksListed
<1>4. WithHoldings \cup buildUnavailableFunds = DOMAIN rep[1]
    BY DEF WithHoldings, buildUnavailableFunds
<1>5. \A f \in WithHoldings \cap buildUnavailableFunds : rep[1][f].notApplicable
    BY DEF WithHoldings, buildUnavailableFunds
<1>6. WithHoldings \subseteq DOMAIN dat
    BY DEF WithHoldings, Exposed, buildPenetrationReportDates
<1>7. SumAggValue(LookedThrough) =
          SumFunction([f \in r.covered |->
                          rep[1][f].value * DisclosedOn(rep[2], f, r.dates[f])])
  <2>1. \A f \in WithHoldings : SumWeights(Exposed(f)) = DisclosedOn(rep[2], f, dat[f])
      BY CoveredIs DEF WeightOn, SumWeights, DisclosedOn
  <2>2. [f \in WithHoldings |-> rep[1][f].value * SumWeights(Exposed(f))]
            = [f \in r.covered |-> rep[1][f].value * DisclosedOn(rep[2], f, r.dates[f])]
      BY <1>1, <2>1
  <2> QED
      BY <2>2, Attributed
<1>13. ~Beyond(r, rep[2]) => WithinBounds
  <2> SUFFICES ASSUME ~Beyond(r, rep[2]), NEW f \in WithHoldings
               PROVE  SumWeights(Exposed(f)) <= 100
      BY DEF WithinBounds
  <2>1. SumWeights(Exposed(f)) = DisclosedOn(rep[2], f, dat[f])
      BY CoveredIs DEF WeightOn, SumWeights, DisclosedOn
  <2>2. ~(DisclosedOn(rep[2], f, dat[f]) > 100) /\ f \in DOMAIN rep[1]
      BY <1>1 DEF Beyond, WithHoldings
  <2>3. SumWeights(Exposed(f)) \in Nat
      BY <2>2, ExposedIs
  <2> QED
      BY <2>1, <2>2, <2>3
<1> HIDE DEF r, sec, sto, dat
<1>14. ~Beyond(r, rep[2]) => SumAggValue(LookedThrough) <= 100 * LookedThroughValue
    BY <1>13, Attributed
<1>8. /\ Total(sto, "value") \in Int /\ Cardinality(DOMAIN sto) \in Nat
      /\ DOMAIN sto = LookedThrough =>
            Near(100 * Total(sto, "value"), SumAggValue(LookedThrough),
                 100 * Cardinality(DOMAIN sto))
      /\ WithinBounds => Total(sto, "pct") <= 10000 + Cardinality(DOMAIN sto)
    BY <1>3, StocksCarry
<1>9. ASSUME Cardinality(LookedThrough) <= ListLimit
      PROVE  Near(Total(sec, "value"), Total(sto, "value"),
                  Cardinality(DOMAIN sec) + Cardinality(DOMAIN sto))
    BY <1>2, <1>3, <1>8, <1>9 DEF Near
<1>10. r.found <= ListLimit =>
          Near(Total(r.sectors, "value"), Total(r.stocks, "value"),
               Cardinality(DOMAIN r.sectors) + Cardinality(DOMAIN r.stocks))
    BY <1>1, <1>9
<1>11. /\ r.covered \cup r.unavailable = DOMAIN rep[1]
       /\ \A f \in r.covered \cap r.unavailable : rep[1][f].notApplicable
       /\ r.covered \subseteq DOMAIN r.dates
    BY <1>1, <1>4, <1>5, <1>6
<1>12. /\ Near(100 * Total(r.sectors, "value"), SumAggValue(LookedThrough),
               100 * Cardinality(DOMAIN r.sectors))
       /\ ~Beyond(r, rep[2]) => Total(r.stocks, "pct") <= 10000 + Cardinality(DOMAIN r.stocks)
    BY <1>1, <1>2, <1>8, <1>13
<1> QED
    BY <1>7, <1>10, <1>11, <1>12, <1>14 DEF LookThroughRight, r

\* What is attributed depends on the first two answers only.
Attributions(funds, rows) ==
    LET exposed(f) == {r \in rows[f] : funds[f].value > 0 /\ r.weight > 0}
        found      == {r.stock : r \in UNION {exposed(f) : f \in DOMAIN funds}}
        within(f, s) == SumFunction([r \in {q \in exposed(f) : q.stock = s} |-> r.weight])
        carried(s) == SumFunction([f \in DOMAIN funds |-> funds[f].value * within(f, s)])
    IN  SumFunction([s \in found |-> carried(s)])
Worth(funds) == SumFunction([f \in DOMAIN funds |-> funds[f].value])

LEMMA AnswersStay ==
    ASSUME rep'[1] = rep[1], rep'[2] = rep[2]
    PROVE  /\ SumAggValue(LookedThrough)' = SumAggValue(LookedThrough)
           /\ LookedThroughValue' = LookedThroughValue
<1>1. /\ SumAggValue(LookedThrough) = Attributions(rep[1], rep[2])
      /\ LookedThroughValue = Worth(rep[1])
    BY DEF SumAggValue, AggValue, WeightIn, SumWeights, LookedThrough, Exposed, Attributions,
           LookedThroughValue, Worth
<1>2. /\ SumAggValue(LookedThrough)' = Attributions(rep'[1], rep'[2])
      /\ LookedThroughValue' = Worth(rep'[1])
    BY DEF SumAggValue, AggValue, WeightIn, SumWeights, LookedThrough, Exposed, Attributions,
           LookedThroughValue, Worth
<1> QED
    BY <1>1, <1>2

Reported == LookThroughRight(rep[4], rep[1], rep[2], SumAggValue(LookedThrough),
                             LookedThroughValue)

\* What the answers of a look-through are when a query is due.
PenetrationInv ==
    rkind = "penetration" =>
        \/ rpc = "start" /\ Asked(0)
        \/ rpc = "holdings" /\ Asked(1) /\ FundsOK(rep[1])
        \/ rpc = "sectors" /\ Asked(2) /\ LookedAt
        \/ rpc = "build" /\ Asked(3) /\ LookedAt
        \/ rpc = "done" /\ Asked(1)
        \/ rpc = "done" /\ Asked(4) /\ Reported

LEMMA PenetrationEnds == PenetrationInv => PenetrationAddsUp
<1> SUFFICES ASSUME PenetrationInv, rkind = "penetration", rpc = "done", Len(rep) > 1
             PROVE  PenetrationAddsUp
    BY DEF PenetrationAddsUp
<1>1. ~Asked(1)
  <2> SUFFICES ASSUME Asked(1) PROVE FALSE
      OBVIOUS
  <2>1. rep \in [1..1 -> {rep[1]}]
      BY DEF Asked
  <2>2. Len(rep) = 1
      BY <2>1
  <2> QED
      BY <2>2
<1>2. Reported
    BY <1>1 DEF PenetrationInv
<1>3. \A f, d : DisclosedOn(rep[2], f, d) = WeightOn(f, d)
    BY DEF DisclosedOn, WeightOn, SumWeights
<1>4. [f \in rep[4].covered |-> rep[1][f].value * DisclosedOn(rep[2], f, rep[4].dates[f])]
          = [f \in rep[4].covered |-> rep[1][f].value * WeightOn(f, rep[4].dates[f])]
    BY <1>3
<1>5. Beyond(rep[4], rep[2]) <=> Overdisclosed(rep[4])
    BY <1>3 DEF Beyond, Overdisclosed
<1> QED
    BY <1>2, <1>4, <1>5 DEF Reported, LookThroughRight, PenetrationAddsUp

LEMMA PenetrationUndisturbed ==
    ASSUME PenetrationInv, Interference
    PROVE  PenetrationInv'
<1>1. rkind' = rkind /\ rpc' = rpc /\ rep' = rep
    BY DEF Interference
<1>2. /\ SumAggValue(LookedThrough)' = SumAggValue(LookedThrough)
      /\ LookedThroughValue' = LookedThroughValue
    BY <1>1, AnswersStay
<1>3. Reported => Reported'
    BY <1>1, <1>2 DEF Reported
<1>4. LookedAt => LookedAt'
    BY <1>1 DEF LookedAt
<1>5. \A n \in 0..4 : Asked(n) => Asked(n)'
    BY <1>1 DEF Asked
<1>6. FundsOK(rep[1]) => FundsOK(rep[1])'
    BY <1>1
<1> QED
    BY <1>1, <1>3, <1>4, <1>5, <1>6 DEF PenetrationInv

\* A fund without a stored value counts with its shares times its NAV.
LEMMA FundsAreOK == ASSUME PositionsOK PROVE FundsOK(penetrationFunds)
<1>1. HeldRows \in SUBSET RFunds /\ IsFiniteSet(HeldRows) /\ \A f \in HeldRows : Values[f] \in Nat
    BY ValuesType
<1> DEFINE fs == {f \in HeldRows : lookThroughType(f) = "fund"}
<1>2. DOMAIN penetrationFunds = fs /\ \A f \in fs : penetrationFunds[f].value = Or(position[f].value, Or(position[f].worth, 0))
    BY DEF penetrationFunds
<1>3. fs \in SUBSET HeldRows
    OBVIOUS
<1> HIDE DEF fs
<1>4. IsFiniteSet(fs)
    BY <1>1, <1>3, FS_Subset
<1>5. \A f \in fs : Or(position[f].value, Or(position[f].worth, 0)) \in Nat
  <2> SUFFICES ASSUME NEW f \in fs PROVE Or(position[f].value, Or(position[f].worth, 0)) \in Nat
      OBVIOUS
  <2>1. position[f] \in Positions /\ position[f].held
      BY <1>1, <1>3 DEF PositionsOK, HeldRows
  <2>2. position[f].value \in Nat \cup {Null} /\ position[f].worth \in Nat \cup {Null}
      BY <2>1, PositionsAssumption
  <2> QED
      BY <2>2 DEF Or
<1>6. fs \subseteq RFunds
    BY <1>1, <1>3
<1> QED
    BY <1>2, <1>4, <1>5, <1>6 DEF FundsOK

\* Each of its queries adds its answer to those before.
LEMMA PenetrationAsks ==
    ASSUME PenetrationInv, PositionsOK, holding \in [RFunds -> SUBSET DisclosedRows],
           PenetrationFunds \/ PenetrationHoldings \/ PenetrationSectors \/ PenetrationBuild
    PROVE  PenetrationInv'
<1>1. CASE PenetrationFunds
  <2>1. PICK next \in {"done", "holdings"} : Query("penetration", "start", next, penetrationFunds)
      BY <1>1 DEF PenetrationFunds
  <2>2. rkind = "penetration" /\ rpc = "start"
      BY <2>1 DEF Query
  <2>3. Asked(0)
      BY <2>2 DEF PenetrationInv
  <2>4. /\ rpc' = "done" \/ rpc' = "holdings"
        /\ Asked(0 + 1)' /\ rep'[0 + 1] = penetrationFunds
      BY <2>1, <2>3, QueryAnswers
  <2>5. Asked(1)' /\ FundsOK(rep'[1])
      BY <2>4, FundsAreOK
  <2> QED
      BY <2>4, <2>5 DEF PenetrationInv
<1>2. CASE PenetrationHoldings
  <2>1. Query("penetration", "holdings", "sectors", penetrationLatestHoldings)
      BY <1>2 DEF PenetrationHoldings
  <2>2. rkind = "penetration" /\ rpc = "holdings"
      BY <2>1 DEF Query
  <2>3. Asked(1) /\ FundsOK(rep[1])
      BY <2>2 DEF PenetrationInv
  <2>4. /\ rpc' = "sectors" /\ Asked(1 + 1)' /\ rep'[1 + 1] = penetrationLatestHoldings
        /\ \A i \in 1..1 : rep'[i] = rep[i]
      BY <2>1, <2>3, QueryAnswers
  <2>5. Asked(2)' /\ rep'[2] = penetrationLatestHoldings /\ rep'[1] = rep[1]
      BY <2>4
  <2>6. DisclosedOK(rep[1], penetrationLatestHoldings)
    <3>1. ASSUME NEW f \in DOMAIN rep[1]
          PROVE  holding[f] \in SUBSET DisclosedRows /\ penetrationLatestHoldings[f] = Latest(holding[f])
        BY <2>3 DEF FundsOK, penetrationLatestHoldings
    <3> QED
        BY <3>1 DEF DisclosedOK
  <2>7. FundsOK(rep'[1]) /\ DisclosedOK(rep'[1], rep'[2])
      BY <2>3, <2>5, <2>6
  <2>8. LookedAt'
      BY <2>7 DEF LookedAt
  <2> QED
      BY <2>4, <2>5, <2>8 DEF PenetrationInv
<1>3. CASE PenetrationSectors
  <2>1. Query("penetration", "sectors", "build", penetrationSectors)
      BY <1>3 DEF PenetrationSectors
  <2>2. rkind = "penetration" /\ rpc = "sectors"
      BY <2>1 DEF Query
  <2>3. Asked(2) /\ LookedAt
      BY <2>2 DEF PenetrationInv
  <2>4. /\ rpc' = "build" /\ Asked(2 + 1)' /\ \A i \in 1..2 : rep'[i] = rep[i]
      BY <2>1, <2>3, QueryAnswers
  <2>5. Asked(3)' /\ rep'[1] = rep[1] /\ rep'[2] = rep[2]
      BY <2>4
  <2>6. FundsOK(rep'[1]) /\ DisclosedOK(rep'[1], rep'[2])
      BY <2>3, <2>5 DEF LookedAt
  <2>7. LookedAt'
      BY <2>6 DEF LookedAt
  <2> QED
      BY <2>4, <2>5, <2>7 DEF PenetrationInv
<1>4. CASE PenetrationBuild
  <2>1. PICK sortBy : Query("penetration", "build", "done", Built(sortBy))
      BY <1>4 DEF PenetrationBuild, Built
  <2>2. rkind = "penetration" /\ rpc = "build"
      BY <2>1 DEF Query
  <2>3. Asked(3) /\ LookedAt
      BY <2>2 DEF PenetrationInv
  <2>4. /\ rpc' = "done" /\ Asked(3 + 1)' /\ rep'[3 + 1] = Built(sortBy)
        /\ \A i \in 1..3 : rep'[i] = rep[i]
      BY <2>1, <2>3, QueryAnswers
  <2>5. Asked(4)' /\ rep'[4] = Built(sortBy) /\ rep'[1] = rep[1] /\ rep'[2] = rep[2]
      BY <2>4
  <2>6. LookThroughRight(rep'[4], rep'[1], rep'[2], SumAggValue(LookedThrough), LookedThroughValue)
      BY <2>3, <2>5, BuiltRight
  <2>7. /\ SumAggValue(LookedThrough)' = SumAggValue(LookedThrough)
        /\ LookedThroughValue' = LookedThroughValue
      BY <2>5, AnswersStay
  <2>8. Reported'
      BY <2>6, <2>7 DEF Reported
  <2> QED
      BY <2>4, <2>5, <2>8 DEF PenetrationInv
<1> QED
    BY <1>1, <1>2, <1>3, <1>4

-----------------------------------------------------------------------------
(* The three reports                                                       *)

ReportsInv == ReportsTypeOK /\ AllocationInv /\ SummaryInv /\ PenetrationInv

\* A query changes no table; a write changes one, to a content it may have.
LEMMA ReportsTypeStep ==
    ASSUME ReportsTypeOK, ReportsNext
    PROVE  ReportsTypeOK'
<1>. USE ReportsAssumption
<1>1. ASSUME NEW table \in {"position", "detail", "holding", "trade"}, Commit(table)
      PROVE  /\ rwrites' \in 0..MaxWrites /\ rkind' = rkind
             /\ written' \subseteq {"position", "detail", "holding", "trade"}
  BY <1>1 DEF Commit, ReportsTypeOK
<1>2. CASE SnapshotRebuilt
  <2>1. position' \in [RFunds -> Positions]
    BY <1>2 DEF SnapshotRebuilt, ReportsTypeOK
  <2>. QED
    BY <1>1, <1>2, <2>1 DEF SnapshotRebuilt, ReportsTypeOK
<1>3. CASE SecurityEdited
  <2>1. detail' \in [RFunds -> Details]
    BY <1>3 DEF SecurityEdited, ReportsTypeOK
  <2>. QED
    BY <1>1, <1>3, <2>1 DEF SecurityEdited, ReportsTypeOK
<1>4. CASE HoldingsRewritten
  <2>1. PICK f \in RFunds, g \in Answers, h \in Answers :
            holding' = [holding EXCEPT ![f] =
                           Upserted(Upserted(WithoutDates(WithoutDates(@, g), h), g), h)]
    BY <1>4 DEF HoldingsRewritten
  <2>2. g \subseteq DisclosedRows /\ h \subseteq DisclosedRows
    BY DEF DisclosedRows
  <2>3. holding[f] \subseteq DisclosedRows /\ holding \in [RFunds -> SUBSET DisclosedRows]
    BY DEF ReportsTypeOK
  <2>4. Upserted(Upserted(WithoutDates(WithoutDates(holding[f], g), h), g), h) \subseteq DisclosedRows
    BY <2>2, <2>3 DEF Upserted, WithoutDates
  <2>5. holding' \in [RFunds -> SUBSET DisclosedRows]
    BY <2>1, <2>3, <2>4
  <2>. QED
    BY <1>1, <1>4, <2>5 DEF HoldingsRewritten, ReportsTypeOK
<1>5. CASE TradeAdded
  BY <1>1, <1>5 DEF TradeAdded, ReportsTypeOK
<1>6. ASSUME UNCHANGED <<rkind, tables, rwrites, written>> PROVE ReportsTypeOK'
  BY <1>6 DEF tables, ReportsTypeOK
<1>7. CASE \/ AllocationTotal \/ AllocationByType \/ AllocationByMarket \/ AllocationByFundType
           \/ AllocationFlags
  BY <1>6, <1>7 DEF Query, AllocationTotal, AllocationByType, AllocationByMarket,
                    AllocationByFundType, AllocationFlags
<1>8. CASE \/ SummaryTrades \/ SummaryCounts \/ SummaryContributors \/ SummarySettlement
           \/ SummaryKinds \/ SummaryBalances
  BY <1>6, <1>8 DEF Query, SummaryTrades, SummaryCounts, SummaryContributors,
                    SummarySettlement, SummaryKinds, SummaryBalances
<1>9. CASE PenetrationFunds \/ PenetrationHoldings \/ PenetrationSectors \/ PenetrationBuild
  BY <1>6, <1>9 DEF Query, PenetrationFunds, PenetrationHoldings, PenetrationSectors,
                    PenetrationBuild
<1>. QED
  BY <1>2, <1>3, <1>4, <1>5, <1>7, <1>8, <1>9 DEF ReportsNext

LEMMA ReportsStart == ReportsInit => ReportsInv
<1> SUFFICES ASSUME ReportsInit PROVE ReportsInv
    OBVIOUS
<1>1. ReportsTypeOK
  <2>1. detail \in [RFunds -> Details]
    <3>1. CASE rkind = "summary"
        BY <3>1, ReportsAssumption DEF ReportsInit
    <3>2. CASE rkind # "summary"
        BY <3>2 DEF ReportsInit
    <3> QED
        BY <3>1, <3>2
  <2>2. holding \in [RFunds -> SUBSET DisclosedRows] /\ sectorMap \in SectorMaps
    <3>1. \A h \in HoldingSets : h \in SUBSET DisclosedRows
        BY DEF DisclosedRows
    <3>2. holding \in [RFunds -> HoldingSets] /\ sectorMap \in SectorMaps
      <4>1. CASE rkind = "penetration"
          BY <4>1 DEF ReportsInit
      <4>2. CASE rkind # "penetration"
          BY <4>2, ReportsAssumption DEF ReportsInit
      <4> QED
          BY <4>1, <4>2
    <3> QED
        BY <3>1, <3>2
  <2>3. trades \subseteq TradeRows
      BY DEF ReportsInit
  <2> QED
      BY <2>1, <2>2, <2>3, ReportsAssumption DEF ReportsInit, ReportsTypeOK
<1>2. rpc = "start" /\ Asked(0)
    BY DEF ReportsInit, Asked
<1>3. AllocationInv
    BY <1>2 DEF AllocationInv, AllocationSteps, AllocationAt
<1>4. SummaryInv
    BY <1>2 DEF SummaryInv, SummarySteps, SummaryAt, SummaryFacts
<1>5. PenetrationInv
    BY <1>2 DEF PenetrationInv
<1> QED
    BY <1>1, <1>3, <1>4, <1>5 DEF ReportsInv

\* Nothing happens, so what the answers are stays.
LEMMA ReportsStutter == ReportsInv /\ UNCHANGED reportVars => ReportsInv'
<1> SUFFICES ASSUME ReportsInv, UNCHANGED reportVars PROVE ReportsInv'
    OBVIOUS
<1>1. ReportsTypeOK'
    BY DEF ReportsInv, ReportsTypeOK, reportVars
<1>2. Interference
    BY DEF reportVars, Interference, Torn
<1> QED
    BY <1>1, <1>2, AllocationUndisturbed, SummaryUndisturbed, PenetrationUndisturbed
    DEF ReportsInv

\* A query of one report leaves the other two invariants without anything to say.
LEMMA ReportsStep == ReportsInv /\ ReportsNext => ReportsInv'
<1> SUFFICES ASSUME ReportsInv, ReportsNext PROVE ReportsInv'
    OBVIOUS
<1>1. ReportsTypeOK'
    BY ReportsTypeStep DEF ReportsInv
<1>2. PositionsOK /\ trades \subseteq TradeRows /\ holding \in [RFunds -> SUBSET DisclosedRows]
    BY DEF ReportsInv, ReportsTypeOK, PositionsOK
<1>3. AllocationInv /\ SummaryInv /\ PenetrationInv
    BY DEF ReportsInv
<1>4. CASE SnapshotRebuilt \/ SecurityEdited \/ HoldingsRewritten \/ TradeAdded
  <2>1. Interference
      BY <1>4, WritesInterfere
  <2> QED
      BY <1>1, <1>3, <2>1, AllocationUndisturbed, SummaryUndisturbed, PenetrationUndisturbed
      DEF ReportsInv
<1>5. CASE \/ AllocationTotal \/ AllocationByType \/ AllocationByMarket \/ AllocationByFundType
           \/ AllocationFlags
  <2>1. rkind' = "allocation"
      BY <1>5 DEF Query, AllocationTotal, AllocationByType, AllocationByMarket,
                  AllocationByFundType, AllocationFlags
  <2>2. AllocationInv'
      BY <1>2, <1>3, <1>5, AllocationAsks
  <2>3. SummaryInv' /\ PenetrationInv'
      BY <2>1 DEF SummaryInv, PenetrationInv
  <2> QED
      BY <1>1, <2>2, <2>3 DEF ReportsInv
<1>6. CASE \/ SummaryTrades \/ SummaryCounts \/ SummaryContributors \/ SummarySettlement
           \/ SummaryKinds \/ SummaryBalances
  <2>1. rkind' = "summary"
      BY <1>6 DEF Query, SummaryTrades, SummaryCounts, SummaryContributors,
                  SummarySettlement, SummaryKinds, SummaryBalances
  <2>2. SummaryInv'
      BY <1>2, <1>3, <1>6, SummaryAsks
  <2>3. AllocationInv' /\ PenetrationInv'
      BY <2>1 DEF AllocationInv, PenetrationInv
  <2> QED
      BY <1>1, <2>2, <2>3 DEF ReportsInv
<1>7. CASE PenetrationFunds \/ PenetrationHoldings \/ PenetrationSectors \/ PenetrationBuild
  <2>1. rkind' = "penetration"
      BY <1>7 DEF Query, PenetrationFunds, PenetrationHoldings, PenetrationSectors,
                  PenetrationBuild
  <2>2. PenetrationInv'
      BY <1>2, <1>3, <1>7, PenetrationAsks
  <2>3. AllocationInv' /\ SummaryInv'
      BY <2>1 DEF AllocationInv, SummaryInv
  <2> QED
      BY <1>1, <2>2, <2>3 DEF ReportsInv
<1> QED
    BY <1>4, <1>5, <1>6, <1>7 DEF ReportsNext

\* The rows, disclosures and trades a report reads keep their types, whatever
\* is written between two of its queries.
THEOREM ReportsTypeCorrect == ReportsSpec => []ReportsTypeOK
<1>1. ReportsInv /\ [ReportsNext]_reportVars => ReportsInv'
    BY ReportsStep, ReportsStutter
<1>2. ReportsInv => ReportsTypeOK
    BY DEF ReportsInv
<1> QED
    BY ReportsStart, <1>1, <1>2, PTL DEF ReportsSpec

\* For any rows, disclosures, sector maps and trades and any writes between the
\* queries, the parts of an allocation, a summary and a look-through add up to
\* their totals unless a write they name fell in between.
THEOREM ReportsCorrect == ReportsSpec => []ReportsAddUp
<1>1. ReportsInv /\ [ReportsNext]_reportVars => ReportsInv'
    BY ReportsStep, ReportsStutter
<1>2. ReportsInv => ReportsAddUp
    BY AllocationEnds, SummaryEnds, PenetrationEnds DEF ReportsInv, ReportsAddUp
<1> QED
    BY ReportsStart, <1>1, <1>2, PTL DEF ReportsSpec

-----------------------------------------------------------------------------
(* Series                                                                  *)

\* A pass over lo + 1 .. hi: some function takes each step from where the one
\* before left off, so the function that is defined by doing so exists.
KeepTo(P, step, lo, hi) == \A k \in (lo + 1)..hi : \A p \in P : step[k][p] \in P
WalkOf(g, P, start, step, lo, hi) ==
    /\ g \in [lo..hi -> P] /\ g[lo] = start
    /\ \A k \in (lo + 1)..hi : g[k - 1] \in P /\ g[k] = step[k][g[k - 1]]

LEMMA WalkExists ==
    ASSUME NEW P, NEW start \in P, NEW step, NEW lo \in Int, NEW hi \in Int, lo <= hi,
           KeepTo(P, step, lo, hi)
    PROVE  \E g : WalkOf(g, P, start, step, lo, hi)
<1> DEFINE Walk(n, g) == g[lo] = start /\ \A k \in (lo + 1)..n : g[k] = step[k][g[k - 1]]
           U == {m \in Nat : lo + m <= hi => \E g \in [lo..(lo + m) -> P] : Walk(lo + m, g)}
<1>1. 0 \in U
  <2> DEFINE g == [i \in lo..(lo + 0) |-> start]
  <2>1. g \in [lo..(lo + 0) -> P] /\ Walk(lo + 0, g)
      OBVIOUS
  <2> HIDE DEF g, Walk
  <2> QED
      BY <2>1
<1>2. ASSUME NEW m \in Nat, m \in U PROVE m + 1 \in U
  <2> SUFFICES ASSUME lo + (m + 1) <= hi
               PROVE  \E g \in [lo..(lo + (m + 1)) -> P] : Walk(lo + (m + 1), g)
    <3> HIDE DEF Walk
    <3> QED
        OBVIOUS
  <2> DEFINE n == lo + m
  <2>1. PICK g \in [lo..n -> P] : Walk(n, g)
      BY <1>2
  <2>2. n \in Int /\ lo <= n /\ n + 1 <= hi /\ lo + (m + 1) = n + 1 /\ n + 1 \in (lo + 1)..hi
      OBVIOUS
  <2> HIDE DEF n
  <2> DEFINE h == [i \in lo..(n + 1) |-> IF i <= n THEN g[i] ELSE step[n + 1][g[n]]]
  <2>3. g[n] \in P /\ step[n + 1][g[n]] \in P
      BY <2>1, <2>2 DEF KeepTo
  <2>4. h \in [lo..(n + 1) -> P]
      BY <2>1, <2>2, <2>3
  <2>5. h[lo] = start
      BY <2>1, <2>2
  <2>6. ASSUME NEW k \in (lo + 1)..(n + 1) PROVE h[k] = step[k][h[k - 1]]
    <3>1. CASE k = n + 1
        BY <2>2, <3>1
    <3>2. CASE k # n + 1
      <4>1. k \in (lo + 1)..n /\ h[k] = g[k] /\ h[k - 1] = g[k - 1]
          BY <2>2, <3>2
      <4> QED
          BY <2>1, <4>1
    <3> QED
        BY <3>1, <3>2
  <2> HIDE DEF h
  <2>7. Walk(n + 1, h)
      BY <2>5, <2>6
  <2> HIDE DEF Walk
  <2> QED
      BY <2>2, <2>4, <2>7
<1> HIDE DEF U
<1>3. \A m \in Nat : m \in U
    BY <1>1, <1>2, AllNaturals
<1>4. hi - lo \in Nat /\ lo + (hi - lo) = hi
    OBVIOUS
<1>5. hi - lo \in U
    BY <1>3, <1>4
<1>6. PICK g \in [lo..hi -> P] : Walk(hi, g)
    BY <1>4, <1>5 DEF U
<1>7. \A k \in (lo + 1)..hi : k - 1 \in lo..hi
    OBVIOUS
<1> QED
    BY <1>6, <1>7 DEF WalkOf

-----------------------------------------------------------------------------
(* The drawdown                                                            *)

NavsOK(all) == all \in Seq(Nat) /\ \A i \in 1..Len(all) : all[i] > 0

Falls == [peak : Int, at : Int, num : Int, den : Int, from : Int, to : Int]

\* One step keeps to numbers.
LEMMA FallsStay ==
    ASSUME NEW p \in Falls, NEW v \in Nat, NEW k \in Int
    PROVE  DrawdownStep(p, v, k) \in Falls
<1> DEFINE peak == IF p.peak < 0 \/ v > p.peak THEN v ELSE p.peak
           since == IF p.peak < 0 \/ v > p.peak THEN k ELSE p.at
           deeper == (peak - v) * p.den > p.num * peak
<1>1. DrawdownStep(p, v, k) =
          IF deeper
          THEN [peak |-> peak, at |-> since, num |-> peak - v, den |-> peak, from |-> since, to |-> k]
          ELSE [peak |-> peak, at |-> since, num |-> p.num, den |-> p.den, from |-> p.from, to |-> p.to]
    BY DEF DrawdownStep
<1>2. /\ peak \in Int /\ since \in Int /\ peak - v \in Int
      /\ p.num \in Int /\ p.den \in Int /\ p.from \in Int /\ p.to \in Int
    BY DEF Falls
<1> HIDE DEF peak, since, deeper
<1> QED
    BY <1>1, <1>2 DEF Falls

\* The pass is the function its definition speaks of.
LEMMA DrawdownWalk ==
    ASSUME NEW all, NavsOK(all), DrawdownCap \in Nat \ {0}
    PROVE  /\ FirstPoint(all) \in 1..(Len(all) + 1)
           /\ \E scan :
                 /\ scan[FirstPoint(all) - 1] = NoDrawdown
                 /\ \A k \in FirstPoint(all)..Len(all) :
                       scan[k] = DrawdownStep(scan[k - 1], all[k], k)
                 /\ maxDrawdownPct(all) = scan[Len(all)]
<1> DEFINE first == FirstPoint(all)
           lo == first - 1
           n == Len(all)
<1>1. n \in Nat /\ \A k \in 1..n : all[k] \in Nat
    BY DEF NavsOK
<1>2. first \in 1..(n + 1)
  <2> DEFINE m == Len(all) - DrawdownCap + 1
  <2>1. m \in Int /\ m <= n
      BY <1>1
  <2>2. Max({1, m}) = IF m > 1 THEN m ELSE 1
      BY <2>1 DEF Max
  <2> QED
      BY <1>1, <2>1, <2>2 DEF FirstPoint
<1>3. lo = first - 1
    OBVIOUS
<1> DEFINE Scan(h) == h = [k \in lo..n |->
                              IF k < first THEN NoDrawdown ELSE DrawdownStep(h[k - 1], all[k], k)]
           scan == CHOOSE h : Scan(h)
<1>4. maxDrawdownPct(all) = scan[n]
    BY DEF maxDrawdownPct
<1> HIDE DEF first, n, lo
<1> DEFINE step == [k \in first..n |-> [p \in Falls |-> DrawdownStep(p, all[k], k)]]
<1>5. lo \in Int /\ n \in Int /\ lo <= n /\ lo + 1 = first /\ first \in Int
    BY <1>1, <1>2, <1>3
<1>6. \A k \in (lo + 1)..n : \A p \in Falls :
         step[k][p] = DrawdownStep(p, all[k], k) /\ step[k][p] \in Falls
  <2>1. \A k \in first..n : \A p \in Falls : DrawdownStep(p, all[k], k) \in Falls
      BY <1>1, <1>2, FallsStay
  <2> QED
      BY <1>5, <2>1
<1>7. NoDrawdown \in Falls
    BY DEF NoDrawdown, Falls
<1> HIDE DEF step
<1>8. PICK g : WalkOf(g, Falls, NoDrawdown, step, lo, n)
  <2>1. KeepTo(Falls, step, lo, n)
      BY <1>6 DEF KeepTo
  <2> QED
      BY <1>5, <1>7, <2>1, WalkExists
<1>9. Scan(g)
  <2>1. ASSUME NEW k \in lo..n
        PROVE  g[k] = IF k < first THEN NoDrawdown ELSE DrawdownStep(g[k - 1], all[k], k)
    <3>1. CASE k < first
      <4>1. k = lo
          BY <1>5, <3>1
      <4> QED
          BY <1>8, <3>1, <4>1 DEF WalkOf
    <3>2. CASE ~(k < first)
      <4>1. k \in (lo + 1)..n
          BY <1>5, <3>2
      <4>2. g[k - 1] \in Falls /\ g[k] = step[k][g[k - 1]]
          BY <1>8, <4>1 DEF WalkOf
      <4> QED
          BY <1>6, <3>2, <4>1, <4>2
    <3> QED
        BY <3>1, <3>2
  <2> QED
      BY <1>8, <2>1 DEF WalkOf
<1>10. Scan(scan)
    BY <1>9
<1>11. /\ scan[lo] = NoDrawdown
       /\ \A k \in first..n : scan[k] = DrawdownStep(scan[k - 1], all[k], k)
  <2>1. \A k \in lo..n : scan[k] = IF k < first THEN NoDrawdown
                                   ELSE DrawdownStep(scan[k - 1], all[k], k)
    <3> HIDE DEF scan
    <3> QED
        BY <1>10
  <2> HIDE DEF scan
  <2>2. lo \in lo..n /\ lo < first /\ \A k \in first..n : k \in lo..n /\ ~(k < first)
      BY <1>5
  <2> QED
      BY <2>1, <2>2
<1> HIDE DEF scan
<1> QED
    BY <1>2, <1>3, <1>4, <1>11 DEF first, n

\* A lower start falls by less, in proportion.
LEMMA LowerFallsLess ==
    ASSUME NEW a \in Nat, NEW top \in Nat, a <= top, top > 0, NEW v \in Nat,
           NEW num \in Int, NEW den \in Nat, (top - v) * den <= num * top
    PROVE  (a - v) * den <= num * a
<1>1. /\ top * ((a - v) * den) = a * (top * den) - (v * den) * top
      /\ a * ((top - v) * den) = a * (top * den) - (v * den) * a
    OBVIOUS
<1>2. v * den \in Nat
    OBVIOUS
<1> DEFINE x == v * den
<1>3. x * a <= x * top
  <2> HIDE DEF x
  <2>1. ASSUME NEW y \in Nat PROVE y * a <= y * top
    <3>1. top - a \in Nat /\ y * (top - a) \in Nat
        OBVIOUS
    <3>2. y * (a + (top - a)) = y * a + y * (top - a)
        BY <3>1, TimesSum
    <3> QED
        BY <3>1, <3>2
  <2> QED
      BY <1>2, <2>1 DEF x
<1>4. top * ((a - v) * den) <= a * ((top - v) * den)
    BY <1>1, <1>3
<1> DEFINE e == (top - v) * den
           f == num * top
<1>5. e \in Int /\ f \in Int /\ e <= f
    OBVIOUS
<1>6. a * e <= a * f
  <2> HIDE DEF e, f
  <2>1. f - e \in Nat /\ a * (f - e) \in Nat
      BY <1>5
  <2>2. a * (e + (f - e)) = a * e + a * (f - e)
      BY <1>5, <2>1, TimesSum
  <2> QED
      BY <1>5, <2>1, <2>2
<1>7. a * f = top * (num * a)
    OBVIOUS
<1>8. top * ((a - v) * den) <= top * (num * a)
    BY <1>4, <1>6, <1>7
<1>9. (a - v) * den \in Int /\ num * a \in Int
    OBVIOUS
<1> QED
    BY <1>8, <1>9, Cancels

\* What fell by less than one fall fell by less than a deeper one.
LEMMA DeeperBounds ==
    ASSUME NEW a \in Nat, NEW f \in Int,
           NEW num \in Nat, NEW den \in Nat, den > 0, f * den <= num * a,
           NEW num2 \in Int, NEW den2 \in Nat, num2 * den > num * den2
    PROVE  f * den2 <= num2 * a
<1> DEFINE x == f * den
           y == num * a
           u == num * den2
           w == num2 * den
<1>1. x \in Int /\ y \in Int /\ u \in Int /\ w \in Int /\ x <= y /\ u <= w
    OBVIOUS
<1>2. ASSUME NEW m \in Nat, NEW p \in Int, NEW q \in Int, p <= q PROVE m * p <= m * q
  <2>1. q - p \in Nat /\ m * (q - p) \in Nat
      BY <1>2
  <2>2. m * (p + (q - p)) = m * p + m * (q - p)
      BY <2>1, TimesSum
  <2> QED
      BY <2>1, <2>2
<1>3. den * (f * den2) = den2 * x /\ den2 * y = a * u /\ a * w = den * (num2 * a)
    OBVIOUS
<1> HIDE DEF x, y, u, w
<1>4. den2 * x <= den2 * y /\ a * u <= a * w
    BY <1>1, <1>2
<1>5. den2 * x \in Int /\ den2 * y \in Int /\ a * u \in Int /\ a * w \in Int
    BY <1>1
<1>6. den * (f * den2) <= den * (num2 * a)
    BY <1>3, <1>4, <1>5
<1>7. f * den2 \in Int /\ num2 * a \in Int
    OBVIOUS
<1> QED
    BY <1>6, <1>7, Cancels

\* What the pass knows of the points from first to k.
Fallen(p, all, first, k) ==
    /\ p \in Falls /\ p.num >= 0 /\ p.den > 0
    /\ k < first => p = NoDrawdown
    /\ k >= first => /\ p.at \in first..k /\ all[p.at] = p.peak /\ p.peak > 0
                     /\ \A i \in first..k : all[i] <= p.peak
    /\ \A i, j \in first..k : i < j => (all[i] - all[j]) * p.den <= p.num * all[i]
    /\ IF p.num = 0 THEN p.to = 0
       ELSE /\ p.from \in first..k /\ p.to \in first..k /\ p.from < p.to
            /\ p.num = all[p.from] - all[p.to] /\ p.den = all[p.from]

LEMMA FallenOn ==
    ASSUME NEW all, NavsOK(all), NEW first \in Nat \ {0}, NEW k \in first..Len(all),
           NEW p, Fallen(p, all, first, k - 1)
    PROVE  Fallen(DrawdownStep(p, all[k], k), all, first, k)
<1> DEFINE v == all[k]
           new == p.peak < 0 \/ v > p.peak
           peak == IF new THEN v ELSE p.peak
           since == IF new THEN k ELSE p.at
           deeper == (peak - v) * p.den > p.num * peak
           q == DrawdownStep(p, v, k)
<1>1. /\ Len(all) \in Nat /\ k \in 1..Len(all) /\ k \in Nat /\ first \in Nat
      /\ \A i \in first..k : all[i] \in Nat /\ all[i] > 0
    BY DEF NavsOK
<1>2. v \in Nat /\ v > 0 /\ v = all[k]
    BY <1>1
<1>3. q = IF deeper
          THEN [peak |-> peak, at |-> since, num |-> peak - v, den |-> peak, from |-> since, to |-> k]
          ELSE [peak |-> peak, at |-> since, num |-> p.num, den |-> p.den, from |-> p.from, to |-> p.to]
    BY DEF DrawdownStep
<1>4. q \in Falls /\ q.peak = peak /\ q.at = since
    BY <1>2, <1>3, FallsStay DEF Fallen
<1> HIDE DEF v, q
<1>5. /\ p.num \in Nat /\ p.den \in Nat /\ p.den > 0 /\ p.peak \in Int /\ p.at \in Int
      /\ p.to \in Int /\ p.from \in Int
    BY DEF Fallen, Falls
<1>6. /\ peak \in Nat /\ peak > 0 /\ v <= peak /\ since \in first..k /\ all[since] = peak
      /\ \A i \in first..k : all[i] <= peak
      /\ since = k \/ since \in first..(k - 1)
      /\ since = k => peak = v
  <2>1. CASE k - 1 < first
    <3>1. p.peak = -1
        BY <2>1 DEF Fallen, NoDrawdown
    <3>2. k = first
        BY <1>1, <2>1
    <3> QED
        BY <1>1, <1>2, <3>1, <3>2
  <2>2. CASE ~(k - 1 < first)
    <3>1. /\ p.at \in first..(k - 1) /\ all[p.at] = p.peak /\ p.peak > 0
          /\ \A i \in first..(k - 1) : all[i] <= p.peak
        BY <1>1, <2>2 DEF Fallen
    <3>2. \A i \in first..k : i = k \/ i \in first..(k - 1)
        BY <1>1
    <3>3. k \in first..k /\ \A i \in first..(k - 1) : i \in first..k /\ all[i] \in Nat
        BY <1>1
    <3>4. CASE new
      <4>1. p.peak < v
          BY <1>5, <3>1, <3>4
      <4>2. \A i \in first..(k - 1) : all[i] <= v
        <5> SUFFICES ASSUME NEW i \in first..(k - 1) PROVE all[i] <= v
            OBVIOUS
        <5>1. all[i] <= p.peak /\ all[i] \in Nat
            BY <3>1, <3>3
        <5> QED
            BY <1>2, <1>5, <4>1, <5>1
      <4>3. peak = v /\ since = k
          BY <3>4
      <4>4. \A i \in first..k : all[i] <= v
          BY <1>2, <3>2, <4>2
      <4> HIDE DEF new, peak, since
      <4> QED
          BY <1>2, <3>3, <4>3, <4>4
    <3>5. CASE ~new
      <4>1. v <= p.peak /\ peak = p.peak /\ since = p.at
          BY <1>2, <1>5, <3>5
      <4> HIDE DEF new, peak, since
      <4>2. \A i \in first..k : all[i] <= peak
          BY <1>2, <3>1, <3>2, <4>1
      <4>3. since \in first..(k - 1) /\ since \in first..k /\ since # k
          BY <1>1, <3>1, <3>3, <4>1
      <4> QED
          BY <1>5, <3>1, <4>1, <4>2, <4>3
    <3> QED
        BY <3>4, <3>5
  <2> QED
      BY <2>1, <2>2
<1> HIDE DEF new, peak, since
<1>7. \A i, j \in first..(k - 1) : i < j => (all[i] - all[j]) * p.den <= p.num * all[i]
    BY DEF Fallen
<1>8. ASSUME deeper PROVE Fallen(q, all, first, k)
  <2>1. q.num = peak - v /\ q.den = peak /\ q.from = since /\ q.to = k
      BY <1>3, <1>8
  <2>2. p.num * peak \in Nat
      BY <1>5, <1>6
  <2>3. peak - v > 0 /\ since # k
    <3>0. (peak - v) * p.den \in Int /\ p.num * peak \in Int
      <4>1. peak \in Int /\ v \in Int /\ p.den \in Int /\ p.num \in Int
          BY <1>2, <1>5, <1>6
      <4> QED
          BY <4>1
    <3>1. (peak - v) * p.den > 0
        BY <1>8, <2>2, <3>0
    <3>2. peak - v # 0
        BY <1>5, <3>1
    <3> QED
        BY <1>2, <1>6, <3>2
  <2>4. ASSUME NEW i \in first..k, NEW j \in first..k, i < j
        PROVE  (all[i] - all[j]) * q.den <= q.num * all[i]
    <3>1. all[i] \in Nat /\ all[i] <= peak /\ all[j] \in Nat /\ all[i] - all[j] \in Int
        BY <1>1, <1>6
    <3>2. CASE j = k
      <4>1. (peak - v) * peak <= (peak - v) * peak /\ peak - v \in Int
          BY <1>2, <1>6
      <4>2. (all[i] - v) * peak <= (peak - v) * all[i]
          BY <1>2, <1>6, <3>1, <4>1, LowerFallsLess
      <4> QED
          BY <1>2, <2>1, <3>2, <4>2
    <3>3. CASE j # k
      <4>1. i \in first..(k - 1) /\ j \in first..(k - 1)
          BY <1>1, <2>4, <3>3
      <4>2. (all[i] - all[j]) * p.den <= p.num * all[i]
          BY <1>7, <2>4, <4>1
      <4>3. peak - v \in Int
          BY <1>2, <1>6
      <4>4. (all[i] - all[j]) * peak <= (peak - v) * all[i]
          BY <1>5, <1>6, <1>8, <3>1, <4>2, <4>3, DeeperBounds
      <4> QED
          BY <2>1, <4>4
    <3> QED
        BY <3>2, <3>3
  <2>5. q.from \in first..k /\ q.to \in first..k /\ q.from < q.to
      BY <1>1, <1>6, <2>1, <2>3
  <2>6. q.num = all[q.from] - all[q.to] /\ q.den = all[q.from]
      BY <1>2, <1>6, <2>1
  <2>7. q.num >= 0 /\ q.den > 0 /\ ~(k < first) /\ q.num # 0
      BY <1>1, <1>2, <1>6, <2>1, <2>3
  <2>8. /\ q.at \in first..k /\ all[q.at] = q.peak /\ q.peak > 0
        /\ \A i \in first..k : all[i] <= q.peak
      BY <1>4, <1>6
  <2>9. \A i, j \in first..k : i < j => (all[i] - all[j]) * q.den <= q.num * all[i]
      BY <2>4
  <2> HIDE DEF deeper
  <2> QED
      BY <1>4, <2>5, <2>6, <2>7, <2>8, <2>9 DEF Fallen
<1>9. ASSUME ~deeper PROVE Fallen(q, all, first, k)
  <2>1. q.num = p.num /\ q.den = p.den /\ q.from = p.from /\ q.to = p.to
      BY <1>3, <1>9
  <2>2. (peak - v) * p.den <= p.num * peak
    <3>1. (peak - v) * p.den \in Int /\ p.num * peak \in Int
      <4>1. peak \in Int /\ v \in Int /\ p.den \in Int /\ p.num \in Int
          BY <1>2, <1>5, <1>6
      <4> QED
          BY <4>1
    <3> QED
        BY <1>9, <3>1
  <2>3. ASSUME NEW i \in first..k, NEW j \in first..k, i < j
        PROVE  (all[i] - all[j]) * q.den <= q.num * all[i]
    <3>1. all[i] \in Nat /\ all[i] <= peak /\ all[j] \in Nat
        BY <1>1, <1>6
    <3>2. CASE j = k
      <4>1. p.num \in Int
          BY <1>5
      <4>2. (all[i] - v) * p.den <= p.num * all[i]
          BY <1>2, <1>5, <1>6, <2>2, <3>1, <4>1, LowerFallsLess
      <4> QED
          BY <1>2, <2>1, <3>2, <4>2
    <3>3. CASE j # k
      <4>1. i \in first..(k - 1) /\ j \in first..(k - 1)
          BY <1>1, <2>3, <3>3
      <4> QED
          BY <1>7, <2>1, <2>3, <4>1
    <3> QED
        BY <3>2, <3>3
  <2>4. IF p.num = 0 THEN p.to = 0
        ELSE /\ p.from \in first..(k - 1) /\ p.to \in first..(k - 1) /\ p.from < p.to
             /\ p.num = all[p.from] - all[p.to] /\ p.den = all[p.from]
      BY DEF Fallen
  <2>5. \A i \in first..(k - 1) : i \in first..k
      BY <1>1
  <2>6. IF q.num = 0 THEN q.to = 0
        ELSE /\ q.from \in first..k /\ q.to \in first..k /\ q.from < q.to
             /\ q.num = all[q.from] - all[q.to] /\ q.den = all[q.from]
      BY <2>1, <2>4, <2>5
  <2>7. q.num >= 0 /\ q.den > 0 /\ ~(k < first)
      BY <1>1, <1>5, <2>1
  <2>8. /\ q.at \in first..k /\ all[q.at] = q.peak /\ q.peak > 0
        /\ \A i \in first..k : all[i] <= q.peak
      BY <1>4, <1>6
  <2>9. \A i, j \in first..k : i < j => (all[i] - all[j]) * q.den <= q.num * all[i]
      BY <2>3
  <2> HIDE DEF deeper
  <2> QED
      BY <1>4, <2>6, <2>7, <2>8, <2>9 DEF Fallen
<1> QED
    BY <1>8, <1>9 DEF q, v

\* The pass over the most recent points finds the largest fall among them.
LEMMA DrawdownFound ==
    ASSUME NEW all, NavsOK(all), DrawdownCap \in Nat \ {0}
    PROVE  Fallen(maxDrawdownPct(all), all, FirstPoint(all), Len(all))
<1> DEFINE first == FirstPoint(all)
           n == Len(all)
           lo == first - 1
<1>1. PICK scan : /\ scan[lo] = NoDrawdown
                  /\ \A k \in first..n : scan[k] = DrawdownStep(scan[k - 1], all[k], k)
                  /\ maxDrawdownPct(all) = scan[n]
    BY DrawdownWalk
<1>2. first \in 1..(n + 1) /\ n \in Nat
    BY DrawdownWalk DEF NavsOK
<1>3. lo = first - 1
    OBVIOUS
<1> HIDE DEF first, n, lo
<1> DEFINE U == {m \in Nat : lo + m <= n => Fallen(scan[lo + m], all, first, lo + m)}
<1>4. 0 \in U
  <2>1. lo + 0 = lo /\ lo < first /\ ~(lo >= first) /\ first..lo = {}
      BY <1>2, <1>3
  <2>2. Fallen(NoDrawdown, all, first, lo)
      BY <2>1 DEF Fallen, NoDrawdown, Falls
  <2> QED
      BY <1>1, <2>1, <2>2
<1>5. ASSUME NEW m \in Nat, m \in U PROVE m + 1 \in U
  <2> SUFFICES ASSUME lo + (m + 1) <= n
               PROVE  Fallen(scan[lo + (m + 1)], all, first, lo + (m + 1))
      OBVIOUS
  <2> DEFINE k == lo + (m + 1)
  <2>1. k \in first..n /\ lo + m = k - 1 /\ k - 1 <= n
      BY <1>2, <1>3
  <2>2. Fallen(scan[k - 1], all, first, k - 1)
      BY <1>5, <2>1
  <2> HIDE DEF k
  <2>3. first \in Nat \ {0} /\ k \in first..Len(all)
      BY <1>2, <2>1 DEF n
  <2>4. Fallen(DrawdownStep(scan[k - 1], all[k], k), all, first, k)
      BY <2>2, <2>3, FallenOn
  <2>5. scan[k] = DrawdownStep(scan[k - 1], all[k], k)
      BY <1>1, <2>1
  <2>6. Fallen(scan[k], all, first, k)
      BY <2>4, <2>5
  <2> QED
      BY <2>6 DEF k
<1> HIDE DEF U
<1>6. \A m \in Nat : m \in U
    BY <1>4, <1>5, AllNaturals
<1>7. n - lo \in Nat /\ lo + (n - lo) = n
    BY <1>2, <1>3
<1>8. n - lo \in U
    BY <1>6, <1>7
<1>9. Fallen(scan[n], all, first, n)
  <2>1. lo + (n - lo) <= n
      BY <1>2, <1>7
  <2>2. Fallen(scan[lo + (n - lo)], all, first, lo + (n - lo))
      BY <1>8, <2>1 DEF U
  <2> QED
      BY <1>7, <2>2
<1> QED
    BY <1>1, <1>9 DEF first, n

\* The alert of a fund.
LEMMA DrawdownRight ==
    ASSUME job = "drawdown", input \in NavSeqs, output.value = maxDrawdownPct(input)
    PROVE  DrawdownIsLargestFall
<1> DEFINE r == output.value
           window == FirstPoint(input)..Len(input)
<1>1. NavsOK(input) /\ DrawdownCap \in Nat \ {0}
    BY DrawdownAssumption DEF NavsOK
<1>2. Fallen(r, input, FirstPoint(input), Len(input))
    BY <1>1, DrawdownFound
<1>3. \A i, j \in window : i < j => (input[i] - input[j]) * r.den <= r.num * input[i]
    BY <1>2 DEF Fallen
<1>4. IF r.num = 0 THEN r.to = 0
      ELSE /\ r.from < r.to /\ r.from \in window /\ r.to \in window
           /\ (input[r.from] - input[r.to]) * r.den = r.num * input[r.from]
  <2>1. IF r.num = 0 THEN r.to = 0
        ELSE /\ r.from < r.to /\ r.from \in window /\ r.to \in window
             /\ r.num = input[r.from] - input[r.to] /\ r.den = input[r.from]
      BY <1>2 DEF Fallen
  <2> QED
      BY <2>1
<1> QED
    BY <1>3, <1>4 DEF DrawdownIsLargestFall

-----------------------------------------------------------------------------
(* The reminder                                                            *)

\* With a mask the reminder and a run differ in the dates of the plan only.
LEMMA ReminderRight ==
    ASSUME job = "reminder", input \in WeekPlans,
           output.value = {day \in 1..7 : Announced(input, day)}
    PROVE  ReminderMatchesPurchases
<1>1. CASE input.mask = <<>>
  <2>1. \A day \in 1..7 : ~Announced(input, day)
      BY <1>1 DEF Announced, weekdayMaskHit
  <2> QED
      BY <1>1, <2>1 DEF ReminderMatchesPurchases
<1>2. CASE input.mask # <<>>
  <2> DEFINE due == {day \in 1..7 : Due(input, day)}
  <2>1. \A day \in 1..7 : weekdayMaskHitLocal(input.mask, day) <=> Announced(input, day)
      BY <1>2 DEF Announced, weekdayMaskHit, weekdayMaskHitLocal
  <2>2. due \subseteq output.value
      BY <2>1 DEF Due
  <2>3. ASSUME NEW day \in output.value \ due
        PROVE  day < input.start \/ (input.end # 0 /\ day > input.end)
    <3>1. day \in 1..7 /\ ~InDates(input, day)
        BY <2>1 DEF Due
    <3>2. input.start \in Nat /\ input.end \in Nat
        BY PlansAssumption
    <3> QED
        BY <3>1, <3>2 DEF InDates
  <2> HIDE DEF due
  <2> QED
      BY <1>2, <2>2, <2>3 DEF ReminderMatchesPurchases, due
<1> QED
    BY <1>1, <1>2

-----------------------------------------------------------------------------
(* The amount of a purchase                                                *)

LEMMA DivGrows ==
    ASSUME NEW x \in Nat, NEW y \in Nat, NEW d \in Nat, d > 0, x <= y
    PROVE  x \div d \in Nat /\ y \div d \in Nat /\ x \div d <= y \div d
<1> DEFINE p == x \div d
           q == y \div d
<1>1. /\ x = d * p + (x % d) /\ x % d \in Nat /\ x % d < d /\ p \in Nat
      /\ y = d * q + (y % d) /\ y % d \in Nat /\ y % d < d /\ q \in Nat
    OBVIOUS
<1> SUFFICES ASSUME p > q PROVE FALSE
    BY <1>1
<1> HIDE DEF p, q
<1>2. p - (q + 1) \in Nat /\ p = (q + 1) + (p - (q + 1))
    BY <1>1
<1>3. d * p = d * (q + 1) + d * (p - (q + 1)) /\ d * (p - (q + 1)) \in Nat
    BY <1>1, <1>2, TimesSum
<1>4. d * (q + 1) = d * q + d
    BY <1>1
<1> QED
    BY <1>1, <1>3, <1>4

\* Rounding keeps the order, also across zero.
LEMMA RoundOrder ==
    ASSUME NEW a \in Int, NEW c \in Int, NEW b \in Nat, b > 0, a <= c
    PROVE  Round(a, b) \in Int /\ Round(c, b) \in Int /\ Round(a, b) <= Round(c, b)
<1>1. 2 * b \in Nat /\ 2 * b > 0
    OBVIOUS
<1>2. CASE a >= 0
  <2>1. 2 * a + b \in Nat /\ 2 * c + b \in Nat /\ 2 * a + b <= 2 * c + b
      BY <1>2
  <2>2. Round(a, b) = (2 * a + b) \div (2 * b) /\ Round(c, b) = (2 * c + b) \div (2 * b)
      BY <1>2 DEF Round
  <2> QED
      BY <1>1, <2>1, <2>2, DivGrows
<1>3. CASE a < 0 /\ c >= 0
  <2>1. 2 * (-a) + b \in Nat /\ 2 * c + b \in Nat
      BY <1>3
  <2>2. /\ Round(a, b) = -((2 * (-a) + b) \div (2 * b)) /\ Round(c, b) = (2 * c + b) \div (2 * b)
      BY <1>3 DEF Round
  <2>3. (2 * (-a) + b) \div (2 * b) \in Nat /\ (2 * c + b) \div (2 * b) \in Nat
      BY <1>1, <2>1, DivGrows
  <2> QED
      BY <2>2, <2>3
<1>4. CASE c < 0
  <2>1. /\ 2 * (-a) + b \in Nat /\ 2 * (-c) + b \in Nat
        /\ 2 * (-c) + b <= 2 * (-a) + b
      BY <1>4
  <2>2. /\ Round(a, b) = -((2 * (-a) + b) \div (2 * b))
        /\ Round(c, b) = -((2 * (-c) + b) \div (2 * b))
      BY <1>4 DEF Round
  <2>3. /\ (2 * (-a) + b) \div (2 * b) \in Nat /\ (2 * (-c) + b) \div (2 * b) \in Nat
        /\ (2 * (-c) + b) \div (2 * b) <= (2 * (-a) + b) \div (2 * b)
      BY <1>1, <2>1, DivGrows
  <2> QED
      BY <2>2, <2>3
<1> QED
    BY <1>2, <1>3, <1>4

\* A rate of a plan: at least half, at most twice, and no small change.
RateOK(rate) ==
    /\ rate \in Nat /\ rate >= 500 /\ rate <= 2000
    /\ rate <= 1000 \/ rate >= 1150

LEMMA AmountOfRate ==
    ASSUME NEW rate, RateOK(rate)
    PROVE  /\ Round(Base * rate, 1000) \in Int
           /\ 2 * Round(Base * rate, 1000) >= Base /\ Round(Base * rate, 1000) <= 2 * Base
           /\ Round(Base * rate, 1000) > Base <=> rate > 1000
<1> DEFINE e == Base * rate
           q == (2 * e + 1000) \div 2000
<1>1. Base \in Nat /\ Base >= 4 /\ rate \in Nat
    BY AmountsAssumption DEF RateOK
<1>2. ASSUME NEW m \in Nat, NEW n \in Nat, m <= n PROVE Base * m <= Base * n
  <2>1. n - m \in Nat /\ Base * (n - m) \in Nat
      BY <1>1, <1>2
  <2>2. Base * (m + (n - m)) = Base * m + Base * (n - m)
      BY <1>1, <2>1, TimesSum
  <2> QED
      BY <1>1, <2>1, <2>2
<1>3. e \in Nat
    BY <1>1
<1>4. Base * 500 <= e /\ e <= Base * 2000
    BY <1>1, <1>2 DEF RateOK
<1>5. rate <= 1000 => e <= Base * 1000
    BY <1>1, <1>2
<1>6. rate > 1000 => Base * 1150 <= e
    BY <1>1, <1>2 DEF RateOK
<1>7. Round(e, 1000) = q
    BY <1>3 DEF Round
<1> HIDE DEF e
<1>8. q \in Nat /\ 2000 * q <= 2 * e + 1000 /\ 2 * e + 1000 < 2000 * q + 2000
    BY <1>3
<1> HIDE DEF q
<1>9. q \in Int /\ 2 * q >= Base /\ q <= 2 * Base
    BY <1>1, <1>3, <1>4, <1>8
<1>10. rate <= 1000 => ~(q > Base)
    BY <1>1, <1>3, <1>5, <1>8
<1>11. rate > 1000 => q > Base
    BY <1>1, <1>3, <1>6, <1>8
<1> QED
    BY <1>1, <1>7, <1>9, <1>10, <1>11 DEF e

\* The rows of the table are side by side from the highest deviations down, and
\* the further down the higher the rate.
LEMMA TableRows ==
    /\ DOMAIN dcaRateTable = 1..15
    /\ \A dev \in Int : -Infinite <= dev /\ dev < Infinite =>
          \E i \in 1..15 : dcaRateTable[i].lo <= dev /\ dev < dcaRateTable[i].hi
    /\ \A i, j \in 1..15 : i < j => /\ dcaRateTable[j].hi <= dcaRateTable[i].lo
                                    /\ dcaRateTable[i].rate <= dcaRateTable[j].rate
    /\ \A i \in 1..15 : /\ dcaRateTable[i].lo \in Int /\ dcaRateTable[i].hi \in Int
                        /\ RateOK(dcaRateTable[i].rate)
<1> DEFINE T == dcaRateTable
<1>1. DOMAIN T = 1..15
    BY DEF dcaRateTable
<1>2. /\ T[1] = [lo |-> 2500, hi |-> 1000000, rate |-> 500]
      /\ T[2] = [lo |-> 2000, hi |-> 2500, rate |-> 525]
      /\ T[3] = [lo |-> 1500, hi |-> 2000, rate |-> 550]
      /\ T[4] = [lo |-> 1000, hi |-> 1500, rate |-> 600]
      /\ T[5] = [lo |-> 750, hi |-> 1000, rate |-> 700]
      /\ T[6] = [lo |-> 500, hi |-> 750, rate |-> 800]
      /\ T[7] = [lo |-> 250, hi |-> 500, rate |-> 900]
      /\ T[8] = [lo |-> -250, hi |-> 250, rate |-> 1000]
      /\ T[9] = [lo |-> -500, hi |-> -250, rate |-> 1200]
      /\ T[10] = [lo |-> -750, hi |-> -500, rate |-> 1400]
      /\ T[11] = [lo |-> -1000, hi |-> -750, rate |-> 1600]
      /\ T[12] = [lo |-> -1500, hi |-> -1000, rate |-> 1800]
      /\ T[13] = [lo |-> -2000, hi |-> -1500, rate |-> 1900]
      /\ T[14] = [lo |-> -2500, hi |-> -2000, rate |-> 1950]
      /\ T[15] = [lo |-> -1000000, hi |-> -2500, rate |-> 2000]
    BY DEF dcaRateTable, Infinite
<1> HIDE DEF T
<1>3. ASSUME NEW dev \in Int, -Infinite <= dev, dev < Infinite
      PROVE  \E i \in 1..15 : T[i].lo <= dev /\ dev < T[i].hi
  <2>1. -1000000 <= dev /\ dev < 1000000
      BY <1>3 DEF Infinite
  <2>2. CASE dev >= 250
      BY <1>2, <2>1, <2>2
  <2>3. CASE -500 <= dev /\ dev < 250
      BY <1>2, <2>1, <2>3
  <2>4. CASE dev < -500
      BY <1>2, <2>1, <2>4
  <2> QED
      BY <2>2, <2>3, <2>4
<1>4. \A i \in 1..14 : T[i + 1].hi = T[i].lo /\ T[i].rate <= T[i + 1].rate
    BY <1>2
<1>5. \A i \in 1..15 : T[i].lo \in Int /\ T[i].hi \in Int /\ T[i].lo <= T[i].hi /\ T[i].rate \in Int
    BY <1>2
<1>6. \A i \in 1..15 : RateOK(T[i].rate)
    BY <1>2 DEF RateOK
<1>7. ASSUME NEW i \in 1..15, NEW j \in 1..15, i < j
      PROVE  T[j].hi <= T[i].lo /\ T[i].rate <= T[j].rate
    BY <1>2, <1>7
<1> QED
    BY <1>1, <1>3, <1>5, <1>6, <1>7 DEF T

\* A deviation is in one row.
LEMMA RowOf ==
    ASSUME NEW dev \in Int, -Infinite <= dev, dev < Infinite
    PROVE  \E i \in 1..15 : /\ dcaRateTable[i].lo <= dev /\ dev < dcaRateTable[i].hi
                            /\ computeDeviationDCARate(dev) = dcaRateTable[i].rate
<1> DEFINE T == dcaRateTable
           hits == {i \in 1..15 : T[i].lo <= dev /\ dev < T[i].hi}
<1>1. computeDeviationDCARate(dev) = IF hits = {} THEN 1000 ELSE T[Min(hits)].rate
    BY TableRows DEF computeDeviationDCARate
<1> HIDE DEF T
<1>2. PICK i \in 1..15 : T[i].lo <= dev /\ dev < T[i].hi
    BY TableRows DEF T
<1>3. ASSUME NEW j \in hits PROVE j = i
  <2>1. j \in 1..15 /\ T[j].lo <= dev /\ dev < T[j].hi
      OBVIOUS
  <2>2. /\ i < j => T[j].hi <= T[i].lo
        /\ j < i => T[i].hi <= T[j].lo
        /\ T[i].lo \in Int /\ T[i].hi \in Int /\ T[j].lo \in Int /\ T[j].hi \in Int
      BY <2>1, TableRows DEF T
  <2> QED
      BY <1>2, <2>1, <2>2
<1>4. hits = {i}
    BY <1>2, <1>3
<1>5. Min({i}) = i
    BY DEF Min
<1>6. computeDeviationDCARate(dev) = T[i].rate
  <2> HIDE DEF hits
  <2>1. hits # {} /\ Min(hits) = i
      BY <1>4, <1>5
  <2> QED
      BY <1>1, <2>1
<1> QED
    BY <1>2, <1>6 DEF T

LEMMA DeviationRate ==
    ASSUME NEW low \in Int, NEW high \in Int, -Infinite <= low, low <= high, high < Infinite
    PROVE  /\ RateOK(computeDeviationDCARate(low)) /\ RateOK(computeDeviationDCARate(high))
           /\ computeDeviationDCARate(high) <= computeDeviationDCARate(low)
<1> DEFINE T == dcaRateTable
<1>1. -Infinite <= high /\ low < Infinite
    BY DEF Infinite
<1>2. PICK i \in 1..15 : /\ T[i].lo <= low /\ low < T[i].hi
                         /\ computeDeviationDCARate(low) = T[i].rate
    BY <1>1, RowOf
<1>3. PICK j \in 1..15 : /\ T[j].lo <= high /\ high < T[j].hi
                         /\ computeDeviationDCARate(high) = T[j].rate
    BY <1>1, RowOf
<1>4. RateOK(T[i].rate) /\ RateOK(T[j].rate)
    BY TableRows
<1>5. /\ i < j => T[j].hi <= T[i].lo
      /\ j < i => T[j].rate <= T[i].rate
      /\ T[i].lo \in Int /\ T[i].hi \in Int /\ T[j].lo \in Int /\ T[j].hi \in Int
    BY TableRows
<1> HIDE DEF T
<1>6. ~(i < j)
    BY <1>2, <1>3, <1>5
<1>7. j < i \/ j = i
    BY <1>6
<1>8. T[j].rate <= T[i].rate
    BY <1>4, <1>5, <1>7 DEF RateOK
<1> QED
    BY <1>2, <1>3, <1>4, <1>8

LEMMA ChangeRate ==
    ASSUME NEW low \in Int, NEW high \in Int, low <= high
    PROVE  /\ RateOK(computeChangePctDCARate(low)) /\ RateOK(computeChangePctDCARate(high))
           /\ computeChangePctDCARate(high) <= computeChangePctDCARate(low)
<1> DEFINE R(c) == IF c <= -800 THEN 2000 ELSE IF c <= -500 THEN 1600
                   ELSE IF c <= -300 THEN 1350 ELSE IF c <= -100 THEN 1150
                   ELSE IF c < 100 THEN 1000 ELSE IF c < 300 THEN 850
                   ELSE IF c < 500 THEN 650 ELSE 500
<1>1. ASSUME NEW c \in Int PROVE computeChangePctDCARate(c) = R(c)
  <2>1. c <= -800 => computeChangePctDCARate(c) = 2000
      BY DEF computeChangePctDCARate
  <2>2. -800 < c /\ c <= -500 => computeChangePctDCARate(c) = 1600
      BY DEF computeChangePctDCARate
  <2>3. -500 < c /\ c <= -300 => computeChangePctDCARate(c) = 1350
      BY DEF computeChangePctDCARate
  <2>4. -300 < c /\ c <= -100 => computeChangePctDCARate(c) = 1150
      BY DEF computeChangePctDCARate
  <2>5. -100 < c /\ c < 100 => computeChangePctDCARate(c) = 1000
      BY DEF computeChangePctDCARate
  <2>6. 100 <= c /\ c < 300 => computeChangePctDCARate(c) = 850
      BY DEF computeChangePctDCARate
  <2>7. 300 <= c /\ c < 500 => computeChangePctDCARate(c) = 650
      BY DEF computeChangePctDCARate
  <2>8. 500 <= c => computeChangePctDCARate(c) = 500
      BY DEF computeChangePctDCARate
  <2> QED
      BY <2>1, <2>2, <2>3, <2>4, <2>5, <2>6, <2>7, <2>8
<1>2. RateOK(R(low)) /\ RateOK(R(high)) /\ R(high) <= R(low)
    BY DEF RateOK
<1> QED
    BY <1>1, <1>2

\* At a lower price the deviation is lower.
LEMMA DeviationGrows ==
    ASSUME NEW cost \in Nat \ {0}, NEW low \in Nat, NEW high \in Nat, low <= high
    PROVE  /\ Deviation(low, cost) \in Int /\ Deviation(high, cost) \in Int
           /\ Deviation(low, cost) <= Deviation(high, cost)
<1>1. (low - cost) * 10000 \in Int /\ (high - cost) * 10000 \in Int
    OBVIOUS
<1>2. (low - cost) * 10000 <= (high - cost) * 10000 /\ cost \in Nat /\ cost > 0
    OBVIOUS
<1> DEFINE a == (low - cost) * 10000
           c == (high - cost) * 10000
<1> HIDE DEF a, c
<1>3. Round(a, cost) \in Int /\ Round(c, cost) \in Int /\ Round(a, cost) <= Round(c, cost)
    BY <1>1, <1>2, RoundOrder DEF a, c
<1> QED
    BY <1>3 DEF a, c, Deviation

RateOf(in) == IF in.mode = "change_pct" THEN computeChangePctDCARate(in.change)
              ELSE computeDeviationDCARate(Deviation(in.nav, in.cost))

\* The cheaper of two inputs has the higher rate.
LEMMA CheaperRate ==
    ASSUME NEW in \in AmountInputs, NEW other \in AmountInputs,
           other.mode = in.mode, other.cost = in.cost,
           other.nav <= in.nav, other.change <= in.change
    PROVE  RateOK(RateOf(in)) /\ RateOK(RateOf(other)) /\ RateOf(in) <= RateOf(other)
<1>1. CASE in.mode = "change_pct"
  <2>1. in.change \in Int /\ other.change \in Int
      BY <1>1, AmountsAssumption DEF AmountInputs
  <2> QED
      BY <1>1, <2>1, ChangeRate DEF RateOf
<1>2. CASE in.mode # "change_pct"
  <2>1. in.cost \in Costs /\ in.nav \in Prices /\ other.nav \in Prices
      BY <1>2 DEF AmountInputs
  <2>2. /\ in.cost \in Nat \ {0} /\ in.nav \in Nat /\ other.nav \in Nat
        /\ Deviation(in.nav, in.cost) < Infinite
        /\ -Infinite <= Deviation(other.nav, in.cost)
      BY <2>1, AmountsAssumption
  <2>3. /\ Deviation(in.nav, in.cost) \in Int /\ Deviation(other.nav, in.cost) \in Int
        /\ Deviation(other.nav, in.cost) <= Deviation(in.nav, in.cost)
      BY <2>2, DeviationGrows
  <2>4. /\ RateOK(computeDeviationDCARate(Deviation(in.nav, in.cost)))
        /\ RateOK(computeDeviationDCARate(Deviation(other.nav, in.cost)))
        /\ computeDeviationDCARate(Deviation(in.nav, in.cost))
              <= computeDeviationDCARate(Deviation(other.nav, in.cost))
      BY <2>2, <2>3, DeviationRate
  <2> QED
      BY <1>2, <2>4 DEF RateOf
<1> QED
    BY <1>1, <1>2

LEMMA AmountsRight ==
    ASSUME job = "amount", input \in AmountInputs, output.value = computeDCAPlanFacts(input)
    PROVE  CheaperBuysMore
<1>1. ASSUME NEW in
      PROVE  /\ computeDCAPlanFacts(in).amount = Round(Base * RateOf(in), 1000)
             /\ computeDCAPlanFacts(in).signal = dcaRateSignal(RateOf(in))
    BY DEF computeDCAPlanFacts, RateOf
<1>2. RateOK(RateOf(input))
  <2>1. \/ input.cost \in Costs /\ input.nav \in Prices /\ input.change = 0
        \/ input.nav = 1 /\ input.change \in Changes
      BY DEF AmountInputs
  <2> DEFINE nav == input.nav
             change == input.change
             cost == input.cost
  <2>2. nav \in Int /\ change \in Int
    <3>1. \/ cost \in Costs /\ nav \in Prices /\ change = 0
          \/ nav = 1 /\ change \in Changes
        BY <2>1
    <3> HIDE DEF nav, change, cost
    <3>2. ASSUME cost \in Costs, nav \in Prices PROVE nav \in Int
        BY <3>2, AmountsAssumption
    <3>3. ASSUME change \in Changes PROVE change \in Int
        BY <3>3, AmountsAssumption
    <3> QED
        BY <3>1, <3>2, <3>3
  <2>3. input.nav <= input.nav /\ input.change <= input.change
      BY <2>2
  <2> QED
      BY <2>3, CheaperRate
<1> DEFINE amount == output.value.amount
<1>3. /\ 2 * amount >= Base /\ amount <= 2 * Base
      /\ amount > Base <=> RateOf(input) > 1000
    BY <1>1, <1>2, AmountOfRate
<1>4. output.value.signal = "more" <=> RateOf(input) > 1000
    BY <1>1, <1>2 DEF dcaRateSignal, RateOK
<1>5. ASSUME NEW other \in AmountInputs, other.mode = input.mode, other.cost = input.cost,
             other.nav <= input.nav, other.change <= input.change
      PROVE  computeDCAPlanFacts(other).amount >= amount
  <2> DEFINE r1 == RateOf(input)
             r2 == RateOf(other)
  <2>1. RateOK(r1) /\ RateOK(r2) /\ r1 <= r2
      BY <1>5, CheaperRate
  <2>2. amount = Round(Base * r1, 1000) /\ computeDCAPlanFacts(other).amount = Round(Base * r2, 1000)
      BY <1>1
  <2> HIDE DEF r1, r2
  <2>3. r1 \in Nat /\ r2 \in Nat /\ Base \in Nat
      BY <2>1, AmountsAssumption DEF RateOK
  <2>4. r2 - r1 \in Nat /\ r2 = r1 + (r2 - r1)
      BY <2>1, <2>3
  <2>5. Base * r2 = Base * r1 + Base * (r2 - r1) /\ Base * (r2 - r1) \in Nat
      BY <2>3, <2>4, TimesSum
  <2> DEFINE a == Base * r1
             c == Base * r2
  <2>6. a \in Int /\ c \in Int /\ a <= c
      BY <2>3, <2>5
  <2> HIDE DEF a, c
  <2>7. Round(a, 1000) \in Int /\ Round(c, 1000) \in Int /\ Round(a, 1000) <= Round(c, 1000)
      BY <2>6, RoundOrder
  <2> QED
      BY <2>2, <2>7 DEF a, c
<1> QED
    BY <1>3, <1>4, <1>5 DEF CheaperBuysMore

-----------------------------------------------------------------------------
(* The backtests                                                           *)

Points == [shares : Nat, cash : Int, invested : Int, level : Int, month : Int]

LEMMA Quotient ==
    ASSUME NEW amount \in Int, NEW nav \in Nat \ {0}
    PROVE  /\ amount \div nav \in Int
           /\ amount >= 0 => amount \div nav >= 0
           /\ amount >= nav => amount \div nav >= 1
           /\ amount % nav = 0 => amount = (amount \div nav) * nav
<1> DEFINE q == amount \div nav
           r == amount % nav
<1>1. amount = nav * q + r /\ r \in Nat /\ r < nav /\ q \in Int
    OBVIOUS
<1>2. r = 0 => amount = q * nav
    BY <1>1
<1> HIDE DEF q, r
<1>3. ASSUME amount >= 0, q < 0 PROVE FALSE
  <2>1. -1 - q \in Nat /\ nav * (-1 - q) \in Nat
      BY <1>1, <1>3
  <2>2. nav * ((-1 - q) + q) = nav * (-1 - q) + nav * q
      BY <1>1, <2>1, TimesSum
  <2>3. (-1 - q) + q = -1 /\ nav * (-1) = -nav
      BY <1>1
  <2> QED
      BY <1>1, <1>3, <2>1, <2>2, <2>3
<1>4. ASSUME amount >= nav, q < 1 PROVE FALSE
  <2>1. q = 0 \/ q < 0
      BY <1>1, <1>4
  <2>2. q = 0 => nav * q = 0
      BY <1>1
  <2> QED
      BY <1>1, <1>3, <1>4, <2>1, <2>2
<1> QED
    BY <1>1, <1>2, <1>3, <1>4 DEF q, r

\* Points with other shares and money.
With(p, x, y, z) == [p EXCEPT !.shares = x, !.cash = y, !.invested = z]
WithCash(p, x, y) == [p EXCEPT !.shares = x, !.cash = y]

LEMMA PointWith ==
    ASSUME NEW p \in Points, NEW x \in Nat, NEW y \in Int, NEW z \in Int,
           NEW b, b = With(p, x, y, z)
    PROVE  /\ b \in Points
           /\ b.shares = x /\ b.cash = y /\ b.invested = z /\ b.level = p.level /\ b.month = p.month
<1>1. With(p, x, y, z) \in Points
    BY DEF Points, With
<1>2. b.shares = x /\ b.cash = y /\ b.invested = z /\ b.level = p.level /\ b.month = p.month
    BY DEF Points, With
<1> QED
    BY <1>1, <1>2

LEMMA PointWithCash ==
    ASSUME NEW p \in Points, NEW x \in Nat, NEW y \in Int,
           NEW b, b = WithCash(p, x, y)
    PROVE  /\ b \in Points
           /\ b.shares = x /\ b.cash = y /\ b.level = p.level
<1>1. WithCash(p, x, y) \in Points
    BY DEF Points, WithCash
<1>2. b.shares = x /\ b.cash = y /\ b.level = p.level
    BY DEF Points, WithCash
<1> QED
    BY <1>1, <1>2

\* A purchase.
LEMMA BuyIs ==
    ASSUME NEW p \in Points, NEW nav \in Nat \ {0}, NEW amount \in Nat
    PROVE  /\ BuyAt(p, nav, amount) \in Points
           /\ BuyAt(p, nav, amount).level = p.level /\ BuyAt(p, nav, amount).month = p.month
           /\ BuyAt(p, nav, amount).shares = p.shares + amount \div nav
           /\ BuyAt(p, nav, amount).cash = p.cash - amount
           /\ BuyAt(p, nav, amount).invested = p.invested + amount
           /\ amount >= nav => BuyAt(p, nav, amount).shares > p.shares
           /\ amount % nav = 0 => TotalValue(BuyAt(p, nav, amount), nav) = TotalValue(p, nav)
<1> DEFINE q == amount \div nav
           b == BuyAt(p, nav, amount)
<1>1. q \in Nat /\ (amount >= nav => q >= 1) /\ (amount % nav = 0 => amount = q * nav)
    BY Quotient
<1>2. /\ p.shares \in Nat /\ p.cash \in Int /\ p.invested \in Int /\ p.level \in Int
      /\ p.month \in Int
    BY DEF Points
<1>3. b = With(p, p.shares + q, p.cash - amount, p.invested + amount)
    BY DEF BuyAt, With
<1> HIDE DEF q, b
<1>4. /\ b \in Points /\ b.level = p.level /\ b.month = p.month /\ b.shares = p.shares + q
      /\ b.cash = p.cash - amount /\ b.invested = p.invested + amount
  <2>1. p.shares + q \in Nat /\ p.cash - amount \in Int /\ p.invested + amount \in Int
      BY <1>1, <1>2
  <2> QED
      BY <1>3, <2>1, PointWith
<1>5. ASSUME amount = q * nav PROVE TotalValue(b, nav) = TotalValue(p, nav)
  <2>1. nav * (p.shares + q) = nav * p.shares + nav * q
      BY <1>1, <1>2, TimesSum
  <2>2. (p.shares + q) * nav + (p.cash - amount) = p.shares * nav + p.cash
      BY <1>1, <1>2, <1>5, <2>1
  <2> QED
      BY <1>4, <2>2 DEF TotalValue
<1> QED
    BY <1>1, <1>2, <1>4, <1>5 DEF q, b

\* A sale: of what is there, for what it is worth.
LEMMA SellIs ==
    ASSUME NEW p \in Points, NEW nav \in Nat \ {0}, NEW amount \in Nat
    PROVE  /\ SellAt(p, nav, amount) \in Points
           /\ SellAt(p, nav, amount).level = p.level
           /\ amount >= nav /\ p.shares # 0 => SellAt(p, nav, amount).shares < p.shares
           /\ TotalValue(SellAt(p, nav, amount), nav) = TotalValue(p, nav)
<1> DEFINE q == amount \div nav
           sold == Min({q, p.shares})
           b == SellAt(p, nav, amount)
<1>1. q \in Nat /\ (amount >= nav => q >= 1)
    BY Quotient
<1>2. /\ p.shares \in Nat /\ p.cash \in Int /\ p.invested \in Int /\ p.level \in Int
      /\ p.month \in Int
    BY DEF Points
<1>3. b = WithCash(p, p.shares - sold, p.cash + sold * nav)
    BY DEF SellAt, WithCash
<1> HIDE DEF q, b
<1>4. sold = IF q < p.shares THEN q ELSE p.shares
    BY <1>1, <1>2 DEF Min
<1> HIDE DEF sold
<1>5. sold \in Nat /\ p.shares - sold \in Nat /\ (amount >= nav /\ p.shares # 0 => sold >= 1)
    BY <1>1, <1>2, <1>4
<1>6. sold * nav \in Int
    BY <1>5
<1>7. /\ b \in Points /\ b.level = p.level /\ b.shares = p.shares - sold
      /\ b.cash = p.cash + sold * nav
  <2>1. p.cash + sold * nav \in Int
      BY <1>2, <1>6
  <2> DEFINE x == p.shares - sold
             y == p.cash + sold * nav
  <2>2. x \in Nat /\ y \in Int /\ b = WithCash(p, x, y)
      BY <1>3, <1>5, <2>1
  <2> HIDE DEF x, y
  <2>3. b \in Points /\ b.shares = x /\ b.cash = y /\ b.level = p.level
      BY <2>2, PointWithCash
  <2> QED
      BY <2>3 DEF x, y
<1>8. TotalValue(b, nav) = TotalValue(p, nav)
  <2>1. nav * ((p.shares - sold) + sold) = nav * (p.shares - sold) + nav * sold
      BY <1>2, <1>5, TimesSum
  <2>2. (p.shares - sold) + sold = p.shares
      BY <1>2, <1>5
  <2>3. p.shares * nav = (p.shares - sold) * nav + sold * nav
      BY <1>2, <1>5, <2>1, <2>2
  <2>4. /\ (p.shares - sold) * nav \in Int /\ sold * nav \in Int /\ p.shares * nav \in Int
        /\ p.cash \in Int
      BY <1>2, <1>5
  <2>5. (p.shares - sold) * nav + (p.cash + sold * nav) = p.shares * nav + p.cash
      BY <2>3, <2>4
  <2> QED
      BY <1>7, <2>5 DEF TotalValue
<1> QED
    BY <1>2, <1>5, <1>7, <1>8 DEF b

\* What the backtest knows of its prices.
LEMMA PricesOK ==
    ASSUME NEW s \in PriceSeqs
    PROVE  /\ Len(s) \in Nat /\ DOMAIN s = 1..Len(s)
           /\ \A k \in 1..Len(s) : /\ s[k].nav \in Nat \ {0} /\ s[k].month \in Nat
                                   /\ Base % s[k].nav = 0 /\ (Base \div 2) % s[k].nav = 0
           /\ Base \in Nat /\ Base >= 4 /\ Base \div 2 \in Nat
<1>1. s \in Seq([month : Nat, nav : Nat \ {0}])
    BY BacktestsAssumption
<1>2. \A k \in DOMAIN s : Base % s[k].nav = 0 /\ (Base \div 2) % s[k].nav = 0
    BY BacktestsAssumption
<1>3. ASSUME NEW k \in 1..Len(s) PROVE s[k].month \in Nat /\ s[k].nav \in Nat \ {0}
  <2> DEFINE S == [month : Nat, nav : Nat \ {0}]
  <2>1. s \in Seq(S)
      BY <1>1
  <2>2. s[k] \in S
    <3> HIDE DEF S
    <3> QED
        BY <2>1
  <2> QED
      BY <2>2
<1> QED
    BY <1>1, <1>2, <1>3, AmountsAssumption

\* Another month on a point changes nothing else.
LEMMA MonthIs ==
    ASSUME NEW p \in Points, NEW m \in Int
    PROVE  /\ [p EXCEPT !.month = m] \in Points
           /\ [p EXCEPT !.month = m].month = m
           /\ [p EXCEPT !.month = m].shares = p.shares /\ [p EXCEPT !.month = m].cash = p.cash
           /\ [p EXCEPT !.month = m].invested = p.invested
           /\ [p EXCEPT !.month = m].level = p.level
           /\ \A nav : TotalValue([p EXCEPT !.month = m], nav) = TotalValue(p, nav)
BY DEF Points, TotalValue

LEMMA DCAStepIs ==
    ASSUME NEW s \in PriceSeqs, NEW k \in 1..Len(s), NEW p \in Points
    PROVE  /\ DCAStep(p, s, k) \in Points
           /\ TotalValue(DCAStep(p, s, k), s[k].nav) = TotalValue(p, s[k].nav)
<1> DEFINE n == [p EXCEPT !.month = s[k].month]
           nav == s[k].nav
<1>1. nav \in Nat \ {0} /\ s[k].month \in Int /\ Base % nav = 0 /\ Base \in Nat
    BY PricesOK
<1>2. DCAStep(p, s, k) = IF s[k].month = p.month THEN p ELSE BuyAt(n, nav, Base)
    BY DEF DCAStep
<1>3. n \in Points /\ TotalValue(n, nav) = TotalValue(p, nav)
    BY <1>1, MonthIs
<1> HIDE DEF n, nav
<1>4. BuyAt(n, nav, Base) \in Points /\ TotalValue(BuyAt(n, nav, Base), nav) = TotalValue(n, nav)
    BY <1>1, <1>3, BuyIs
<1> QED
    BY <1>2, <1>3, <1>4 DEF nav

LEMMA MomentumStepIs ==
    ASSUME NEW s \in PriceSeqs, NEW k \in 1..Len(s), NEW p \in Points
    PROVE  /\ MomentumStep(p, s, k) \in Points
           /\ TotalValue(MomentumStep(p, s, k), s[k].nav) = TotalValue(p, s[k].nav)
<1> DEFINE nav == s[k].nav
           q == IF k = 1 THEN BuyAt(p, s[1].nav, Base) ELSE p
           n == [q EXCEPT !.month = s[k].month]
<1>1. nav \in Nat \ {0} /\ s[k].month \in Int /\ Base % nav = 0 /\ Base \in Nat
    BY PricesOK
<1>2. \/ MomentumStep(p, s, k) = q
      \/ MomentumStep(p, s, k) = n
      \/ MomentumStep(p, s, k) = BuyAt(n, nav, Base)
      \/ MomentumStep(p, s, k) = SellAt(n, nav, Base)
    BY DEF MomentumStep
<1>3. q \in Points /\ TotalValue(q, nav) = TotalValue(p, nav)
  <2>1. CASE k = 1
    <3>1. q = BuyAt(p, nav, Base)
        BY <2>1
    <3> HIDE DEF nav, q
    <3> QED
        BY <1>1, <3>1, BuyIs
  <2>2. CASE k # 1
      BY <2>2
  <2> QED
      BY <2>1, <2>2
<1> HIDE DEF q
<1>4. n \in Points /\ TotalValue(n, nav) = TotalValue(q, nav)
    BY <1>1, <1>3, MonthIs
<1> HIDE DEF n, nav
<1>5. /\ BuyAt(n, nav, Base) \in Points /\ TotalValue(BuyAt(n, nav, Base), nav) = TotalValue(n, nav)
      /\ SellAt(n, nav, Base) \in Points /\ TotalValue(SellAt(n, nav, Base), nav) = TotalValue(n, nav)
    BY <1>1, <1>4, BuyIs, SellIs
<1> QED
    BY <1>2, <1>3, <1>4, <1>5 DEF nav

\* The first point of a rebalancing strategy is worth the base amount.
LEMMA RebalanceStepIs ==
    ASSUME NEW s \in PriceSeqs, NEW k \in 1..Len(s), NEW p \in Points
    PROVE  /\ RebalanceStep(p, s, k) \in Points
           /\ k = 1 => TotalValue(RebalanceStep(p, s, k), s[k].nav) = Base
           /\ k > 1 /\ Deficit(p, s[k].nav) % s[k].nav = 0
                 => TotalValue(RebalanceStep(p, s, k), s[k].nav) = TotalValue(p, s[k].nav)
<1> DEFINE nav == s[k].nav
           half == Base \div 2
           q == IF k > 1 THEN p
                ELSE [p EXCEPT !.shares = half \div s[1].nav, !.cash = Base - half, !.invested = Base]
           n == [q EXCEPT !.month = s[k].month]
           diff == Deficit(q, nav)
           months == s[k].month - s[1].month
           due == months > 0 /\ months % Interval = 0 /\ s[k].month # q.month
           small == Max({diff, -diff}) * 10 <= Base
<1>1. /\ nav \in Nat \ {0} /\ s[k].month \in Int /\ Base \in Nat /\ half \in Nat /\ half % nav = 0
      /\ k \in Nat
    BY PricesOK
<1>2. RebalanceStep(p, s, k) = IF ~due THEN q ELSE IF small THEN n
                               ELSE IF diff > 0 THEN BuyAt(n, nav, diff) ELSE SellAt(n, nav, -diff)
    BY DEF RebalanceStep
<1> HIDE DEF small
<1>3. half \div nav \in Nat /\ half = (half \div nav) * nav
  <2> HIDE DEF half, nav
  <2>1. half \in Int /\ half >= 0
      BY <1>1
  <2>2. half \div nav \in Int /\ half \div nav >= 0 /\ half = (half \div nav) * nav
      BY <1>1, <2>1, Quotient
  <2> QED
      BY <2>2
<1>4. /\ q \in Points
      /\ k = 1 => TotalValue(q, nav) = Base /\ ~due
      /\ k > 1 => q = p
  <2>1. CASE k > 1
      BY <1>1, <2>1
  <2>2. CASE ~(k > 1)
    <3>1. k = 1 /\ nav = s[1].nav /\ months = 0
        BY <1>1, <2>2
    <3> DEFINE part == half \div nav
    <3>2. q = With(p, part, Base - half, Base)
        BY <2>2, <3>1 DEF With
    <3>3. part \in Nat /\ half = part * nav /\ half \in Nat
        BY <1>1, <1>3
    <3> HIDE DEF part, half, q
    <3>4. q \in Points /\ q.shares = part /\ q.cash = Base - half
      <4>1. Base - half \in Int /\ Base \in Int
          BY <1>1, <3>3
      <4> QED
          BY <3>2, <3>3, <4>1, PointWith
    <3>5. TotalValue(q, nav) = part * nav + (Base - half)
        BY <3>4 DEF TotalValue
    <3>6. TotalValue(q, nav) = half + (Base - half)
        BY <3>3, <3>5
    <3>7. half + (Base - half) = Base
        BY <1>1, <3>3
    <3> QED
        BY <2>2, <3>1, <3>4, <3>6, <3>7
  <2> QED
      BY <2>1, <2>2
<1> HIDE DEF q, half
<1>5. n \in Points /\ TotalValue(n, nav) = TotalValue(q, nav)
    BY <1>1, <1>4, MonthIs
<1> HIDE DEF n, due
<1>6. diff \in Int
  <2>1. q.shares * nav \in Int /\ q.cash \in Int
    <3>1. q.shares \in Int /\ q.cash \in Int
        BY <1>4 DEF Points
    <3> HIDE DEF q
    <3>2. nav \in Int
        BY <1>1
    <3> QED
        BY <3>1, <3>2
  <2> DEFINE e == q.shares * nav
  <2>2. diff = (e + q.cash) \div 2 - e
      BY DEF Deficit
  <2> HIDE DEF e, diff
  <2> QED
      BY <2>1, <2>2 DEF e
<1>7. k > 1 => diff = Deficit(p, nav)
    BY <1>4
<1> HIDE DEF diff, nav, months
<1>8. ASSUME diff > 0
      PROVE  /\ BuyAt(n, nav, diff) \in Points
             /\ diff % nav = 0 => TotalValue(BuyAt(n, nav, diff), nav) = TotalValue(n, nav)
  <2>1. diff \in Nat
      BY <1>6, <1>8
  <2> QED
      BY <1>1, <1>5, <2>1, BuyIs
<1>9. ASSUME ~(diff > 0)
      PROVE  /\ SellAt(n, nav, -diff) \in Points
             /\ TotalValue(SellAt(n, nav, -diff), nav) = TotalValue(n, nav)
  <2>1. -diff \in Nat
      BY <1>6, <1>9
  <2> DEFINE amount == -diff
  <2> HIDE DEF amount
  <2>2. SellAt(n, nav, amount) \in Points /\ TotalValue(SellAt(n, nav, amount), nav) = TotalValue(n, nav)
      BY <1>1, <1>5, <2>1, SellIs DEF amount
  <2> QED
      BY <2>2 DEF amount
<1>10. RebalanceStep(p, s, k) \in Points
    BY <1>2, <1>4, <1>5, <1>8, <1>9
<1>11. k = 1 => TotalValue(RebalanceStep(p, s, k), nav) = Base
    BY <1>2, <1>4
<1>12. k > 1 /\ diff % nav = 0 => TotalValue(RebalanceStep(p, s, k), nav) = TotalValue(p, nav)
    BY <1>2, <1>4, <1>5, <1>8, <1>9
<1> QED
    BY <1>7, <1>10, <1>11, <1>12 DEF nav

\* The highest of the first prices.
LEMMA HighestPrice ==
    ASSUME NEW s, NEW n \in Nat \ {0}, \A i \in 1..n : s[i].nav \in Nat
    PROVE  \E i \in 1..n : \A j \in 1..n : s[j].nav <= s[i].nav
<1> DEFINE U == {m \in Nat : m + 1 <= n =>
                     \E i \in 1..(m + 1) : \A j \in 1..(m + 1) : s[j].nav <= s[i].nav}
<1>1. 0 \in U
  <2>1. 1 \in 1..n /\ 1..(0 + 1) = {1} /\ s[1].nav \in Nat
      OBVIOUS
  <2> QED
      BY <2>1
<1>2. ASSUME NEW m \in Nat, m \in U PROVE m + 1 \in U
  <2> SUFFICES ASSUME (m + 1) + 1 <= n
               PROVE  \E i \in 1..((m + 1) + 1) : \A j \in 1..((m + 1) + 1) : s[j].nav <= s[i].nav
      OBVIOUS
  <2>1. PICK i \in 1..(m + 1) : \A j \in 1..(m + 1) : s[j].nav <= s[i].nav
      BY <1>2
  <2> DEFINE last == (m + 1) + 1
  <2>2. /\ last \in 1..n /\ i \in 1..last
        /\ \A j \in 1..last : j \in 1..(m + 1) \/ j = last
        /\ s[last].nav \in Nat /\ s[i].nav \in Nat
        /\ \A j \in 1..(m + 1) : s[j].nav \in Nat
      OBVIOUS
  <2> HIDE DEF last
  <2>3. CASE s[last].nav <= s[i].nav
    <3>1. \A j \in 1..last : s[j].nav <= s[i].nav
        BY <2>1, <2>2, <2>3
    <3> QED
        BY <2>2, <3>1 DEF last
  <2>4. CASE ~(s[last].nav <= s[i].nav)
    <3>1. \A j \in 1..last : s[j].nav <= s[last].nav
        BY <2>1, <2>2, <2>4
    <3>2. last \in 1..last
        BY <2>2
    <3> QED
        BY <3>1, <3>2 DEF last
  <2> QED
      BY <2>3, <2>4
<1> HIDE DEF U
<1>3. n - 1 \in Nat /\ (n - 1) + 1 = n
    OBVIOUS
<1>4. n - 1 \in U
    BY <1>1, <1>2, <1>3, AllNaturals
<1> QED
    BY <1>3, <1>4 DEF U

\* A grid level is a number, also below the calibrated range.
LEMMA GridLevelIs ==
    ASSUME NEW s \in PriceSeqs, NEW k \in 1..Len(s)
    PROVE  GridLevel(s, k) \in Int
<1> DEFINE n == Len(s)
           fifth == Max({n \div 5, CalibMin})
           calib == Min({n, fifth})
           S == {s[i].nav : i \in 1..calib}
           lo == Min(S)
           hi == Max(S)
           nav == s[k].nav
<1>1. n \in Nat /\ n >= 1 /\ CalibMin \in Nat \ {0} /\ Levels \in Nat \ {0}
    BY PricesOK, BacktestsAssumption
<1>2. \A i \in 1..n : s[i].nav \in Nat
    BY PricesOK
<1>3. fifth \in Nat \ {0}
  <2> DEFINE f == n \div 5
  <2>1. f \in Nat
      BY <1>1
  <2> HIDE DEF f
  <2>2. Max({f, CalibMin}) = IF f > CalibMin THEN f ELSE CalibMin
      BY <1>1, <2>1 DEF Max
  <2> QED
      BY <1>1, <2>1, <2>2 DEF f
<1> HIDE DEF fifth
<1>4. calib \in 1..n
  <2>1. Min({n, fifth}) = IF n < fifth THEN n ELSE fifth
      BY <1>1, <1>3 DEF Min
  <2> QED
      BY <1>1, <1>3, <2>1
<1>5. GridLevel(s, k) = IF hi = lo THEN 0
                        ELSE Min({((nav - lo) * Levels) \div (hi - lo), Levels - 1})
    BY DEF GridLevel, fifth
<1> HIDE DEF calib, n
<1>6. S \subseteq Nat /\ S # {}
  <2>1. calib \in Nat \ {0} /\ 1 \in 1..calib /\ \A i \in 1..calib : i \in 1..n
      BY <1>1, <1>4
  <2> QED
      BY <1>2, <2>1
<1>7. \E x \in S : \A y \in S : x <= y
    BY <1>6, SmallestOf
<1>8. \E x \in S : \A y \in S : x >= y
  <2>1. calib \in Nat \ {0} /\ \A i \in 1..calib : s[i].nav \in Nat
      BY <1>1, <1>2, <1>4
  <2>2. PICK i \in 1..calib : \A j \in 1..calib : s[j].nav <= s[i].nav
      BY <2>1, HighestPrice
  <2>3. \A j \in 1..calib : s[i].nav >= s[j].nav
      BY <2>1, <2>2
  <2> QED
      BY <2>3
<1> HIDE DEF S
<1>9. lo \in S /\ \A y \in S : lo <= y
    BY <1>7 DEF Min
<1>10. hi \in S /\ \A y \in S : hi >= y
    BY <1>8 DEF Max
<1> HIDE DEF lo, hi
<1>11. lo \in Int /\ hi \in Int /\ lo <= hi /\ nav \in Int
    BY <1>2, <1>6, <1>9, <1>10 DEF n
<1> HIDE DEF nav
<1>12. CASE hi = lo
    BY <1>5, <1>12
<1>13. CASE hi # lo
  <2> DEFINE a == (nav - lo) * Levels
             b == hi - lo
             q == a \div b
             top == Levels - 1
  <2>1. a \in Int /\ b \in Nat \ {0} /\ top \in Int
      BY <1>1, <1>11, <1>13
  <2> HIDE DEF a, b, top
  <2>2. q \in Int
      BY <2>1
  <2>3. GridLevel(s, k) = Min({q, top})
      BY <1>5, <1>13 DEF a, b, top
  <2> HIDE DEF q
  <2>4. Min({q, top}) = IF q < top THEN q ELSE top
      BY <2>1, <2>2 DEF Min
  <2> QED
      BY <2>1, <2>2, <2>3, <2>4
<1> QED
    BY <1>12, <1>13

LEMMA MultipleOf ==
    ASSUME NEW d \in Nat \ {0}, NEW w \in Nat
    PROVE  (d * w) % d = 0
<1> DEFINE x == d * w
           q == x \div d
           r == x % d
<1>1. x \in Nat
    OBVIOUS
<1>2. x = d * q + r /\ r \in Nat /\ r < d /\ q \in Nat
  <2> HIDE DEF x
  <2> QED
      BY <1>1
<1>3. x = d * w
    OBVIOUS
<1> SUFFICES r = 0
    OBVIOUS
<1> HIDE DEF x, q, r
<1>4. w = q + (w - q) /\ w - q \in Int
    BY <1>2
<1>5. d * w = d * q + d * (w - q)
    BY <1>2, <1>4, TimesSum
<1> DEFINE m == w - q
<1>6. d * m = r /\ m \in Int
    BY <1>2, <1>3, <1>4, <1>5
<1> HIDE DEF m
<1>7. ASSUME m >= 1 PROVE FALSE
  <2>1. m - 1 \in Nat /\ d * (m - 1) \in Nat /\ d * ((m - 1) + 1) = d * (m - 1) + d * 1
      BY <1>6, <1>7, TimesSum
  <2>2. (m - 1) + 1 = m /\ d * 1 = d
      BY <1>6
  <2> QED
      BY <1>2, <1>6, <2>1, <2>2
<1>8. ASSUME m <= -1 PROVE FALSE
  <2>1. -1 - m \in Nat /\ d * (-1 - m) \in Nat /\ d * ((-1 - m) + m) = d * (-1 - m) + d * m
      BY <1>6, <1>8, TimesSum
  <2>2. (-1 - m) + m = -1 /\ d * (-1) = -d
      BY <1>6
  <2> QED
      BY <1>2, <1>6, <2>1, <2>2
<1>9. m = 0 /\ d * 0 = 0
    BY <1>6, <1>7, <1>8
<1> QED
    BY <1>6, <1>9

\* A grid trades whenever its level changes, but for the three reasons.
LEMMA GridStepIs ==
    ASSUME NEW s \in PriceSeqs, NEW k \in 1..Len(s), NEW p \in Points
    PROVE  /\ GridStep(p, s, k) \in Points
           /\ TotalValue(GridStep(p, s, k), s[k].nav) = TotalValue(p, s[k].nav)
           /\ GridStep(p, s, k).level # p.level =>
                 \/ GridStep(p, s, k).shares # p.shares
                 \/ p.level < 0
                 \/ GridStep(p, s, k).level > p.level /\ p.shares = 0
<1> DEFINE nav == s[k].nav
           level == GridLevel(s, k)
           delta == p.level - level
           q == [p EXCEPT !.level = level]
           b == BuyAt(q, nav, Base * delta)
           c == SellAt(q, nav, Base * (-delta))
           r == GridStep(p, s, k)
<1>1. nav \in Nat \ {0} /\ Base % nav = 0 /\ Base \in Nat /\ Base >= 4
    BY PricesOK
<1>2. level \in Int /\ p.level \in Int /\ p.shares \in Nat
    BY GridLevelIs DEF Points
<1>3. r = IF p.level < 0 \/ delta = 0 THEN q ELSE IF delta > 0 THEN b ELSE c
    BY DEF GridStep
<1> HIDE DEF nav, level, r
<1>4. q \in Points /\ q.level = level /\ q.shares = p.shares /\ TotalValue(q, nav) = TotalValue(p, nav)
    BY <1>2 DEF Points, TotalValue
<1> HIDE DEF q
<1>5. delta \in Int
    BY <1>2
\* Several base amounts are still whole shares, and at least one.
<1>6. ASSUME NEW m \in Nat, m > 0
      PROVE  Base * m \in Nat /\ (Base * m) % nav = 0 /\ Base * m >= nav
  <2> DEFINE u == Base \div nav
  <2>1. u \in Nat /\ Base = nav * u
      BY <1>1
  <2> HIDE DEF u
  <2>2. u # 0
      BY <1>1, <2>1
  <2>3. u * m \in Nat /\ u * m # 0
      BY <1>6, <2>1, <2>2
  <2>4. Base * m = nav * (u * m)
      BY <1>1, <1>6, <2>1
  <2> DEFINE w == u * m
  <2> HIDE DEF w
  <2>5. (nav * w) % nav = 0
      BY <1>1, <2>3, MultipleOf DEF w
  <2>6. w - 1 \in Nat /\ nav * (w - 1) \in Nat /\ nav * ((w - 1) + 1) = nav * (w - 1) + nav * 1
      BY <1>1, <2>3, TimesSum DEF w
  <2>7. (w - 1) + 1 = w /\ nav * 1 = nav
      BY <1>1, <2>3 DEF w
  <2> QED
      BY <1>1, <2>3, <2>4, <2>5, <2>6, <2>7 DEF w
<1>7. CASE p.level < 0 \/ delta = 0
  <2>1. r = q
      BY <1>3, <1>7
  <2>2. p.level < 0 \/ q.level = p.level
      BY <1>2, <1>4, <1>7
  <2> QED
      BY <1>4, <2>1, <2>2 DEF nav, r
<1>8. CASE ~(p.level < 0 \/ delta = 0) /\ delta > 0
  <2>1. r = b
      BY <1>3, <1>8
  <2> DEFINE amount == Base * delta
  <2>2. amount \in Nat /\ amount % nav = 0 /\ amount >= nav
    <3>1. delta \in Nat /\ delta > 0
        BY <1>5, <1>8
    <3> HIDE DEF delta
    <3> QED
        BY <1>6, <3>1
  <2> HIDE DEF amount
  <2>3. /\ BuyAt(q, nav, amount) \in Points
        /\ BuyAt(q, nav, amount).shares > q.shares
        /\ TotalValue(BuyAt(q, nav, amount), nav) = TotalValue(q, nav)
      BY <1>1, <1>4, <2>2, BuyIs
  <2>4. r \in Points /\ r.shares > p.shares /\ TotalValue(r, nav) = TotalValue(p, nav)
      BY <1>4, <2>1, <2>3 DEF amount
  <2>5. r.shares # p.shares
      BY <1>2, <2>4
  <2> QED
      BY <2>4, <2>5 DEF nav, r
<1>9. CASE ~(p.level < 0 \/ delta = 0) /\ ~(delta > 0)
  <2>1. r = c
      BY <1>3, <1>9
  <2> DEFINE amount == Base * (-delta)
  <2>2. amount \in Nat /\ amount >= nav
    <3> DEFINE m == -delta
    <3>1. m \in Nat /\ m > 0
        BY <1>5, <1>9
    <3> HIDE DEF m
    <3> QED
        BY <1>6, <3>1 DEF m
  <2> HIDE DEF amount
  <2>3. /\ SellAt(q, nav, amount) \in Points
        /\ SellAt(q, nav, amount).level = q.level
        /\ amount >= nav /\ q.shares # 0 => SellAt(q, nav, amount).shares < q.shares
        /\ TotalValue(SellAt(q, nav, amount), nav) = TotalValue(q, nav)
      BY <1>1, <1>4, <2>2, SellIs
  <2>4. /\ r \in Points /\ r.level = level /\ TotalValue(r, nav) = TotalValue(p, nav)
        /\ p.shares # 0 => r.shares < p.shares
      BY <1>4, <2>1, <2>2, <2>3 DEF amount
  <2>5. level > p.level
      BY <1>2, <1>9
  <2>6. r.shares # p.shares \/ p.shares = 0
      BY <1>2, <2>4
  <2> QED
      BY <2>4, <2>5, <2>6 DEF nav, r
<1> QED
    BY <1>7, <1>8, <1>9

\* One step of any strategy.
LEMMA StrategyStepIs ==
    ASSUME NEW strategy \in Strategies, NEW s \in PriceSeqs, NEW k \in 1..Len(s), NEW p \in Points
    PROVE  /\ StrategyStep(strategy, p, s, k) \in Points
           /\ strategy = "rebalance" /\ k = 1 =>
                 TotalValue(StrategyStep(strategy, p, s, k), s[k].nav) = Base
           /\ \/ strategy # "rebalance"
              \/ k > 1 /\ Deficit(p, s[k].nav) % s[k].nav = 0
              => TotalValue(StrategyStep(strategy, p, s, k), s[k].nav) = TotalValue(p, s[k].nav)
           /\ strategy = "grid" /\ StrategyStep(strategy, p, s, k).level # p.level =>
                 \/ StrategyStep(strategy, p, s, k).shares # p.shares
                 \/ p.level < 0
                 \/ StrategyStep(strategy, p, s, k).level > p.level /\ p.shares = 0
<1>1. CASE strategy = "grid"
  <2>1. StrategyStep(strategy, p, s, k) = GridStep(p, s, k)
      BY <1>1 DEF StrategyStep
  <2> QED
      BY <1>1, <2>1, GridStepIs
<1>2. CASE strategy = "momentum"
  <2>1. StrategyStep(strategy, p, s, k) = MomentumStep(p, s, k)
      BY <1>2 DEF StrategyStep
  <2> QED
      BY <1>2, <2>1, MomentumStepIs
<1>3. CASE strategy = "rebalance"
  <2>1. StrategyStep(strategy, p, s, k) = RebalanceStep(p, s, k)
      BY <1>3 DEF StrategyStep
  <2> QED
      BY <1>3, <2>1, RebalanceStepIs
<1>4. CASE strategy = "dca"
  <2>1. StrategyStep(strategy, p, s, k) = DCAStep(p, s, k)
      BY <1>4 DEF StrategyStep
  <2> QED
      BY <1>4, <2>1, DCAStepIs
<1> QED
    BY <1>1, <1>2, <1>3, <1>4 DEF Strategies

\* The backtest takes these steps, one for each price.
LEMMA BacktestWalk ==
    ASSUME NEW strategy \in Strategies, NEW s \in PriceSeqs
    PROVE  \E points :
              /\ points[0] = StartPoint
              /\ \A k \in 0..Len(s) : points[k] \in Points
              /\ \A k \in 1..Len(s) : points[k] = StrategyStep(strategy, points[k - 1], s, k)
              /\ simulateBacktestStrategy(strategy, s) = [k \in DOMAIN s |-> points[k]]
<1> DEFINE n == Len(s)
           Scan(h) == h = [k \in 0..n |-> IF k = 0 THEN StartPoint
                                          ELSE StrategyStep(strategy, h[k - 1], s, k)]
           points == CHOOSE h : Scan(h)
<1>1. simulateBacktestStrategy(strategy, s) = [k \in DOMAIN s |-> points[k]]
    BY DEF simulateBacktestStrategy
<1>2. n \in Nat
    BY PricesOK
<1>3. \A k \in 1..n : \A p \in Points : StrategyStep(strategy, p, s, k) \in Points
    BY StrategyStepIs
<1>4. StartPoint \in Points
    BY DEF StartPoint, Points
<1> HIDE DEF n
<1> DEFINE step == [k \in 1..n |-> [p \in Points |-> StrategyStep(strategy, p, s, k)]]
<1>5. \A k \in 1..n : \A p \in Points :
         step[k][p] = StrategyStep(strategy, p, s, k) /\ step[k][p] \in Points
    BY <1>3
<1> HIDE DEF step
<1>6. PICK g : WalkOf(g, Points, StartPoint, step, 0, n)
  <2>1. KeepTo(Points, step, 0, n)
      BY <1>5 DEF KeepTo
  <2> QED
      BY <1>2, <1>4, <2>1, WalkExists
<1>7. Scan(g)
  <2>1. ASSUME NEW k \in 0..n
        PROVE  g[k] = IF k = 0 THEN StartPoint ELSE StrategyStep(strategy, g[k - 1], s, k)
    <3>1. CASE k = 0
        BY <1>6, <3>1 DEF WalkOf
    <3>2. CASE k # 0
      <4>1. k \in (0 + 1)..n /\ k \in 1..n
          BY <1>2, <3>2
      <4>2. g[k - 1] \in Points /\ g[k] = step[k][g[k - 1]]
          BY <1>6, <4>1 DEF WalkOf
      <4> QED
          BY <1>5, <3>2, <4>1, <4>2
    <3> QED
        BY <3>1, <3>2
  <2> QED
      BY <1>6, <2>1 DEF WalkOf
<1>8. Scan(points)
    BY <1>7
<1>9. points[0] = StartPoint /\ \A k \in 1..n : points[k] = StrategyStep(strategy, points[k - 1], s, k)
  <2>1. \A k \in 0..n : points[k] = IF k = 0 THEN StartPoint
                                    ELSE StrategyStep(strategy, points[k - 1], s, k)
    <3> HIDE DEF points
    <3> QED
        BY <1>8
  <2> HIDE DEF points
  <2>2. 0 \in 0..n /\ \A k \in 1..n : k \in 0..n /\ k # 0
      BY <1>2
  <2> QED
      BY <2>1, <2>2
<1> HIDE DEF points
<1>10. \A k \in 0..n : points[k] \in Points
  <2> DEFINE U == {m \in Nat : m <= n => points[m] \in Points}
  <2>1. 0 \in U
      BY <1>4, <1>9
  <2>2. ASSUME NEW m \in Nat, m \in U PROVE m + 1 \in U
    <3> SUFFICES ASSUME m + 1 <= n PROVE points[m + 1] \in Points
        OBVIOUS
    <3>1. m + 1 \in 1..n /\ (m + 1) - 1 = m /\ points[m] \in Points
        BY <1>2, <2>2
    <3> QED
        BY <1>3, <1>9, <3>1
  <2> HIDE DEF U
  <2>3. \A m \in Nat : m \in U
      BY <2>1, <2>2, AllNaturals
  <2> QED
      BY <1>2, <2>3 DEF U
<1> QED
    BY <1>1, <1>9, <1>10 DEF n

\* Backtests neither create nor lose money.
LEMMA BacktestsRight ==
    ASSUME job = "backtest", input \in [strategy : Strategies, prices : PriceSeqs],
           output.value = simulateBacktestStrategy(input.strategy, input.prices)
    PROVE  StrategiesAreSelfFinanced
<1> DEFINE s == input.prices
           p == output.value
           strategy == input.strategy
<1>1. s \in PriceSeqs /\ strategy \in Strategies
    OBVIOUS
<1>2. PICK points :
         /\ points[0] = StartPoint
         /\ \A k \in 0..Len(s) : points[k] \in Points
         /\ \A k \in 1..Len(s) : points[k] = StrategyStep(strategy, points[k - 1], s, k)
         /\ simulateBacktestStrategy(strategy, s) = [k \in DOMAIN s |-> points[k]]
    BY <1>1, BacktestWalk
<1>3. DOMAIN s = 1..Len(s) /\ Len(s) \in Nat /\ Base \in Nat
    BY <1>1, PricesOK
<1>4. \A k \in 1..Len(s) : p[k] = points[k]
    BY <1>2, <1>3
<1>5. ASSUME strategy = "rebalance", NEW k \in 1..Len(s), k > 1
      PROVE  Deficit(points[k - 1], s[k].nav) % s[k].nav = 0
  <2> DEFINE kept == simulateBacktestStrategy("rebalance", s)
  <2>1. kept = p
      BY <1>5
  <2>2. k - 1 \in 1..Len(s)
      BY <1>3, <1>5
  <2>3. k \in DOMAIN s
      BY <1>3
  <2>4. Deficit(kept[k - 1], s[k].nav) % s[k].nav = 0
      BY <1>1, <1>5, <2>3, BacktestsAssumption
  <2>5. kept[k - 1] = points[k - 1]
      BY <1>4, <2>1, <2>2
  <2> HIDE DEF kept, s
  <2> QED
      BY <2>4, <2>5
<1>6. \A nav \in Nat : TotalValue(StartPoint, nav) = 0
    BY DEF TotalValue, StartPoint
<1> HIDE DEF s, p, strategy
<1> SUFFICES ASSUME NEW k \in DOMAIN s
             PROVE  /\ p[k].shares >= 0
                    /\ TotalValue(p[k], s[k].nav) =
                          IF k = 1 THEN IF strategy = "rebalance" THEN Base ELSE 0
                          ELSE TotalValue(p[k - 1], s[k].nav)
                    /\ strategy = "grid" /\ k > 1 /\ p[k].level # p[k - 1].level =>
                          \/ p[k].shares # p[k - 1].shares
                          \/ p[k - 1].level < 0
                          \/ p[k].level > p[k - 1].level /\ p[k - 1].shares = 0
    BY DEF StrategiesAreSelfFinanced, s, p, strategy
<1> DEFINE o == points[k - 1]
           q == points[k]
<1>7. k \in 1..Len(s) /\ k - 1 \in 0..Len(s) /\ k \in 0..Len(s) /\ k \in Nat
    BY <1>3
<1>8. o \in Points /\ q \in Points /\ q = StrategyStep(strategy, o, s, k) /\ p[k] = q
    BY <1>2, <1>4, <1>7
<1>9. k > 1 => p[k - 1] = o
    BY <1>3, <1>4, <1>7
<1>10. k = 1 => o = StartPoint
    BY <1>2
<1>11. s[k].nav \in Nat
    BY <1>1, <1>7, PricesOK
<1>12. strategy = "rebalance" /\ k > 1 => Deficit(o, s[k].nav) % s[k].nav = 0
    BY <1>5, <1>7
<1> HIDE DEF o, q
<1>13. /\ strategy = "rebalance" /\ k = 1 => TotalValue(q, s[k].nav) = Base
       /\ \/ strategy # "rebalance"
          \/ k > 1 /\ Deficit(o, s[k].nav) % s[k].nav = 0
          => TotalValue(q, s[k].nav) = TotalValue(o, s[k].nav)
       /\ strategy = "grid" /\ q.level # o.level =>
             \/ q.shares # o.shares
             \/ o.level < 0
             \/ q.level > o.level /\ o.shares = 0
    BY <1>1, <1>7, <1>8, StrategyStepIs
<1>14. q.shares >= 0
    BY <1>8 DEF Points
<1>15. TotalValue(q, s[k].nav) = IF k = 1 THEN IF strategy = "rebalance" THEN Base ELSE 0
                                 ELSE TotalValue(o, s[k].nav)
  <2>1. CASE k = 1
      BY <1>6, <1>10, <1>11, <1>13, <2>1
  <2>2. CASE k # 1
    <3>1. k > 1
        BY <1>7, <2>2
    <3> QED
        BY <1>12, <1>13, <2>2, <3>1
  <2> QED
      BY <2>1, <2>2
<1>16. k > 1 \/ k = 1
    BY <1>7
<1> QED
    BY <1>8, <1>9, <1>13, <1>14, <1>15, <1>16

\* The first points of the months.
Firsts(s, m) == {k \in 1..m : k = 1 \/ s[k].month # s[k - 1].month}

\* What a plan that buys every month has after m points.
Monthly(p, s, m, g) ==
    /\ m > 0 => p.month = s[m].month
    /\ m = 0 => p.month = -1
    /\ IsFiniteSet(Firsts(s, m))
    /\ p.shares = SumOver(g, Firsts(s, m))
    /\ p.invested = Base * Cardinality(Firsts(s, m))
    /\ p.cash + p.invested = 0

LEMMA MonthlyOn ==
    ASSUME NEW s \in PriceSeqs, NEW m \in 1..Len(s),
           NEW g, \A k \in 1..Len(s) : g[k] = Base \div s[k].nav,
           NEW p \in Points, Monthly(p, s, m - 1, g)
    PROVE  Monthly(DCAStep(p, s, m), s, m, g)
<1> DEFINE F == Firsts(s, m - 1)
           nav == s[m].nav
           n == [p EXCEPT !.month = s[m].month]
           q == DCAStep(p, s, m)
           share == Base \div nav
<1>1. /\ nav \in Nat \ {0} /\ s[m].month \in Nat /\ Base \in Nat /\ Len(s) \in Nat /\ m \in Nat
      /\ m >= 1
    BY PricesOK
<1>2. /\ p.shares \in Nat /\ p.cash \in Int /\ p.invested \in Int
    BY DEF Points
<1>3. /\ m > 1 => p.month = s[m - 1].month
      /\ m = 1 => p.month = -1
      /\ IsFiniteSet(F) /\ Cardinality(F) \in Nat
      /\ p.shares = SumOver(g, F) /\ p.invested = Base * Cardinality(F) /\ p.cash + p.invested = 0
    BY <1>1, FS_CardinalityType DEF Monthly
<1>4. q = IF s[m].month = p.month THEN p ELSE BuyAt(n, nav, Base)
    BY DEF DCAStep
<1>5. s[m].month = p.month <=> ~(m = 1 \/ s[m].month # s[m - 1].month)
    BY <1>1, <1>3
<1>6. n \in Points /\ n.month = s[m].month /\ n.shares = p.shares /\ n.cash = p.cash
      /\ n.invested = p.invested
    BY <1>1, MonthIs
<1> HIDE DEF q, n
<1>7. CASE s[m].month = p.month
  <2>1. Firsts(s, m) = F
      BY <1>1, <1>5, <1>7 DEF Firsts
  <2> HIDE DEF F
  <2> QED
      BY <1>1, <1>3, <1>4, <1>7, <2>1 DEF Monthly, q
<1>8. CASE s[m].month # p.month
  <2>1. Firsts(s, m) = F \cup {m}
      BY <1>1, <1>5, <1>8 DEF Firsts
  <2>2. ~(m \in F)
      BY <1>1 DEF Firsts
  <2>3. F \subseteq 1..Len(s)
      BY <1>1 DEF Firsts
  <2>4. \A k \in 1..Len(s) : g[k] \in Int
    <3>1. ASSUME NEW k \in 1..Len(s) PROVE g[k] \in Int
      <4> DEFINE v == s[k].nav
      <4>1. v \in Nat \ {0} /\ g[k] = Base \div v
          BY PricesOK
      <4> HIDE DEF v
      <4> QED
          BY <1>1, <4>1
    <3> QED
        BY <3>1
  <2> HIDE DEF F
  <2>5. SumOver(g, F \cup {m}) = g[m] + SumOver(g, F)
    <3>1. (\A k \in F : g[k] \in Int) /\ g[m] \in Int
        BY <2>3, <2>4
    <3> QED
        BY <1>3, <2>2, <3>1, SumOverAdds
  <2>6. IsFiniteSet(F \cup {m}) /\ Cardinality(F \cup {m}) = Cardinality(F) + 1
      BY <1>3, <2>2, FS_AddElement
  <2>7. g[m] = share
      OBVIOUS
  <2>8. /\ q.month = s[m].month /\ q.shares = p.shares + share /\ q.cash = p.cash - Base
        /\ q.invested = p.invested + Base
    <3>1. /\ BuyAt(n, nav, Base).month = n.month
          /\ BuyAt(n, nav, Base).shares = n.shares + Base \div nav
          /\ BuyAt(n, nav, Base).cash = n.cash - Base
          /\ BuyAt(n, nav, Base).invested = n.invested + Base
        BY <1>1, <1>6, BuyIs
    <3> QED
        BY <1>4, <1>6, <1>8, <3>1
  <2>9. g[m] \in Int /\ SumOver(g, F) \in Int
      BY <1>2, <1>3, <2>4
  <2> HIDE DEF share, nav
  <2>10. q.shares = g[m] + SumOver(g, F)
      BY <1>3, <2>7, <2>8, <2>9
  <2>11. q.invested = Base * (Cardinality(F) + 1)
    <3>1. Base * (Cardinality(F) + 1) = Base * Cardinality(F) + Base * 1
        BY <1>1, <1>3, TimesSum
    <3>2. Base * 1 = Base
        BY <1>1
    <3> QED
        BY <1>3, <2>8, <3>1, <3>2
  <2>12. q.cash + q.invested = 0
      BY <1>1, <1>2, <1>3, <2>8
  <2> QED
      BY <1>1, <2>1, <2>5, <2>6, <2>8, <2>10, <2>11, <2>12 DEF Monthly, q
<1> QED
    BY <1>7, <1>8

\* The comparison of a plan with itself.
LEMMA ComparisonRight ==
    ASSUME job = "backtest", input \in [strategy : Strategies, prices : PriceSeqs],
           output.value = simulateBacktestStrategy(input.strategy, input.prices)
    PROVE  ComparisonOffset
<1> SUFFICES ASSUME input.strategy = "dca", input.prices # <<>>
             PROVE  LET n == Len(input.prices)
                        c == dcaBacktestReturn(input.prices)
                    IN  /\ output.value[n].invested = c.invested
                        /\ TotalValue(output.value[n], input.prices[n].nav) = c.final - c.invested
    BY DEF ComparisonOffset
<1> DEFINE s == input.prices
           n == Len(s)
           c == dcaBacktestReturn(s)
           g == [k \in 1..n |-> Base \div s[k].nav]
<1>1. s \in PriceSeqs
    OBVIOUS
<1>2. PICK points :
         /\ points[0] = StartPoint
         /\ \A k \in 0..Len(s) : points[k] \in Points
         /\ \A k \in 1..Len(s) : points[k] = StrategyStep("dca", points[k - 1], s, k)
         /\ simulateBacktestStrategy("dca", s) = [k \in DOMAIN s |-> points[k]]
  <2>1. "dca" \in Strategies
      BY DEF Strategies
  <2> QED
      BY <1>1, <2>1, BacktestWalk
<1>3. DOMAIN s = 1..n /\ n \in Nat /\ Base \in Nat
    BY <1>1, PricesOK
<1>4. n # 0
  <2>1. s \in Seq([month : Nat, nav : Nat \ {0}])
      BY <1>1, BacktestsAssumption
  <2> DEFINE S == [month : Nat, nav : Nat \ {0}]
  <2>2. s \in Seq(S)
      BY <2>1
  <2> HIDE DEF S
  <2> QED
      BY <2>2
<1>5. n \in 1..n
    BY <1>3, <1>4
<1>6. output.value[n] = points[n]
    BY <1>2, <1>3, <1>5
<1>7. c = [invested |-> Base * Cardinality(Firsts(s, n)), final |-> SumOver(g, Firsts(s, n)) * s[n].nav]
  <2> DEFINE F == {k \in DOMAIN s : k = 1 \/ s[k].month # s[k - 1].month}
  <2>1. c = [invested |-> Base * Cardinality(F),
             final |-> SumFunction([k \in F |-> Base \div s[k].nav]) * s[n].nav]
      BY DEF dcaBacktestReturn
  <2>2. F = Firsts(s, n)
      BY <1>3 DEF Firsts
  <2>3. [k \in F |-> Base \div s[k].nav] = [k \in F |-> g[k]]
      BY <1>3
  <2> HIDE DEF F, g, c
  <2> QED
      BY <2>1, <2>2, <2>3 DEF SumOver
<1>8. \A k \in 1..Len(s) : g[k] = Base \div s[k].nav
    OBVIOUS
<1> HIDE DEF s, c, g
<1>9. ASSUME NEW k \in 1..n PROVE points[k] = DCAStep(points[k - 1], s, k)
    BY <1>2 DEF StrategyStep, n
<1> DEFINE U == {m \in Nat : m <= n => Monthly(points[m], s, m, g)}
<1>10. 0 \in U
  <2>1. Firsts(s, 0) = {}
      BY DEF Firsts
  <2>2. IsFiniteSet({}) /\ Cardinality({}) = 0
      BY FS_EmptySet
  <2>3. SumOver(g, {}) = 0
      BY <2>2, SumOverChosen
  <2>4. Base * 0 = 0
      BY <1>3
  <2> DEFINE p == points[0]
  <2>5. p.month = -1 /\ p.shares = 0 /\ p.invested = 0 /\ p.cash = 0
      BY <1>2 DEF StartPoint
  <2> HIDE DEF p
  <2>6. p.cash + p.invested = 0
      BY <2>5
  <2>7. Cardinality(Firsts(s, 0)) = 0
      BY <2>1, <2>2
  <2>8. p.invested = Base * Cardinality(Firsts(s, 0))
      BY <2>4, <2>5, <2>7
  <2>9. p.shares = SumOver(g, Firsts(s, 0)) /\ IsFiniteSet(Firsts(s, 0))
      BY <2>1, <2>2, <2>3, <2>5
  <2>10. Monthly(p, s, 0, g)
    <3>1. ~(0 > 0)
        OBVIOUS
    <3>2. p.month = -1
        BY <2>5
    <3> QED
        BY <2>6, <2>8, <2>9, <3>1, <3>2, Zenon DEF Monthly
  <2> QED
      BY <2>10 DEF p
<1>11. ASSUME NEW m \in Nat, m \in U PROVE m + 1 \in U
  <2> SUFFICES ASSUME m + 1 <= n PROVE Monthly(points[m + 1], s, m + 1, g)
      OBVIOUS
  <2> DEFINE k == m + 1
  <2>1. k \in 1..n /\ k - 1 = m /\ m \in 0..n
      BY <1>3
  <2>2. Monthly(points[m], s, m, g)
      BY <1>3, <1>11, <2>1
  <2> HIDE DEF k
  <2>3. points[k - 1] \in Points /\ Monthly(points[k - 1], s, k - 1, g)
      BY <1>2, <2>1, <2>2 DEF n
  <2>4. Monthly(DCAStep(points[k - 1], s, k), s, k, g)
      BY <1>1, <1>8, <2>1, <2>3, MonthlyOn DEF n
  <2>5. Monthly(points[k], s, k, g)
      BY <1>9, <2>1, <2>4
  <2> QED
      BY <2>5 DEF k
<1> HIDE DEF U
<1>12. Monthly(points[n], s, n, g)
  <2>1. \A m \in Nat : m \in U
      BY <1>10, <1>11, AllNaturals
  <2>2. n \in U
      BY <1>3, <2>1
  <2> QED
      BY <1>3, <2>2 DEF U
<1>13. output.value[n].invested = c.invested
    BY <1>6, <1>7, <1>12 DEF Monthly
<1>14. TotalValue(output.value[n], s[n].nav) = c.final - c.invested
  <2> DEFINE p == points[n]
  <2>1. p \in Points /\ s[n].nav \in Nat
    <3>1. n \in 0..Len(s)
        BY <1>3 DEF n
    <3>2. n \in 1..Len(s)
        BY <1>5 DEF n
    <3> QED
        BY <1>1, <1>2, <3>1, <3>2, PricesOK
  <2>2. p.shares \in Nat /\ p.invested \in Int /\ p.cash \in Int
      BY <2>1 DEF Points
  <2>3. c.final = p.shares * s[n].nav /\ c.invested = p.invested /\ p.cash + p.invested = 0
      BY <1>7, <1>12 DEF Monthly
  <2>4. p.shares * s[n].nav \in Int
      BY <2>1, <2>2
  <2>5. TotalValue(p, s[n].nav) = p.shares * s[n].nav + p.cash
      BY DEF TotalValue
  <2> HIDE DEF p
  <2> DEFINE w == p.shares * s[n].nav
  <2>6. w \in Int /\ c.final = w /\ TotalValue(p, s[n].nav) = w + p.cash
      BY <2>3, <2>4, <2>5
  <2> HIDE DEF w
  <2>7. TotalValue(p, s[n].nav) = c.final - c.invested
      BY <2>2, <2>3, <2>6
  <2> QED
      BY <1>6, <2>7 DEF p
<1> QED
    BY <1>13, <1>14 DEF n, s, c

-----------------------------------------------------------------------------
(* The placeholder scanner                                                 *)

\* A function defined from the far end down, each value from one further on.
NextIn(nxt, lo, hi) == \A i \in lo..hi : nxt[i] \in (i + 1)..(hi + 1)
MapsTo(val, R, lo, hi) == \A i \in lo..hi : \A r \in R : val[i][r] \in R
JumpOf(g, R, last, nxt, val, lo, hi) ==
    /\ g \in [lo..(hi + 1) -> R] /\ g[hi + 1] = last
    /\ \A i \in lo..hi : g[nxt[i]] \in R /\ g[i] = val[i][g[nxt[i]]]

LEMMA JumpExists ==
    ASSUME NEW R, NEW last \in R, NEW nxt, NEW val, NEW lo \in Int, NEW hi \in Int, lo <= hi + 1,
           NextIn(nxt, lo, hi), MapsTo(val, R, lo, hi)
    PROVE  \E g : JumpOf(g, R, last, nxt, val, lo, hi)
<1> DEFINE Fits(g, n) == /\ g \in [n..(hi + 1) -> R] /\ g[hi + 1] = last
                         /\ \A i \in n..hi : g[i] = val[i][g[nxt[i]]]
           U == {m \in Nat : lo <= (hi + 1) - m => \E g : Fits(g, (hi + 1) - m)}
<1>1. 0 \in U
  <2> DEFINE n == (hi + 1) - 0
             g == [i \in n..(hi + 1) |-> last]
  <2>1. n..hi = {} /\ hi + 1 \in n..(hi + 1)
      OBVIOUS
  <2>2. g \in [n..(hi + 1) -> R] /\ g[hi + 1] = last
      BY <2>1
  <2>3. Fits(g, n)
    <3> HIDE DEF g, n
    <3> QED
        BY <2>1, <2>2
  <2> HIDE DEF Fits
  <2> QED
      BY <2>3
<1>2. ASSUME NEW m \in Nat, m \in U PROVE m + 1 \in U
  <2> SUFFICES ASSUME lo <= (hi + 1) - (m + 1)
               PROVE  \E g : Fits(g, (hi + 1) - (m + 1))
      OBVIOUS
  <2> DEFINE k == (hi + 1) - (m + 1)
  <2>1. k \in lo..hi /\ (hi + 1) - m = k + 1 /\ k \in Int
      OBVIOUS
  <2>2. \E g : Fits(g, k + 1)
    <3>1. lo <= (hi + 1) - m
        BY <2>1
    <3>2. \E g : Fits(g, (hi + 1) - m)
        BY <1>2, <3>1
    <3> HIDE DEF Fits, k
    <3> QED
        BY <2>1, <3>2
  <2>3. PICK g : Fits(g, k + 1)
      BY <2>2
  <2> HIDE DEF k
  <2> DEFINE h == [i \in k..(hi + 1) |-> IF i = k THEN val[k][g[nxt[k]]] ELSE g[i]]
  <2>4. nxt[k] \in (k + 1)..(hi + 1)
      BY <2>1 DEF NextIn
  <2>5. g[nxt[k]] \in R
      BY <2>3, <2>4
  <2>6. val[k][g[nxt[k]]] \in R
      BY <2>1, <2>5 DEF MapsTo
  <2>7. h \in [k..(hi + 1) -> R]
    <3>1. ASSUME NEW i \in k..(hi + 1), i # k PROVE g[i] \in R
      <4>1. i \in (k + 1)..(hi + 1)
          BY <2>1, <3>1
      <4> QED
          BY <2>3, <4>1
    <3> QED
        BY <2>6, <3>1
  <2>8. h[hi + 1] = last
    <3>1. hi + 1 \in k..(hi + 1) /\ hi + 1 # k
        BY <2>1
    <3> QED
        BY <2>3, <3>1
  <2>9. ASSUME NEW i \in k..hi PROVE h[i] = val[i][h[nxt[i]]]
    <3>1. nxt[i] \in (i + 1)..(hi + 1)
        BY <2>1 DEF NextIn
    <3>2. nxt[i] \in k..(hi + 1) /\ nxt[i] # k
        BY <2>1, <3>1
    <3>3. h[nxt[i]] = g[nxt[i]]
        BY <3>2
    <3>4. CASE i = k
      <4>1. h[k] = val[k][g[nxt[k]]]
          BY <2>1
      <4> HIDE DEF h
      <4> QED
          BY <3>3, <3>4, <4>1
    <3>5. CASE i # k
      <4>1. i \in (k + 1)..hi /\ h[i] = g[i]
          BY <2>1, <3>5
      <4>2. g[i] = val[i][g[nxt[i]]]
          BY <2>3, <4>1
      <4> HIDE DEF h
      <4> QED
          BY <3>3, <4>1, <4>2
    <3> QED
        BY <3>4, <3>5
  <2> HIDE DEF h
  <2>10. Fits(h, k)
      BY <2>7, <2>8, <2>9
  <2> HIDE DEF Fits
  <2> QED
      BY <2>10 DEF k
<1> HIDE DEF U
<1>3. \A m \in Nat : m \in U
    BY <1>1, <1>2, AllNaturals
<1>4. (hi + 1) - lo \in Nat /\ (hi + 1) - ((hi + 1) - lo) = lo
    OBVIOUS
<1>5. (hi + 1) - lo \in U
    BY <1>3, <1>4
<1>6. PICK g : Fits(g, lo)
  <2> HIDE DEF Fits
  <2>1. \E g : Fits(g, (hi + 1) - ((hi + 1) - lo))
      BY <1>4, <1>5 DEF U
  <2> QED
      BY <1>4, <2>1
<1>7. \A i \in lo..hi : g[nxt[i]] \in R
  <2>1. ASSUME NEW i \in lo..hi PROVE g[nxt[i]] \in R
    <3>1. nxt[i] \in (i + 1)..(hi + 1)
        BY DEF NextIn
    <3>2. nxt[i] \in lo..(hi + 1)
        BY <3>1
    <3> QED
        BY <1>6, <3>2
  <2> QED
      BY <2>1
<1> QED
    BY <1>6, <1>7 DEF JumpOf

\* A statement: characters 1 to Len.
Text(q) == Len(q) \in Nat /\ DOMAIN q = 1..Len(q) /\ q \in Seq({q[i] : i \in DOMAIN q})

LEMMA QueriesAreTexts ==
    ASSUME NEW q \in Queries
    PROVE  Text(q)
<1> DEFINE S == {q[i] : i \in DOMAIN q}
<1>1. q \in Seq(S)
    BY QueriesAssumption
<1>2. Len(q) \in Nat /\ DOMAIN q = 1..Len(q)
  <2> HIDE DEF S
  <2> QED
      BY <1>1
<1> QED
    BY <1>1, <1>2 DEF Text

\* The literal: doubled quotes go on, a single one ends.
LEMMA QuoteEndIs ==
    ASSUME NEW q, Text(q), NEW i \in 1..Len(q)
    PROVE  \E end :
              /\ QuoteEnd(q, i) = end[i + 1]
              /\ end[Len(q) + 1] = 0
              /\ \A j \in (i + 1)..Len(q) :
                    end[j] = IF q[j] # q[i] THEN end[j + 1]
                             ELSE IF CharAt(q, j + 1, q[i]) THEN end[j + 2] ELSE j + 1
<1> DEFINE n == Len(q)
           Scan(h) == h = [j \in (i + 1)..(n + 1) |->
                              IF j > n THEN 0 ELSE IF q[j] # q[i] THEN h[j + 1]
                              ELSE IF CharAt(q, j + 1, q[i]) THEN h[j + 2] ELSE j + 1]
           end == CHOOSE h : Scan(h)
<1>1. QuoteEnd(q, i) = end[i + 1]
    BY DEF QuoteEnd
<1>2. n \in Nat /\ i \in Int /\ i >= 1 /\ i <= n
    BY DEF Text
<1> HIDE DEF n
<1> DEFINE twice(j) == q[j] = q[i] /\ CharAt(q, j + 1, q[i])
           nxt == [j \in (i + 1)..n |-> IF twice(j) THEN j + 2 ELSE j + 1]
           val == [j \in (i + 1)..n |->
                     [r \in Nat |-> IF q[j] # q[i] \/ twice(j) THEN r ELSE j + 1]]
<1>3. NextIn(nxt, i + 1, n)
    BY <1>2 DEF NextIn, CharAt, n
<1>4. MapsTo(val, Nat, i + 1, n)
    BY <1>2 DEF MapsTo
<1>5. PICK g : JumpOf(g, Nat, 0, nxt, val, i + 1, n)
  <2> DEFINE lo == i + 1
  <2>1. lo \in Int /\ n \in Int /\ lo <= n + 1 /\ 0 \in Nat
      BY <1>2
  <2> HIDE DEF nxt, val, lo
  <2>2. NextIn(nxt, lo, n) /\ MapsTo(val, Nat, lo, n)
      BY <1>3, <1>4 DEF lo
  <2> QED
      BY <2>1, <2>2, JumpExists DEF lo
<1>6. \A j \in (i + 1)..n : g[nxt[j]] \in Nat /\ g[j] = val[j][g[nxt[j]]]
    BY <1>5 DEF JumpOf
<1>7. Scan(g)
  <2>1. ASSUME NEW j \in (i + 1)..(n + 1)
        PROVE  g[j] = IF j > n THEN 0 ELSE IF q[j] # q[i] THEN g[j + 1]
                      ELSE IF CharAt(q, j + 1, q[i]) THEN g[j + 2] ELSE j + 1
    <3>1. CASE j > n
      <4>1. j = n + 1
          BY <1>2, <3>1
      <4> QED
          BY <1>5, <3>1, <4>1 DEF JumpOf
    <3>2. CASE ~(j > n)
      <4>1. j \in (i + 1)..n
          BY <1>2, <3>2
      <4>2. g[nxt[j]] \in Nat /\ g[j] = val[j][g[nxt[j]]]
          BY <1>6, <4>1
      <4>3. nxt[j] = IF twice(j) THEN j + 2 ELSE j + 1
          BY <4>1
      <4>4. g[j] = IF q[j] # q[i] \/ twice(j) THEN g[nxt[j]] ELSE j + 1
          BY <4>1, <4>2
      <4> HIDE DEF nxt, val
      <4> QED
          BY <3>2, <4>3, <4>4
    <3> QED
        BY <3>1, <3>2
  <2> HIDE DEF nxt, val, twice
  <2> QED
      BY <1>5, <2>1 DEF JumpOf
<1>8. Scan(end)
    BY <1>7
<1>9. \A j \in (i + 1)..(n + 1) :
         end[j] = IF j > n THEN 0 ELSE IF q[j] # q[i] THEN end[j + 1]
                  ELSE IF CharAt(q, j + 1, q[i]) THEN end[j + 2] ELSE j + 1
  <2> HIDE DEF end
  <2> QED
      BY <1>8
<1> HIDE DEF end
<1>10. end[n + 1] = 0
  <2>1. n + 1 \in (i + 1)..(n + 1) /\ n + 1 > n
      BY <1>2
  <2> QED
      BY <1>9, <2>1
<1>11. \A j \in (i + 1)..n : j \in (i + 1)..(n + 1) /\ ~(j > n)
    BY <1>2
<1>12. \A j \in (i + 1)..n :
         end[j] = IF q[j] # q[i] THEN end[j + 1]
                  ELSE IF CharAt(q, j + 1, q[i]) THEN end[j + 2] ELSE j + 1
    BY <1>9, <1>11
<1> QED
    BY <1>1, <1>10, <1>12 DEF n

\* The block comment, with its depth.
LEMMA BlockEndIs ==
    ASSUME NEW q, Text(q), NEW i \in 1..Len(q)
    PROVE  \E end :
              /\ BlockEnd(q, i) = end[i][0]
              /\ \A d \in Int : end[Len(q) + 1][d] = 0
              /\ \A j \in i..Len(q), d \in Int :
                    end[j][d] = IF Opens(q, j) THEN end[j + 2][d + 1]
                                ELSE IF Closes(q, j) THEN IF d = 1 THEN j + 2 ELSE end[j + 2][d - 1]
                                ELSE end[j + 1][d]
<1> DEFINE n == Len(q)
           Scan(h) == h = [j \in i..(n + 1) |->
              [depth \in Int |->
                IF j > n THEN 0
                ELSE IF Opens(q, j) THEN h[j + 2][depth + 1]
                ELSE IF Closes(q, j) THEN IF depth = 1 THEN j + 2 ELSE h[j + 2][depth - 1]
                ELSE h[j + 1][depth]]]
           end == CHOOSE h : Scan(h)
           R == [Int -> Nat]
<1>1. BlockEnd(q, i) = end[i][0]
    BY DEF BlockEnd
<1>2. n \in Nat /\ i \in Int /\ i >= 1 /\ i <= n
    BY DEF Text
<1> HIDE DEF n
<1> DEFINE two(j) == Opens(q, j) \/ Closes(q, j)
           nxt == [j \in i..n |-> IF two(j) THEN j + 2 ELSE j + 1]
           body(j, r) == [depth \in Int |->
                            IF Opens(q, j) THEN r[depth + 1]
                            ELSE IF Closes(q, j) THEN IF depth = 1 THEN j + 2 ELSE r[depth - 1]
                            ELSE r[depth]]
           val == [j \in i..n |-> [r \in R |-> body(j, r)]]
           last == [depth \in Int |-> 0]
<1>3. NextIn(nxt, i, n)
    BY <1>2 DEF NextIn, CharAt, Opens, Closes, n
<1>4. ASSUME NEW j \in i..n, NEW r \in R PROVE val[j][r] = body(j, r) /\ body(j, r) \in R
  <2>1. j + 2 \in Nat
      BY <1>2
  <2>2. \A d \in Int : r[d] \in Nat /\ r[d + 1] \in Nat /\ r[d - 1] \in Nat
    <3>1. \A d \in Int : r[d] \in Nat
        OBVIOUS
    <3>2. \A d \in Int : d + 1 \in Int /\ d - 1 \in Int
        OBVIOUS
    <3> HIDE DEF R
    <3> QED
        BY <3>1, <3>2
  <2> QED
      BY <2>1, <2>2
<1>5. MapsTo(val, R, i, n)
  <2> HIDE DEF val, R, body
  <2> QED
      BY <1>4 DEF MapsTo
<1>6. last \in R
    OBVIOUS
<1>7. PICK g : JumpOf(g, R, last, nxt, val, i, n)
  <2> HIDE DEF nxt, val, R, last
  <2> QED
      BY <1>2, <1>3, <1>5, <1>6, JumpExists
<1>8. Scan(g)
  <2>1. ASSUME NEW j \in i..(n + 1)
        PROVE  g[j] = [depth \in Int |->
                IF j > n THEN 0
                ELSE IF Opens(q, j) THEN g[j + 2][depth + 1]
                ELSE IF Closes(q, j) THEN IF depth = 1 THEN j + 2 ELSE g[j + 2][depth - 1]
                ELSE g[j + 1][depth]]
    <3>1. CASE j > n
      <4>1. j = n + 1
          BY <1>2, <3>1
      <4>2. g[j] = last
          BY <1>7, <4>1 DEF JumpOf
      <4> QED
          BY <3>1, <4>2
    <3>2. CASE ~(j > n)
      <4>1. j \in i..n
          BY <1>2, <3>2
      <4>2. g[nxt[j]] \in R /\ g[j] = val[j][g[nxt[j]]]
        <5> HIDE DEF nxt, val, R, last
        <5> QED
            BY <1>7, <4>1 DEF JumpOf
      <4>3. g[j] = body(j, g[nxt[j]])
        <5> HIDE DEF nxt, val, R, last, body
        <5> QED
            BY <1>4, <4>1, <4>2
      <4>4. nxt[j] = IF two(j) THEN j + 2 ELSE j + 1
          BY <4>1
      <4>5. CASE two(j)
        <5>1. g[j] = body(j, g[j + 2])
          <6>1. nxt[j] = j + 2
              BY <4>4, <4>5
          <6> HIDE DEF nxt, body, val
          <6> QED
              BY <4>3, <6>1
        <5> QED
            BY <3>2, <4>5, <5>1
      <4>6. CASE ~two(j)
        <5>1. g[j] = body(j, g[j + 1])
          <6>1. nxt[j] = j + 1
              BY <4>4, <4>6
          <6> HIDE DEF nxt, body, val
          <6> QED
              BY <4>3, <6>1
        <5> QED
            BY <3>2, <4>6, <5>1
      <4> QED
          BY <4>5, <4>6
    <3> QED
        BY <3>1, <3>2
  <2>2. g \in [i..(n + 1) -> R]
      BY <1>7 DEF JumpOf
  <2> HIDE DEF nxt, val, R, last, body, two
  <2> QED
      BY <2>1, <2>2
<1>9. Scan(end)
    BY <1>8
<1>10. ASSUME NEW j \in i..(n + 1), NEW d \in Int
       PROVE  end[j][d] = IF j > n THEN 0
                          ELSE IF Opens(q, j) THEN end[j + 2][d + 1]
                          ELSE IF Closes(q, j) THEN IF d = 1 THEN j + 2 ELSE end[j + 2][d - 1]
                          ELSE end[j + 1][d]
  <2> HIDE DEF end
  <2>1. end[j] = [depth \in Int |->
                IF j > n THEN 0
                ELSE IF Opens(q, j) THEN end[j + 2][depth + 1]
                ELSE IF Closes(q, j) THEN IF depth = 1 THEN j + 2 ELSE end[j + 2][depth - 1]
                ELSE end[j + 1][depth]]
      BY <1>9
  <2> QED
      BY <2>1
<1> HIDE DEF end
<1>11. \A d \in Int : end[n + 1][d] = 0
  <2>1. n + 1 \in i..(n + 1) /\ n + 1 > n
      BY <1>2
  <2> QED
      BY <1>10, <2>1
<1>12. \A j \in i..n : j \in i..(n + 1) /\ ~(j > n)
    BY <1>2
<1>13. \A j \in i..n, d \in Int :
          end[j][d] = IF Opens(q, j) THEN end[j + 2][d + 1]
                      ELSE IF Closes(q, j) THEN IF d = 1 THEN j + 2 ELSE end[j + 2][d - 1]
                      ELSE end[j + 1][d]
    BY <1>10, <1>12
<1> QED
    BY <1>1, <1>11, <1>13 DEF n

\* The reading from left to right: in code and in a name nothing else is known.
Ins == {"code", "name", "line", "block", "dollar", "'", "i"}
Tag(q, i) == SubSeq(q, i, i + DelimiterAt(q, i) - 1)
Tags(q) == {<<>>} \cup {Tag(q, i) : i \in 1..Len(q)}
Lexes(q) == {m \in [in : Ins, depth : Int, skip : Nat, tag : Tags(q), since : Int] :
                m.in = "code" \/ m.in = "name" => m = Plainly(m.in)}

\* A delimiter ends inside the statement.
LEMMA DelimiterIs ==
    ASSUME NEW q, Text(q), NEW i \in 1..Len(q)
    PROVE  /\ DelimiterAt(q, i) \in Nat
           /\ DelimiterAt(q, i) > 0 => /\ DelimiterAt(q, i) >= 2
                                       /\ i + DelimiterAt(q, i) - 1 <= Len(q)
<1> DEFINE ends == {j \in (i + 1)..Len(q) : q[j] = "$" /\ \A k \in (i + 1)..(j - 1) : q[k] = "t"}
<1>1. DelimiterAt(q, i) = IF ends = {} THEN 0 ELSE Min(ends) - i + 1
    BY DEF DelimiterAt
<1>2. Len(q) \in Nat
    BY DEF Text
<1>3. \A j \in ends : j \in Nat /\ j >= i + 1 /\ j <= Len(q)
    BY <1>2
<1> HIDE DEF ends
<1>4. CASE ends = {}
    BY <1>1, <1>4
<1>5. CASE ends # {}
  <2>1. ends \subseteq Nat
      BY <1>3
  <2>2. \E x \in ends : \A y \in ends : x <= y
      BY <1>5, <2>1, SmallestOf
  <2>3. Min(ends) \in ends
      BY <2>2 DEF Min
  <2> DEFINE m == Min(ends)
  <2>4. m \in Nat /\ m >= i + 1 /\ m <= Len(q) /\ DelimiterAt(q, i) = m - i + 1
      BY <1>1, <1>3, <1>5, <2>3
  <2> HIDE DEF m
  <2> QED
      BY <1>2, <2>4
<1> QED
    BY <1>4, <1>5

LEMMA LexStays ==
    ASSUME NEW q, Text(q), NEW i \in 1..Len(q), NEW m \in Lexes(q)
    PROVE  LexStep(q, m, i) \in Lexes(q)
<1>1. /\ m.in \in Ins /\ m.depth \in Int /\ m.skip \in Nat /\ m.tag \in Tags(q) /\ m.since \in Int
      /\ m.in = "code" \/ m.in = "name" => m = Plainly(m.in)
    BY DEF Lexes
<1>2. ASSUME NEW in \in Ins \ {"code", "name"}, NEW depth \in Int, NEW skip \in Nat,
             NEW tag \in Tags(q), NEW since \in Int
      PROVE  Lex(in, depth, skip, tag, since) \in Lexes(q)
    BY DEF Lexes, Lex
<1>3. <<>> \in Tags(q) /\ Tag(q, i) \in Tags(q)
    BY DEF Tags
<1>4. \A in \in Ins : Plainly(in) \in Lexes(q)
    BY <1>3 DEF Lexes, Lex, Plainly
<1>5. /\ "block" \in Ins \ {"code", "name"} /\ "dollar" \in Ins \ {"code", "name"}
      /\ "code" \in Ins /\ "name" \in Ins /\ "line" \in Ins
    BY DEF Ins
<1> DEFINE len == DelimiterAt(q, i)
           e == i + len - 1
           tag == SubSeq(q, i, e)
<1>6. len \in Int /\ i + len \in Int /\ (len > 0 => len - 1 \in Nat)
    BY DelimiterIs
<1>7. ASSUME m.skip > 0 PROVE Lex(m.in, m.depth, m.skip - 1, m.tag, m.since) \in Lexes(q)
  <2>1. m.in # "code" /\ m.in # "name"
      BY <1>1, <1>7 DEF Plainly, Lex
  <2>2. m.skip - 1 \in Nat
      BY <1>1, <1>7
  <2> QED
      BY <1>1, <1>2, <2>1, <2>2
<1>8. /\ Lex("block", m.depth + 1, 1, <<>>, 0) \in Lexes(q)
      /\ Lex("block", m.depth - 1, 1, <<>>, 0) \in Lexes(q)
      /\ Lex("block", 1, 1, <<>>, 0) \in Lexes(q)
  <2>1. m.depth + 1 \in Int /\ m.depth - 1 \in Int /\ 1 \in Int /\ 1 \in Nat /\ 0 \in Int
      BY <1>1
  <2> QED
      BY <1>2, <1>3, <1>5, <2>1
<1>9. len > 0 => Lex("dollar", 0, len - 1, tag, i + len) \in Lexes(q)
  <2>1. tag = Tag(q, i)
      BY DEF Tag
  <2> HIDE DEF len, e, tag
  <2> QED
      BY <1>2, <1>3, <1>5, <1>6, <2>1
<1>10. q[i] \in {"'", "i"} => Plainly(q[i]) \in Lexes(q)
    BY <1>4 DEF Ins
<1>11. Plainly("code") \in Lexes(q) /\ Plainly("line") \in Lexes(q) /\ Plainly("name") \in Lexes(q)
    BY <1>4, <1>5
<1>12. \/ LexStep(q, m, i) = m
       \/ LexStep(q, m, i) \in {Plainly("code"), Plainly("line"), Plainly("name")}
       \/ m.skip > 0 /\ LexStep(q, m, i) = Lex(m.in, m.depth, m.skip - 1, m.tag, m.since)
       \/ LexStep(q, m, i) = Lex("block", m.depth + 1, 1, <<>>, 0)
       \/ LexStep(q, m, i) = Lex("block", m.depth - 1, 1, <<>>, 0)
       \/ LexStep(q, m, i) = Lex("block", 1, 1, <<>>, 0)
       \/ len > 0 /\ LexStep(q, m, i) = Lex("dollar", 0, len - 1, tag, i + len)
       \/ q[i] \in {"'", "i"} /\ LexStep(q, m, i) = Plainly(q[i])
  <2>1. CASE m.skip > 0
    <3>1. LexStep(q, m, i) = IF m.skip = 1 /\ m.in = "block" /\ m.depth = 0 THEN Plainly("code")
                             ELSE Lex(m.in, m.depth, m.skip - 1, m.tag, m.since)
      <4>1. ~(m.skip = 0)
          BY <2>1
      <4> QED
          BY <2>1, <4>1, Zenon DEF LexStep
    <3> HIDE DEF len, e, tag
    <3> QED
        BY <2>1, <3>1
  <2>2. CASE ~(m.skip > 0) /\ m.skip = 0 /\ m.in \in {"'", "i"}
      BY <2>2 DEF LexStep
  <2>3. CASE ~(m.skip > 0) /\ m.skip = 0 /\ m.in = "line"
      BY <2>3 DEF LexStep
  <2>4. CASE ~(m.skip > 0) /\ m.skip = 0 /\ m.in = "block"
      BY <2>4 DEF LexStep
  <2>5. CASE ~(m.skip > 0) /\ m.skip = 0 /\ m.in = "dollar"
      BY <2>5 DEF LexStep
  <2>6. CASE ~(m.skip > 0) /\ (m.skip = 0 => ~(m.in \in {"'", "i", "line", "block", "dollar"}))
    <3>1. LexStep(q, m, i) =
              CASE q[i] = "t" \/ (q[i] = "$" /\ m.in = "name") -> Plainly("name")
                [] q[i] \in {"'", "i"} -> Plainly(q[i])
                [] q[i] = "-" /\ CharAt(q, i + 1, "-") -> Plainly("line")
                [] Opens(q, i) -> Lex("block", 1, 1, <<>>, 0)
                [] q[i] = "$" /\ m.in # "name" /\ len > 0 -> Lex("dollar", 0, len - 1, tag, i + len)
                [] OTHER -> Plainly("code")
        BY <2>6 DEF LexStep
    <3> HIDE DEF len, e, tag
    <3> QED
        BY <3>1
  <2> QED
      BY <2>1, <2>2, <2>3, <2>4, <2>5, <2>6
<1> HIDE DEF len, e, tag
<1> QED
    BY <1>7, <1>8, <1>9, <1>10, <1>11, <1>12

\* What the scanner sees: names are code to it, and a dollar in one may begin
\* a quote.
SeenStep(q, m, i) ==
    CASE m.skip > 0 -> IF m.skip = 1 /\ m.in = "block" /\ m.depth = 0 THEN Plainly("code")
                       ELSE Lex(m.in, m.depth, m.skip - 1, m.tag, m.since)
      [] m.skip = 0 /\ m.in \in {"'", "i"} -> IF q[i] = m.in THEN Plainly("code") ELSE m
      [] m.skip = 0 /\ m.in = "line" -> IF q[i] = "n" THEN Plainly("code") ELSE m
      [] m.skip = 0 /\ m.in = "block" ->
            IF Opens(q, i) THEN Lex("block", m.depth + 1, 1, <<>>, 0)
            ELSE IF Closes(q, i) THEN Lex("block", m.depth - 1, 1, <<>>, 0) ELSE m
      [] m.skip = 0 /\ m.in = "dollar" ->
            LET first == i - Len(m.tag) + 1
            IN  IF first >= m.since /\ SubSeq(q, first, i) = m.tag THEN Plainly("code") ELSE m
      [] OTHER ->
            CASE q[i] \in {"'", "i"} -> Plainly(q[i])
              [] q[i] = "-" /\ CharAt(q, i + 1, "-") -> Plainly("line")
              [] Opens(q, i) -> Lex("block", 1, 1, <<>>, 0)
              [] q[i] = "$" /\ DelimiterAt(q, i) > 0 ->
                    LET len == DelimiterAt(q, i)
                    IN  Lex("dollar", 0, len - 1, SubSeq(q, i, i + len - 1), i + len)
              [] OTHER -> Plainly("code")

ReadBy(q, mode) ==
    /\ mode[0] = Plainly("code")
    /\ \A k \in 1..Len(q) : mode[k] = SeenStep(q, mode[k - 1], k)

LEMMA LexedByReads ==
    ASSUME NEW q, Text(q)
    PROVE  /\ LexedBy(q)[0] = Plainly("code")
           /\ \A k \in 1..Len(q) : LexedBy(q)[k] = LexStep(q, LexedBy(q)[k - 1], k)
           /\ \A k \in 0..Len(q) : LexedBy(q)[k] \in Lexes(q)
<1> DEFINE n == Len(q)
           Scan(h) == h = [i \in 0..n |-> IF i = 0 THEN Plainly("code") ELSE LexStep(q, h[i - 1], i)]
           mode == CHOOSE h : Scan(h)
<1>1. LexedBy(q) = mode
    BY DEF LexedBy
<1>2. n \in Nat
    BY DEF Text
<1>3. \A k \in 1..n : \A m \in Lexes(q) : LexStep(q, m, k) \in Lexes(q)
    BY LexStays
<1>4. Plainly("code") \in Lexes(q)
    BY DEF Lexes, Plainly, Lex, Ins, Tags
<1> HIDE DEF n
<1> DEFINE step == [k \in 1..n |-> [m \in Lexes(q) |-> LexStep(q, m, k)]]
<1>5. \A k \in 1..n : \A m \in Lexes(q) :
         step[k][m] = LexStep(q, m, k) /\ step[k][m] \in Lexes(q)
    BY <1>3
<1> HIDE DEF step
<1>6. PICK g : WalkOf(g, Lexes(q), Plainly("code"), step, 0, n)
  <2>1. KeepTo(Lexes(q), step, 0, n)
      BY <1>5 DEF KeepTo
  <2> QED
      BY <1>2, <1>4, <2>1, WalkExists
<1>7. Scan(g)
  <2>1. ASSUME NEW k \in 0..n
        PROVE  g[k] = IF k = 0 THEN Plainly("code") ELSE LexStep(q, g[k - 1], k)
    <3>1. CASE k = 0
        BY <1>6, <3>1 DEF WalkOf
    <3>2. CASE k # 0
      <4>1. k \in (0 + 1)..n /\ k \in 1..n
          BY <1>2, <3>2
      <4>2. g[k - 1] \in Lexes(q) /\ g[k] = step[k][g[k - 1]]
          BY <1>6, <4>1 DEF WalkOf
      <4> QED
          BY <1>5, <3>2, <4>1, <4>2
    <3> QED
        BY <3>1, <3>2
  <2> QED
      BY <1>6, <2>1 DEF WalkOf
<1>8. Scan(mode)
    BY <1>7
<1>9. \A k \in 0..n : mode[k] = IF k = 0 THEN Plainly("code") ELSE LexStep(q, mode[k - 1], k)
  <2> HIDE DEF mode
  <2> QED
      BY <1>8
<1> HIDE DEF mode
<1>10. 0 \in 0..n /\ \A k \in 1..n : k \in 0..n /\ k # 0 /\ k - 1 \in 0..n
    BY <1>2
<1>11. mode[0] = Plainly("code") /\ \A k \in 1..n : mode[k] = LexStep(q, mode[k - 1], k)
    BY <1>9, <1>10
<1> DEFINE U == {k \in Nat : k <= n => mode[k] \in Lexes(q)}
<1>12. 0 \in U
    BY <1>4, <1>11
<1>13. ASSUME NEW k \in Nat, k \in U PROVE k + 1 \in U
  <2> SUFFICES ASSUME k + 1 <= n PROVE mode[k + 1] \in Lexes(q)
      OBVIOUS
  <2>1. k + 1 \in 1..n /\ (k + 1) - 1 = k /\ k <= n
      BY <1>2
  <2>2. mode[k] \in Lexes(q)
      BY <1>13, <2>1
  <2>3. mode[k + 1] = LexStep(q, mode[k], k + 1)
      BY <1>11, <2>1
  <2> QED
      BY <1>3, <2>1, <2>2, <2>3
<1> HIDE DEF U
<1>14. \A k \in Nat : k \in U
    BY <1>12, <1>13, AllNaturals
<1>15. \A k \in 0..n : mode[k] \in Lexes(q)
    BY <1>2, <1>14 DEF U
<1> QED
    BY <1>1, <1>11, <1>15 DEF n

\* Without its names, what PostgreSQL reads is what the scanner sees, unless
\* one of them contains a delimiter.
Seen(m) == IF m.in = "name" THEN Plainly("code") ELSE m

LEMMA NameIsSeen ==
    ASSUME NEW q, Text(q), NEW i \in 1..Len(q), NEW m \in Lexes(q),
           ~(m.in = "name" /\ q[i] = "$" /\ DelimiterAt(q, i) > 0)
    PROVE  Seen(LexStep(q, m, i)) = SeenStep(q, Seen(m), i)
<1>1. /\ m.in \in Ins /\ m.skip \in Nat
      /\ m.in = "code" \/ m.in = "name" => m = Plainly(m.in)
    BY DEF Lexes
<1>2. \A in \in Ins \ {"name"} : Seen(Plainly(in)) = Plainly(in)
    BY DEF Seen, Plainly, Lex
<1>3. Seen(Plainly("name")) = Plainly("code") /\ Seen(Plainly("code")) = Plainly("code")
    BY DEF Seen, Plainly, Lex
<1>4. CASE m.in = "code" \/ m.in = "name"
  <2> DEFINE to == LexStep(q, m, i)
             c == q[i]
             len == DelimiterAt(q, i)
             line == CharAt(q, i + 1, "-")
             opens == Opens(q, i)
             block == Lex("block", 1, 1, <<>>, 0)
             dollar == Lex("dollar", 0, len - 1, SubSeq(q, i, i + len - 1), i + len)
  <2>1. m = Plainly(m.in)
      BY <1>1, <1>4
  <2>2. m.skip = 0 /\ ~(m.skip > 0)
      BY <2>1 DEF Plainly, Lex
  <2>3. to = CASE c = "t" \/ (c = "$" /\ m.in = "name") -> Plainly("name")
               [] c \in {"'", "i"} -> Plainly(c)
               [] c = "-" /\ line -> Plainly("line")
               [] opens -> block
               [] c = "$" /\ m.in # "name" /\ len > 0 -> dollar
               [] OTHER -> Plainly("code")
    <3>1. ~(m.skip = 0 /\ m.in \in {"'", "i"}) /\ ~(m.skip = 0 /\ m.in = "line")
          /\ ~(m.skip = 0 /\ m.in = "block") /\ ~(m.skip = 0 /\ m.in = "dollar")
        BY <1>4
    <3> QED
        BY <2>2, <3>1 DEF LexStep
  <2>4. Seen(m) = Plainly("code")
      BY <1>3, <1>4, <2>1
  <2>5. SeenStep(q, Plainly("code"), i) =
            CASE c \in {"'", "i"} -> Plainly(c)
              [] c = "-" /\ line -> Plainly("line")
              [] opens -> block
              [] c = "$" /\ len > 0 -> dollar
              [] OTHER -> Plainly("code")
    <3> DEFINE p == Plainly("code")
    <3>1. p.skip = 0 /\ p.in = "code" /\ ~(p.skip > 0)
        BY DEF Plainly, Lex
    <3> HIDE DEF p
    <3>2. SeenStep(q, p, i) =
            CASE c \in {"'", "i"} -> Plainly(c)
              [] c = "-" /\ line -> Plainly("line")
              [] opens -> block
              [] c = "$" /\ len > 0 -> dollar
              [] OTHER -> Plainly("code")
        BY <3>1 DEF SeenStep
    <3> QED
        BY <3>2 DEF p
  <2>6. Seen(block) = block /\ Seen(dollar) = dollar
      BY DEF Seen, Lex
  <2>7. opens => c = "/"
      BY DEF Opens
  <2>8. c \in {"'", "i"} => Seen(Plainly(c)) = Plainly(c)
      BY <1>2 DEF Ins
  <2>9. Seen(Plainly("line")) = Plainly("line")
      BY <1>2 DEF Ins
  <2>10. ~(m.in = "name" /\ c = "$" /\ len > 0)
      OBVIOUS
  <2> DEFINE see == SeenStep(q, Plainly("code"), i)
  <2> HIDE DEF to, c, len, line, opens, block, dollar, see
  <2>11. Seen(to) = see
    <3>1. CASE c = "t" \/ (c = "$" /\ m.in = "name")
      <4>0. to = Plainly("name")
          BY <2>3, <2>7, <3>1
      <4>1. Seen(to) = Plainly("code")
          BY <1>3, <4>0
      <4>2. ~(c \in {"'", "i"}) /\ ~(c = "-" /\ line) /\ ~opens /\ ~(c = "$" /\ len > 0)
          BY <2>7, <2>10, <3>1
      <4>3. see = Plainly("code")
          BY <2>5, <4>2 DEF see
      <4> QED
          BY <4>1, <4>3
    <3>2. CASE c \in {"'", "i"}
        BY <2>3, <2>5, <2>7, <2>8, <3>2 DEF see
    <3>3. CASE c = "-" /\ line
        BY <2>3, <2>5, <2>7, <2>9, <3>3 DEF see
    <3>4. CASE opens
        BY <2>3, <2>5, <2>6, <2>7, <3>4 DEF see
    <3>5. CASE c = "$" /\ m.in # "name" /\ len > 0
        BY <2>3, <2>5, <2>6, <2>7, <3>5 DEF see
    <3>6. CASE /\ ~(c = "t" \/ (c = "$" /\ m.in = "name")) /\ ~(c \in {"'", "i"})
               /\ ~(c = "-" /\ line) /\ ~opens /\ ~(c = "$" /\ m.in # "name" /\ len > 0)
      <4>1. to = Plainly("code")
          BY <2>3, <3>6
      <4>2. see = Plainly("code")
          BY <2>5, <3>6 DEF see
      <4> QED
          BY <1>3, <4>1, <4>2
    <3> QED
        BY <3>1, <3>2, <3>3, <3>4, <3>5, <3>6
  <2> QED
      BY <2>4, <2>11 DEF to, see
<1>5. CASE ~(m.in = "code" \/ m.in = "name")
  <2>1. m.in \in {"line", "block", "dollar", "'", "i"} /\ (m.skip > 0 \/ m.skip = 0)
      BY <1>1, <1>5 DEF Ins
  <2>2. Seen(m) = m
      BY <1>5 DEF Seen
  <2>3. LexStep(q, m, i) = SeenStep(q, m, i)
    <3>1. CASE m.skip > 0
      <4>1. ~(m.skip = 0)
          BY <3>1
      <4>2. LexStep(q, m, i) = IF m.skip = 1 /\ m.in = "block" /\ m.depth = 0 THEN Plainly("code")
                               ELSE Lex(m.in, m.depth, m.skip - 1, m.tag, m.since)
          BY <3>1, <4>1, Zenon DEF LexStep
      <4>3. SeenStep(q, m, i) = IF m.skip = 1 /\ m.in = "block" /\ m.depth = 0 THEN Plainly("code")
                                ELSE Lex(m.in, m.depth, m.skip - 1, m.tag, m.since)
          BY <3>1, <4>1, Zenon DEF SeenStep
      <4> QED
          BY <4>2, <4>3
    <3>2. CASE m.skip = 0
      <4>1. ~(m.skip > 0)
          BY <3>2
      <4>2. CASE m.in \in {"'", "i"}
          BY <3>2, <4>1, <4>2 DEF LexStep, SeenStep
      <4>3. CASE m.in = "line"
          BY <3>2, <4>1, <4>3 DEF LexStep, SeenStep
      <4>4. CASE m.in = "block"
          BY <3>2, <4>1, <4>4 DEF LexStep, SeenStep
      <4>5. CASE m.in = "dollar"
          BY <3>2, <4>1, <4>5 DEF LexStep, SeenStep
      <4> QED
          BY <2>1, <4>2, <4>3, <4>4, <4>5
    <3> QED
        BY <2>1, <3>1, <3>2
  <2>4. LexStep(q, m, i).in # "name"
    <3>1. CASE m.skip > 0
      <4>1. ~(m.skip = 0)
          BY <3>1
      <4>2. LexStep(q, m, i) = IF m.skip = 1 /\ m.in = "block" /\ m.depth = 0 THEN Plainly("code")
                               ELSE Lex(m.in, m.depth, m.skip - 1, m.tag, m.since)
          BY <3>1, <4>1, Zenon DEF LexStep
      <4> QED
          BY <1>5, <4>2 DEF Plainly, Lex
    <3>2. CASE m.skip = 0
      <4>1. ~(m.skip > 0)
          BY <3>2
      <4>2. \/ LexStep(q, m, i) = m
            \/ LexStep(q, m, i) = Plainly("code")
            \/ LexStep(q, m, i) = Lex("block", m.depth + 1, 1, <<>>, 0)
            \/ LexStep(q, m, i) = Lex("block", m.depth - 1, 1, <<>>, 0)
        <5>1. CASE m.in \in {"'", "i"}
            BY <3>2, <4>1, <5>1 DEF LexStep
        <5>2. CASE m.in = "line"
            BY <3>2, <4>1, <5>2 DEF LexStep
        <5>3. CASE m.in = "block"
            BY <3>2, <4>1, <5>3 DEF LexStep
        <5>4. CASE m.in = "dollar"
            BY <3>2, <4>1, <5>4 DEF LexStep
        <5> QED
            BY <2>1, <5>1, <5>2, <5>3, <5>4
      <4> QED
          BY <1>5, <4>2 DEF Plainly, Lex
    <3> QED
        BY <2>1, <3>1, <3>2
  <2> QED
      BY <2>2, <2>3, <2>4 DEF Seen
<1> QED
    BY <1>4, <1>5

LEMMA SeenReads ==
    ASSUME NEW q, Text(q), NEW mode, mode = LexedBy(q), ~DollarInName(q, mode)
    PROVE  ReadBy(q, [k \in 0..Len(q) |-> Seen(mode[k])])
<1> DEFINE seen == [k \in 0..Len(q) |-> Seen(mode[k])]
<1>1. Len(q) \in Nat /\ DOMAIN q = 1..Len(q)
    BY DEF Text
<1>2. /\ mode[0] = Plainly("code")
      /\ \A k \in 1..Len(q) : mode[k] = LexStep(q, mode[k - 1], k)
      /\ \A k \in 0..Len(q) : mode[k] \in Lexes(q)
    BY LexedByReads
<1>3. seen[0] = Plainly("code")
    BY <1>1, <1>2 DEF Seen, Plainly, Lex
<1>4. ASSUME NEW k \in 1..Len(q) PROVE seen[k] = SeenStep(q, seen[k - 1], k)
  <2>1. k \in 0..Len(q) /\ k - 1 \in 0..Len(q)
      BY <1>1
  <2>2. seen[k] = Seen(mode[k]) /\ seen[k - 1] = Seen(mode[k - 1])
      BY <2>1
  <2>3. ~(mode[k - 1].in = "name" /\ q[k] = "$" /\ DelimiterAt(q, k) > 0)
      BY <1>1 DEF DollarInName
  <2>4. mode[k - 1] \in Lexes(q) /\ mode[k] = LexStep(q, mode[k - 1], k)
      BY <1>2, <2>1
  <2>5. Seen(LexStep(q, mode[k - 1], k)) = SeenStep(q, Seen(mode[k - 1]), k)
      BY <2>3, <2>4, NameIsSeen
  <2> HIDE DEF seen
  <2> QED
      BY <2>2, <2>4, <2>5
<1> HIDE DEF seen
<1>5. ReadBy(q, seen)
    BY <1>3, <1>4 DEF ReadBy
<1> QED
    BY <1>5 DEF seen

\* One step from each kind of place.
LEMMA FromQuote ==
    ASSUME NEW q, NEW i, NEW c, c = "'" \/ c = "i"
    PROVE  SeenStep(q, Plainly(c), i) = IF q[i] = c THEN Plainly("code") ELSE Plainly(c)
<1> DEFINE m == Plainly(c)
<1>1. m.skip = 0 /\ m.in = c /\ ~(m.skip > 0)
    BY DEF Plainly, Lex
<1> HIDE DEF m
<1>2. SeenStep(q, m, i) = IF q[i] = c THEN Plainly("code") ELSE m
    BY <1>1 DEF SeenStep
<1> QED
    BY <1>2 DEF m

LEMMA FromLine ==
    ASSUME NEW q, NEW i
    PROVE  SeenStep(q, Plainly("line"), i) =
              IF q[i] = "n" THEN Plainly("code") ELSE Plainly("line")
<1> DEFINE m == Plainly("line")
<1>1. m.skip = 0 /\ m.in = "line" /\ ~(m.skip > 0)
    BY DEF Plainly, Lex
<1> HIDE DEF m
<1>2. SeenStep(q, m, i) = IF q[i] = "n" THEN Plainly("code") ELSE m
    BY <1>1 DEF SeenStep
<1> QED
    BY <1>2 DEF m

Block(depth, skip) == Lex("block", depth, skip, <<>>, 0)
LEMMA FromBlock ==
    ASSUME NEW q, NEW i, NEW d \in Int
    PROVE  /\ SeenStep(q, Block(d, 1), i) = IF d = 0 THEN Plainly("code") ELSE Block(d, 0)
           /\ SeenStep(q, Block(d, 0), i) = IF Opens(q, i) THEN Block(d + 1, 1)
                                           ELSE IF Closes(q, i) THEN Block(d - 1, 1) ELSE Block(d, 0)
<1>1. SeenStep(q, Block(d, 1), i) = IF d = 0 THEN Plainly("code") ELSE Block(d, 0)
  <2> DEFINE m == Block(d, 1)
  <2>1. m.skip = 1 /\ m.in = "block" /\ m.depth = d /\ m.tag = <<>> /\ m.since = 0
      BY DEF Block, Lex
  <2> HIDE DEF m
  <2>2. m.skip > 0 /\ m.skip - 1 = 0
      BY <2>1
  <2>3. SeenStep(q, m, i) = IF d = 0 THEN Plainly("code") ELSE Lex("block", d, m.skip - 1, <<>>, 0)
      BY <2>1, <2>2 DEF SeenStep
  <2> QED
      BY <2>2, <2>3 DEF m, Block
<1>2. SeenStep(q, Block(d, 0), i) = IF Opens(q, i) THEN Block(d + 1, 1)
                                   ELSE IF Closes(q, i) THEN Block(d - 1, 1) ELSE Block(d, 0)
  <2> DEFINE m == Block(d, 0)
  <2>1. m.skip = 0 /\ m.in = "block" /\ m.depth = d /\ ~(m.skip > 0)
      BY DEF Block, Lex
  <2> HIDE DEF m
  <2>2. SeenStep(q, m, i) = IF Opens(q, i) THEN Lex("block", d + 1, 1, <<>>, 0)
                           ELSE IF Closes(q, i) THEN Lex("block", d - 1, 1, <<>>, 0) ELSE m
      BY <2>1 DEF SeenStep
  <2> QED
      BY <2>2 DEF m, Block
<1> QED
    BY <1>1, <1>2

Dollar(skip, tag, since) == Lex("dollar", 0, skip, tag, since)
Closing(q, tag, since, i) == i - Len(tag) + 1 >= since /\ SubSeq(q, i - Len(tag) + 1, i) = tag
LEMMA FromDollar ==
    ASSUME NEW q, NEW i, NEW skip \in Nat, NEW tag, NEW since
    PROVE  SeenStep(q, Dollar(skip, tag, since), i) =
              IF skip > 0 THEN Dollar(skip - 1, tag, since)
              ELSE IF Closing(q, tag, since, i) THEN Plainly("code") ELSE Dollar(skip, tag, since)
<1> DEFINE m == Dollar(skip, tag, since)
<1>1. m.skip = skip /\ m.in = "dollar" /\ m.depth = 0 /\ m.tag = tag /\ m.since = since
    BY DEF Dollar, Lex
<1> HIDE DEF m
<1>2. ASSUME skip > 0 PROVE SeenStep(q, m, i) = Lex("dollar", 0, skip - 1, tag, since)
    BY <1>1, <1>2 DEF SeenStep
<1>3. ASSUME skip = 0
      PROVE  SeenStep(q, m, i) = IF i - Len(tag) + 1 >= since /\ SubSeq(q, i - Len(tag) + 1, i) = tag
                                THEN Plainly("code") ELSE m
  <2>1. m.skip = 0 /\ ~(m.skip > 0)
      BY <1>1, <1>3
  <2> QED
      BY <1>1, <2>1 DEF SeenStep
<1>4. skip > 0 \/ skip = 0
    OBVIOUS
<1> QED
    BY <1>2, <1>3, <1>4 DEF m, Dollar, Closing

LEMMA FromCode ==
    ASSUME NEW q, NEW i
    PROVE  SeenStep(q, Plainly("code"), i) =
              CASE q[i] \in {"'", "i"} -> Plainly(q[i])
                [] q[i] = "-" /\ CharAt(q, i + 1, "-") -> Plainly("line")
                [] Opens(q, i) -> Block(1, 1)
                [] q[i] = "$" /\ DelimiterAt(q, i) > 0 ->
                      Dollar(DelimiterAt(q, i) - 1, SubSeq(q, i, i + DelimiterAt(q, i) - 1),
                             i + DelimiterAt(q, i))
                [] OTHER -> Plainly("code")
<1> DEFINE m == Plainly("code")
<1>1. m.skip = 0 /\ m.in = "code" /\ ~(m.skip > 0)
    BY DEF Plainly, Lex
<1> HIDE DEF m
<1>2. SeenStep(q, m, i) =
              CASE q[i] \in {"'", "i"} -> Plainly(q[i])
                [] q[i] = "-" /\ CharAt(q, i + 1, "-") -> Plainly("line")
                [] Opens(q, i) -> Lex("block", 1, 1, <<>>, 0)
                [] q[i] = "$" /\ DelimiterAt(q, i) > 0 ->
                      Lex("dollar", 0, DelimiterAt(q, i) - 1, SubSeq(q, i, i + DelimiterAt(q, i) - 1),
                          i + DelimiterAt(q, i))
                [] OTHER -> Plainly("code")
    BY <1>1 DEF SeenStep
<1> QED
    BY <1>2 DEF m, Block, Dollar

LEMMA FromCodeBy ==
    ASSUME NEW q, NEW i, NEW to, to = SeenStep(q, Plainly("code"), i)
    PROVE  /\ q[i] = "'" \/ q[i] = "i" => to = Plainly(q[i])
           /\ q[i] = "-" /\ CharAt(q, i + 1, "-") => to = Plainly("line")
           /\ Opens(q, i) => to = Block(1, 1)
           /\ q[i] = "$" /\ DelimiterAt(q, i) > 0 =>
                 to = Dollar(DelimiterAt(q, i) - 1, Tag(q, i), i + DelimiterAt(q, i))
           /\ /\ q[i] # "'" /\ q[i] # "i" /\ ~(q[i] = "-" /\ CharAt(q, i + 1, "-"))
              /\ ~Opens(q, i) /\ ~(q[i] = "$" /\ DelimiterAt(q, i) > 0)
              => to = Plainly("code")
<1> DEFINE c == q[i]
           tag == SubSeq(q, i, i + DelimiterAt(q, i) - 1)
           len == DelimiterAt(q, i)
           line == CharAt(q, i + 1, "-")
           opens == Opens(q, i)
<1>1. to = CASE c \in {"'", "i"} -> Plainly(c)
            [] c = "-" /\ line -> Plainly("line")
            [] opens -> Block(1, 1)
            [] c = "$" /\ len > 0 -> Dollar(len - 1, tag, i + len)
            [] OTHER -> Plainly("code")
    BY FromCode
<1>2. tag = Tag(q, i)
    BY DEF Tag
<1>3. opens => c = "/"
    BY DEF Opens
<1> HIDE DEF c, tag, len, line, opens
<1>4. c = "'" \/ c = "i" => to = Plainly(c)
    BY <1>1, <1>3
<1>5. c = "-" /\ line => to = Plainly("line")
    BY <1>1, <1>3
<1>6. opens => to = Block(1, 1)
    BY <1>1, <1>3
<1>7. c = "$" /\ len > 0 => to = Dollar(len - 1, tag, i + len)
    BY <1>1, <1>3
<1>8. c # "'" /\ c # "i" /\ ~(c = "-" /\ line) /\ ~opens /\ ~(c = "$" /\ len > 0) => to = Plainly("code")
    BY <1>1
<1> QED
    BY <1>2, <1>4, <1>5, <1>6, <1>7, <1>8 DEF c, len, line, opens

InCode(mode, j) == mode[j - 1].in = "code" /\ mode[j - 1].skip = 0
Ended(q, mode) == mode[Len(q)].in \in {"code", "line"} /\ mode[Len(q)].skip = 0

\* No question mark of code from i up to e.
Between(q, mode, i, e) == \A j \in i..(e - 1) : q[j] = "?" => ~InCode(mode, j)

\* Where the scanner stands: in code, or at the end of a line comment.
Stands(q, mode, i) ==
    \/ mode[i - 1] = Plainly("code")
    \/ mode[i - 1] = Plainly("line") /\ (i = Len(q) + 1 \/ q[i] = "n")

\* From i one gets to e, or the statement does not end.
Leads(q, mode, i, e) ==
    \/ e = 0 /\ ~Ended(q, mode)
    \/ e \in (i + 1)..(Len(q) + 1) /\ Stands(q, mode, e) /\ Between(q, mode, i, e)

\* One place further from the end.
LEMMA LeadsOn ==
    ASSUME NEW q, Text(q), NEW mode, NEW i \in Int, NEW k \in Int, i < k, NEW e,
           Leads(q, mode, k, e), Between(q, mode, i, k)
    PROVE  Leads(q, mode, i, e)
<1>1. Len(q) \in Nat
    BY DEF Text
<1>2. CASE e = 0 /\ ~Ended(q, mode)
    BY <1>2 DEF Leads
<1>3. CASE e \in (k + 1)..(Len(q) + 1) /\ Stands(q, mode, e) /\ Between(q, mode, k, e)
  <2>1. e \in (i + 1)..(Len(q) + 1) /\ e \in Int
      BY <1>1, <1>3
  <2>2. ASSUME NEW j \in i..(e - 1), q[j] = "?" PROVE ~InCode(mode, j)
    <3>1. j \in i..(k - 1) \/ j \in k..(e - 1)
        BY <2>1
    <3> QED
        BY <1>3, <2>2, <3>1 DEF Between
  <2>3. Between(q, mode, i, e)
      BY <2>2 DEF Between
  <2> QED
      BY <1>3, <2>1, <2>3 DEF Leads
<1> QED
    BY <1>2, <1>3 DEF Leads

\* Down from the far end.
LEMMA FromTheEnd ==
    ASSUME NEW S, NEW lo \in Int, NEW hi \in Int, lo <= hi + 1, hi + 1 \in S,
           \A k \in lo..hi : (\A j \in (k + 1)..(hi + 1) : j \in S) => k \in S
    PROVE  \A k \in lo..(hi + 1) : k \in S
<1> DEFINE U == {m \in Nat : \A j \in ((hi + 1) - m)..(hi + 1) : j >= lo => j \in S}
<1>1. 0 \in U
  <2>1. \A j \in ((hi + 1) - 0)..(hi + 1) : j = hi + 1
      OBVIOUS
  <2> QED
      BY <2>1
<1>2. ASSUME NEW m \in Nat, m \in U PROVE m + 1 \in U
  <2> SUFFICES ASSUME NEW j \in ((hi + 1) - (m + 1))..(hi + 1), j >= lo PROVE j \in S
      OBVIOUS
  <2>1. CASE j >= (hi + 1) - m
    <3>1. j \in ((hi + 1) - m)..(hi + 1)
        BY <2>1
    <3> QED
        BY <1>2, <3>1
  <2>2. CASE ~(j >= (hi + 1) - m)
    <3>1. j = (hi + 1) - (m + 1) /\ j \in lo..hi /\ j + 1 = (hi + 1) - m
        BY <2>2
    <3>2. ASSUME NEW k \in (j + 1)..(hi + 1) PROVE k \in S
      <4>1. k \in ((hi + 1) - m)..(hi + 1) /\ k >= lo
          BY <3>1
      <4> QED
          BY <1>2, <4>1
    <3> QED
        BY <3>1, <3>2
  <2> QED
      BY <2>1, <2>2
<1> HIDE DEF U
<1>3. \A m \in Nat : m \in U
    BY <1>1, <1>2, AllNaturals
<1>4. (hi + 1) - lo \in Nat /\ (hi + 1) - ((hi + 1) - lo) = lo
    OBVIOUS
<1>5. (hi + 1) - lo \in U
    BY <1>3, <1>4
<1> SUFFICES ASSUME NEW k \in lo..(hi + 1) PROVE k \in S
    OBVIOUS
<1>6. \A j \in ((hi + 1) - ((hi + 1) - lo))..(hi + 1) : j >= lo => j \in S
    BY <1>5 DEF U
<1> QED
    BY <1>4, <1>6

\* A literal.
LEMMA QuoteLeads ==
    ASSUME NEW q, Text(q), NEW mode, ReadBy(q, mode), NEW i \in 1..Len(q),
           q[i] = "'" \/ q[i] = "i", mode[i] = Plainly(q[i]), ~(mode[i - 1].in = q[i])
    PROVE  Leads(q, mode, i + 1, QuoteEnd(q, i))
<1> DEFINE n == Len(q)
           c == q[i]
<1>1. PICK end :
              /\ QuoteEnd(q, i) = end[i + 1]
              /\ end[n + 1] = 0
              /\ \A j \in (i + 1)..n :
                    end[j] = IF q[j] # c THEN end[j + 1]
                             ELSE IF CharAt(q, j + 1, c) THEN end[j + 2] ELSE j + 1
    BY QuoteEndIs
<1>2. n \in Nat /\ i \in Int /\ i >= 1 /\ i <= n /\ i + 1 <= n + 1
    BY DEF Text
<1>3. /\ Plainly(c).in = c /\ Plainly(c).skip = 0 /\ c # "code" /\ c # "line" /\ c # "?"
      /\ c = "'" \/ c = "i"
    BY DEF Plainly, Lex
<1>4. \A k \in 1..n : mode[k] = SeenStep(q, mode[k - 1], k)
    BY DEF ReadBy
<1> DEFINE S == {j \in (i + 1)..(n + 1) : mode[j - 1] = Plainly(c) => Leads(q, mode, j, end[j])}
<1> HIDE DEF n, c
<1>5. n + 1 \in S
  <2>1. n + 1 \in (i + 1)..(n + 1) /\ (n + 1) - 1 = n
      BY <1>2
  <2>2. ASSUME mode[n] = Plainly(c) PROVE ~Ended(q, mode)
      BY <1>3, <2>2 DEF Ended, n
  <2>3. mode[n] = Plainly(c) => Leads(q, mode, n + 1, end[n + 1])
      BY <1>1, <2>2 DEF Leads
  <2> QED
      BY <2>1, <2>3
<1>6. ASSUME NEW j \in (i + 1)..n, \A k \in (j + 1)..(n + 1) : k \in S PROVE j \in S
  <2> SUFFICES ASSUME mode[j - 1] = Plainly(c) PROVE Leads(q, mode, j, end[j])
      BY <1>2
  <2>1. j \in 1..n /\ j \in Int /\ j + 1 \in (j + 1)..(n + 1) /\ (j + 1) - 1 = j
      BY <1>2
  <2>2. mode[j] = IF q[j] = c THEN Plainly("code") ELSE Plainly(c)
      BY <1>3, <1>4, <2>1, FromQuote
  <2>3. ~InCode(mode, j)
      BY <1>3 DEF InCode
  <2>4. Between(q, mode, j, j + 1)
    <3>1. \A k \in j..((j + 1) - 1) : k = j
        BY <2>1
    <3> QED
        BY <2>3, <3>1 DEF Between
  <2>5. CASE q[j] # c
    <3>1. Leads(q, mode, j + 1, end[j + 1])
        BY <1>6, <2>1, <2>2, <2>5
    <3>2. end[j] = end[j + 1]
        BY <1>1, <2>5
    <3> QED
        BY <2>1, <2>4, <3>1, <3>2, LeadsOn
  <2>6. CASE q[j] = c /\ CharAt(q, j + 1, c)
    <3>1. q[j + 1] = c /\ j + 1 <= n /\ j + 1 \in 1..n /\ j + 2 \in (j + 1)..(n + 1)
          /\ (j + 2) - 1 = j + 1
        BY <2>1, <2>6 DEF CharAt, n
    <3>2. mode[j + 1] = Plainly(c)
      <4>1. mode[j + 1] = SeenStep(q, mode[(j + 1) - 1], j + 1)
          BY <1>4, <3>1
      <4>2. mode[j + 1] = SeenStep(q, Plainly("code"), j + 1)
          BY <2>1, <2>2, <2>6, <4>1
      <4>3. SeenStep(q, Plainly("code"), j + 1) = Plainly(q[j + 1])
        <5>1. q[j + 1] = "'" \/ q[j + 1] = "i"
            BY <1>3, <3>1
        <5> QED
            BY <5>1, FromCodeBy
      <4> QED
          BY <3>1, <4>2, <4>3
    <3>3. Leads(q, mode, j + 2, end[j + 2])
        BY <1>6, <3>1, <3>2
    <3>4. Between(q, mode, j, j + 2)
      <4>1. \A k \in j..((j + 2) - 1) : k = j \/ k = j + 1
          BY <2>1
      <4> QED
          BY <1>3, <2>3, <3>1, <4>1 DEF Between
    <3>5. end[j] = end[j + 2]
        BY <1>1, <2>6
    <3>6. j + 2 \in Int /\ j < j + 2
        BY <2>1
    <3> QED
        BY <2>1, <3>3, <3>4, <3>5, <3>6, LeadsOn
  <2>7. CASE q[j] = c /\ ~CharAt(q, j + 1, c)
    <3>1. end[j] = j + 1 /\ mode[(j + 1) - 1] = Plainly("code")
        BY <1>1, <2>1, <2>2, <2>7
    <3>2. Stands(q, mode, j + 1)
        BY <3>1 DEF Stands
    <3>3. j + 1 \in (j + 1)..(Len(q) + 1)
        BY <2>1 DEF n
    <3> QED
        BY <2>4, <3>1, <3>2, <3>3 DEF Leads
  <2> QED
      BY <2>5, <2>6, <2>7
<1>7. i + 1 \in S
  <2> DEFINE lo == i + 1
  <2>1. lo \in Int /\ n \in Int /\ lo <= n + 1 /\ lo \in lo..(n + 1)
      BY <1>2
  <2>2. \A k \in lo..n : (\A j \in (k + 1)..(n + 1) : j \in S) => k \in S
      BY <1>6
  <2> HIDE DEF S, lo
  <2>3. \A k \in lo..(n + 1) : k \in S
      BY <1>5, <2>1, <2>2, FromTheEnd
  <2> QED
      BY <2>1, <2>3 DEF lo
<1>8. (i + 1) - 1 = i /\ mode[i] = Plainly(c)
    BY <1>2 DEF c
<1>9. Leads(q, mode, i + 1, end[i + 1])
    BY <1>7, <1>8
<1> QED
    BY <1>1, <1>9

\* A block comment, at any depth.
LEMMA BlockLeads ==
    ASSUME NEW q, Text(q), NEW mode, ReadBy(q, mode), NEW i \in 1..Len(q),
           Opens(q, i), mode[i] = Block(1, 1)
    PROVE  Leads(q, mode, i + 2, BlockEnd(q, i))
<1> DEFINE n == Len(q)
<1>1. PICK end :
              /\ BlockEnd(q, i) = end[i][0]
              /\ \A d \in Int : end[n + 1][d] = 0
              /\ \A j \in i..n, d \in Int :
                    end[j][d] = IF Opens(q, j) THEN end[j + 2][d + 1]
                                ELSE IF Closes(q, j) THEN IF d = 1 THEN j + 2 ELSE end[j + 2][d - 1]
                                ELSE end[j + 1][d]
    BY BlockEndIs
<1>2. n \in Nat /\ i \in Int /\ i >= 1 /\ i <= n
    BY DEF Text
<1>3. \A d, e \in Int : Block(d, e).in = "block"
    BY DEF Block, Lex
<1>4. \A k \in 1..n : mode[k] = SeenStep(q, mode[k - 1], k)
    BY DEF ReadBy
<1>5. \A j \in Int : Opens(q, j) \/ Closes(q, j) => j + 1 <= n
    BY DEF Opens, Closes, CharAt
<1> DEFINE At(j) == \A d \in Nat \ {0} : mode[j - 1] = Block(d, 0) => Leads(q, mode, j, end[j][d])
           S == {j \in i..(n + 1) : At(j)}
<1> HIDE DEF n
<1>6. n + 1 \in S
  <2>1. n + 1 \in i..(n + 1) /\ (n + 1) - 1 = n
      BY <1>2
  <2>2. ASSUME NEW d \in Nat \ {0}, mode[n] = Block(d, 0) PROVE ~Ended(q, mode)
    <3>1. mode[n].in = "block"
        BY <1>3, <2>2
    <3> QED
        BY <3>1 DEF Ended, n
  <2>3. At(n + 1)
      BY <1>1, <2>1, <2>2 DEF Leads
  <2> QED
      BY <2>1, <2>3
<1>7. ASSUME NEW j \in i..n, \A k \in (j + 1)..(n + 1) : k \in S PROVE j \in S
  <2> SUFFICES ASSUME NEW d \in Nat \ {0}, mode[j - 1] = Block(d, 0)
               PROVE  Leads(q, mode, j, end[j][d])
      BY <1>2
  <2>1. j \in 1..n /\ j \in Int /\ j + 1 \in (j + 1)..(n + 1) /\ (j + 1) - 1 = j /\ d \in Int
      BY <1>2
  <2>2. mode[j] = IF Opens(q, j) THEN Block(d + 1, 1)
                  ELSE IF Closes(q, j) THEN Block(d - 1, 1) ELSE Block(d, 0)
      BY <1>4, <2>1, FromBlock
  <2>3. ~InCode(mode, j)
    <3>1. 0 \in Int /\ Block(d, 0).in = "block"
        BY <1>3, <2>1
    <3>2. mode[j - 1].in = "block"
        BY <3>1
    <3> QED
        BY <3>2 DEF InCode
  <2>4. end[j][d] = IF Opens(q, j) THEN end[j + 2][d + 1]
                    ELSE IF Closes(q, j) THEN IF d = 1 THEN j + 2 ELSE end[j + 2][d - 1]
                    ELSE end[j + 1][d]
      BY <1>1, <2>1
  <2>5. CASE ~Opens(q, j) /\ ~Closes(q, j)
    <3>1. Leads(q, mode, j + 1, end[j + 1][d])
        BY <1>7, <2>1, <2>2, <2>5
    <3>2. end[j][d] = end[j + 1][d]
        BY <2>4, <2>5
    <3>3. Between(q, mode, j, j + 1)
      <4>1. \A k \in j..((j + 1) - 1) : k = j
          BY <2>1
      <4> QED
          BY <2>3, <4>1 DEF Between
    <3>4. j + 1 \in Int /\ j < j + 1
        BY <2>1
    <3> QED
        BY <2>1, <3>1, <3>2, <3>3, <3>4, LeadsOn
\* Two characters that open or close leave the depth d + 1 or d - 1.
  <2>6. ASSUME Opens(q, j) \/ Closes(q, j), NEW c \in Int, mode[j] = Block(c, 1)
        PROVE  /\ j + 2 \in (j + 1)..(n + 1) /\ (j + 2) - 1 = j + 1
               /\ mode[j + 1] = IF c = 0 THEN Plainly("code") ELSE Block(c, 0)
               /\ Between(q, mode, j, j + 2)
    <3>1. j + 1 <= n /\ j + 1 \in 1..n /\ j + 2 \in (j + 1)..(n + 1) /\ (j + 2) - 1 = j + 1
        BY <1>2, <1>5, <2>1, <2>6
    <3>2. mode[j + 1] = SeenStep(q, mode[(j + 1) - 1], j + 1)
        BY <1>4, <3>1
    <3>3. mode[j + 1] = SeenStep(q, Block(c, 1), j + 1)
        BY <2>1, <2>6, <3>2
    <3>4. mode[j + 1] = IF c = 0 THEN Plainly("code") ELSE Block(c, 0)
        BY <3>3, FromBlock
    <3>5. ~InCode(mode, j + 1)
      <4>1. 1 \in Int /\ Block(c, 1).in = "block"
          BY <1>3
      <4>2. mode[j].in = "block"
          BY <2>6, <4>1
      <4>3. mode[(j + 1) - 1].in = "block"
          BY <2>1, <4>2
      <4> QED
          BY <4>3 DEF InCode
    <3>6. \A k \in j..((j + 2) - 1) : k = j \/ k = j + 1
        BY <2>1
    <3> QED
        BY <2>3, <3>1, <3>4, <3>5, <3>6 DEF Between
  <2>7. CASE Opens(q, j)
    <3>1. d + 1 \in Int /\ d + 1 # 0 /\ d + 1 \in Nat \ {0}
        OBVIOUS
    <3>2. /\ j + 2 \in (j + 1)..(n + 1) /\ (j + 2) - 1 = j + 1
          /\ mode[j + 1] = Block(d + 1, 0) /\ Between(q, mode, j, j + 2)
        BY <2>2, <2>6, <2>7, <3>1
    <3>3. Leads(q, mode, j + 2, end[j + 2][d + 1])
        BY <1>7, <3>1, <3>2
    <3>4. end[j][d] = end[j + 2][d + 1] /\ j + 2 \in Int /\ j < j + 2
        BY <2>1, <2>4, <2>7
    <3> QED
        BY <2>1, <3>2, <3>3, <3>4, LeadsOn
  <2>8. CASE ~Opens(q, j) /\ Closes(q, j) /\ d # 1
    <3>1. d - 1 \in Int /\ d - 1 # 0 /\ d - 1 \in Nat \ {0}
        BY <2>8
    <3>2. /\ j + 2 \in (j + 1)..(n + 1) /\ (j + 2) - 1 = j + 1
          /\ mode[j + 1] = Block(d - 1, 0) /\ Between(q, mode, j, j + 2)
        BY <2>2, <2>6, <2>8, <3>1
    <3>3. Leads(q, mode, j + 2, end[j + 2][d - 1])
        BY <1>7, <3>1, <3>2
    <3>4. end[j][d] = end[j + 2][d - 1] /\ j + 2 \in Int /\ j < j + 2
        BY <2>1, <2>4, <2>8
    <3> QED
        BY <2>1, <3>2, <3>3, <3>4, LeadsOn
  <2>9. CASE ~Opens(q, j) /\ Closes(q, j) /\ d = 1
    <3>1. d - 1 \in Int /\ d - 1 = 0
        BY <2>9
    <3>2. /\ j + 2 \in (j + 1)..(n + 1) /\ (j + 2) - 1 = j + 1
          /\ mode[j + 1] = Plainly("code") /\ Between(q, mode, j, j + 2)
        BY <2>2, <2>6, <2>9, <3>1
    <3>3. Stands(q, mode, j + 2)
        BY <3>2 DEF Stands
    <3>4. end[j][d] = j + 2
        BY <2>4, <2>9
    <3> QED
        BY <3>2, <3>3, <3>4 DEF Leads, n
  <2> QED
      BY <2>5, <2>7, <2>8, <2>9
<1>8. \A k \in i..(n + 1) : k \in S
  <2>1. i \in Int /\ n \in Int /\ i <= n + 1
      BY <1>2
  <2>2. \A k \in i..n : (\A j \in (k + 1)..(n + 1) : j \in S) => k \in S
      BY <1>7
  <2> HIDE DEF S
  <2> QED
      BY <1>6, <2>1, <2>2, FromTheEnd
<1>9. i + 1 \in 1..n /\ i + 2 \in i..(n + 1) /\ (i + 2) - 1 = i + 1 /\ (i + 1) - 1 = i
    BY <1>2, <1>5
<1>10. mode[i + 1] = Block(1, 0)
  <2>1. mode[i + 1] = SeenStep(q, mode[(i + 1) - 1], i + 1)
      BY <1>4, <1>9
  <2>2. mode[i + 1] = SeenStep(q, Block(1, 1), i + 1)
      BY <1>9, <2>1
  <2> QED
      BY <2>2, FromBlock
<1>11. BlockEnd(q, i) = end[i + 2][1]
  <2>1. i \in i..n /\ 0 \in Int /\ 0 + 1 = 1
      BY <1>2
  <2>2. end[i][0] = end[i + 2][0 + 1]
      BY <1>1, <2>1
  <2> QED
      BY <1>1, <2>1, <2>2
<1>12. At(i + 2)
    BY <1>8, <1>9
<1> QED
    BY <1>9, <1>10, <1>11, <1>12

\* A line comment, up to its newline.
LEMMA LineLeads ==
    ASSUME NEW q, Text(q), NEW mode, ReadBy(q, mode), NEW i \in 1..Len(q),
           q[i] = "-", mode[i] = Plainly("line")
    PROVE  \/ Leads(q, mode, i + 1, LineEnd(q, i))
           \/ LineEnd(q, i) = i + 1 /\ Stands(q, mode, i + 1)
<1> DEFINE n == Len(q)
           S == {n + 1} \cup {j \in i..n : q[j] = "n"}
           e == Min(S)
<1>1. LineEnd(q, i) = e
    BY DEF LineEnd
<1>2. n \in Nat /\ i \in Int /\ i >= 1 /\ i <= n
    BY DEF Text
<1> HIDE DEF n
<1>3. S \subseteq Nat /\ S # {} /\ \A j \in S : j >= i + 1 /\ j <= n + 1
  <2>1. \A j \in i..n : q[j] = "n" => j # i
      OBVIOUS
  <2> QED
      BY <1>2, <2>1
<1>4. /\ e \in S /\ \A j \in S : e <= j
  <2>1. \E x \in S : \A y \in S : x <= y
      BY <1>3, SmallestOf
  <2> HIDE DEF S
  <2> QED
      BY <2>1 DEF Min
<1>5. e \in Nat /\ e >= i + 1 /\ e <= n + 1
    BY <1>3, <1>4
<1> HIDE DEF e
<1>6. \A j \in i..(e - 1) : q[j] # "n"
  <2>1. ASSUME NEW j \in i..(e - 1), q[j] = "n" PROVE FALSE
    <3>1. j \in i..n /\ j < e
        BY <1>2, <1>5
    <3>2. j \in S
        BY <2>1, <3>1
    <3> QED
        BY <1>4, <1>5, <3>1, <3>2
  <2> QED
      BY <2>1
<1>7. e = n + 1 \/ q[e] = "n"
    BY <1>4
<1> HIDE DEF S
<1>8. \A k \in i..(e - 1) : mode[k] = Plainly("line")
  <2> DEFINE U == {m \in Nat : i + m <= e - 1 => mode[i + m] = Plainly("line")}
  <2>1. 0 \in U
      BY <1>2
  <2>2. ASSUME NEW m \in Nat, m \in U PROVE m + 1 \in U
    <3> SUFFICES ASSUME i + (m + 1) <= e - 1 PROVE mode[i + (m + 1)] = Plainly("line")
        OBVIOUS
    <3> DEFINE k == i + (m + 1)
    <3>1. k \in 1..n /\ k - 1 = i + m /\ k \in i..(e - 1) /\ i + m <= e - 1
        BY <1>2, <1>5
    <3>2. mode[k - 1] = Plainly("line")
        BY <2>2, <3>1
    <3> HIDE DEF k
    <3>3. mode[k] = SeenStep(q, Plainly("line"), k)
        BY <3>1, <3>2 DEF ReadBy, n
    <3>4. mode[k] = Plainly("line")
        BY <1>6, <3>1, <3>3, FromLine
    <3> QED
        BY <3>4 DEF k
  <2> HIDE DEF U
  <2>3. \A m \in Nat : m \in U
      BY <2>1, <2>2, AllNaturals
  <2>4. ASSUME NEW k \in i..(e - 1) PROVE mode[k] = Plainly("line")
    <3>1. k - i \in Nat /\ i + (k - i) = k /\ k <= e - 1
        BY <1>2, <1>5
    <3>2. k - i \in U
        BY <2>3, <3>1
    <3> QED
        BY <3>1, <3>2 DEF U
  <2> QED
      BY <2>4
<1>9. Stands(q, mode, e)
  <2>1. e - 1 \in i..(e - 1)
      BY <1>2, <1>5
  <2> QED
      BY <1>7, <1>8, <2>1 DEF Stands, n
<1>10. Between(q, mode, i + 1, e)
  <2>1. ASSUME NEW j \in (i + 1)..(e - 1) PROVE ~InCode(mode, j)
    <3>1. j - 1 \in i..(e - 1)
        BY <1>2, <1>5
    <3>2. mode[j - 1] = Plainly("line")
        BY <1>8, <3>1
    <3> QED
        BY <3>2 DEF InCode, Plainly, Lex
  <2> QED
      BY <2>1 DEF Between
<1>11. e = i + 1 \/ e \in ((i + 1) + 1)..(Len(q) + 1)
    BY <1>2, <1>5 DEF n
<1>12. Leads(q, mode, i + 1, e) \/ (e = i + 1 /\ Stands(q, mode, i + 1))
    BY <1>9, <1>10, <1>11 DEF Leads
<1> QED
    BY <1>1, <1>12

\* Pieces of a statement.
LEMMA PieceIs ==
    ASSUME NEW q, Text(q), NEW a \in 1..Len(q), NEW b \in Int, b >= a
    PROVE  Len(SubSeq(q, a, b)) = b - a + 1
<1> DEFINE S == {q[i] : i \in DOMAIN q}
<1>1. q \in Seq(S) /\ Len(q) \in Nat
    BY DEF Text
<1> HIDE DEF S
<1>2. SubSeq(q, a, b) = [i \in 1..(1 + b - a) |-> q[i + a - 1]]
    BY <1>1
<1>3. 1 + b - a \in Nat
    BY <1>1
<1> QED
    BY <1>2, <1>3

\* A dollar quote, up to the next delimiter like its own.
LEMMA DollarLeads ==
    ASSUME NEW q, Text(q), NEW mode, ReadBy(q, mode), NEW i \in 1..Len(q),
           NEW len, len = DelimiterAt(q, i), len > 0,
           mode[i] = Dollar(len - 1, Tag(q, i), i + len)
    PROVE  Leads(q, mode, i + 1, DollarEnd(q, i, len))
<1> DEFINE n == Len(q)
           tag == Tag(q, i)
           since == i + len
           body == Dollar(0, tag, since)
           closes(k) == Closing(q, tag, since, k)
           ends == {j \in since..(n - len + 1) : SubSeq(q, j, j + len - 1) = tag}
<1>1. /\ n \in Nat /\ i \in Int /\ i >= 1 /\ i <= n /\ len \in Nat /\ len >= 2
      /\ since - 1 <= n /\ since \in Int
  <2>1. n \in Nat /\ i \in Int /\ i >= 1 /\ i <= n
      BY DEF Text
  <2>2. len \in Nat /\ len >= 2 /\ i + len - 1 <= n
      BY DelimiterIs
  <2> QED
      BY <2>1, <2>2
<1>2. Len(tag) = len
  <2> DEFINE b == i + len - 1
  <2>1. b \in Int /\ b >= i /\ b - i + 1 = len
      BY <1>1
  <2>2. tag = SubSeq(q, i, b)
      BY DEF Tag
  <2> HIDE DEF b, tag
  <2> QED
      BY <2>1, <2>2, PieceIs
<1>3. DollarEnd(q, i, len) = IF ends = {} THEN 0 ELSE Min(ends) + len
    BY DEF DollarEnd, Tag
<1>4. \A k \in 1..n : mode[k] = SeenStep(q, mode[k - 1], k)
    BY DEF ReadBy
<1>5. mode[i] = Dollar(len - 1, tag, since)
    OBVIOUS
<1>6. since = i + len
    OBVIOUS
<1>7. n = Len(q)
    OBVIOUS
<1> HIDE DEF n, tag, since
<1>8. ASSUME NEW k \in 1..n, NEW skip \in Nat, mode[k - 1] = Dollar(skip, tag, since)
      PROVE  mode[k] = IF skip > 0 THEN Dollar(skip - 1, tag, since)
                       ELSE IF closes(k) THEN Plainly("code") ELSE Dollar(skip, tag, since)
    BY <1>4, <1>8, FromDollar
<1>9. mode[since - 1] = body /\ \A k \in Int : k >= i /\ k <= since - 1 => mode[k].in = "dollar"
  <2> DEFINE P(m) == mode[i + m] = Dollar(len - 1 - m, tag, since)
             U == {m \in Nat : m <= len - 1 => P(m)}
  <2>1. 0 \in U
    <3>1. i + 0 = i /\ len - 1 - 0 = len - 1
        BY <1>1
    <3> QED
        BY <1>5, <3>1
  <2>2. ASSUME NEW m \in Nat, m \in U PROVE m + 1 \in U
    <3> SUFFICES ASSUME m + 1 <= len - 1
                 PROVE  mode[i + (m + 1)] = Dollar(len - 1 - (m + 1), tag, since)
        OBVIOUS
    <3> DEFINE k == i + (m + 1)
               skip == len - 1 - m
    <3>0. k \in Int /\ k >= 1 /\ k <= since - 1
        BY <1>1, <1>6
    <3>1. k \in 1..n /\ k - 1 = i + m /\ m <= len - 1 /\ skip \in Nat /\ skip > 0 /\ skip - 1 = len - 1 - (m + 1)
      <4>1. k \in 1..n
          BY <1>1, <3>0
      <4>2. k - 1 = i + m
          BY <1>1
      <4>3. m <= len - 1 /\ skip \in Nat /\ skip > 0 /\ skip - 1 = len - 1 - (m + 1)
          BY <1>1
      <4> QED
          BY <4>1, <4>2, <4>3
    <3>2. mode[k - 1] = Dollar(skip, tag, since)
        BY <2>2, <3>1
    <3> HIDE DEF k, skip
    <3>3. mode[k] = Dollar(skip - 1, tag, since)
        BY <1>8, <3>1, <3>2
    <3> QED
        BY <3>1, <3>3 DEF k
  <2> HIDE DEF U
  <2>3. \A m \in Nat : m \in U
      BY <2>1, <2>2, AllNaturals
  <2>4. ASSUME NEW m \in Nat, m <= len - 1 PROVE P(m)
    <3>1. m \in U
        BY <2>3
    <3> QED
        BY <2>4, <3>1 DEF U
  <2>5. len - 1 \in Nat /\ i + (len - 1) = since - 1 /\ len - 1 - (len - 1) = 0 /\ len - 1 <= len - 1
      BY <1>1, <1>6
  <2>6. P(len - 1)
      BY <2>4, <2>5
  <2>7. mode[since - 1] = body
      BY <2>5, <2>6
  <2>8. ASSUME NEW k \in Int, k >= i, k <= since - 1 PROVE mode[k].in = "dollar"
    <3> DEFINE m == k - i
    <3>1. m \in Nat /\ m <= len - 1 /\ i + m = k
        BY <1>1, <1>6, <2>8
    <3> HIDE DEF m
    <3>2. P(m)
        BY <2>4, <3>1
    <3>3. mode[k] = Dollar(len - 1 - m, tag, since)
        BY <3>1, <3>2
    <3> QED
        BY <3>3 DEF Dollar, Lex
  <2> QED
      BY <2>7, <2>8
<1>10. body.in = "dollar"
    BY DEF Dollar, Lex
<1>11. ASSUME NEW k \in 1..n, mode[k - 1] = body
       PROVE  mode[k] = IF closes(k) THEN Plainly("code") ELSE body
  <2>1. 0 \in Nat /\ ~(0 > 0)
      OBVIOUS
  <2> QED
      BY <1>8, <1>11, <2>1
<1>12. \A k \in Int : closes(k) <=> k - len + 1 >= since /\ SubSeq(q, k - len + 1, k) = tag
    BY <1>2 DEF Closing
<1> HIDE DEF body, closes
\* As long as nothing closes, the text is inside.
<1>13. ASSUME NEW e \in Int, e <= n, \A k \in since..e : ~closes(k)
       PROVE  \A k \in (since - 1)..e : mode[k] = body
  <2> DEFINE U == {m \in Nat : since - 1 + m <= e => mode[since - 1 + m] = body}
  <2>1. 0 \in U
    <3>1. since - 1 + 0 = since - 1
        BY <1>1
    <3> QED
        BY <1>9, <3>1
  <2>2. ASSUME NEW m \in Nat, m \in U PROVE m + 1 \in U
    <3> SUFFICES ASSUME since - 1 + (m + 1) <= e PROVE mode[since - 1 + (m + 1)] = body
        OBVIOUS
    <3> DEFINE k == since - 1 + (m + 1)
    <3>0. since >= 1
        BY <1>1, <1>6
    <3>1. k \in 1..n /\ k \in since..e /\ k - 1 = since - 1 + m /\ since - 1 + m <= e
        BY <1>1, <1>13, <3>0
    <3>2. mode[k - 1] = body
        BY <2>2, <3>1
    <3> HIDE DEF k
    <3>3. mode[k] = body
        BY <1>11, <1>13, <3>1, <3>2
    <3> QED
        BY <3>3 DEF k
  <2> HIDE DEF U
  <2>3. \A m \in Nat : m \in U
      BY <2>1, <2>2, AllNaturals
  <2>4. ASSUME NEW k \in (since - 1)..e PROVE mode[k] = body
    <3> DEFINE m == k - (since - 1)
    <3>1. m \in Nat /\ since - 1 + m = k /\ k <= e
        BY <1>1, <1>13
    <3> HIDE DEF m
    <3>2. m \in U
        BY <2>3, <3>1
    <3> QED
        BY <3>1, <3>2 DEF U
  <2> QED
      BY <2>4
<1>14. ASSUME NEW e \in Int, e <= n, \A k \in (since - 1)..e : mode[k] = body
       PROVE  Between(q, mode, i + 1, e + 2)
  <2>1. ASSUME NEW j \in (i + 1)..((e + 2) - 1) PROVE ~InCode(mode, j)
    <3> DEFINE k == j - 1
    <3>1. k \in Int /\ k >= i /\ k <= e
        BY <1>1, <1>14
    <3> HIDE DEF k
    <3>2. mode[k].in = "dollar"
      <4>1. CASE k >= since - 1
        <5>1. k \in (since - 1)..e
            BY <1>1, <1>14, <3>1, <4>1
        <5> QED
            BY <1>10, <1>14, <5>1
      <4>2. CASE k <= since - 1
          BY <1>9, <3>1, <4>2
      <4> QED
          BY <1>1, <3>1, <4>1, <4>2
    <3> QED
        BY <3>2 DEF InCode, k
  <2> QED
      BY <2>1 DEF Between
<1>15. CASE ends = {}
  <2>1. ASSUME NEW k \in since..n, closes(k) PROVE FALSE
    <3> DEFINE j == k - len + 1
    <3>1. k \in Int /\ k <= n
        BY <1>1
    <3>2. j >= since /\ SubSeq(q, j, k) = tag
        BY <1>12, <2>1, <3>1
    <3>3. j \in since..(n - len + 1) /\ j + len - 1 = k
      <4>1. j \in Int /\ j + len - 1 = k
          BY <1>1, <3>1
      <4>2. j >= since
          BY <3>2
      <4>3. j <= n - len + 1
          BY <1>1, <3>1
      <4> QED
          BY <1>1, <4>1, <4>2, <4>3
    <3> HIDE DEF j
    <3>4. j \in ends
        BY <3>2, <3>3
    <3> QED
        BY <1>15, <3>4
  <2>2. n \in (since - 1)..n /\ n \in Int /\ n <= n
      BY <1>1
  <2>3. mode[n] = body
      BY <1>13, <2>1, <2>2
  <2>4. ~Ended(q, mode)
      BY <1>7, <1>10, <2>3 DEF Ended
  <2>5. DollarEnd(q, i, len) = 0
      BY <1>3, <1>15
  <2> QED
      BY <2>4, <2>5 DEF Leads
<1>16. ASSUME ends # {} PROVE Leads(q, mode, i + 1, DollarEnd(q, i, len))
  <2>1. PICK first \in ends : first = Min(ends) /\ \A j \in ends : first <= j
    <3>1. ends \subseteq Nat
        BY <1>1, <1>6
    <3>2. \E x \in ends : \A y \in ends : x <= y
        BY <1>16, <3>1, SmallestOf
    <3> HIDE DEF ends
    <3> QED
        BY <3>2 DEF Min
  <2> DEFINE k == first + len - 1
  <2>2. first \in since..(n - len + 1) /\ SubSeq(q, first, k) = tag
      BY <2>1
  <2> HIDE DEF ends
  <2>3. /\ k \in Int /\ k <= n /\ k >= since + 1 /\ k - len + 1 = first /\ first >= since
        /\ k \in 1..n /\ k - 1 \in Int /\ k - 1 <= n /\ k - 1 >= since - 1
        /\ first \in Int /\ first + len = k + 1 /\ k + 1 = (k - 1) + 2
        /\ k + 1 - 1 = k
    <3>1. first \in Int /\ first >= since /\ first <= n - len + 1
        BY <1>1, <2>2
    <3>2. k \in Int /\ k - len + 1 = first /\ first + len = k + 1
      <4>1. len \in Int
          BY <1>1
      <4>2. k \in Int
          BY <3>1, <4>1
      <4>3. k - len + 1 = first
          BY <3>1, <4>1
      <4>4. first + len = k + 1
          BY <3>1, <4>1
      <4> QED
          BY <4>2, <4>3, <4>4
    <3>3. k >= since + 1 /\ k <= n
      <4>1. n \in Int /\ len \in Int /\ len >= 2 /\ since \in Int
          BY <1>1
      <4> HIDE DEF since, n
      <4>2. k >= since + 1
          BY <3>1, <4>1
      <4>3. k <= n
          BY <3>1, <4>1
      <4> QED
          BY <4>2, <4>3
    <3>4. since >= 1
        BY <1>1, <1>6
    <3> HIDE DEF k
    <3>5. k \in 1..n /\ k - 1 \in Int /\ k - 1 <= n /\ k - 1 >= since - 1
        BY <1>1, <3>2, <3>3, <3>4
    <3>6. k + 1 = (k - 1) + 2 /\ k + 1 - 1 = k
        BY <3>2
    <3> QED
        BY <3>1, <3>2, <3>3, <3>5, <3>6
  <2>4. DollarEnd(q, i, len) = k + 1
    <3>1. DollarEnd(q, i, len) = first + len
        BY <1>3, <1>16, <2>1
    <3> QED
        BY <2>3, <3>1
  <2> HIDE DEF k
  <2>5. closes(k)
      BY <1>12, <2>2, <2>3
  <2>6. \A j \in since..(k - 1) : ~closes(j)
    <3>1. ASSUME NEW j \in since..(k - 1), closes(j) PROVE FALSE
      <4> DEFINE at == j - len + 1
      <4>1. j \in Int /\ j <= k - 1
          BY <1>1, <2>3
      <4>2. at >= since /\ SubSeq(q, at, j) = tag
          BY <1>12, <3>1, <4>1
      <4>3. at \in since..(n - len + 1) /\ at + len - 1 = j /\ at < first
        <5>1. at \in Int /\ at + len - 1 = j
            BY <1>1, <4>1
        <5>2. at < first
            BY <1>1, <2>3, <4>1
        <5>3. at <= n - len + 1
          <6>1. len \in Int /\ n \in Int /\ j <= n
              BY <1>1, <2>3, <4>1
          <6> QED
              BY <4>1, <6>1
        <5> QED
            BY <1>1, <4>2, <5>1, <5>2, <5>3
      <4> HIDE DEF at
      <4>4. at \in ends
          BY <4>2, <4>3 DEF ends
      <4>5. first <= at
          BY <2>1, <4>4
      <4> QED
          BY <1>1, <2>3, <4>3, <4>5
    <3> QED
        BY <3>1
  <2>7. \A j \in (since - 1)..(k - 1) : mode[j] = body
      BY <1>13, <2>3, <2>6
  <2>8. mode[k] = Plainly("code")
    <3>1. k - 1 \in (since - 1)..(k - 1)
        BY <1>1, <2>3
    <3>2. mode[k - 1] = body
        BY <2>7, <3>1
    <3> QED
        BY <1>11, <2>3, <2>5, <3>2
  <2> DEFINE e == k + 1
  <2>9. Stands(q, mode, e)
      BY <2>3, <2>8 DEF Stands
  <2>10. Between(q, mode, i + 1, e)
      BY <1>14, <2>3, <2>7
  <2>11. e \in ((i + 1) + 1)..(Len(q) + 1)
    <3>1. since >= i + 2
        BY <1>1, <1>6
    <3>2. e \in Int /\ e >= i + 2 /\ e <= n + 1
        BY <1>1, <2>3, <3>1
    <3> HIDE DEF e
    <3>3. e \in ((i + 1) + 1)..(n + 1)
        BY <1>1, <3>2
    <3> QED
        BY <1>7, <3>3
  <2> QED
      BY <2>4, <2>9, <2>10, <2>11 DEF Leads
<1> QED
    BY <1>15, <1>16

\* What begins at i ends after it or not at all.
Past(q, i, e) == e = 0 \/ (e \in Nat /\ e >= i + 1 /\ e <= Len(q) + 1)

LEMMA QuoteAhead ==
    ASSUME NEW q, Text(q), NEW i \in 1..Len(q)
    PROVE  Past(q, i, QuoteEnd(q, i))
<1> DEFINE n == Len(q)
           c == q[i]
<1>1. PICK end :
              /\ QuoteEnd(q, i) = end[i + 1]
              /\ end[n + 1] = 0
              /\ \A j \in (i + 1)..n :
                    end[j] = IF q[j] # c THEN end[j + 1]
                             ELSE IF CharAt(q, j + 1, c) THEN end[j + 2] ELSE j + 1
    BY QuoteEndIs
<1>2. n \in Nat /\ i \in Int /\ i >= 1 /\ i <= n /\ i + 1 \in Int /\ i + 1 <= n + 1 /\ n \in Int
    BY DEF Text
<1>3. \A j \in Int : CharAt(q, j + 1, c) => j + 2 <= n + 1
    BY <1>2 DEF CharAt
<1> DEFINE S == {j \in (i + 1)..(n + 1) : Past(q, i, end[j])}
<1> HIDE DEF n, c
<1>4. n + 1 \in S
    BY <1>1, <1>2 DEF Past
<1>5. ASSUME NEW k \in (i + 1)..n, \A j \in (k + 1)..(n + 1) : j \in S PROVE k \in S
  <2>1. k \in Int /\ k >= i + 1 /\ k <= n /\ k + 1 \in (k + 1)..(n + 1) /\ k \in (i + 1)..(n + 1)
      BY <1>2
  <2>2. k + 1 <= Len(q) + 1 /\ k + 1 \in Nat /\ k + 1 >= i + 1
      BY <1>2, <2>1 DEF n
  <2>3. Past(q, i, end[k + 1]) /\ Past(q, i, k + 1)
      BY <1>5, <2>1, <2>2 DEF Past
  <2>4. CASE CharAt(q, k + 1, c)
    <3>1. k + 2 \in (k + 1)..(n + 1)
        BY <1>2, <1>3, <2>1, <2>4
    <3>2. Past(q, i, end[k + 2])
        BY <1>5, <3>1
    <3>3. end[k] = end[k + 1] \/ end[k] = end[k + 2]
        BY <1>1, <2>4
    <3> QED
        BY <2>1, <2>3, <3>2, <3>3
  <2>5. CASE ~CharAt(q, k + 1, c)
    <3>1. end[k] = end[k + 1] \/ end[k] = k + 1
        BY <1>1, <2>5
    <3> QED
        BY <2>1, <2>3, <3>1
  <2> QED
      BY <2>4, <2>5
<1> HIDE DEF S
<1>6. \A k \in (i + 1)..(n + 1) : k \in S
    BY <1>2, <1>4, <1>5, FromTheEnd
<1>7. i + 1 \in (i + 1)..(n + 1)
    BY <1>2
<1>8. i + 1 \in S
    BY <1>6, <1>7
<1> QED
    BY <1>1, <1>8 DEF S

LEMMA BlockAhead ==
    ASSUME NEW q, Text(q), NEW i \in 1..Len(q), Opens(q, i)
    PROVE  Past(q, i, BlockEnd(q, i))
<1> DEFINE n == Len(q)
<1>1. PICK end :
              /\ BlockEnd(q, i) = end[i][0]
              /\ \A d \in Int : end[n + 1][d] = 0
              /\ \A j \in i..n, d \in Int :
                    end[j][d] = IF Opens(q, j) THEN end[j + 2][d + 1]
                                ELSE IF Closes(q, j) THEN IF d = 1 THEN j + 2 ELSE end[j + 2][d - 1]
                                ELSE end[j + 1][d]
    BY BlockEndIs
<1>2. n \in Nat /\ i \in Int /\ i >= 1 /\ i <= n /\ i <= n + 1 /\ n \in Int
    BY DEF Text
<1>3. \A j \in Int : Opens(q, j) \/ Closes(q, j) => j + 2 <= n + 1
    BY <1>2 DEF Opens, Closes, CharAt
<1> DEFINE At(j) == \A d \in Int : Past(q, i, end[j][d])
           S == {j \in i..(n + 1) : At(j)}
<1>4. n = Len(q)
    OBVIOUS
<1> HIDE DEF n
<1>5. n + 1 \in S
    BY <1>1, <1>2 DEF Past
<1>6. ASSUME NEW k \in i..n, \A j \in (k + 1)..(n + 1) : j \in S PROVE k \in S
  <2>1. k \in Int /\ k >= i /\ k <= n /\ k + 1 \in (k + 1)..(n + 1) /\ k \in i..(n + 1)
      BY <1>2
  <2>2. At(k + 1)
      BY <1>6, <2>1
  <2>3. ASSUME NEW d \in Int PROVE Past(q, i, end[k][d])
    <3>1. d + 1 \in Int /\ d - 1 \in Int
        OBVIOUS
    <3>2. CASE Opens(q, k) \/ Closes(q, k)
      <4>1. k + 2 \in (k + 1)..(n + 1) /\ k + 2 <= n + 1 /\ k + 2 \in Nat /\ k + 2 >= i + 1
          BY <1>2, <1>3, <2>1, <3>2
      <4>2. At(k + 2)
          BY <1>6, <4>1
      <4>3. Past(q, i, k + 2)
          BY <1>4, <4>1 DEF Past
      <4>4. end[k][d] = end[k + 2][d + 1] \/ end[k][d] = k + 2 \/ end[k][d] = end[k + 2][d - 1]
          BY <1>1, <3>2
      <4> QED
          BY <3>1, <4>2, <4>3, <4>4
    <3>3. CASE ~(Opens(q, k) \/ Closes(q, k))
      <4>1. end[k][d] = end[k + 1][d]
          BY <1>1, <3>3
      <4> QED
          BY <2>2, <4>1
    <3> QED
        BY <3>2, <3>3
  <2> QED
      BY <2>1, <2>3
<1> HIDE DEF S
<1>7. \A k \in i..(n + 1) : k \in S
    BY <1>2, <1>5, <1>6, FromTheEnd
<1>8. i \in i..(n + 1)
    BY <1>2
<1>9. i \in S
    BY <1>7, <1>8
<1>10. At(i)
    BY <1>9 DEF S
<1> QED
    BY <1>1, <1>10

LEMMA DollarAhead ==
    ASSUME NEW q, Text(q), NEW i \in 1..Len(q), NEW len, len = DelimiterAt(q, i), len > 0
    PROVE  Past(q, i, DollarEnd(q, i, len))
<1> DEFINE n == Len(q)
           ends == {j \in (i + len)..(n - len + 1) :
                       SubSeq(q, j, j + len - 1) = SubSeq(q, i, i + len - 1)}
<1>1. n \in Nat /\ i \in Int /\ i >= 1 /\ i <= n /\ len \in Nat /\ len >= 2
    BY DelimiterIs DEF Text
<1>2. DollarEnd(q, i, len) = IF ends = {} THEN 0 ELSE Min(ends) + len
    BY DEF DollarEnd
<1>3. \A j \in ends : j \in Int /\ j >= i + len /\ j <= n - len + 1
    BY <1>1
<1>4. n = Len(q)
    OBVIOUS
<1> HIDE DEF n, ends
<1>5. CASE ends = {}
    BY <1>2, <1>5 DEF Past
<1>6. CASE ends # {}
  <2>1. ends \subseteq Nat
      BY <1>1, <1>3
  <2>2. \E x \in ends : \A y \in ends : x <= y
      BY <1>6, <2>1, SmallestOf
  <2>3. Min(ends) \in ends
      BY <2>2 DEF Min
  <2> DEFINE e == Min(ends) + len
  <2>4. e \in Nat /\ e >= i + 1 /\ e <= n + 1
    <3> DEFINE m == Min(ends)
    <3>1. m \in Int /\ m >= i + len /\ m <= n - len + 1
        BY <1>3, <2>3
    <3> HIDE DEF m
    <3>2. m + len \in Int /\ m + len >= i + 1 /\ m + len <= n + 1
        BY <1>1, <3>1
    <3> QED
        BY <1>1, <3>2 DEF m
  <2> HIDE DEF e
  <2>5. DollarEnd(q, i, len) = e
      BY <1>2, <1>6 DEF e
  <2> QED
      BY <1>4, <2>4, <2>5 DEF Past
<1> QED
    BY <1>5, <1>6

LEMMA LineAhead ==
    ASSUME NEW q, Text(q), NEW i \in 1..Len(q), q[i] = "-"
    PROVE  Past(q, i, LineEnd(q, i))
<1> DEFINE n == Len(q)
           S == {n + 1} \cup {j \in i..n : q[j] = "n"}
<1>1. LineEnd(q, i) = Min(S)
    BY DEF LineEnd
<1>2. n \in Nat /\ i \in Int /\ i >= 1 /\ i <= n
    BY DEF Text
<1>3. n = Len(q)
    OBVIOUS
<1> HIDE DEF n
<1>4. S \subseteq Nat /\ S # {} /\ \A j \in S : j >= i + 1 /\ j <= n + 1
  <2>1. \A j \in i..n : q[j] = "n" => j # i
      OBVIOUS
  <2> QED
      BY <1>2, <2>1
<1> HIDE DEF S
<1>5. Min(S) \in S
  <2>1. \E x \in S : \A y \in S : x <= y
      BY <1>4, SmallestOf
  <2> QED
      BY <2>1 DEF Min
<1> QED
    BY <1>1, <1>3, <1>4, <1>5 DEF Past

\* The five cases of the scanner.
LEMMA NextBy ==
    ASSUME NEW q, NEW i
    PROVE  /\ q[i] = "'" \/ q[i] = "i" => After(q, i) = QuoteEnd(q, i)
           /\ q[i] = "-" /\ CharAt(q, i + 1, "-") => After(q, i) = LineEnd(q, i)
           /\ Opens(q, i) => After(q, i) = BlockEnd(q, i)
           /\ q[i] = "$" /\ DelimiterAt(q, i) > 0 => After(q, i) = DollarEnd(q, i, DelimiterAt(q, i))
           /\ /\ q[i] # "'" /\ q[i] # "i" /\ ~(q[i] = "-" /\ CharAt(q, i + 1, "-"))
              /\ ~Opens(q, i) /\ ~(q[i] = "$" /\ DelimiterAt(q, i) > 0)
              => After(q, i) = i + 1
<1> DEFINE c == q[i]
           to == After(q, i)
           len == DelimiterAt(q, i)
           line == CharAt(q, i + 1, "-")
           opens == Opens(q, i)
           quoted == QuoteEnd(q, i)
           lined == LineEnd(q, i)
           blocked == BlockEnd(q, i)
           paid == DollarEnd(q, i, len)
           one == i + 1
<1>1. to = CASE c \in {"'", "i"} -> quoted
            [] c = "-" /\ line -> lined
            [] opens -> blocked
            [] c = "$" /\ len > 0 -> paid
            [] OTHER -> one
    BY DEF After
<1>2. opens => c = "/"
    BY DEF Opens
<1> HIDE DEF c, to, len, line, opens, quoted, lined, blocked, paid, one
<1>3. c = "'" \/ c = "i" => to = quoted
    BY <1>1, <1>2
<1>4. c = "-" /\ line => to = lined
    BY <1>1, <1>2
<1>5. opens => to = blocked
    BY <1>1, <1>2
<1>6. c = "$" /\ len > 0 => to = paid
    BY <1>1, <1>2
<1>7. c # "'" /\ c # "i" /\ ~(c = "-" /\ line) /\ ~opens /\ ~(c = "$" /\ len > 0) => to = one
    BY <1>1
<1> QED
    BY <1>3, <1>4, <1>5, <1>6, <1>7 DEF c, to, len, line, opens, quoted, lined, blocked, paid, one

LEMMA NextAhead ==
    ASSUME NEW q, Text(q), NEW i \in 1..Len(q)
    PROVE  Past(q, i, After(q, i))
<1>1. CASE q[i] = "'" \/ q[i] = "i"
    BY <1>1, NextBy, QuoteAhead
<1>2. CASE q[i] = "-" /\ CharAt(q, i + 1, "-")
    BY <1>2, NextBy, LineAhead
<1>3. CASE Opens(q, i)
    BY <1>3, NextBy, BlockAhead
<1>4. CASE q[i] = "$" /\ DelimiterAt(q, i) > 0
  <2>1. After(q, i) = DollarEnd(q, i, DelimiterAt(q, i))
      BY <1>4, NextBy
  <2>2. Past(q, i, DollarEnd(q, i, DelimiterAt(q, i)))
      BY <1>4, DollarAhead
  <2> QED
      BY <2>1, <2>2
<1>5. CASE /\ q[i] # "'" /\ q[i] # "i" /\ ~(q[i] = "-" /\ CharAt(q, i + 1, "-"))
           /\ ~Opens(q, i) /\ ~(q[i] = "$" /\ DelimiterAt(q, i) > 0)
  <2>1. After(q, i) = i + 1
      BY <1>5, NextBy
  <2>2. i + 1 \in Nat /\ i + 1 >= i + 1 /\ i + 1 <= Len(q) + 1
      BY DEF Text
  <2> QED
      BY <2>1, <2>2 DEF Past
<1> QED
    BY <1>1, <1>2, <1>3, <1>4, <1>5

\* From where the scanner stands it gets to where it stands again, and passes
\* no question mark of code on the way but one it stood on.
Onward(q, mode, i, e) ==
    \/ e = 0 /\ ~Ended(q, mode)
    \/ e \in (i + 1)..(Len(q) + 1) /\ Stands(q, mode, e) /\ Between(q, mode, i + 1, e)

LEMMA LeadsOnward ==
    ASSUME NEW q, Text(q), NEW mode, NEW i \in 1..Len(q), NEW e, Leads(q, mode, i + 1, e)
    PROVE  Onward(q, mode, i, e)
<1>1. Len(q) \in Nat /\ i \in Int
    BY DEF Text
<1>2. \A x \in ((i + 1) + 1)..(Len(q) + 1) : x \in (i + 1)..(Len(q) + 1)
    BY <1>1
<1> QED
    BY <1>2 DEF Leads, Onward

LEMMA StepOnward ==
    ASSUME NEW q, Text(q), NEW mode, NEW i \in 1..Len(q), Stands(q, mode, i + 1)
    PROVE  Onward(q, mode, i, i + 1)
<1>1. Len(q) \in Nat /\ i \in Int
    BY DEF Text
<1>2. i + 1 \in (i + 1)..(Len(q) + 1) /\ (i + 1)..((i + 1) - 1) = {}
    BY <1>1
<1> QED
    BY <1>2 DEF Onward, Between

LEMMA NextOnward ==
    ASSUME NEW q, Text(q), NEW mode, ReadBy(q, mode), NEW i \in 1..Len(q), Stands(q, mode, i)
    PROVE  Onward(q, mode, i, After(q, i))
<1>1. Len(q) \in Nat /\ i \in Int /\ i >= 1 /\ i <= Len(q) /\ (i + 1) - 1 = i /\ i # Len(q) + 1
    BY DEF Text
<1>2. mode[i] = SeenStep(q, mode[i - 1], i)
    BY DEF ReadBy
<1>3. Plainly("code").in = "code" /\ Plainly("line").in = "line"
    BY DEF Plainly, Lex
<1>4. CASE mode[i - 1] = Plainly("line") /\ q[i] = "n"
  <2>1. mode[i] = Plainly("code")
      BY <1>2, <1>4, FromLine
  <2>2. Stands(q, mode, i + 1)
      BY <1>1, <2>1 DEF Stands
  <2>3. After(q, i) = i + 1
      BY <1>4, NextBy DEF Opens
  <2> QED
      BY <2>2, <2>3, StepOnward
<1>5. ASSUME mode[i - 1] = Plainly("code") PROVE Onward(q, mode, i, After(q, i))
  <2> DEFINE to == mode[i]
  <2>1. to = SeenStep(q, Plainly("code"), i)
      BY <1>2, <1>5
  <2> HIDE DEF to
  <2>2. /\ q[i] = "'" \/ q[i] = "i" => to = Plainly(q[i])
        /\ q[i] = "-" /\ CharAt(q, i + 1, "-") => to = Plainly("line")
        /\ Opens(q, i) => to = Block(1, 1)
        /\ q[i] = "$" /\ DelimiterAt(q, i) > 0 =>
                 to = Dollar(DelimiterAt(q, i) - 1, Tag(q, i), i + DelimiterAt(q, i))
        /\ /\ q[i] # "'" /\ q[i] # "i" /\ ~(q[i] = "-" /\ CharAt(q, i + 1, "-"))
           /\ ~Opens(q, i) /\ ~(q[i] = "$" /\ DelimiterAt(q, i) > 0)
           => to = Plainly("code")
      BY <2>1, FromCodeBy
  <2>3. ASSUME q[i] = "'" \/ q[i] = "i" PROVE Onward(q, mode, i, After(q, i))
    <3>1. mode[i] = Plainly(q[i]) /\ ~(mode[i - 1].in = q[i])
        BY <1>3, <1>5, <2>2, <2>3 DEF to
    <3>2. Leads(q, mode, i + 1, QuoteEnd(q, i))
        BY <2>3, <3>1, QuoteLeads
    <3>3. After(q, i) = QuoteEnd(q, i)
        BY <2>3, NextBy
    <3> QED
        BY <3>2, <3>3, LeadsOnward
  <2>4. ASSUME q[i] = "-", CharAt(q, i + 1, "-") PROVE Onward(q, mode, i, After(q, i))
    <3>1. mode[i] = Plainly("line")
        BY <2>2, <2>4 DEF to
    <3>2. \/ Leads(q, mode, i + 1, LineEnd(q, i))
          \/ LineEnd(q, i) = i + 1 /\ Stands(q, mode, i + 1)
        BY <2>4, <3>1, LineLeads
    <3>3. After(q, i) = LineEnd(q, i)
        BY <2>4, NextBy
    <3> QED
        BY <3>2, <3>3, LeadsOnward, StepOnward
  <2>5. ASSUME Opens(q, i) PROVE Onward(q, mode, i, After(q, i))
    <3>1. mode[i] = Block(1, 1)
        BY <2>2, <2>5 DEF to
    <3>2. Leads(q, mode, i + 2, BlockEnd(q, i))
        BY <2>5, <3>1, BlockLeads
    <3>3. q[i + 1] = "*"
        BY <2>5 DEF Opens, CharAt
    <3>4. \A j \in (i + 1)..((i + 2) - 1) : j = i + 1
        BY <1>1
    <3>5. Between(q, mode, i + 1, i + 2)
        BY <3>3, <3>4 DEF Between
    <3>6. i + 1 \in Int /\ i + 2 \in Int /\ i + 1 < i + 2
        BY <1>1
    <3>7. Leads(q, mode, i + 1, BlockEnd(q, i))
        BY <3>2, <3>5, <3>6, LeadsOn
    <3>8. After(q, i) = BlockEnd(q, i)
        BY <2>5, NextBy
    <3> QED
        BY <3>7, <3>8, LeadsOnward
  <2>6. ASSUME q[i] = "$", DelimiterAt(q, i) > 0 PROVE Onward(q, mode, i, After(q, i))
    <3> DEFINE len == DelimiterAt(q, i)
    <3>1. mode[i] = Dollar(len - 1, Tag(q, i), i + len)
        BY <2>2, <2>6 DEF to
    <3>2. len = DelimiterAt(q, i) /\ len > 0
        BY <2>6
    <3>3. After(q, i) = DollarEnd(q, i, len)
        BY <2>6, NextBy
    <3> HIDE DEF len
    <3>4. Leads(q, mode, i + 1, DollarEnd(q, i, len))
        BY <3>1, <3>2, DollarLeads
    <3> QED
        BY <3>3, <3>4, LeadsOnward
  <2>7. ASSUME /\ q[i] # "'" /\ q[i] # "i" /\ ~(q[i] = "-" /\ CharAt(q, i + 1, "-"))
               /\ ~Opens(q, i) /\ ~(q[i] = "$" /\ DelimiterAt(q, i) > 0)
        PROVE  Onward(q, mode, i, After(q, i))
    <3>1. mode[i] = Plainly("code")
        BY <2>2, <2>7 DEF to
    <3>2. Stands(q, mode, i + 1)
        BY <1>1, <3>1 DEF Stands
    <3>3. After(q, i) = i + 1
        BY <2>7, NextBy
    <3> QED
        BY <3>2, <3>3, StepOnward
  <2> QED
      BY <2>3, <2>4, <2>5, <2>6, <2>7
<1> QED
    BY <1>1, <1>4, <1>5 DEF Stands

\* What the scanner finds, one construct at a time.
Found(ok, params) == [ok |-> ok, params |-> params]
Marked(q, i, rest) ==
    IF q[i] = "?" THEN Found(rest.ok, rest.params \cup {i}) ELSE rest
Scanned(q, scan) ==
    /\ scan[0] = Found(FALSE, {})
    /\ scan[Len(q) + 1] = Found(TRUE, {})
    /\ \A i \in 1..Len(q) : scan[i] = Marked(q, i, scan[After(q, i)])

LEMMA RebindScans ==
    ASSUME NEW q, Text(q)
    PROVE  \E scan : /\ Scanned(q, scan)
                     /\ rebind(q) = IF \E i \in DOMAIN q : q[i] = "?" THEN scan[1] ELSE Found(TRUE, {})
<1> DEFINE n == Len(q)
           Scan(h) == h = [i \in 0..(n + 1) |->
                IF i = 0 THEN [ok |-> FALSE, params |-> {}]
                ELSE IF i > n THEN [ok |-> TRUE, params |-> {}]
                ELSE LET rest == h[After(q, i)]
                     IN  IF q[i] = "?" THEN [ok |-> rest.ok, params |-> rest.params \cup {i}] ELSE rest]
           scan == CHOOSE h : Scan(h)
           Onto(i) == After(q, i)
<1>1. rebind(q) = IF \E i \in DOMAIN q : q[i] = "?" THEN scan[1] ELSE Found(TRUE, {})
    BY DEF rebind, Found
<1>2. n \in Nat /\ n \in Int /\ 1 <= n + 1
    BY DEF Text
<1>3. \A i \in 1..n : Onto(i) = 0 \/ (Onto(i) \in Nat /\ Onto(i) >= i + 1 /\ Onto(i) <= n + 1)
    BY NextAhead DEF Past
<1> HIDE DEF n, Onto
<1> DEFINE Error == Found(FALSE, {})
           R == [ok : BOOLEAN, params : SUBSET Int]
           nxt == [i \in 1..n |-> IF Onto(i) = 0 THEN i + 1 ELSE Onto(i)]
           val == [i \in 1..n |-> [r \in R |-> Marked(q, i, IF Onto(i) = 0 THEN Error ELSE r)]]
<1>4. Error \in R /\ Found(TRUE, {}) \in R
    BY DEF Found
<1>5. ASSUME NEW i \in 1..n, NEW r \in R PROVE Marked(q, i, r) \in R
  <2>1. r.ok \in BOOLEAN /\ r.params \cup {i} \in SUBSET Int
      BY <1>2
  <2>2. Found(r.ok, r.params \cup {i}) \in R
      BY <2>1 DEF Found
  <2> QED
      BY <2>2 DEF Marked
<1> HIDE DEF Error, R
<1>6. NextIn(nxt, 1, n)
  <2>1. ASSUME NEW i \in 1..n PROVE nxt[i] \in (i + 1)..(n + 1)
    <3> DEFINE e == Onto(i)
    <3>1. e = 0 \/ (e \in Nat /\ e >= i + 1 /\ e <= n + 1)
        BY <1>3
    <3>2. nxt[i] = IF e = 0 THEN i + 1 ELSE e
        OBVIOUS
    <3> HIDE DEF e, nxt
    <3>3. i \in Int /\ i <= n
        BY <1>2
    <3>4. CASE e = 0
        BY <1>2, <3>2, <3>3, <3>4
    <3>5. CASE e # 0
        BY <1>2, <3>1, <3>2, <3>3, <3>5
    <3> QED
        BY <3>4, <3>5
  <2> HIDE DEF nxt
  <2> QED
      BY <2>1 DEF NextIn
<1>7. MapsTo(val, R, 1, n)
    BY <1>4, <1>5 DEF MapsTo
<1> DEFINE last == Found(TRUE, {})
<1>8. PICK g : JumpOf(g, R, last, nxt, val, 1, n)
  <2>1. last \in R
      BY <1>4
  <2> HIDE DEF nxt, val, last
  <2> QED
      BY <1>2, <1>6, <1>7, <2>1, JumpExists
<1> DEFINE h == [i \in 0..(n + 1) |-> IF i = 0 THEN Error ELSE g[i]]
<1>9. \A i \in 1..n : h[i] = Marked(q, i, h[Onto(i)])
  <2>1. ASSUME NEW i \in 1..n PROVE h[i] = Marked(q, i, h[Onto(i)])
    <3> DEFINE e == Onto(i)
    <3>1. i \in 0..(n + 1) /\ i # 0 /\ (e = 0 \/ (e # 0 /\ e \in 0..(n + 1)))
        BY <1>2, <1>3
    <3>2. h[i] = g[i] /\ h[0] = Error /\ (e # 0 => h[e] = g[e])
        BY <1>2, <3>1
    <3>3. g[nxt[i]] \in R /\ g[i] = val[i][g[nxt[i]]]
        BY <1>8 DEF JumpOf
    <3>4. nxt[i] = IF e = 0 THEN i + 1 ELSE e
        OBVIOUS
    <3>5. \A r \in R : val[i][r] = Marked(q, i, IF e = 0 THEN Error ELSE r)
        OBVIOUS
    <3> HIDE DEF e, h, nxt, val
    <3>6. h[i] = Marked(q, i, IF e = 0 THEN Error ELSE g[nxt[i]])
        BY <3>2, <3>3, <3>5
    <3>7. (IF e = 0 THEN Error ELSE g[nxt[i]]) = h[e]
        BY <3>1, <3>2, <3>4
    <3>8. h[i] = Marked(q, i, h[e])
        BY <3>6, <3>7
    <3> QED
        BY <3>8 DEF e
  <2> QED
      BY <2>1
<1>10. h[0] = Error /\ h[n + 1] = last
  <2>1. n + 1 \in 0..(n + 1) /\ 0 \in 0..(n + 1) /\ n + 1 # 0
      BY <1>2
  <2>2. g[n + 1] = last
      BY <1>8 DEF JumpOf
  <2> QED
      BY <2>1, <2>2
<1>11. Scan(h)
  <2>1. ASSUME NEW i \in 0..(n + 1)
        PROVE  h[i] = IF i = 0 THEN [ok |-> FALSE, params |-> {}]
                ELSE IF i > n THEN [ok |-> TRUE, params |-> {}]
                ELSE IF q[i] = "?" THEN [ok |-> h[After(q, i)].ok, params |-> h[After(q, i)].params \cup {i}]
                ELSE h[After(q, i)]
    <3> HIDE DEF h
    <3>1. CASE i = 0
        BY <1>10, <3>1 DEF Error, Found
    <3>2. CASE i # 0 /\ i > n
      <4>1. i = n + 1
          BY <1>2, <3>2
      <4> QED
          BY <1>10, <3>2, <4>1 DEF Found
    <3>3. CASE i # 0 /\ ~(i > n)
      <4>1. i \in 1..n
          BY <1>2, <3>3
      <4>2. h[i] = Marked(q, i, h[After(q, i)])
          BY <1>9, <4>1 DEF Onto
      <4> QED
          BY <3>3, <4>2 DEF Marked, Found
    <3> QED
        BY <3>1, <3>2, <3>3
  <2>2. h = [i \in 0..(n + 1) |-> h[i]]
      OBVIOUS
  <2> HIDE DEF h
  <2> QED
      BY <2>1, <2>2
<1> HIDE DEF h
<1>12. Scan(scan)
    BY <1>11
<1>13. \A i \in 0..(n + 1) :
          scan[i] = IF i = 0 THEN [ok |-> FALSE, params |-> {}]
                ELSE IF i > n THEN [ok |-> TRUE, params |-> {}]
                ELSE IF q[i] = "?" THEN [ok |-> scan[After(q, i)].ok,
                                         params |-> scan[After(q, i)].params \cup {i}]
                ELSE scan[After(q, i)]
  <2> HIDE DEF scan
  <2> QED
      BY <1>12
<1> HIDE DEF scan
<1>14. 0 \in 0..(n + 1) /\ n + 1 \in 0..(n + 1) /\ n + 1 # 0 /\ n + 1 > n
       /\ \A i \in 1..n : i \in 0..(n + 1) /\ i # 0 /\ ~(i > n)
    BY <1>2
<1>15. scan[0] = Found(FALSE, {}) /\ scan[n + 1] = Found(TRUE, {})
    BY <1>13, <1>14 DEF Found
<1>16. \A i \in 1..n : scan[i] = Marked(q, i, scan[After(q, i)])
    BY <1>13, <1>14 DEF Marked, Found
<1>17. Scanned(q, scan)
    BY <1>15, <1>16 DEF Scanned, n
<1> QED
    BY <1>1, <1>17

\* The question marks of code from i on.
Marks(q, mode, i) == {j \in i..Len(q) : q[j] = "?" /\ InCode(mode, j)}
Right(q, mode, i, r) ==
    IF Ended(q, mode) THEN r = Found(TRUE, Marks(q, mode, i)) ELSE ~r.ok

LEMMA MarkedRight ==
    ASSUME NEW q, Text(q), NEW mode, NEW i \in 1..Len(q), Stands(q, mode, i),
           NEW e \in (i + 1)..(Len(q) + 1), Between(q, mode, i + 1, e), NEW r, Right(q, mode, e, r)
    PROVE  Right(q, mode, i, Marked(q, i, r))
<1>1. Len(q) \in Nat /\ i \in Int /\ i # Len(q) + 1
    BY DEF Text
<1>2. q[i] = "?" => InCode(mode, i)
    BY <1>1 DEF Stands, InCode, Plainly, Lex
<1>3. ASSUME NEW j \in Int
      PROVE  j \in Marks(q, mode, i) <=> (j = i /\ q[i] = "?") \/ j \in Marks(q, mode, e)
  <2>1. j \in i..Len(q) <=> j = i \/ j \in (i + 1)..(e - 1) \/ j \in e..Len(q)
    <3>1. e \in Int /\ e >= i + 1 /\ e <= Len(q) + 1 /\ i <= Len(q)
        BY <1>1
    <3> QED
        BY <1>1, <3>1
  <2> QED
      BY <1>2, <2>1 DEF Marks, Between
<1>4. \A j \in Marks(q, mode, i) \cup Marks(q, mode, e) : j \in Int
    BY <1>1 DEF Marks
<1>5. CASE q[i] = "?"
  <2>1. Marks(q, mode, i) = Marks(q, mode, e) \cup {i}
      BY <1>1, <1>3, <1>4, <1>5
  <2> DEFINE m == Marked(q, i, r)
  <2>2. m = Found(r.ok, r.params \cup {i})
      BY <1>5 DEF Marked
  <2> HIDE DEF m
  <2>3. CASE Ended(q, mode)
    <3>1. r.ok = TRUE /\ r.params = Marks(q, mode, e)
        BY <2>3 DEF Right, Found
    <3>2. m = Found(TRUE, Marks(q, mode, i))
        BY <2>1, <2>2, <3>1
    <3> QED
        BY <2>3, <3>2 DEF Right, m
  <2>4. CASE ~Ended(q, mode)
      BY <2>2, <2>4 DEF Right, Found, m
  <2> QED
      BY <2>3, <2>4
<1>6. CASE q[i] # "?"
  <2>1. Marks(q, mode, i) = Marks(q, mode, e)
      BY <1>3, <1>4, <1>6
  <2> QED
      BY <1>6, <2>1 DEF Right, Marked
<1> QED
    BY <1>5, <1>6

LEMMA ScanRight ==
    ASSUME NEW q, Text(q), NEW mode, ReadBy(q, mode), NEW scan, Scanned(q, scan)
    PROVE  Right(q, mode, 1, scan[1])
<1> DEFINE n == Len(q)
           S == {i \in 1..(n + 1) : Stands(q, mode, i) => Right(q, mode, i, scan[i])}
<1>1. n \in Nat /\ n \in Int /\ 1 <= n + 1 /\ n + 1 \in 1..(n + 1) /\ 1 \in 1..(n + 1)
      /\ (n + 1) - 1 = n
    BY DEF Text
<1>2. n + 1 \in S
  <2> SUFFICES ASSUME Stands(q, mode, n + 1) PROVE Right(q, mode, n + 1, scan[n + 1])
      BY <1>1
  <2>1. mode[n] = Plainly("code") \/ mode[n] = Plainly("line")
      BY <1>1 DEF Stands
  <2>2. Ended(q, mode)
      BY <2>1 DEF Ended, Plainly, Lex
  <2>3. Marks(q, mode, n + 1) = {}
    <3>1. (n + 1)..n = {}
        BY <1>1
    <3> QED
        BY <3>1 DEF Marks
  <2> QED
      BY <2>2, <2>3 DEF Right, Scanned
<1>3. ASSUME NEW k \in 1..n, \A j \in (k + 1)..(n + 1) : j \in S PROVE k \in S
  <2>1. k \in 1..(n + 1)
      BY <1>1
  <2>2. ASSUME Stands(q, mode, k) PROVE Right(q, mode, k, scan[k])
    <3> DEFINE e == After(q, k)
    <3>1. scan[k] = Marked(q, k, scan[e])
        BY DEF Scanned
    <3>2. Onward(q, mode, k, e)
        BY <2>2, NextOnward
    <3> HIDE DEF e
    <3>3. CASE e = 0 /\ ~Ended(q, mode)
      <4>1. scan[e] = Found(FALSE, {})
          BY <3>3 DEF Scanned
      <4>2. ~scan[k].ok
          BY <3>1, <4>1 DEF Marked, Found
      <4> QED
          BY <3>3, <4>2 DEF Right
    <3>4. CASE e \in (k + 1)..(n + 1) /\ Stands(q, mode, e) /\ Between(q, mode, k + 1, e)
      <4>1. e \in S
          BY <1>3, <3>4
      <4>2. Right(q, mode, e, scan[e])
          BY <3>4, <4>1
      <4>3. Right(q, mode, k, Marked(q, k, scan[e]))
          BY <2>2, <3>4, <4>2, MarkedRight
      <4> QED
          BY <3>1, <4>3
    <3> QED
        BY <3>2, <3>3, <3>4 DEF Onward
  <2> QED
      BY <2>1, <2>2
<1> HIDE DEF S, n
<1>4. \A k \in 1..(n + 1) : k \in S
  <2>1. 1 \in Int
      OBVIOUS
  <2> QED
      BY <1>1, <1>2, <1>3, <2>1, FromTheEnd
<1>5. 1 \in S
    BY <1>1, <1>4
<1>6. Stands(q, mode, 1)
  <2>1. 1 - 1 = 0
      OBVIOUS
  <2> QED
      BY <2>1 DEF Stands, ReadBy
<1> QED
    BY <1>5, <1>6 DEF S

LEMMA RebindRight ==
    ASSUME job = "rebind", input \in Queries, output.value = rebind(input)
    PROVE  ParametersAreCode
<1> DEFINE mode == LexedBy(input)
           seen == [k \in 0..Len(input) |-> Seen(mode[k])]
           marks == {i \in DOMAIN input : input[i] = "?"}
           AsCode(m, ins) == m.in \in ins /\ m.skip = 0
           code == {i \in marks : AsCode(mode[i - 1], {"code", "name"})}
           ended == AsCode(mode[Len(input)], {"code", "name", "line"})
<1> SUFFICES ASSUME ~DollarInName(input, mode)
             PROVE  IF marks # {} /\ ~ended THEN ~output.value.ok
                    ELSE output.value = [ok |-> TRUE, params |-> code]
    BY DEF ParametersAreCode
<1>1. Text(input)
    BY QueriesAreTexts
<1>2. ReadBy(input, seen)
    BY <1>1, SeenReads
<1>3. PICK scan : /\ Scanned(input, scan)
                  /\ rebind(input) = IF \E i \in DOMAIN input : input[i] = "?" THEN scan[1]
                                     ELSE Found(TRUE, {})
    BY <1>1, RebindScans
<1>4. Right(input, seen, 1, scan[1])
  <2> HIDE DEF seen
  <2> QED
      BY <1>1, <1>2, <1>3, ScanRight
<1>5. ASSUME NEW k \in 0..Len(input)
      PROVE  /\ seen[k].in = "code" /\ seen[k].skip = 0 <=> AsCode(mode[k], {"code", "name"})
             /\ seen[k].in \in {"code", "line"} /\ seen[k].skip = 0
                   <=> AsCode(mode[k], {"code", "name", "line"})
  <2>1. mode[k] \in Lexes(input)
      BY <1>1, LexedByReads
  <2>2. seen[k] = Seen(mode[k])
      OBVIOUS
  <2> DEFINE m == mode[k]
             s == seen[k]
  <2>3. m.in = "name" => m.skip = 0
      BY <2>1 DEF Lexes, Plainly, Lex
  <2>4. m.in = "name" => s.in = "code" /\ s.skip = 0
      BY <2>2 DEF Seen, Plainly, Lex
  <2>5. m.in # "name" => s = m
      BY <2>2 DEF Seen
  <2> HIDE DEF m, s
  <2>6. /\ s.in = "code" /\ s.skip = 0 <=> m.in \in {"code", "name"} /\ m.skip = 0
        /\ s.in \in {"code", "line"} /\ s.skip = 0 <=> m.in \in {"code", "name", "line"} /\ m.skip = 0
      BY <2>3, <2>4, <2>5
  <2> QED
      BY <2>6 DEF m, s
<1>6. Len(input) \in Nat /\ DOMAIN input = 1..Len(input)
    BY <1>1 DEF Text
<1> HIDE DEF mode, seen
<1>7. code = Marks(input, seen, 1)
  <2>1. ASSUME NEW i \in 1..Len(input)
        PROVE  InCode(seen, i) <=> AsCode(mode[i - 1], {"code", "name"})
    <3>1. i - 1 \in 0..Len(input)
        BY <1>6
    <3> QED
        BY <1>5, <3>1 DEF InCode
  <2> QED
      BY <1>6, <2>1 DEF Marks
<1>8. ended <=> Ended(input, seen)
  <2>1. Len(input) \in 0..Len(input)
      BY <1>6
  <2> QED
      BY <1>5, <2>1 DEF Ended
<1> HIDE DEF code, ended
<1>9. CASE marks = {}
  <2>1. code = {}
      BY <1>9 DEF code
  <2>2. output.value = Found(TRUE, {})
      BY <1>3, <1>9
  <2>3. output.value = [ok |-> TRUE, params |-> code]
      BY <2>1, <2>2 DEF Found
  <2> QED
      BY <1>9, <2>3
<1>10. CASE marks # {}
  <2>1. output.value = scan[1]
      BY <1>3, <1>10
  <2>2. CASE ended
    <3>1. output.value = [ok |-> TRUE, params |-> code]
        BY <1>4, <1>7, <1>8, <2>1, <2>2 DEF Right, Found
    <3> QED
        BY <2>2, <3>1
  <2>3. CASE ~ended
    <3>1. ~output.value.ok
        BY <1>4, <1>8, <2>1, <2>3 DEF Right
    <3> QED
        BY <1>10, <2>3, <3>1
  <2> QED
      BY <2>2, <2>3
<1> QED
    BY <1>9, <1>10

-----------------------------------------------------------------------------
(* The timeline                                                            *)

\* A set of numbers under a bound has a largest.
LEMMA LargestOf ==
    ASSUME NEW T, T \subseteq Int, T # {}, NEW b \in Int, \A x \in T : x <= b
    PROVE  Max(T) \in T /\ \A y \in T : y <= Max(T)
<1> DEFINE R == {n \in Nat : b - n \in T}
<1>1. \A x \in T : b - x \in Nat /\ b - (b - x) = x
    OBVIOUS
<1>2. PICK x \in T : TRUE
    OBVIOUS
<1>3. b - x \in R
    BY <1>1
<1>4. PICK n \in R : \A m \in R : n <= m
  <2>1. R \subseteq Nat /\ R # {}
      BY <1>3
  <2> HIDE DEF R
  <2> QED
      BY <2>1, SmallestOf
<1>5. b - n \in T /\ n \in Nat
    BY <1>4
<1>6. ASSUME NEW y \in T PROVE y <= b - n
  <2>1. b - y \in R
      BY <1>1
  <2>2. n <= b - y
      BY <1>4, <2>1
  <2>3. y \in Int
      OBVIOUS
  <2> HIDE DEF R
  <2> QED
      BY <1>5, <2>2, <2>3
<1>7. \E z \in T : \A y \in T : z >= y
    BY <1>5, <1>6
<1>8. Max(T) \in T /\ \A y \in T : Max(T) >= y
    BY <1>7 DEF Max
<1> QED
    BY <1>8

\* A finite set of naturals in order: as many places as members, each greater
\* than the one before, and every member has one.
InOrder(a, n, S) ==
    /\ n \in Nat /\ Len(a) = n /\ DOMAIN a = 1..n
    /\ \A i \in 1..n : a[i] \in S
    /\ \A i, j \in 1..n : i < j => a[i] < a[j]
    /\ \A d \in S : \E i \in 1..n : a[i] = d

LEMMA AscendingIs ==
    ASSUME NEW S, S \subseteq Nat, IsFiniteSet(S), NEW a, a = Ascending(S),
           NEW n, n = Cardinality(S)
    PROVE  InOrder(a, n, S)
<1> DEFINE Less(d) == {e \in S : e < d}
           rank == [d \in S |-> Cardinality(Less(d)) + 1]
<1>1. n \in Nat
    BY FS_CardinalityType
<1>2. \A d \in S : IsFiniteSet(Less(d)) /\ Cardinality(Less(d)) \in Nat
    BY FS_Subset, FS_CardinalityType
<1>3. ASSUME NEW d \in S PROVE Cardinality(Less(d)) + 1 \in 1..n
  <2>1. Less(d) \in SUBSET S /\ ~(d \in Less(d))
      OBVIOUS
  <2>2. Cardinality(Less(d)) <= n /\ Cardinality(Less(d)) # n
      BY <2>1, FS_Subset
  <2> QED
      BY <1>1, <1>2, <2>2
<1>4. ASSUME NEW d \in S, NEW e \in S, d < e
      PROVE  Cardinality(Less(d)) < Cardinality(Less(e))
  <2>1. Less(d) \in SUBSET Less(e) /\ d \in Less(e) /\ ~(d \in Less(d))
    <3>1. d \in Nat /\ e \in Nat /\ d \in Less(e) /\ ~(d \in Less(d))
        BY <1>4
    <3>2. ASSUME NEW x \in Less(d) PROVE x \in Less(e)
      <4>1. x \in S /\ x \in Nat /\ x < d
          OBVIOUS
      <4>2. x < e
          BY <1>4, <3>1, <4>1
      <4> QED
          BY <4>1, <4>2
    <3> HIDE DEF Less
    <3> QED
        BY <3>1, <3>2
  <2>2. Less(d) # Less(e)
      BY <2>1
  <2>3. IsFiniteSet(Less(e)) /\ Cardinality(Less(d)) \in Nat /\ Cardinality(Less(e)) \in Nat
      BY <1>2
  <2> HIDE DEF Less
  <2>4. Cardinality(Less(d)) <= Cardinality(Less(e)) /\ Cardinality(Less(e)) # Cardinality(Less(d))
      BY <2>1, <2>2, <2>3, FS_Subset
  <2> QED
      BY <2>3, <2>4
<1>5. rank \in Injection(S, 1..n)
  <2>1. \A d \in S : rank[d] = Cardinality(Less(d)) + 1
      OBVIOUS
  <2>2. rank \in [S -> 1..n]
      BY <1>3
  <2>3. ASSUME NEW d \in S, NEW e \in S, rank[d] = rank[e] PROVE d = e
    <3>1. Cardinality(Less(d)) = Cardinality(Less(e))
      <4> HIDE DEF rank, Less
      <4> QED
          BY <1>2, <2>1, <2>3
    <3>2. ~(d < e) /\ ~(e < d)
        BY <1>2, <1>4, <3>1
    <3>3. d \in Nat /\ e \in Nat
        OBVIOUS
    <3> QED
        BY <3>2, <3>3
  <2> HIDE DEF rank
  <2> QED
      BY <2>2, <2>3 DEF Injection, IsInjective
<1>6. rank \in Surjection(S, 1..n)
  <2>1. IsFiniteSet(1..n) /\ Cardinality(1..n) = n
      BY <1>1, FS_Interval
  <2> HIDE DEF rank
  <2> QED
      BY <1>5, <2>1, FS_Injection
<1>7. \A i \in 1..n : \E d \in S : Cardinality(Less(d)) = i - 1
  <2>1. ASSUME NEW i \in 1..n PROVE \E d \in S : Cardinality(Less(d)) = i - 1
    <3>1. PICK d \in S : rank[d] = i
        BY <1>6 DEF Surjection
    <3>2. Cardinality(Less(d)) + 1 = i
        BY <3>1
    <3>3. Cardinality(Less(d)) = i - 1
      <4> HIDE DEF Less
      <4> QED
          BY <1>1, <1>2, <3>2
    <3> QED
        BY <3>3
  <2> QED
      BY <2>1
<1>8. a = [i \in 1..n |-> CHOOSE d \in S : Cardinality(Less(d)) = i - 1]
    BY DEF Ascending
<1>9. \A i \in 1..n : a[i] \in S /\ Cardinality(Less(a[i])) = i - 1
  <2>1. ASSUME NEW i \in 1..n PROVE a[i] \in S /\ Cardinality(Less(a[i])) = i - 1
    <3> DEFINE At(d) == Cardinality(Less(d)) = i - 1
    <3>1. \E d \in S : At(d)
        BY <1>7
    <3>2. a[i] = CHOOSE d \in S : At(d)
        BY <1>8
    <3> HIDE DEF At
    <3>3. a[i] \in S /\ At(a[i])
        BY <3>1, <3>2
    <3> QED
        BY <3>3 DEF At
  <2> QED
      BY <2>1
<1>10. Len(a) = n /\ DOMAIN a = 1..n
    BY <1>1, <1>8
<1>11. ASSUME NEW i \in 1..n, NEW j \in 1..n, i < j PROVE a[i] < a[j]
  <2> DEFINE x == a[i]
             y == a[j]
  <2>1. x \in S /\ y \in S /\ x \in Nat /\ y \in Nat
      BY <1>9
  <2>2. Cardinality(Less(x)) = i - 1 /\ Cardinality(Less(y)) = j - 1
      BY <1>9
  <2> HIDE DEF x, y, Less
  <2>3. ~(x = y)
      BY <1>11, <2>2
  <2>4. ~(y < x)
      BY <1>4, <1>11, <2>1, <2>2
  <2>5. x < y
      BY <2>1, <2>3, <2>4
  <2> QED
      BY <2>5 DEF x, y
<1>12. ASSUME NEW d \in S PROVE \E i \in 1..n : a[i] = d
  <2> DEFINE i == Cardinality(Less(d)) + 1
  <2>1. i \in 1..n /\ i - 1 = Cardinality(Less(d))
    <3>1. Cardinality(Less(d)) \in Nat /\ i \in 1..n
        BY <1>2, <1>3
    <3> HIDE DEF Less
    <3> QED
        BY <3>1
  <2>2. a[i] \in S /\ Cardinality(Less(a[i])) = Cardinality(Less(d))
      BY <1>9, <2>1
  <2> DEFINE x == a[i]
  <2>3. x \in S /\ Cardinality(Less(x)) = Cardinality(Less(d)) /\ Cardinality(Less(d)) \in Nat
      BY <1>2, <2>2
  <2> HIDE DEF x, Less
  <2>4. x \in Nat /\ d \in Nat
      BY <2>3
  <2>5. ~(x < d) /\ ~(d < x)
      BY <1>4, <2>3
  <2>6. x = d
      BY <2>4, <2>5
  <2> QED
      BY <2>1, <2>6 DEF x
<1> QED
    BY <1>1, <1>9, <1>10, <1>11, <1>12 DEF InOrder

\* What the pointer has consumed is what is dated on or before d.
Sorted(points) ==
    /\ Len(points) \in Nat
    /\ \A i \in 1..Len(points) : points[i].date \in Nat
    /\ \A i, j \in 1..Len(points) : i < j => points[i].date <= points[j].date
Early(points, p, d) == p \in 0..Len(points) /\ \A i \in 1..p : points[i].date <= d
Upto(points, p, d) == Early(points, p, d) /\ \A i \in 1..Len(points) : points[i].date <= d => i <= p

LEMMA AdvanceIs ==
    ASSUME NEW points, Sorted(points), NEW d \in Nat, NEW from, Early(points, from, d)
    PROVE  Upto(points, Advance(points, from, d), d) /\ Advance(points, from, d) >= from
<1> DEFINE n == Len(points)
           T == {p \in from..n : \A i \in (from + 1)..p : points[i].date <= d}
           to == Max(T)
<1>1. n \in Nat /\ from \in 0..n /\ from \in Int
    BY DEF Sorted, Early
<1>2. Advance(points, from, d) = to
    BY DEF Advance
<1> HIDE DEF n
<1>3. T \subseteq Int /\ n \in Int /\ \A x \in T : x <= n
    BY <1>1
<1>4. from \in T
  <2>1. (from + 1)..from = {} /\ from \in from..n
      BY <1>1
  <2> QED
      BY <2>1
<1>5. to \in T /\ \A y \in T : y <= to
  <2> HIDE DEF T
  <2> QED
      BY <1>3, <1>4, LargestOf
<1> HIDE DEF to
<1>6. to \in from..n /\ \A i \in (from + 1)..to : points[i].date <= d
    BY <1>5
<1>7. to \in Int /\ to >= from /\ to <= n /\ to >= 0
    BY <1>1, <1>6
<1>8. \A i \in 1..to : points[i].date <= d
  <2>1. ASSUME NEW i \in 1..to PROVE points[i].date <= d
    <3>1. i \in 1..from \/ i \in (from + 1)..to
        BY <1>1, <1>7
    <3> QED
        BY <1>6, <3>1 DEF Early
  <2> QED
      BY <2>1
<1>9. ASSUME NEW i \in 1..n, points[i].date <= d PROVE i <= to
  <2> SUFFICES ASSUME i > to PROVE FALSE
      BY <1>7
  <2>1. \A j \in (from + 1)..i : points[j].date <= d
    <3>1. ASSUME NEW j \in (from + 1)..i PROVE points[j].date <= d
      <4>1. j \in 1..n /\ (j < i \/ j = i)
          BY <1>1, <1>7
      <4>2. points[j].date <= points[i].date /\ points[j].date \in Nat /\ points[i].date \in Nat
          BY <4>1 DEF Sorted, n
      <4> QED
          BY <1>9, <4>2
    <3> QED
        BY <3>1
  <2>2. i \in from..n
      BY <1>1, <1>7
  <2>3. i \in T
      BY <2>1, <2>2
  <2>4. i <= to
      BY <1>5, <2>3
  <2> QED
      BY <1>7, <2>4
<1>10. to \in 0..Len(points)
    BY <1>1, <1>7 DEF n
<1> QED
    BY <1>2, <1>7, <1>8, <1>9, <1>10 DEF Upto, Early, n

\* The first date whose rows enter the walk: the cast of a date is on or after
\* that of the first trade exactly from then on.
Since(source, txs) ==
    LET first == Min(TradeDates(txs))
    IN  IF source = "sqlite" THEN (first \div YearLength) * YearLength ELSE first

Trades == [date : Nat, shares : Int, cash : Int]

LEMMA LeastOf ==
    ASSUME NEW T, T \subseteq Nat, T # {}
    PROVE  Min(T) \in T /\ \A y \in T : Min(T) <= y
<1>1. \E x \in T : \A y \in T : x <= y
    BY SmallestOf
<1> QED
    BY <1>1 DEF Min

\* A year has begun exactly when its first date has come.
LEMMA YearBegins ==
    ASSUME NEW d \in Nat, NEW q \in Nat, NEW y \in Nat, y > 0
    PROVE  d \div y >= q <=> d >= q * y
<1> DEFINE p == d \div y
<1>1. d = y * p + (d % y) /\ d % y \in Nat /\ d % y < y /\ p \in Nat
    OBVIOUS
<1> HIDE DEF p
<1>2. ASSUME p >= q PROVE d >= q * y
  <2>1. p - q \in Nat /\ p = q + (p - q) /\ y * (p - q) \in Nat
      BY <1>1, <1>2
  <2>2. y * p = y * q + y * (p - q)
      BY <1>1, <2>1, TimesSum
  <2>3. y * q = q * y /\ y * q \in Nat
      OBVIOUS
  <2> QED
      BY <1>1, <2>1, <2>2, <2>3
<1>3. ASSUME p < q PROVE d < q * y
  <2>1. q - (p + 1) \in Nat /\ q = (p + 1) + (q - (p + 1)) /\ y * (q - (p + 1)) \in Nat
      BY <1>1, <1>3
  <2>2. y * q = y * (p + 1) + y * (q - (p + 1)) /\ y * (p + 1) = y * p + y
      BY <1>1, <2>1, TimesSum
  <2>3. y * q = q * y /\ y * q \in Nat /\ y * p \in Nat
      BY <1>1
  <2> QED
      BY <1>1, <2>1, <2>2, <2>3
<1>4. q * y \in Nat
    OBVIOUS
<1> QED
    BY <1>1, <1>2, <1>3, <1>4 DEF p

LEMMA CastGrows ==
    ASSUME NEW source, NEW c \in Nat, NEW d \in Nat, c <= d
    PROVE  Cast(source, c) \in Nat /\ Cast(source, d) \in Nat /\ Cast(source, c) <= Cast(source, d)
<1>1. YearLength \in Nat /\ YearLength > 0
    BY TimelineAssumption
<1> QED
    BY <1>1, DivGrows DEF Cast

LEMMA SinceIs ==
    ASSUME NEW source, NEW txs \in TxTables, TradeDates(txs) # {}, NEW d \in Nat
    PROVE  Cast(source, d) >= Min({Cast(source, e) : e \in TradeDates(txs)}) <=> d >= Since(source, txs)
<1> DEFINE T == TradeDates(txs)
           C == {Cast(source, e) : e \in T}
           first == Min(T)
<1>1. T \subseteq Nat /\ T # {}
  <2>1. ASSUME NEW f \in SFunds, NEW i \in DOMAIN txs[f] PROVE txs[f][i].date \in Nat
    <3>1. txs[f] \in Seq(Trades)
        BY TimelineAssumption DEF Trades
    <3>2. txs[f][i] \in Trades
        BY <3>1
    <3> QED
        BY <3>2 DEF Trades
  <2>2. T \subseteq Nat
    <3> SUFFICES ASSUME NEW x \in T PROVE x \in Nat
        OBVIOUS
    <3>1. PICK f \in SFunds : x \in {txs[f][i].date : i \in DOMAIN txs[f]}
        BY DEF TradeDates
    <3> QED
        BY <2>1, <3>1
  <2> QED
      BY <2>2
<1> HIDE DEF T
<1>2. first \in T /\ first \in Nat /\ \A y \in T : first <= y /\ y \in Nat
    BY <1>1, LeastOf
<1> HIDE DEF first
<1>3. \A y \in T : Cast(source, first) <= Cast(source, y) /\ Cast(source, y) \in Nat
    BY <1>2, CastGrows
<1>4. C \subseteq Nat /\ Cast(source, first) \in C /\ \A z \in C : Cast(source, first) <= z
    BY <1>2, <1>3
<1>5. Min(C) \in C /\ Min(C) <= Cast(source, first)
  <2> HIDE DEF C
  <2> QED
      BY <1>4, LeastOf
<1>6. Min(C) = Cast(source, first)
    BY <1>3, <1>2, <1>4, <1>5
<1>7. Cast(source, d) >= Cast(source, first) <=> d >= Since(source, txs)
  <2>1. CASE source = "sqlite"
    <3>1. YearLength \in Nat /\ YearLength > 0 /\ first \div YearLength \in Nat
        BY <1>2, TimelineAssumption, DivGrows
    <3>2. Since(source, txs) = (first \div YearLength) * YearLength
        BY <2>1 DEF Since, first, T
    <3> QED
        BY <2>1, <3>1, <3>2, YearBegins DEF Cast
  <2>2. CASE source # "sqlite"
      BY <2>2 DEF Since, Cast, first, T
  <2> QED
      BY <2>1, <2>2
<1> QED
    BY <1>6, <1>7 DEF T

\* The rows before the cap, and the order they come in.
AllRows(source, nav, txs) ==
    {r \in (1..LastDate) \X SFunds : /\ nav[r[2]][r[1]] # NoNav
                                     /\ TradeDates(txs) # {} /\ r[1] >= Since(source, txs)}
Sooner(q, r) == q[1] < r[1] \/ (q[1] = r[1] /\ q[2] < r[2])

\* The cap cuts off the last rows: what comes before a row that was kept was
\* kept, and something was if there was anything.
LEMMA RowsAre ==
    ASSUME NEW source, NEW nav, NEW txs \in TxTables, NEW all, all = AllRows(source, nav, txs),
           NEW kept, kept = timelineNAVRows(source, nav, txs)
    PROVE  /\ \A r \in all : r[1] \in 1..LastDate /\ r[2] \in SFunds /\ r = <<r[1], r[2]>>
           /\ IsFiniteSet(all) /\ kept \subseteq all
           /\ Cardinality(all) <= NavRowCap => kept = all
           /\ all # {} => kept # {}
           /\ \A r \in all, k \in kept : r[1] < k[1] => r \in kept
<1>1. LastDate \in Nat /\ NFunds \in Nat /\ NavRowCap \in Nat /\ NavRowCap > 0
    BY TimelineAssumption
<1>2. \A r \in all : r[1] \in 1..LastDate /\ r[2] \in SFunds /\ r = <<r[1], r[2]>>
    BY DEF AllRows
<1>3. IsFiniteSet(all)
  <2>1. IsFiniteSet(1..LastDate) /\ IsFiniteSet(SFunds)
      BY <1>1, FS_Interval DEF SFunds
  <2>2. IsFiniteSet((1..LastDate) \X SFunds)
      BY <2>1, FS_Product
  <2>3. all \in SUBSET ((1..LastDate) \X SFunds)
      BY DEF AllRows
  <2> QED
      BY <2>2, <2>3, FS_Subset
<1> DEFINE Before0(r) == {q \in all : Sooner(q, r)}
<1>4. kept = {r \in all : Cardinality(Before0(r)) < NavRowCap}
  <2>1. CASE TradeDates(txs) = {}
    <3>1. kept = {} /\ all = {}
        BY <2>1 DEF timelineNAVRows, AllRows
    <3> QED
        BY <3>1
  <2>2. CASE TradeDates(txs) # {}
    <3> DEFINE in == {r \in (1..LastDate) \X SFunds :
                         /\ nav[r[2]][r[1]] # NoNav
                         /\ TradeDates(txs) # {}
                         /\ Cast(source, r[1]) >= Min({Cast(source, d) : d \in TradeDates(txs)})}
    <3>1. \A r \in (1..LastDate) \X SFunds :
             Cast(source, r[1]) >= Min({Cast(source, d) : d \in TradeDates(txs)}) <=> r[1] >= Since(source, txs)
      <4>1. \A r \in (1..LastDate) \X SFunds : r[1] \in Nat
          BY <1>1
      <4> QED
          BY <2>2, <4>1, SinceIs
    <3>2. in = all
        BY <3>1 DEF AllRows
    <3>3. kept = {r \in in : Cardinality({q \in in : Sooner(q, r)}) < NavRowCap}
        BY DEF timelineNAVRows, Sooner
    <3> HIDE DEF in
    <3> QED
        BY <3>2, <3>3
  <2> QED
      BY <2>1, <2>2
<1>5. \A r \in all : r[1] \in Nat /\ r[2] \in Nat
    BY <1>2 DEF SFunds
<1> HIDE DEF AllRows
<1>6. \A r \in all : /\ Before0(r) \in SUBSET all /\ ~(r \in Before0(r))
                     /\ IsFiniteSet(Before0(r)) /\ Cardinality(Before0(r)) \in Nat
  <2>1. \A r \in all : Before0(r) \in SUBSET all
      OBVIOUS
  <2>2. \A r \in all : ~(r \in Before0(r))
      BY <1>5 DEF Sooner
  <2>3. \A r \in all : IsFiniteSet(Before0(r)) /\ Cardinality(Before0(r)) \in Nat
      BY <1>3, <2>1, FS_Subset, FS_CardinalityType
  <2> QED
      BY <2>1, <2>2, <2>3
<1>7. ASSUME Cardinality(all) <= NavRowCap PROVE kept = all
  <2>1. ASSUME NEW r \in all PROVE Cardinality(Before0(r)) < NavRowCap
    <3>1. /\ Before0(r) \in SUBSET all /\ ~(r \in Before0(r))
          /\ IsFiniteSet(Before0(r)) /\ Cardinality(Before0(r)) \in Nat
        BY <1>6
    <3> DEFINE B == Before0(r)
    <3>2. B \in SUBSET all /\ B # all /\ Cardinality(B) \in Nat
        BY <3>1
    <3> HIDE DEF B
    <3>3. Cardinality(B) <= Cardinality(all) /\ Cardinality(all) # Cardinality(B)
        BY <1>3, <3>2, FS_Subset
    <3>4. Cardinality(all) \in Nat
        BY <1>3, FS_CardinalityType
    <3>5. Cardinality(B) < NavRowCap
        BY <1>1, <1>7, <3>2, <3>3, <3>4
    <3> QED
        BY <3>5 DEF B
  <2> QED
      BY <1>4, <2>1
<1>8. ASSUME all # {} PROVE kept # {}
  <2>1. PICK r0 \in all : TRUE
      BY <1>8
  <2> DEFINE X == {r[1] : r \in all}
  <2>2. PICK x \in X : \A y \in X : x <= y
    <3>1. X \subseteq Nat /\ X # {}
        BY <1>5, <2>1
    <3> HIDE DEF X
    <3> QED
        BY <3>1, SmallestOf
  <2> DEFINE First1 == {r \in all : r[1] = x}
             Y == {r[2] : r \in First1}
  <2>3. PICK y \in Y : \A z \in Y : y <= z
    <3>1. PICK r1 \in all : r1[1] = x
        BY <2>2
    <3>2. Y \subseteq Nat /\ Y # {}
        BY <1>5, <3>1
    <3> HIDE DEF Y
    <3> QED
        BY <3>2, SmallestOf
  <2>4. PICK r \in all : r[1] = x /\ r[2] = y
      BY <2>3
  <2>5. ASSUME NEW q \in all PROVE ~Sooner(q, r)
    <3>1. x <= q[1] /\ (q[1] = x => y <= q[2])
        BY <2>2, <2>3
    <3>2. q[1] \in Nat /\ q[2] \in Nat /\ r[1] \in Nat /\ r[2] \in Nat
        BY <1>5
    <3> QED
        BY <2>4, <3>1, <3>2 DEF Sooner
  <2>6. Before0(r) = {}
      BY <2>5
  <2>7. Cardinality(Before0(r)) = 0
      BY <2>6, FS_EmptySet
  <2>8. r \in kept
      BY <1>1, <1>4, <2>7
  <2> QED
      BY <2>8
<1>9. ASSUME NEW r \in all, NEW k \in kept, r[1] < k[1] PROVE r \in kept
  <2>1. k \in all /\ Cardinality(Before0(k)) < NavRowCap
      BY <1>4
  <2>2. ASSUME NEW q \in all, Sooner(q, r) PROVE Sooner(q, k)
    <3>1. q[1] \in Nat /\ r[1] \in Nat /\ k[1] \in Nat
        BY <1>5, <2>1
    <3> QED
        BY <1>9, <2>2, <3>1 DEF Sooner
  <2>3. Before0(r) \in SUBSET Before0(k)
      BY <2>2
  <2>4. IsFiniteSet(Before0(k)) /\ Cardinality(Before0(k)) \in Nat /\ Cardinality(Before0(r)) \in Nat
      BY <1>6, <2>1
  <2> HIDE DEF Before0
  <2>5. Cardinality(Before0(r)) <= Cardinality(Before0(k))
      BY <2>3, <2>4, FS_Subset
  <2>6. Cardinality(Before0(r)) < NavRowCap
      BY <1>1, <2>1, <2>4, <2>5
  <2> QED
      BY <1>4, <2>6
<1>10. kept \subseteq all
    BY <1>4
<1> QED
    BY <1>2, <1>3, <1>7, <1>8, <1>9, <1>10

\* The running sums of a fund's trades, when no trade is cut off.
SharesOf(t) == [i \in 1..Len(t) |-> t[i].shares]
CashOf(t) == [i \in 1..Len(t) |-> t[i].cash]
Running == [date : Nat, shares : Int, cost : Int]
Run(p, t) == [date |-> t.date, shares |-> p.shares + t.shares, cost |-> p.cost + t.cash]
NoRun == [date |-> 0, shares |-> 0, cost |-> 0]
Totalled(points, t) ==
    /\ Len(points) = Len(t)
    /\ \A i \in 1..Len(t) : /\ points[i].date = t[i].date
                            /\ points[i].shares = SumOver(SharesOf(t), 1..i)
                            /\ points[i].cost = SumOver(CashOf(t), 1..i)
                            /\ points[i] \in Running

LEMMA SumsRun ==
    ASSUME NEW t, t \in Seq(Trades), NEW sums, sums[0] = NoRun,
           \A i \in 1..Len(t) : sums[i] = Run(sums[i - 1], t[i])
    PROVE  \A i \in 1..Len(t) : /\ sums[i].date = t[i].date
                                /\ sums[i].shares = SumOver(SharesOf(t), 1..i)
                                /\ sums[i].cost = SumOver(CashOf(t), 1..i)
                                /\ sums[i] \in Running
<1> DEFINE n == Len(t)
           g == SharesOf(t)
           h == CashOf(t)
<1>1. n \in Nat /\ \A i \in 1..n : t[i] \in Trades
    OBVIOUS
<1>2. \A i \in 1..n : g[i] = t[i].shares /\ h[i] = t[i].cash /\ g[i] \in Int /\ h[i] \in Int
    BY <1>1 DEF SharesOf, CashOf, Trades
<1> HIDE DEF n, g, h
<1> DEFINE At(i) == /\ sums[i].shares = SumOver(g, 1..i) /\ sums[i].cost = SumOver(h, 1..i)
                    /\ sums[i].shares \in Int /\ sums[i].cost \in Int
           U == {i \in Nat : i <= n => At(i)}
<1>3. 0 \in U
  <2>1. IsFiniteSet({}) /\ 1..0 = {}
      BY FS_EmptySet
  <2>2. SumOver(g, 1..0) = 0 /\ SumOver(h, 1..0) = 0
      BY <2>1, SumOverChosen
  <2> QED
      BY <2>2 DEF NoRun
<1>4. ASSUME NEW i \in Nat, i \in U PROVE i + 1 \in U
  <2> SUFFICES ASSUME i + 1 <= n PROVE At(i + 1)
      OBVIOUS
  <2>1. At(i) /\ i + 1 \in 1..n /\ (i + 1) - 1 = i
      BY <1>1, <1>4
  <2> DEFINE k == i + 1
  <2>2. 1..k = (1..i) \cup {k} /\ ~(k \in 1..i) /\ \A j \in 1..i : j \in 1..n
      BY <1>1, <2>1
  <2>3. IsFiniteSet(1..i)
      BY FS_Interval
  <2>4. k \in 1..n /\ k - 1 = i
      BY <2>1
  <2>5. sums[k] = Run(sums[i], t[k])
      BY <2>4 DEF n
  <2> HIDE DEF k
  <2> DEFINE T == 1..i
  <2>6. /\ IsFiniteSet(T) /\ ~(k \in T) /\ 1..k = T \cup {k}
        /\ (\A y \in T : g[y] \in Int) /\ (\A y \in T : h[y] \in Int) /\ g[k] \in Int /\ h[k] \in Int
      BY <1>2, <2>2, <2>3, <2>4
  <2>7. SumOver(g, 1..k) = g[k] + SumOver(g, T) /\ SumOver(h, 1..k) = h[k] + SumOver(h, T)
    <3> HIDE DEF T
    <3>1. SumOver(g, T \cup {k}) = g[k] + SumOver(g, T)
        BY <2>6, SumOverAdds
    <3>2. SumOver(h, T \cup {k}) = h[k] + SumOver(h, T)
        BY <2>6, SumOverAdds
    <3> QED
        BY <2>6, <3>1, <3>2
  <2>8. sums[k].shares = sums[i].shares + t[k].shares /\ sums[k].cost = sums[i].cost + t[k].cash
      BY <2>5 DEF Run
  <2>9. g[k] = t[k].shares /\ h[k] = t[k].cash /\ g[k] \in Int /\ h[k] \in Int
      BY <1>2, <2>4
  <2>10. At(k)
      BY <2>1, <2>7, <2>8, <2>9
  <2> QED
      BY <2>10 DEF k
<1> HIDE DEF U
<1>5. \A i \in Nat : i \in U
    BY <1>3, <1>4, AllNaturals
<1>6. ASSUME NEW i \in 1..n
      PROVE  /\ sums[i].date = t[i].date
             /\ sums[i].shares = SumOver(g, 1..i) /\ sums[i].cost = SumOver(h, 1..i)
             /\ sums[i] \in Running
  <2>1. i \in Nat /\ i <= n
      BY <1>1
  <2>2. i \in U
      BY <1>5, <2>1
  <2>3. At(i)
      BY <2>1, <2>2 DEF U
  <2>4. sums[i] = Run(sums[i - 1], t[i])
      BY DEF n
  <2>5. sums[i].date = t[i].date /\ t[i].date \in Nat
      BY <1>1, <2>4 DEF Run, Trades
  <2>6. sums[i] = [date |-> sums[i].date, shares |-> sums[i].shares, cost |-> sums[i].cost]
      BY <2>4 DEF Run
  <2>7. sums[i] \in Running
      BY <2>3, <2>5, <2>6 DEF Running
  <2> QED
      BY <2>3, <2>5, <2>7
<1> QED
    BY <1>6 DEF n, g, h

LEMMA PointsAre ==
    ASSUME NEW txs \in TxTables,
           SumFunction([f \in SFunds |-> Len(txs[f])]) <= TxRowCap,
           NEW f \in SFunds
    PROVE  Totalled(timelineTransactions(txs)[f], txs[f])
<1> DEFINE t == txs[f]
           n == Len(t)
           lens == [g \in SFunds |-> Len(txs[g])]
           before == SumFunction([g \in 1..(f - 1) |-> Len(txs[g])])
           kept == Max({0, Min({n, TxRowCap - before})})
           Scan(m, h) == h = [i \in 0..m |->
                IF i = 0 THEN [date |-> 0, shares |-> 0, cost |-> 0]
                ELSE [date   |-> t[i].date,
                      shares |-> h[i - 1].shares + t[i].shares,
                      cost   |-> h[i - 1].cost + t[i].cash]]
           sumsTo(m) == CHOOSE h : Scan(m, h)
           sums == sumsTo(kept)
<1>1. NFunds \in Nat /\ TxRowCap \in Nat /\ txs \in [SFunds -> Seq(Trades)]
    BY TimelineAssumption DEF Trades
<1>2. f \in Int /\ f >= 1 /\ f <= NFunds
    BY <1>1 DEF SFunds
<1>3. \A g \in SFunds : txs[g] \in Seq(Trades) /\ Len(txs[g]) \in Nat
    BY <1>1
<1>4. timelineTransactions(txs)[f] = [i \in 1..kept |-> sums[i]]
    BY DEF timelineTransactions
<1>5. kept = n
  <2>1. \A g \in 1..(f - 1) : g \in SFunds
      BY <1>1, <1>2 DEF SFunds
  <2>2. [g \in 1..(f - 1) |-> Len(txs[g])] = [g \in 1..(f - 1) |-> lens[g]]
      BY <2>1
  <2>3. before = SumOver(lens, 1..(f - 1))
      BY <2>2 DEF SumOver
  <2>4. SumOver(lens, SFunds) <= TxRowCap
    <3>1. lens = [g \in SFunds |-> lens[g]]
        OBVIOUS
    <3> HIDE DEF lens
    <3>2. SumFunction(lens) = SumOver(lens, SFunds)
        BY <3>1 DEF SumOver
    <3>3. SumFunction(lens) <= TxRowCap
        BY DEF lens
    <3> QED
        BY <3>2, <3>3
  <2>5. \A g \in SFunds : lens[g] \in Nat
      BY <1>3
  <2>6. lens[f] = n
      OBVIOUS
  <2> DEFINE R == 1..(f - 1)
  <2>7. R \subseteq SFunds /\ ~(f \in R) /\ IsFiniteSet(R) /\ IsFiniteSet(SFunds)
      BY <1>1, <1>2, <2>1, FS_Interval DEF SFunds
  <2> HIDE DEF lens, R, n
  <2>8. SumOver(lens, R \cup {f}) = lens[f] + SumOver(lens, R)
    <3>1. (\A y \in R : lens[y] \in Int) /\ lens[f] \in Int
        BY <2>5, <2>7
    <3> QED
        BY <2>7, <3>1, SumOverAdds
  <2> DEFINE Q == R \cup {f}
  <2>9. SumOver(lens, Q) <= SumOver(lens, SFunds)
    <3>1. Q \in SUBSET SFunds /\ (\A x \in SFunds : lens[x] \in Int) /\ \A x \in SFunds \ Q : lens[x] >= 0
        BY <2>5, <2>7
    <3> HIDE DEF Q
    <3> QED
        BY <2>7, <3>1, SumOverPart
  <2>10. SumOver(lens, R) \in Nat
    <3>1. \A x \in R : lens[x] \in Nat
        BY <2>5, <2>7
    <3> QED
        BY <2>7, <3>1, SumOverNat
  <2>11. SumOver(lens, SFunds) \in Nat
      BY <2>5, <2>7, SumOverNat
  <2>12. n \in Nat /\ before = SumOver(lens, R) /\ SumOver(lens, Q) = n + before
      BY <1>3, <2>3, <2>6, <2>8 DEF R, n
  <2> HIDE DEF before, Q
  <2>13. before \in Nat /\ n + before <= TxRowCap
      BY <1>1, <2>4, <2>9, <2>10, <2>11, <2>12
  <2>14. TxRowCap - before \in Int /\ n <= TxRowCap - before
      BY <1>1, <2>12, <2>13
  <2> DEFINE x == TxRowCap - before
  <2>15. Min({n, x}) = n
    <3> HIDE DEF x
    <3>1. x \in Int /\ n <= x /\ n \in Nat
        BY <2>12, <2>14 DEF x
    <3> QED
        BY <3>1 DEF Min
  <2>16. Max({0, n}) = n
      BY <2>12 DEF Max
  <2> QED
      BY <2>15, <2>16
<1> HIDE DEF kept, before, lens
<1>6. n \in Nat /\ t \in Seq(Trades) /\ \A i \in 1..n : t[i] \in Trades
    BY <1>3
<1> HIDE DEF t, n
<1> DEFINE step == [i \in 1..n |-> [p \in Running |-> Run(p, t[i])]]
<1>7. \A i \in 1..n : \A p \in Running : step[i][p] = Run(p, t[i]) /\ step[i][p] \in Running
  <2>1. ASSUME NEW i \in 1..n, NEW p \in Running PROVE Run(p, t[i]) \in Running
    <3>1. t[i].date \in Nat /\ t[i].shares \in Int /\ t[i].cash \in Int
        BY <1>6 DEF Trades
    <3>2. p.shares \in Int /\ p.cost \in Int
        BY DEF Running
    <3> QED
        BY <3>1, <3>2 DEF Run, Running
  <2> QED
      BY <2>1
<1>8. NoRun \in Running
    BY DEF NoRun, Running
<1> HIDE DEF step
<1>9. PICK g : WalkOf(g, Running, NoRun, step, 0, n)
  <2>1. 0 \in Int /\ n \in Int /\ 0 <= n /\ 0 + 1 = 1
      BY <1>6
  <2>2. KeepTo(Running, step, 0, n)
      BY <1>7, <2>1 DEF KeepTo
  <2> QED
      BY <1>8, <2>1, <2>2, WalkExists
<1>10. Scan(n, g)
  <2>1. ASSUME NEW i \in 0..n
        PROVE  g[i] = IF i = 0 THEN NoRun ELSE Run(g[i - 1], t[i])
    <3>1. CASE i = 0
        BY <1>9, <3>1 DEF WalkOf
    <3>2. CASE i # 0
      <4>1. i \in (0 + 1)..n /\ i \in 1..n
          BY <1>6, <3>2
      <4>2. g[i - 1] \in Running /\ g[i] = step[i][g[i - 1]]
          BY <1>9, <4>1 DEF WalkOf
      <4> QED
          BY <1>7, <3>2, <4>1, <4>2
    <3> QED
        BY <3>1, <3>2
  <2>2. g \in [0..n -> Running]
      BY <1>9 DEF WalkOf
  <2> QED
      BY <2>1, <2>2 DEF NoRun, Run
<1>11. Scan(n, sumsTo(n))
    BY <1>10
<1>12. sums = sumsTo(n)
    BY <1>5
<1> HIDE DEF sumsTo
<1>13. Scan(n, sums)
    BY <1>11, <1>12
<1> HIDE DEF sums
<1>14. \A i \in 0..n : sums[i] = IF i = 0 THEN NoRun ELSE Run(sums[i - 1], t[i])
    BY <1>13 DEF NoRun, Run
<1>15. sums[0] = NoRun /\ \A i \in 1..n : sums[i] = Run(sums[i - 1], t[i])
  <2>1. 0 \in 0..n /\ \A i \in 1..n : i \in 0..n /\ i # 0
      BY <1>6
  <2> QED
      BY <1>14, <2>1
<1> DEFINE p == timelineTransactions(txs)[f]
<1>16. p = [i \in 1..n |-> sums[i]]
    BY <1>4, <1>5
<1> HIDE DEF p
<1>17. Len(p) = n /\ \A i \in 1..n : p[i] = sums[i]
    BY <1>6, <1>16
<1>18. \A i \in 1..Len(t) : /\ sums[i].date = t[i].date
                            /\ sums[i].shares = SumOver(SharesOf(t), 1..i)
                            /\ sums[i].cost = SumOver(CashOf(t), 1..i)
                            /\ sums[i] \in Running
    BY <1>6, <1>15, SumsRun DEF n
<1>19. Totalled(p, t)
    BY <1>17, <1>18 DEF Totalled, n
<1> QED
    BY <1>19 DEF p, t

\* What the walk shows of a fund is what its two pointers stand on.
SharesAt(points, p) == IF p = 0 THEN 0 ELSE points[p].shares
CostAt(points, p) == IF p = 0 THEN 0 ELSE points[p].cost
NavAt(navs, p) == IF p = 0 THEN NoNav ELSE navs[p].nav
Shows(s, points, navs) ==
    s.shares = SharesAt(points, s.tx) /\ s.cost = CostAt(points, s.tx) /\ s.nav = NavAt(navs, s.np)
Behind(s, points, navs, d) ==
    Shows(s, points, navs) /\ Early(points, s.tx, d) /\ Early(navs, s.np, d)
Carried(s, points, navs, d) ==
    Shows(s, points, navs) /\ Upto(points, s.tx, d) /\ Upto(navs, s.np, d)

LEMMA CarryIs ==
    ASSUME NEW points, Sorted(points), NEW navs, Sorted(navs), NEW d \in Nat,
           NEW s, Behind(s, points, navs, d)
    PROVE  Carried(CarryTo(s, points, navs, d), points, navs, d)
<1> DEFINE tx == Advance(points, s.tx, d)
           np == Advance(navs, s.np, d)
           c == CarryTo(s, points, navs, d)
<1>1. Early(points, s.tx, d) /\ Early(navs, s.np, d) /\ Shows(s, points, navs)
    BY DEF Behind
<1>2. Upto(points, tx, d) /\ tx >= s.tx
    BY <1>1, AdvanceIs
<1>3. Upto(navs, np, d) /\ np >= s.np
    BY <1>1, AdvanceIs
<1>4. /\ c.tx = tx /\ c.np = np
      /\ c.shares = IF tx = s.tx THEN s.shares ELSE points[tx].shares
      /\ c.cost = IF tx = s.tx THEN s.cost ELSE points[tx].cost
      /\ c.nav = IF np = s.np THEN s.nav ELSE navs[np].nav
    BY DEF CarryTo
<1> HIDE DEF tx, np, c
<1>5. s.tx \in Nat /\ tx \in Nat /\ s.np \in Nat /\ np \in Nat
  <2>1. Len(points) \in Nat /\ Len(navs) \in Nat
      BY DEF Sorted
  <2>2. s.tx \in 0..Len(points) /\ s.np \in 0..Len(navs) /\ tx \in 0..Len(points) /\ np \in 0..Len(navs)
      BY <1>1, <1>2, <1>3 DEF Upto, Early
  <2> QED
      BY <2>1, <2>2
<1>6. c.shares = SharesAt(points, tx) /\ c.cost = CostAt(points, tx)
  <2>1. tx = s.tx \/ (tx # s.tx /\ tx # 0)
      BY <1>2, <1>5
  <2> QED
      BY <1>1, <1>4, <2>1 DEF Shows, SharesAt, CostAt
<1>7. c.nav = NavAt(navs, np)
  <2>1. np = s.np \/ (np # s.np /\ np # 0)
      BY <1>3, <1>5
  <2> QED
      BY <1>1, <1>4, <2>1 DEF Shows, NavAt
<1>8. Shows(c, points, navs)
    BY <1>4, <1>6, <1>7 DEF Shows
<1>9. Carried(c, points, navs, d)
    BY <1>2, <1>3, <1>4, <1>8 DEF Carried
<1> QED
    BY <1>9 DEF c

\* Having consumed what is dated by c, one is behind any later date.
LEMMA EarlyLater ==
    ASSUME NEW points, Sorted(points), NEW c \in Nat, NEW d \in Nat, c <= d,
           NEW p, Early(points, p, c)
    PROVE  Early(points, p, d)
<1>1. p \in 0..Len(points) /\ \A i \in 1..p : points[i].date <= c
    BY DEF Early
<1>2. \A i \in 1..p : i \in 1..Len(points)
    BY <1>1 DEF Sorted
<1>3. \A i \in 1..p : points[i].date \in Nat
    BY <1>2 DEF Sorted
<1>4. \A i \in 1..p : points[i].date <= d
    BY <1>1, <1>3
<1> QED
    BY <1>1, <1>4 DEF Early

LEMMA CarriedOn ==
    ASSUME NEW points, Sorted(points), NEW navs, Sorted(navs),
           NEW c \in Nat, NEW d \in Nat, c <= d, NEW s, Carried(s, points, navs, c)
    PROVE  Behind(s, points, navs, d)
<1>1. Early(points, s.tx, c) /\ Early(navs, s.np, c) /\ Shows(s, points, navs)
    BY DEF Carried, Upto
<1> QED
    BY <1>1, EarlyLater DEF Behind

LEMMA NothingBehind ==
    ASSUME NEW points, Sorted(points), NEW navs, Sorted(navs), NEW d \in Nat
    PROVE  Behind(NoTimelineState, points, navs, d)
<1>1. Early(points, 0, d) /\ Early(navs, 0, d)
    BY DEF Early, Sorted
<1> QED
    BY <1>1 DEF Behind, Shows, NoTimelineState, SharesAt, CostAt, NavAt

\* The walk over the dates.
LEMMA AdvanceStays ==
    ASSUME NEW points, Len(points) \in Nat, NEW d, NEW from \in 0..Len(points)
    PROVE  Advance(points, from, d) \in from..Len(points)
<1> DEFINE n == Len(points)
           T == {p \in from..n : \A i \in (from + 1)..p : points[i].date <= d}
<1>1. n \in Int /\ T \subseteq Int /\ \A x \in T : x <= n
    OBVIOUS
<1>2. from \in T
  <2>1. (from + 1)..from = {} /\ from \in from..n
      OBVIOUS
  <2> QED
      BY <2>1
<1>3. Advance(points, from, d) = Max(T)
    BY DEF Advance
<1>4. Max(T) \in T
  <2> HIDE DEF T, n
  <2> QED
      BY <1>1, <1>2, LargestOf
<1>5. T \subseteq from..n
    OBVIOUS
<1> HIDE DEF T
<1> QED
    BY <1>3, <1>4, <1>5

Standing(points, navs) ==
    {s \in [shares : Int, cost : Int, nav : Int, tx : Nat, np : Nat] :
        s.tx \in 0..Len(points) /\ s.np \in 0..Len(navs)}
Walkable(points, navs) ==
    /\ Sorted(points) /\ \A i \in 1..Len(points) : points[i].shares \in Int /\ points[i].cost \in Int
    /\ Sorted(navs) /\ \A i \in 1..Len(navs) : navs[i].nav \in Int

LEMMA CarryStays ==
    ASSUME NEW points, NEW navs, Walkable(points, navs), NEW d, NEW s \in Standing(points, navs)
    PROVE  CarryTo(s, points, navs, d) \in Standing(points, navs)
<1> DEFINE tx == Advance(points, s.tx, d)
           np == Advance(navs, s.np, d)
           shares == IF tx = s.tx THEN s.shares ELSE points[tx].shares
           cost == IF tx = s.tx THEN s.cost ELSE points[tx].cost
           quote == IF np = s.np THEN s.nav ELSE navs[np].nav
<1>1. /\ s.tx \in 0..Len(points) /\ s.np \in 0..Len(navs)
      /\ s.shares \in Int /\ s.cost \in Int /\ s.nav \in Int
    BY DEF Standing
<1>2. Len(points) \in Nat /\ Len(navs) \in Nat
    BY DEF Walkable, Sorted
<1>3. tx \in s.tx..Len(points) /\ np \in s.np..Len(navs)
    BY <1>1, <1>2, AdvanceStays
<1>4. CarryTo(s, points, navs, d) =
         [shares |-> shares, cost |-> cost, nav |-> quote, tx |-> tx, np |-> np]
    BY DEF CarryTo
<1> HIDE DEF tx, np
<1>5. tx \in 0..Len(points) /\ np \in 0..Len(navs) /\ tx \in Nat /\ np \in Nat
    BY <1>1, <1>2, <1>3
<1>6. tx # s.tx => tx \in 1..Len(points)
    BY <1>1, <1>2, <1>3
<1>7. np # s.np => np \in 1..Len(navs)
    BY <1>1, <1>2, <1>3
<1>8. shares \in Int /\ cost \in Int
    BY <1>1, <1>6 DEF Walkable
<1>9. quote \in Int
    BY <1>1, <1>7 DEF Walkable
<1> HIDE DEF shares, cost, quote
<1> QED
    BY <1>4, <1>5, <1>8, <1>9 DEF Standing

StateScan(g, n, funds, points, navs, dates) ==
    g = [k \in 0..n |->
            IF k = 0 THEN [f \in funds |-> NoTimelineState]
            ELSE [f \in funds |-> CarryTo(g[k - 1][f], points[f], navs[f], dates[k])]]

LEMMA StatesStand ==
    ASSUME NEW funds, NEW points, NEW navs, NEW dates, NEW n \in Nat,
           \A f \in funds : Walkable(points[f], navs[f])
    PROVE  \E g : StateScan(g, n, funds, points, navs, dates)
<1> DEFINE P == {st \in [funds -> [shares : Int, cost : Int, nav : Int, tx : Nat, np : Nat]] :
                    \A f \in funds : st[f] \in Standing(points[f], navs[f])}
           Carry(st, k) == [f \in funds |-> CarryTo(st[f], points[f], navs[f], dates[k])]
           start == [f \in funds |-> NoTimelineState]
           step == [k \in 1..n |-> [st \in P |-> Carry(st, k)]]
<1>1. \A f \in funds : Standing(points[f], navs[f]) \subseteq [shares : Int, cost : Int, nav : Int, tx : Nat, np : Nat]
    BY DEF Standing
<1>2. start \in P
  <2>1. ASSUME NEW f \in funds PROVE NoTimelineState \in Standing(points[f], navs[f])
    <3>1. Len(points[f]) \in Nat /\ Len(navs[f]) \in Nat
        BY DEF Walkable, Sorted
    <3> QED
        BY <3>1 DEF NoTimelineState, NoNav, Standing
  <2> QED
      BY <1>1, <2>1
<1>3. ASSUME NEW k \in 1..n, NEW st \in P PROVE Carry(st, k) \in P
  <2>1. ASSUME NEW f \in funds
        PROVE  CarryTo(st[f], points[f], navs[f], dates[k]) \in Standing(points[f], navs[f])
    <3>1. st[f] \in Standing(points[f], navs[f]) /\ Walkable(points[f], navs[f])
        OBVIOUS
    <3> QED
        BY <3>1, CarryStays
  <2> QED
      BY <1>1, <2>1
<1>4. \A k \in 1..n : \A st \in P : step[k][st] = Carry(st, k) /\ step[k][st] \in P
    BY <1>3
<1> HIDE DEF P, start, step
<1>5. PICK g : WalkOf(g, P, start, step, 0, n)
  <2>1. 0 \in Int /\ n \in Int /\ 0 <= n /\ 0 + 1 = 1
      OBVIOUS
  <2>2. KeepTo(P, step, 0, n)
      BY <1>4, <2>1 DEF KeepTo
  <2> QED
      BY <1>2, <2>1, <2>2, WalkExists
<1>6. ASSUME NEW k \in 0..n PROVE g[k] = IF k = 0 THEN start ELSE Carry(g[k - 1], k)
  <2>1. CASE k = 0
      BY <1>5, <2>1 DEF WalkOf
  <2>2. CASE k # 0
    <3>1. k \in (0 + 1)..n /\ k \in 1..n
        BY <2>2
    <3>2. g[k - 1] \in P /\ g[k] = step[k][g[k - 1]]
        BY <1>5, <3>1 DEF WalkOf
    <3>3. g[k] = Carry(g[k - 1], k)
      <4> HIDE DEF Carry
      <4> QED
          BY <1>4, <3>1, <3>2
    <3> QED
        BY <2>2, <3>3
  <2> QED
      BY <2>1, <2>2
<1>7. g = [k \in 0..n |-> g[k]]
    BY <1>5 DEF WalkOf
<1> HIDE DEF Carry
<1>8. g = [k \in 0..n |-> IF k = 0 THEN start ELSE Carry(g[k - 1], k)]
    BY <1>6, <1>7
<1> QED
    BY <1>8 DEF StateScan, start, Carry

LEMMA StatesAre ==
    ASSUME NEW funds, NEW points, NEW navs, NEW dates, NEW n \in Nat,
           \A f \in funds : Walkable(points[f], navs[f]),
           \A k \in 1..n : dates[k] \in Nat,
           \A i, j \in 1..n : i < j => dates[i] < dates[j],
           NEW state, StateScan(state, n, funds, points, navs, dates)
    PROVE  \A k \in 1..n, f \in funds : Carried(state[k][f], points[f], navs[f], dates[k])
<1> DEFINE At(k) == \A f \in funds : Carried(state[k][f], points[f], navs[f], dates[k])
           U == {k \in Nat : (1 <= k /\ k <= n) => At(k)}
<1>1. \A f \in funds : Sorted(points[f]) /\ Sorted(navs[f])
    BY DEF Walkable
<1>2. \A k \in 0..n : state[k] = IF k = 0 THEN [f \in funds |-> NoTimelineState]
                               ELSE [f \in funds |-> CarryTo(state[k - 1][f], points[f], navs[f], dates[k])]
    BY DEF StateScan
<1>3. 0 \in U
    OBVIOUS
<1>4. ASSUME NEW k \in Nat, k \in U PROVE k + 1 \in U
  <2> SUFFICES ASSUME k + 1 <= n PROVE At(k + 1)
      OBVIOUS
  <2> DEFINE m == k + 1
  <2>1. m \in 1..n /\ m \in 0..n /\ m # 0 /\ m - 1 = k /\ m \in Int /\ k \in 0..n
      OBVIOUS
  <2> HIDE DEF m
  <2>2. state[m] = [f \in funds |-> CarryTo(state[k][f], points[f], navs[f], dates[m])] /\ dates[m] \in Nat
      BY <1>2, <2>1
  <2>3. ASSUME NEW f \in funds PROVE Behind(state[k][f], points[f], navs[f], dates[m])
    <3>1. CASE k = 0
      <4>1. state[k][f] = NoTimelineState
          BY <1>2, <2>1, <3>1
      <4> QED
          BY <1>1, <2>2, <4>1, NothingBehind
    <3>2. CASE k # 0
      <4>1. k \in 1..n /\ 1 <= k /\ k <= n /\ k < m
          BY <2>1, <3>2
      <4>2. Carried(state[k][f], points[f], navs[f], dates[k])
          BY <1>4, <4>1
      <4>3. dates[k] \in Nat /\ dates[k] < dates[m]
          BY <2>1, <4>1
      <4>4. dates[k] <= dates[m]
          BY <2>2, <4>3
      <4> QED
          BY <1>1, <2>2, <4>2, <4>3, <4>4, CarriedOn
    <3> QED
        BY <3>1, <3>2
  <2>4. ASSUME NEW f \in funds PROVE Carried(state[m][f], points[f], navs[f], dates[m])
    <3>1. state[m][f] = CarryTo(state[k][f], points[f], navs[f], dates[m])
        BY <2>2
    <3> QED
        BY <1>1, <2>2, <2>3, <3>1, CarryIs
  <2>5. At(m)
      BY <2>4
  <2> HIDE DEF At
  <2> QED
      BY <2>5 DEF m
<1> HIDE DEF U
<1>5. \A k \in Nat : k \in U
    BY <1>3, <1>4, AllNaturals
<1>6. ASSUME NEW k \in 1..n PROVE At(k)
  <2>1. k \in Nat /\ 1 <= k /\ k <= n
      OBVIOUS
  <2>2. k \in U
      BY <1>5, <2>1
  <2> QED
      BY <2>1, <2>2 DEF U
<1> QED
    BY <1>6

\* The quotes of a fund, in order.
DatesOf(kept, f) == {r[1] : r \in {q \in kept : q[2] = f}}
Listed(navs, nav, f, D) ==
    /\ Sorted(navs)
    /\ \A i \in 1..Len(navs) : navs[i].date \in D /\ navs[i].nav = nav[f][navs[i].date]
    /\ \A e \in D : \E i \in 1..Len(navs) : navs[i].date = e

LEMMA NavsAre ==
    ASSUME NEW nav, NEW kept, IsFiniteSet(kept), \A r \in kept : r[1] \in Nat, NEW f
    PROVE  Listed(navByFund(nav, kept, f), nav, f, DatesOf(kept, f))
<1> DEFINE K == {q \in kept : q[2] = f}
           D == {r[1] : r \in K}
           ds == Ascending(D)
           n == Cardinality(D)
           p == navByFund(nav, kept, f)
<1>1. IsFiniteSet(D) /\ D \subseteq Nat
  <2>1. IsFiniteSet(K)
      BY FS_Subset
  <2>2. IsFiniteSet({r[1] : r \in K})
    <3> HIDE DEF K
    <3> DEFINE g == [r \in K |-> r[1]]
               H == {g[r] : r \in K}
    <3>1. H = {r[1] : r \in K}
        OBVIOUS
    <3>2. g \in Surjection(K, H)
        BY DEF Surjection
    <3> HIDE DEF g, H
    <3>3. IsFiniteSet(H)
        BY <2>1, <3>2, FS_Surjection
    <3> QED
        BY <3>1, <3>3
  <2> QED
      BY <2>2
<1>2. DatesOf(kept, f) = D
    BY DEF DatesOf
<1>3. p = [i \in DOMAIN ds |-> [date |-> ds[i], nav |-> nav[f][ds[i]]]]
    BY DEF navByFund
<1> HIDE DEF D, p
<1>4. /\ n \in Nat /\ Len(ds) = n /\ DOMAIN ds = 1..n
      /\ \A i \in 1..n : ds[i] \in D
      /\ \A i, j \in 1..n : i < j => ds[i] < ds[j]
      /\ \A d \in D : \E i \in 1..n : ds[i] = d
  <2> HIDE DEF n, ds
  <2>1. ds = Ascending(D) /\ n = Cardinality(D)
      BY DEF ds, n
  <2>2. InOrder(ds, n, D)
      BY <1>1, <2>1, AscendingIs
  <2> QED
      BY <2>2 DEF InOrder
<1> HIDE DEF n, ds
<1>5. Len(p) = n /\ \A i \in 1..n : p[i] = [date |-> ds[i], nav |-> nav[f][ds[i]]]
    BY <1>3, <1>4
<1>6. \A i \in 1..n : p[i].date = ds[i] /\ p[i].nav = nav[f][ds[i]] /\ ds[i] \in D /\ ds[i] \in Nat
  <2> SUFFICES ASSUME NEW i \in 1..n
               PROVE  p[i].date = ds[i] /\ p[i].nav = nav[f][ds[i]] /\ ds[i] \in D /\ ds[i] \in Nat
      OBVIOUS
  <2>1. ds[i] \in D /\ ds[i] \in Nat
      BY <1>1, <1>4
  <2>2. p[i] = [date |-> ds[i], nav |-> nav[f][ds[i]]]
      BY <1>5
  <2> QED
      BY <2>1, <2>2
<1>7. \A i, j \in 1..n : i < j => p[i].date <= p[j].date
  <2> SUFFICES ASSUME NEW i \in 1..n, NEW j \in 1..n, i < j PROVE p[i].date <= p[j].date
      OBVIOUS
  <2>1. ds[i] < ds[j]
      BY <1>4
  <2>2. p[i].date = ds[i] /\ p[j].date = ds[j] /\ ds[i] \in Nat /\ ds[j] \in Nat
      BY <1>6
  <2> QED
      BY <2>1, <2>2
<1>8. Sorted(p)
    BY <1>4, <1>5, <1>6, <1>7 DEF Sorted
<1>9. \A i \in 1..Len(p) : p[i].date \in D /\ p[i].nav = nav[f][p[i].date]
    BY <1>5, <1>6
<1>10. \A e \in D : \E i \in 1..Len(p) : p[i].date = e
  <2> SUFFICES ASSUME NEW e \in D PROVE \E i \in 1..Len(p) : p[i].date = e
      OBVIOUS
  <2>1. PICK i \in 1..n : ds[i] = e
      BY <1>4
  <2>2. p[i].date = ds[i] /\ i \in 1..Len(p)
      BY <1>5, <1>6
  <2> QED
      BY <2>1, <2>2
<1>11. Listed(p, nav, f, D)
    BY <1>8, <1>9, <1>10 DEF Listed
<1> QED
    BY <1>2, <1>11 DEF p

\* The quote a pointer stands on is the last one on or before the date.
QuotedTo(D, d) == {e \in D : e <= d}
LastQuoted(navs, p, nav, f, Q) ==
    /\ Q = {} => NavAt(navs, p) = NoNav
    /\ Q # {} => NavAt(navs, p) = nav[f][Max(Q)] /\ Max(Q) \in Q

LEMMA NavAtIs ==
    ASSUME NEW navs, NEW nav, NEW f, NEW D, D \subseteq Nat, Listed(navs, nav, f, D),
           NEW d \in Nat, NEW p, Upto(navs, p, d), NEW Q, Q = QuotedTo(D, d)
    PROVE  LastQuoted(navs, p, nav, f, Q)
<1>0. Q \subseteq Int /\ d \in Int /\ \A x \in Q : x <= d
  <2>1. ASSUME NEW x \in Q PROVE x \in D /\ x <= d
      BY DEF QuotedTo
  <2>2. \A x \in D : x \in Int
      OBVIOUS
  <2>3. d \in Int
      OBVIOUS
  <2> QED
      BY <2>1, <2>2, <2>3
<1>1. /\ Len(navs) \in Nat /\ p \in 0..Len(navs)
      /\ \A i \in 1..p : navs[i].date <= d
      /\ \A i \in 1..Len(navs) : navs[i].date <= d => i <= p
    BY DEF Listed, Sorted, Upto, Early
<1>2. /\ \A i, j \in 1..Len(navs) : i < j => navs[i].date <= navs[j].date
      /\ \A i \in 1..Len(navs) : navs[i].date \in D /\ navs[i].nav = nav[f][navs[i].date]
      /\ \A e \in D : \E i \in 1..Len(navs) : navs[i].date = e
    BY DEF Listed, Sorted
<1>3. CASE p = 0
  <2>1. Q = {}
    <3> SUFFICES ASSUME NEW e \in Q PROVE FALSE
        OBVIOUS
    <3>1. e \in D /\ e <= d
        BY DEF QuotedTo
    <3>2. PICK i \in 1..Len(navs) : navs[i].date = e
        BY <1>2, <3>1
    <3>3. i <= p /\ i \in Int /\ i >= 1
        BY <1>1, <3>1, <3>2
    <3> QED
        BY <1>3, <3>3
  <2> QED
      BY <1>3, <2>1 DEF NavAt, LastQuoted
<1>4. CASE p # 0
  <2> DEFINE m == navs[p].date
  <2>1. p \in 1..Len(navs) /\ p \in 1..p /\ p \in Nat
      BY <1>1, <1>4
  <2>2. m \in D /\ m <= d /\ navs[p].nav = nav[f][m]
      BY <1>1, <1>2, <2>1
  <2>3. m \in Q
      BY <2>2 DEF QuotedTo
  <2>4. ASSUME NEW e \in Q PROVE e <= m
    <3>1. e \in D /\ e <= d
        BY DEF QuotedTo
    <3>2. PICK i \in 1..Len(navs) : navs[i].date = e
        BY <1>2, <3>1
    <3>3. i <= p
        BY <1>1, <3>1, <3>2
    <3>4. i = p \/ i < p
        BY <2>1, <3>3
    <3>5. navs[i].date <= navs[p].date \/ i = p
        BY <1>2, <2>1, <3>4
    <3>6. e \in Nat /\ m \in Nat
        BY <3>1, <2>2
    <3> QED
        BY <3>2, <3>5, <3>6
  <2>5. Q \subseteq Int /\ d \in Int /\ \A x \in Q : x <= d
      BY <1>0
  <2> HIDE DEF m
  <2>6. Max(Q) \in Q /\ \A y \in Q : y <= Max(Q)
    <3>1. Q # {}
        BY <2>3
    <3>2. Q \subseteq Int /\ d \in Int /\ \A x \in Q : x <= d
        BY <2>5
    <3> QED
        BY <3>1, <3>2, LargestOf
  <2> DEFINE x == Max(Q)
  <2>7. x \in Q /\ m <= x /\ x <= m /\ x \in Int /\ m \in Int
      BY <2>3, <2>4, <2>5, <2>6
  <2> HIDE DEF x
  <2>8. x = m
      BY <2>7
  <2>9. NavAt(navs, p) = nav[f][m]
      BY <1>4, <2>2 DEF NavAt, m
  <2> QED
      BY <2>3, <2>6, <2>8, <2>9 DEF x, LastQuoted
<1> QED
    BY <1>3, <1>4

\* The running sums a pointer stands on are those of the trades up to the date.
TradesTo(t, d) == {i \in DOMAIN t : t[i].date <= d}
SharesTo(t, d) == SumFunction([i \in TradesTo(t, d) |-> t[i].shares])
CashTo(t, d) == SumFunction([i \in TradesTo(t, d) |-> t[i].cash])

LEMMA TotalsAre ==
    ASSUME NEW t, t \in Seq(Trades), NEW points, Totalled(points, t), NEW d \in Nat,
           NEW p, Upto(points, p, d)
    PROVE  /\ SharesAt(points, p) = SharesTo(t, d) /\ CostAt(points, p) = CashTo(t, d)
           /\ SharesAt(points, p) \in Int /\ CostAt(points, p) \in Int
<1> DEFINE n == Len(t)
           T == TradesTo(t, d)
<1>1. n \in Nat /\ DOMAIN t = 1..n
    OBVIOUS
<1>2. /\ p \in 0..n
      /\ \A i \in 1..p : points[i].date <= d
      /\ \A i \in 1..n : points[i].date <= d => i <= p
      /\ \A i \in 1..n : /\ points[i].date = t[i].date
                         /\ points[i].shares = SumOver(SharesOf(t), 1..i)
                         /\ points[i].cost = SumOver(CashOf(t), 1..i)
                         /\ points[i].shares \in Int /\ points[i].cost \in Int
    BY DEF Upto, Early, Totalled, Running
<1> HIDE DEF n
<1>0. /\ SharesTo(t, d) = SumFunction([i \in T |-> t[i].shares])
      /\ CashTo(t, d) = SumFunction([i \in T |-> t[i].cash])
    BY DEF SharesTo, CashTo
<1>3. T = 1..p
  <2>1. T = {i \in 1..n : t[i].date <= d}
      BY <1>1 DEF TradesTo
  <2>2. ASSUME NEW i \in T PROVE i \in 1..p
    <3>1. i \in 1..n /\ points[i].date <= d
        BY <1>2, <2>1
    <3>2. i <= p
        BY <1>2, <3>1
    <3> QED
        BY <1>1, <1>2, <3>1, <3>2
  <2>3. ASSUME NEW i \in 1..p PROVE i \in T
    <3>1. i \in 1..n
        BY <1>1, <1>2
    <3> QED
        BY <1>2, <2>1, <3>1
  <2> QED
      BY <2>2, <2>3
<1> HIDE DEF T
<1>4. \A i \in T : i \in 1..n
    BY <1>1, <1>2, <1>3
<1>5. [i \in T |-> t[i].shares] = [i \in T |-> SharesOf(t)[i]]
    BY <1>4 DEF SharesOf, n
<1>6. [i \in T |-> t[i].cash] = [i \in T |-> CashOf(t)[i]]
    BY <1>4 DEF CashOf, n
<1>7. SumFunction([i \in T |-> t[i].shares]) = SumOver(SharesOf(t), 1..p)
    BY <1>3, <1>5 DEF SumOver
<1>8. SumFunction([i \in T |-> t[i].cash]) = SumOver(CashOf(t), 1..p)
    BY <1>3, <1>6 DEF SumOver
<1>9. CASE p = 0
  <2>1. 1..p = {}
      BY <1>9
  <2>2. SumOver(SharesOf(t), {}) = 0 /\ SumOver(CashOf(t), {}) = 0
    <3>1. IsFiniteSet({})
        BY FS_EmptySet
    <3> QED
        BY <3>1, SumOverChosen
  <2>3. SharesAt(points, p) = 0 /\ CostAt(points, p) = 0
      BY <1>9 DEF SharesAt, CostAt
  <2>4. SumFunction([i \in T |-> t[i].shares]) = 0 /\ SumFunction([i \in T |-> t[i].cash]) = 0
      BY <1>7, <1>8, <2>1, <2>2
  <2>5. SharesAt(points, p) \in Int /\ CostAt(points, p) \in Int
      BY <2>3
  <2> QED
      BY <1>0, <2>3, <2>4, <2>5
<1>10. CASE p # 0
  <2>1. p \in 1..n
      BY <1>1, <1>2, <1>10
  <2>2. SharesAt(points, p) = points[p].shares /\ CostAt(points, p) = points[p].cost
      BY <1>10 DEF SharesAt, CostAt
  <2> QED
      BY <1>0, <1>2, <1>7, <1>8, <2>1, <2>2
<1> QED
    BY <1>9, <1>10

\* What each step of the walk stands for.
DaysOf(kept) == {r[1] : r \in kept}
FundsOf(kept) == {r[2] : r \in kept}
HeldAt(st, funds) == {f \in funds : st[f].shares > 0 /\ st[f].nav # NoNav}
EntryAt(st, funds, d) ==
    [date  |-> d,
     value |-> SumFunction([f \in HeldAt(st, funds) |-> st[f].shares * st[f].nav]),
     cost  |-> SumFunction([f \in HeldAt(st, funds) |-> st[f].cost])]
WalkedBy(n, dates, state, source, nav, txs, kept) ==
    /\ InOrder(dates, n, DaysOf(kept))
    /\ \A k \in 1..n, f \in FundsOf(kept) :
          Carried(state[k][f], timelineTransactions(txs)[f], navByFund(nav, kept, f), dates[k])
    /\ GetTimeline(source, nav, txs) =
          {EntryAt(state[k], FundsOf(kept), dates[k]) :
              k \in {j \in 1..n : HeldAt(state[j], FundsOf(kept)) # {}}}

LEMMA TradesRun ==
    ASSUME NEW txs \in TxTables, NEW f \in SFunds,
           SumFunction([g \in SFunds |-> Len(txs[g])]) <= TxRowCap
    PROVE  /\ txs[f] \in Seq(Trades)
           /\ Totalled(timelineTransactions(txs)[f], txs[f])
           /\ Sorted(timelineTransactions(txs)[f])
           /\ \A i \in 1..Len(timelineTransactions(txs)[f]) :
                 /\ timelineTransactions(txs)[f][i].shares \in Int
                 /\ timelineTransactions(txs)[f][i].cost \in Int
<1> DEFINE t == txs[f]
           p == timelineTransactions(txs)[f]
<1>1. Totalled(p, t)
    BY PointsAre
<1>2. t \in Seq(Trades) /\ \A i, j \in DOMAIN t : i < j => t[i].date <= t[j].date
    BY TimelineAssumption DEF Trades
<1> HIDE DEF t, p
<1>3. Len(t) \in Nat /\ DOMAIN t = 1..Len(t) /\ \A i \in 1..Len(t) : t[i] \in Trades
    BY <1>2
<1>4. \A i \in 1..Len(t) : t[i].date \in Nat
    BY <1>3 DEF Trades
<1>5. Len(p) = Len(t) /\ \A i \in 1..Len(t) : p[i].date = t[i].date /\ p[i].shares \in Int /\ p[i].cost \in Int
    BY <1>1 DEF Totalled, Running
<1>6. \A i, j \in 1..Len(t) : i < j => p[i].date <= p[j].date
  <2> SUFFICES ASSUME NEW i \in 1..Len(t), NEW j \in 1..Len(t), i < j
               PROVE  p[i].date <= p[j].date
      OBVIOUS
  <2>1. t[i].date <= t[j].date
      BY <1>2, <1>3
  <2>2. p[i].date = t[i].date /\ p[j].date = t[j].date
      BY <1>5
  <2> QED
      BY <2>1, <2>2
<1>7. Sorted(p)
    BY <1>3, <1>4, <1>5, <1>6 DEF Sorted
<1> QED
    BY <1>1, <1>2, <1>5, <1>7 DEF t, p

LEMMA KeptAre ==
    ASSUME NEW source, NEW nav \in NavTables, NEW txs \in TxTables, NEW kept, kept = timelineNAVRows(source, nav, txs)
    PROVE  /\ IsFiniteSet(kept) /\ \A r \in kept : r[1] \in Nat /\ r[2] \in SFunds
           /\ \A f \in SFunds : Listed(navByFund(nav, kept, f), nav, f, DatesOf(kept, f))
           /\ \A f \in SFunds : \A i \in 1..Len(navByFund(nav, kept, f)) :
                 navByFund(nav, kept, f)[i].nav \in Int
<1> DEFINE all == AllRows(source, nav, txs)
<1>1. IsFiniteSet(all) /\ kept \subseteq all /\ \A r \in all : r[1] \in 1..LastDate /\ r[2] \in SFunds
    BY RowsAre
<1>2. LastDate \in Nat /\ nav \in [SFunds -> [1..LastDate -> Nat \cup {NoNav}]]
    BY TimelineAssumption
<1> HIDE DEF all
<1>3. IsFiniteSet(kept)
    BY <1>1, FS_Subset
<1>4. \A r \in kept : r[1] \in 1..LastDate /\ r[1] \in Nat /\ r[2] \in SFunds
    BY <1>1, <1>2
<1>5. \A f \in SFunds : Listed(navByFund(nav, kept, f), nav, f, DatesOf(kept, f))
    BY <1>3, <1>4, NavsAre
<1>6. ASSUME NEW f \in SFunds, NEW i \in 1..Len(navByFund(nav, kept, f))
      PROVE  navByFund(nav, kept, f)[i].nav \in Int
  <2> DEFINE e == navByFund(nav, kept, f)[i].date
  <2>1. e \in DatesOf(kept, f) /\ navByFund(nav, kept, f)[i].nav = nav[f][e]
      BY <1>5 DEF Listed
  <2>2. e \in 1..LastDate
      BY <1>4, <2>1 DEF DatesOf
  <2> HIDE DEF e
  <2>3. nav[f][e] \in Nat \cup {NoNav}
      BY <1>2, <2>2
  <2> QED
      BY <2>1, <2>3 DEF NoNav
<1> QED
    BY <1>3, <1>4, <1>5, <1>6

LEMMA WalkIs ==
    ASSUME NEW source, NEW nav \in NavTables, NEW txs \in TxTables,
           SumFunction([g \in SFunds |-> Len(txs[g])]) <= TxRowCap,
           NEW kept, kept = timelineNAVRows(source, nav, txs)
    PROVE  \E n, dates, state : WalkedBy(n, dates, state, source, nav, txs, kept)
<1> DEFINE funds == FundsOf(kept)
           points == timelineTransactions(txs)
           navs == [f \in funds |-> navByFund(nav, kept, f)]
           dates == Ascending(DaysOf(kept))
           n == Cardinality(DaysOf(kept))
           Scan(g) == g = [k \in 0..Len(dates) |->
                IF k = 0 THEN [f \in funds |-> NoTimelineState]
                ELSE [f \in funds |-> CarryTo(g[k - 1][f], points[f], navByFund(nav, kept, f), dates[k])]]
           state == CHOOSE g : Scan(g)
<1>1. /\ IsFiniteSet(kept) /\ \A r \in kept : r[1] \in Nat /\ r[2] \in SFunds
      /\ \A f \in SFunds : Listed(navByFund(nav, kept, f), nav, f, DatesOf(kept, f))
      /\ \A f \in SFunds : \A i \in 1..Len(navByFund(nav, kept, f)) :
            navByFund(nav, kept, f)[i].nav \in Int
    BY KeptAre
<1>2. InOrder(dates, n, DaysOf(kept))
  <2> DEFINE S == DaysOf(kept)
  <2>1. IsFiniteSet(S)
    <3> DEFINE g == [r \in kept |-> r[1]]
               H == {g[r] : r \in kept}
    <3>1. H = S
        BY DEF DaysOf
    <3>2. g \in Surjection(kept, H)
        BY DEF Surjection
    <3> HIDE DEF g, H, S
    <3>3. IsFiniteSet(H)
        BY <1>1, <3>2, FS_Surjection
    <3> QED
        BY <3>1, <3>3
  <2>2. S \subseteq Nat
      BY <1>1 DEF DaysOf
  <2>3. dates = Ascending(S) /\ n = Cardinality(S)
      OBVIOUS
  <2> HIDE DEF S, dates, n
  <2>4. InOrder(dates, n, S)
      BY <2>1, <2>2, <2>3, AscendingIs
  <2> QED
      BY <2>4 DEF S
<1>3. /\ n \in Nat /\ DOMAIN dates = 1..n /\ Len(dates) = n
      /\ \A k \in 1..n : dates[k] \in Nat
      /\ \A i, j \in 1..n : i < j => dates[i] < dates[j]
  <2>1. \A d \in DaysOf(kept) : d \in Nat
      BY <1>1 DEF DaysOf
  <2> HIDE DEF n, dates
  <2> QED
      BY <1>2, <2>1 DEF InOrder
<1>4. funds \subseteq SFunds
    BY <1>1 DEF FundsOf
<1>5. \A f \in funds : navs[f] = navByFund(nav, kept, f)
    OBVIOUS
<1>6. ASSUME NEW f \in funds PROVE Walkable(points[f], navs[f])
  <2>1. f \in SFunds
      BY <1>4
  <2>2. /\ Sorted(points[f])
        /\ \A i \in 1..Len(points[f]) : points[f][i].shares \in Int /\ points[f][i].cost \in Int
      BY <2>1, TradesRun
  <2>3. Sorted(navByFund(nav, kept, f))
      BY <1>1, <2>1 DEF Listed
  <2> HIDE DEF points, navs
  <2> QED
      BY <1>1, <1>5, <2>1, <2>2, <2>3 DEF Walkable
<1>7. GetTimeline(source, nav, txs) =
         {EntryAt(state[k], funds, dates[k]) : k \in {j \in DOMAIN dates : HeldAt(state[j], funds) # {}}}
    BY DEF GetTimeline, EntryAt, HeldAt, FundsOf, DaysOf
<1>8. ASSUME NEW g, StateScan(g, n, funds, points, navs, dates) PROVE Scan(g)
  <2> HIDE DEF navs, points, dates, n, funds
  <2>1. \A k \in 0..n : [f \in funds |-> CarryTo(g[k - 1][f], points[f], navs[f], dates[k])]
                      = [f \in funds |-> CarryTo(g[k - 1][f], points[f], navByFund(nav, kept, f), dates[k])]
      BY <1>5
  <2>2. g = [k \in 0..n |->
                IF k = 0 THEN [f \in funds |-> NoTimelineState]
                ELSE [f \in funds |-> CarryTo(g[k - 1][f], points[f], navs[f], dates[k])]]
      BY <1>8 DEF StateScan
  <2> QED
      BY <1>3, <2>1, <2>2
<1>9. ASSUME NEW g, Scan(g) PROVE StateScan(g, n, funds, points, navs, dates)
  <2> HIDE DEF navs, points, dates, n, funds
  <2>1. \A k \in 0..n : [f \in funds |-> CarryTo(g[k - 1][f], points[f], navs[f], dates[k])]
                      = [f \in funds |-> CarryTo(g[k - 1][f], points[f], navByFund(nav, kept, f), dates[k])]
      BY <1>5
  <2>2. g = [k \in 0..n |->
                IF k = 0 THEN [f \in funds |-> NoTimelineState]
                ELSE [f \in funds |-> CarryTo(g[k - 1][f], points[f], navByFund(nav, kept, f), dates[k])]]
      BY <1>3, <1>9
  <2>3. g = [k \in 0..n |->
                IF k = 0 THEN [f \in funds |-> NoTimelineState]
                ELSE [f \in funds |-> CarryTo(g[k - 1][f], points[f], navs[f], dates[k])]]
      BY <2>1, <2>2
  <2> QED
      BY <2>3 DEF StateScan
<1> HIDE DEF navs, points, dates, n, funds
<1>10. Scan(state)
  <2>1. \E g : Scan(g)
    <3>1. \E g : StateScan(g, n, funds, points, navs, dates)
        BY <1>3, <1>6, StatesStand
    <3> HIDE DEF Scan
    <3> QED
        BY <1>8, <3>1
  <2> HIDE DEF Scan
  <2> QED
      BY <2>1
<1> HIDE DEF Scan
<1>11. StateScan(state, n, funds, points, navs, dates)
    BY <1>9, <1>10
<1> HIDE DEF state
<1>12. \A k \in 1..n, f \in funds : Carried(state[k][f], points[f], navs[f], dates[k])
    BY <1>3, <1>6, <1>11, StatesAre
<1>13. \A k \in 1..n, f \in funds : Carried(state[k][f], points[f], navByFund(nav, kept, f), dates[k])
    BY <1>5, <1>12
<1>14. GetTimeline(source, nav, txs) =
          {EntryAt(state[k], funds, dates[k]) : k \in {j \in 1..n : HeldAt(state[j], funds) # {}}}
    BY <1>3, <1>7
<1>15. WalkedBy(n, dates, state, source, nav, txs, kept)
    BY <1>2, <1>13, <1>14 DEF WalkedBy, points, funds
<1> QED
    BY <1>15

\* The dates on which a fund is quoted, among the rows and by the property.
LEMMA QuotesAre ==
    ASSUME NEW source, source = input.db, NEW nav, nav = input.nav,
           NEW txs \in TxTables, txs = input.txs, TradeDates(txs) # {},
           NEW kept, kept = timelineNAVRows(source, nav, txs), NEW d \in 1..LastDate,
           \A r \in AllRows(source, nav, txs) : r[1] <= d => r \in kept,
           NEW f \in SFunds
    PROVE  QuotesBy(f, d) = QuotedTo(DatesOf(kept, f), d)
<1>1. /\ kept \subseteq AllRows(source, nav, txs)
      /\ \A r \in AllRows(source, nav, txs) : r[1] \in 1..LastDate /\ r[2] \in SFunds
    BY RowsAre
<1>2. LastDate \in Nat
    BY TimelineAssumption
<1>3. QuotesBy(f, d) = {e \in 1..d : nav[f][e] # NoNav /\ e >= Since(source, txs)}
    BY DEF QuotesBy, CountsFrom, Since
<1>4. ASSUME NEW e \in QuotesBy(f, d) PROVE e \in DatesOf(kept, f) /\ e <= d
  <2>1. e \in 1..d /\ nav[f][e] # NoNav /\ e >= Since(source, txs)
      BY <1>3
  <2>2. e \in 1..LastDate /\ e <= d
      BY <1>2, <2>1
  <2> DEFINE r == <<e, f>>
  <2>3. r[1] = e /\ r[2] = f /\ r \in (1..LastDate) \X SFunds
      BY <2>2
  <2> HIDE DEF r
  <2>4. r \in AllRows(source, nav, txs)
      BY <2>1, <2>3 DEF AllRows
  <2>5. r \in kept
      BY <2>2, <2>3, <2>4
  <2> QED
      BY <2>2, <2>3, <2>5 DEF DatesOf
<1>5. ASSUME NEW e \in DatesOf(kept, f), e <= d PROVE e \in QuotesBy(f, d)
  <2>1. PICK r \in kept : r[2] = f /\ r[1] = e
      BY DEF DatesOf
  <2>2. r \in AllRows(source, nav, txs) /\ r[1] \in 1..LastDate
      BY <1>1
  <2>3. nav[r[2]][r[1]] # NoNav /\ r[1] >= Since(source, txs)
      BY <2>2 DEF AllRows
  <2>4. e \in 1..d
      BY <1>2, <1>5, <2>1, <2>2
  <2> QED
      BY <1>3, <2>1, <2>3, <2>4
<1> QED
    BY <1>4, <1>5 DEF QuotedTo

\* A fund in the walk stands where the property says.
StandsAt(s, f, d) ==
    /\ s.shares = SharesOn(f, d) /\ s.cost = CashOn(f, d) /\ s.shares \in Int
    /\ (s.nav # NoNav) <=> (QuotesBy(f, d) # {})
    /\ QuotesBy(f, d) # {} => s.nav = input.nav[f][Max(QuotesBy(f, d))]

LEMMA StandsAs ==
    ASSUME NEW source, source = input.db, NEW nav \in NavTables, nav = input.nav, NEW txs \in TxTables, txs = input.txs,
           TradeDates(txs) # {}, SumFunction([g \in SFunds |-> Len(txs[g])]) <= TxRowCap,
           NEW kept, kept = timelineNAVRows(source, nav, txs), NEW d \in 1..LastDate,
           \A r \in AllRows(source, nav, txs) : r[1] <= d => r \in kept,
           NEW f \in SFunds, NEW s,
           Carried(s, timelineTransactions(txs)[f], navByFund(nav, kept, f), d)
    PROVE  StandsAt(s, f, d)
<1> DEFINE p == timelineTransactions(txs)[f]
           q == navByFund(nav, kept, f)
           t == txs[f]
           D == DatesOf(kept, f)
           Q == QuotesBy(f, d)
<1>1. t \in Seq(Trades) /\ Totalled(p, t)
    BY TradesRun
<1>2. Listed(q, nav, f, D) /\ \A r \in kept : r[1] \in Nat
    BY KeptAre
<1>3. Q = QuotedTo(D, d)
    BY QuotesAre
<1>4. d \in Nat
    BY TimelineAssumption
<1>5. Shows(s, p, q) /\ Upto(p, s.tx, d) /\ Upto(q, s.np, d)
    BY DEF Carried
<1>6. D \subseteq Nat
    BY <1>2 DEF DatesOf
<1>7. SharesOn(f, d) = SharesTo(t, d)
    BY DEF SharesOn, TradesBy, TradesTo, SharesTo
<1>8. CashOn(f, d) = CashTo(t, d)
    BY DEF CashOn, TradesBy, TradesTo, CashTo
<1>9. \A e \in Q : nav[f][e] # NoNav
    BY DEF QuotesBy
<1> HIDE DEF p, q, t, D, Q
<1>10. /\ SharesAt(p, s.tx) = SharesTo(t, d) /\ CostAt(p, s.tx) = CashTo(t, d)
       /\ SharesAt(p, s.tx) \in Int
    BY <1>1, <1>4, <1>5, TotalsAre
<1>11. /\ Q = {} => NavAt(q, s.np) = NoNav
       /\ Q # {} => NavAt(q, s.np) = nav[f][Max(Q)] /\ Max(Q) \in Q
  <2> DEFINE p0 == s.np
  <2>1. Upto(q, p0, d)
      BY <1>5
  <2> HIDE DEF p0
  <2>2. LastQuoted(q, p0, nav, f, Q)
      BY <1>2, <1>3, <1>4, <1>6, <2>1, NavAtIs
  <2> QED
      BY <2>2 DEF LastQuoted, p0
<1>12. s.shares = SharesAt(p, s.tx) /\ s.cost = CostAt(p, s.tx) /\ s.nav = NavAt(q, s.np)
    BY <1>5 DEF Shows
<1>13. s.nav # NoNav <=> Q # {}
  <2> DEFINE m == Max(Q)
  <2>1. Q # {} => m \in Q /\ s.nav = nav[f][m]
      BY <1>11, <1>12
  <2>2. Q = {} => s.nav = NoNav
      BY <1>11, <1>12
  <2> HIDE DEF m
  <2> QED
      BY <1>9, <2>1, <2>2
<1>14. Q # {} => s.nav = nav[f][Max(Q)]
    BY <1>11, <1>12
<1> QED
    BY <1>7, <1>8, <1>10, <1>12, <1>13, <1>14 DEF StandsAt, Q

\* A day up to which no row is cut off is entered as the property says.
LEMMA EntersAs ==
    ASSUME NEW source, source = input.db, NEW nav \in NavTables, nav = input.nav, NEW txs \in TxTables, txs = input.txs,
           TradeDates(txs) # {}, SumFunction([g \in SFunds |-> Len(txs[g])]) <= TxRowCap,
           NEW kept, kept = timelineNAVRows(source, nav, txs), NEW d \in 1..LastDate,
           \A r \in AllRows(source, nav, txs) : r[1] <= d => r \in kept,
           NEW st, \A f \in FundsOf(kept) :
                      Carried(st[f], timelineTransactions(txs)[f], navByFund(nav, kept, f), d)
    PROVE  HeldAt(st, FundsOf(kept)) = HeldOn(d) /\ EntryAt(st, FundsOf(kept), d) = DayOf(d)
<1> DEFINE funds == FundsOf(kept)
<1>1. funds \subseteq SFunds
  <2>1. \A r \in kept : r[2] \in SFunds
      BY KeptAre
  <2> QED
      BY <2>1 DEF FundsOf
<1>2. ASSUME NEW f \in funds PROVE StandsAt(st[f], f, d)
  <2>1. f \in SFunds /\ Carried(st[f], timelineTransactions(txs)[f], navByFund(nav, kept, f), d)
      BY <1>1
  <2> HIDE DEF funds
  <2> DEFINE s == st[f]
  <2>2. Carried(s, timelineTransactions(txs)[f], navByFund(nav, kept, f), d)
      BY <2>1
  <2> HIDE DEF s
  <2>3. StandsAt(s, f, d)
      BY <2>1, <2>2, StandsAs
  <2> QED
      BY <2>3 DEF s
<1>3. ASSUME NEW f \in SFunds, QuotesBy(f, d) # {} PROVE f \in funds
  <2>1. QuotesBy(f, d) = QuotedTo(DatesOf(kept, f), d)
      BY QuotesAre
  <2>2. DatesOf(kept, f) # {}
      BY <1>3, <2>1 DEF QuotedTo
  <2> QED
      BY <2>2 DEF DatesOf, FundsOf
<1> HIDE DEF funds
<1> DEFINE held == HeldAt(st, funds)
<1>4. held = HeldOn(d)
  <2>1. ASSUME NEW f \in held PROVE f \in HeldOn(d)
    <3>1. f \in funds /\ st[f].shares > 0 /\ st[f].nav # NoNav
        BY DEF HeldAt
    <3> QED
        BY <1>1, <1>2, <3>1 DEF HeldOn, StandsAt
  <2>2. ASSUME NEW f \in HeldOn(d) PROVE f \in held
    <3>1. f \in SFunds /\ SharesOn(f, d) > 0 /\ QuotesBy(f, d) # {}
        BY DEF HeldOn
    <3>2. f \in funds
        BY <1>3, <3>1
    <3> QED
        BY <1>2, <3>1, <3>2 DEF HeldAt, StandsAt
  <2> HIDE DEF held
  <2> QED
      BY <2>1, <2>2
<1>5. \A f \in held : f \in funds /\ QuotesBy(f, d) # {}
    BY <1>2 DEF HeldAt, StandsAt
<1>6. EntryAt(st, funds, d) =
         [date  |-> d,
          value |-> SumFunction([f \in held |-> st[f].shares * st[f].nav]),
          cost  |-> SumFunction([f \in held |-> st[f].cost])]
    BY DEF EntryAt
<1> HIDE DEF held
<1>7. \A f \in held : st[f].shares * st[f].nav = SharesOn(f, d) * input.nav[f][Max(QuotesBy(f, d))]
    BY <1>2, <1>5 DEF StandsAt
<1>8. [f \in held |-> st[f].shares * st[f].nav]
         = [f \in HeldOn(d) |-> SharesOn(f, d) * input.nav[f][Max(QuotesBy(f, d))]]
    BY <1>4, <1>7
<1>9. [f \in held |-> st[f].cost] = [f \in HeldOn(d) |-> CashOn(f, d)]
    BY <1>2, <1>4, <1>5 DEF StandsAt
<1>10. EntryAt(st, funds, d) = DayOf(d)
    BY <1>6, <1>8, <1>9 DEF DayOf
<1> QED
    BY <1>4, <1>10 DEF funds, held

\* Without a trade there is no row and no day.
LEMMA NothingTraded ==
    ASSUME NEW source, NEW nav, NEW txs, TradeDates(txs) = {}
    PROVE  GetTimeline(source, nav, txs) = {}
<1> DEFINE kept == timelineNAVRows(source, nav, txs)
           dates == Ascending({r[1] : r \in kept})
<1>1. kept = {}
    BY DEF timelineNAVRows
<1>2. {r[1] : r \in kept} = {}
    BY <1>1
<1>3. DOMAIN dates = {}
  <2>1. Cardinality({}) = 0
      BY FS_EmptySet
  <2>2. DOMAIN dates = 1..Cardinality({r[1] : r \in kept})
      BY DEF Ascending
  <2>3. DOMAIN dates = 1..0
      BY <1>2, <2>1, <2>2
  <2> QED
      BY <2>3
<1> DEFINE funds == FundsOf(kept)
           state == CHOOSE g : g = [k \in 0..Len(dates) |->
                IF k = 0 THEN [f \in funds |-> NoTimelineState]
                ELSE [f \in funds |-> CarryTo(g[k - 1][f], timelineTransactions(txs)[f],
                                              navByFund(nav, kept, f), dates[k])]]
<1>4. GetTimeline(source, nav, txs) =
         {EntryAt(state[k], funds, dates[k]) : k \in {j \in DOMAIN dates : HeldAt(state[j], funds) # {}}}
    BY DEF GetTimeline, EntryAt, HeldAt, FundsOf
<1> HIDE DEF dates, state, funds
<1> QED
    BY <1>3, <1>4

LEMMA TimelineRight ==
    ASSUME job = "timeline", input \in [db : Databases, nav : NavTables, txs : TxTables],
           output.value = GetTimeline(input.db, input.nav, input.txs)
    PROVE  TimelineIsCarryForward
<1> DEFINE source == input.db
           nav == input.nav
           txs == input.txs
           all == AllRows(source, nav, txs)
           kept == timelineNAVRows(source, nav, txs)
           quoted == {r \in (1..LastDate) \X SFunds : r[1] \in QuotesBy(r[2], LastDate)}
           whole == Cardinality(quoted) <= NavRowCap
           last == Max({r[1] : r \in kept})
           days == {r[1] : r \in {q \in quoted : (whole \/ q[1] < last) /\ HeldOn(q[1]) # {}}}
           want == {DayOf(d) : d \in days}
           V == output.value
<1>1. nav \in NavTables /\ txs \in TxTables
    OBVIOUS
<1>2. TimelineIsCarryForward
         <=> IF TradeDates(txs) = {} THEN V = {}
             ELSE SumFunction([f \in SFunds |-> Len(txs[f])]) <= TxRowCap =>
                    IF whole THEN V = want ELSE want = {e \in V : e.date < last}
    BY DEF TimelineIsCarryForward
<1>3. CASE TradeDates(txs) = {}
  <2>1. V = {}
      BY <1>3, NothingTraded
  <2> HIDE DEF V, want, whole
  <2> QED
      BY <1>2, <1>3, <2>1
<1>4. ASSUME TradeDates(txs) # {}, SumFunction([f \in SFunds |-> Len(txs[f])]) <= TxRowCap
      PROVE  /\ whole => V = want
             /\ ~whole => want = {e \in V : e.date < last}
  <2>0. LastDate \in Nat /\ NavRowCap \in Nat /\ NavRowCap > 0
      BY TimelineAssumption
  <2>1. quoted = all
    <3>1. ASSUME NEW r \in (1..LastDate) \X SFunds
          PROVE  r[1] \in QuotesBy(r[2], LastDate) <=> r \in all
      <4>1. r[1] \in 1..LastDate
          OBVIOUS
      <4> QED
          BY <1>4, <4>1 DEF QuotesBy, CountsFrom, Since, AllRows
    <3>2. all \subseteq (1..LastDate) \X SFunds
        BY DEF AllRows
    <3> HIDE DEF all
    <3> QED
        BY <3>1, <3>2
  <2>2. /\ \A r \in all : r[1] \in 1..LastDate /\ r[2] \in SFunds
        /\ IsFiniteSet(all) /\ kept \subseteq all
        /\ Cardinality(all) <= NavRowCap => kept = all
        /\ all # {} => kept # {}
        /\ \A r \in all, k \in kept : r[1] < k[1] => r \in kept
      BY RowsAre
  <2>3. whole <=> Cardinality(all) <= NavRowCap
      BY <2>1
  <2>4. PICK n, dates, state : WalkedBy(n, dates, state, source, nav, txs, kept)
      BY <1>1, <1>4, WalkIs
  <2> DEFINE funds == FundsOf(kept)
             Ks == {j \in 1..n : HeldAt(state[j], funds) # {}}
             Fits(d) == \A r \in all : r[1] <= d => r \in kept
  <2>5. /\ n \in Nat
        /\ \A k \in 1..n : dates[k] \in DaysOf(kept)
        /\ \A d \in DaysOf(kept) : \E k \in 1..n : dates[k] = d
        /\ \A k \in 1..n, f \in funds :
              Carried(state[k][f], timelineTransactions(txs)[f], navByFund(nav, kept, f), dates[k])
        /\ V = {EntryAt(state[k], funds, dates[k]) : k \in Ks}
      BY <2>4 DEF WalkedBy, InOrder
  <2>6. \A d : DayOf(d).date = d
      BY DEF DayOf
  <2>7. \A k : EntryAt(state[k], funds, dates[k]).date = dates[k]
      BY DEF EntryAt
  <2>8. \A k \in 1..n : \E r \in kept : r[1] = dates[k]
      BY <2>5 DEF DaysOf
  <2>9. \A r \in kept : \E k \in 1..n : dates[k] = r[1]
      BY <2>5 DEF DaysOf
  <2>10. ~whole => \E k \in kept : k[1] = last
    <3> SUFFICES ASSUME ~whole PROVE \E k \in kept : k[1] = last
        OBVIOUS
    <3>1. all # {}
      <4> SUFFICES ASSUME all = {} PROVE FALSE
          OBVIOUS
      <4>1. Cardinality(all) = 0
          BY FS_EmptySet
      <4>2. ~(Cardinality(all) <= NavRowCap)
          BY <2>3
      <4> HIDE DEF all
      <4> QED
          BY <2>0, <4>1, <4>2
    <3> DEFINE T == {r[1] : r \in kept}
    <3>2. T # {}
        BY <2>2, <3>1
    <3>3. T \subseteq Int /\ \A x \in T : x <= LastDate
      <4>1. \A r \in kept : r[1] \in Int /\ r[1] <= LastDate
          BY <2>0, <2>2
      <4> QED
          BY <4>1
    <3>4. Max(T) \in T
      <4> HIDE DEF T
      <4>1. LastDate \in Int
          BY <2>0
      <4> QED
          BY <3>2, <3>3, <4>1, LargestOf
    <3>5. last = Max(T)
        OBVIOUS
    <3> HIDE DEF last
    <3> QED
        BY <3>4, <3>5
  <2> HIDE DEF all, kept, quoted, whole, last, source, nav, txs, V
  <2>11. ASSUME NEW d \in 1..LastDate, whole \/ d < last PROVE Fits(d)
    <3>1. CASE whole
        BY <2>2, <2>3, <3>1
    <3>2. CASE ~whole
      <4>1. PICK k \in kept : k[1] = last
          BY <2>10, <3>2
      <4>2. last \in Int /\ d \in Int /\ d < last
          BY <2>0, <2>2, <2>11, <3>2, <4>1
      <4>3. ASSUME NEW r \in all, r[1] <= d PROVE r \in kept
        <5>1. r[1] \in Int
            BY <2>2
        <5>2. r[1] < k[1]
            BY <4>1, <4>2, <4>3, <5>1
        <5> QED
            BY <2>2, <5>2
      <4> QED
          BY <4>3
    <3> QED
        BY <3>1, <3>2
  <2>12. ASSUME NEW k \in 1..n, whole \/ dates[k] < last
         PROVE  /\ HeldAt(state[k], funds) = HeldOn(dates[k])
                /\ EntryAt(state[k], funds, dates[k]) = DayOf(dates[k])
                /\ dates[k] \in 1..LastDate
    <3> DEFINE d == dates[k]
               st == state[k]
    <3>1. d \in 1..LastDate
        BY <2>2, <2>8
    <3>2. \A r \in all : r[1] <= d => r \in kept
        BY <2>11, <2>12, <3>1
    <3>3. \A f \in funds : Carried(st[f], timelineTransactions(txs)[f], navByFund(nav, kept, f), d)
        BY <2>5
    <3> HIDE DEF d, st
    <3>4. HeldAt(st, funds) = HeldOn(d) /\ EntryAt(st, funds, d) = DayOf(d)
      <4>1. /\ source = input.db /\ nav = input.nav /\ txs = input.txs /\ kept = timelineNAVRows(source, nav, txs)
            /\ \A r \in AllRows(source, nav, txs) : r[1] <= d => r \in kept
          BY <3>2 DEF source, nav, txs, kept, all
      <4>2. TradeDates(txs) # {} /\ SumFunction([f \in SFunds |-> Len(txs[f])]) <= TxRowCap
          BY <1>4
      <4> QED
          BY <1>1, <3>1, <3>3, <4>1, <4>2, EntersAs
    <3> QED
        BY <3>1, <3>4 DEF d, st
  <2>13. ASSUME NEW e \in want PROVE e \in V /\ (whole \/ e.date < last)
    <3>1. PICK r \in quoted : (whole \/ r[1] < last) /\ HeldOn(r[1]) # {} /\ e = DayOf(r[1])
        BY <2>13
    <3>2. r \in all /\ r[1] \in 1..LastDate
        BY <2>1, <2>2
    <3>3. Fits(r[1])
        BY <2>11, <3>1, <3>2
    <3>4. r[1] <= r[1]
        BY <2>0, <3>2
    <3>5. r \in kept
        BY <3>2, <3>3, <3>4
    <3>6. PICK k \in 1..n : dates[k] = r[1]
        BY <2>9, <3>5
    <3>7. HeldAt(state[k], funds) # {} /\ EntryAt(state[k], funds, dates[k]) = e
        BY <2>12, <3>1, <3>6
    <3>8. e \in V
      <4>1. k \in Ks
          BY <3>7
      <4> HIDE DEF Ks, funds
      <4> QED
          BY <2>5, <3>7, <4>1
    <3>9. e.date = r[1]
        BY <2>6, <3>1
    <3> QED
        BY <3>1, <3>8, <3>9
  <2>14. ASSUME NEW e \in V, whole \/ e.date < last PROVE e \in want
    <3>1. PICK k \in Ks : e = EntryAt(state[k], funds, dates[k])
        BY <2>5
    <3>2. k \in 1..n /\ HeldAt(state[k], funds) # {}
        OBVIOUS
    <3>3. e.date = dates[k]
        BY <2>7, <3>1
    <3>4. HeldOn(dates[k]) # {} /\ e = DayOf(dates[k])
      <4> HIDE DEF funds, Ks
      <4> QED
          BY <2>12, <2>14, <3>1, <3>2, <3>3
    <3>5. PICK r \in kept : r[1] = dates[k]
        BY <2>8, <3>2
    <3>6. r \in quoted
        BY <2>1, <2>2
    <3>7. dates[k] \in days
        BY <2>14, <3>3, <3>4, <3>5, <3>6
    <3> HIDE DEF days
    <3> QED
        BY <3>4, <3>7
  <2>15. ASSUME whole PROVE V = want
    <3> HIDE DEF want
    <3> QED
        BY <2>13, <2>14, <2>15
  <2>16. ASSUME ~whole PROVE want = {e \in V : e.date < last}
    <3> HIDE DEF want
    <3> QED
        BY <2>13, <2>14, <2>16
  <2> QED
      BY <2>15, <2>16
<1> HIDE DEF V, want, whole
<1> QED
    BY <1>2, <1>3, <1>4

-----------------------------------------------------------------------------
(* Every walk                                                              *)

\* What a job works on.
InputIsOK ==
    /\ job = "timeline" => input \in [db : Databases, nav : NavTables, txs : TxTables]
    /\ job = "drawdown" => input \in NavSeqs
    /\ job = "reminder" => input \in WeekPlans
    /\ job = "backtest" => input \in [strategy : Strategies, prices : PriceSeqs]
    /\ job = "amount" => input \in AmountInputs
    /\ job = "rebind" => input \in Queries

SeriesInv ==
    /\ job \in Jobs
    /\ InputIsOK
    /\ output = Pending \/ output = [done |-> TRUE, value |-> Computed]

LEMMA SeriesStart == SeriesInit => SeriesInv
<1> SUFFICES ASSUME SeriesInit PROVE SeriesInv
    OBVIOUS
<1>1. InputIsOK
    BY DEF SeriesInit, InputIsOK
<1> QED
    BY <1>1 DEF SeriesInit, SeriesInv

LEMMA SeriesStep == SeriesInv /\ [RunSeries]_seriesVars => SeriesInv'
<1> SUFFICES ASSUME SeriesInv, [RunSeries]_seriesVars PROVE SeriesInv'
    OBVIOUS
<1>1. job' = job /\ input' = input
    BY DEF RunSeries, seriesVars
<1>2. job' \in Jobs /\ InputIsOK'
    BY <1>1 DEF SeriesInv, InputIsOK
<1>3. Computed' = Computed
    BY <1>1 DEF Computed
<1>4. output' = output \/ output' = [done |-> TRUE, value |-> Computed]
    BY DEF RunSeries, seriesVars
<1> QED
    BY <1>2, <1>3, <1>4 DEF SeriesInv

\* Each property is about one job.
LEMMA SeriesEnds ==
    ASSUME SeriesInv, output.done
    PROVE  /\ TimelineIsCarryForward
           /\ DrawdownIsLargestFall
           /\ ReminderMatchesPurchases
           /\ StrategiesAreSelfFinanced
           /\ ComparisonOffset
           /\ CheaperBuysMore
           /\ ParametersAreCode
<1>1. InputIsOK
    BY DEF SeriesInv
<1>2. output.value = Computed
  <2>1. output # Pending
      BY DEF Pending
  <2> QED
      BY <2>1 DEF SeriesInv
<1>3. DrawdownIsLargestFall
  <2>1. CASE job = "drawdown"
      BY <1>1, <1>2, <2>1, DrawdownRight DEF InputIsOK, Computed
  <2>2. CASE job # "drawdown"
      BY <2>2 DEF DrawdownIsLargestFall
  <2> QED
      BY <2>1, <2>2
<1>4. ReminderMatchesPurchases
  <2>1. CASE job = "reminder"
      BY <1>1, <1>2, <2>1, ReminderRight DEF InputIsOK, Computed
  <2>2. CASE job # "reminder"
      BY <2>2 DEF ReminderMatchesPurchases
  <2> QED
      BY <2>1, <2>2
<1>5. StrategiesAreSelfFinanced /\ ComparisonOffset
  <2>1. CASE job = "backtest"
      BY <1>1, <1>2, <2>1, BacktestsRight, ComparisonRight DEF InputIsOK, Computed
  <2>2. CASE job # "backtest"
      BY <2>2 DEF StrategiesAreSelfFinanced, ComparisonOffset
  <2> QED
      BY <2>1, <2>2
<1>6. CheaperBuysMore
  <2>1. CASE job = "amount"
      BY <1>1, <1>2, <2>1, AmountsRight DEF InputIsOK, Computed
  <2>2. CASE job # "amount"
      BY <2>2 DEF CheaperBuysMore
  <2> QED
      BY <2>1, <2>2
<1>7. ParametersAreCode
  <2>1. CASE job = "rebind"
      BY <1>1, <1>2, <2>1, RebindRight DEF InputIsOK, Computed
  <2>2. CASE job # "rebind"
      BY <2>2 DEF ParametersAreCode
  <2> QED
      BY <2>1, <2>2
<1>8. TimelineIsCarryForward
  <2>1. CASE job = "timeline"
      BY <1>1, <1>2, <2>1, TimelineRight DEF InputIsOK, Computed
  <2>2. CASE job # "timeline"
      BY <2>2 DEF TimelineIsCarryForward
  <2> QED
      BY <2>1, <2>2
<1> QED
    BY <1>3, <1>4, <1>5, <1>6, <1>7, <1>8

\* For either database and every NAV table, trade list, price series, DCA plan
\* and SQL text, what each walk returns is what its definition says: GetTimeline
\* the value of what was held each day, at the last NAV since the first trade
\* (on SQLite since the first day of its year); maxDrawdownPct the largest fall;
\* the reminder every day on which a run buys, and others only outside the
\* plan's dates; the backtests trades without gain; computeDCAPlanFacts an amount
\* that grows as the price falls; rebind the parameters that PostgreSQL reads as
\* code, unless a name contains what would delimit a dollar quote.
THEOREM WalksCorrect == SeriesSpec => []WalksMatchReference
<1>1. SeriesInv => WalksMatchReference
  <2> SUFFICES ASSUME SeriesInv, output.done PROVE WalksMatchReference
      BY DEF WalksMatchReference
  <2> QED
      BY SeriesEnds DEF WalksMatchReference
<1> QED
    BY SeriesStart, SeriesStep, <1>1, PTL DEF SeriesSpec

USE DEF PCs, TxPCs

-----------------------------------------------------------------------------
(* Types                                                                   *)

\* The type invariant is inductive as it stands.
LEMMA TypeStep == TypeOK /\ [Next]_vars => TypeOK'
<1> SUFFICES ASSUME TypeOK, [Next]_vars PROVE TypeOK'
  OBVIOUS
<1> USE DCAAssumption DEF TypeOK, Plans, PlanIds, Rows, db, locals, history
<1>1. CASE UNCHANGED vars
  BY <1>1 DEF vars
<1>2. ASSUME NEW f \in Funds, NEW due \in SUBSET Dates, NEW active \in BOOLEAN,
             CreatePlan(f, due, active)
      PROVE  TypeOK'
  BY <1>2 DEF CreatePlan, Edit
<1>3. ASSUME NEW p \in plans, NEW f \in Funds, NEW due \in SUBSET Dates,
             NEW active \in BOOLEAN, EditPlan(p, f, due, active)
      PROVE  TypeOK'
  BY <1>3 DEF EditPlan, Edit
<1>4. ASSUME NEW p \in plans, DisableDCAPlan(p) PROVE TypeOK'
  <2>1. p \in Plans
    OBVIOUS
  <2>2. [p EXCEPT !.active = FALSE] \in Plans
    BY <2>1
  <2>3. plans' = (plans \ {p}) \cup {[p EXCEPT !.active = FALSE]}
    BY <1>4 DEF DisableDCAPlan
  <2>4. plans' \subseteq Plans
    <3> HIDE DEF Plans
    <3> QED
      BY <2>2, <2>3
  <2> QED
    BY <1>4, <2>4 DEF DisableDCAPlan, Edit
<1>5. ASSUME NEW t \in txns, DeleteBuy(t) PROVE TypeOK'
  BY <1>5 DEF DeleteBuy, Edit
<1>6. ASSUME NEW t \in txns, NEW f \in Funds, MoveBuy(t, f) PROVE TypeOK'
  BY <1>6 DEF MoveBuy, Edit
<1>7. ASSUME NEW f \in Funds, DeleteSecurity(f) \/ RefreshNav(f) PROVE TypeOK'
  BY <1>7 DEF DeleteSecurity, RefreshNav, Edit
<1>8. ASSUME NEW r \in Runs, NEW d \in Dates, NEW dry \in BOOLEAN,
             NEW want \in SUBSET PlanIds, LoadPlans(r, d, dry, want)
      PROVE  TypeOK'
  BY <1>8 DEF LoadPlans
<1>9. ASSUME NEW r \in Runs, NextPlan(r) PROVE TypeOK'
  BY <1>9 DEF NextPlan
<1>10. ASSUME NEW r \in Runs, RunReturns(r) \/ RunFails(r) PROVE TypeOK'
  <2>1. Return(r)
    BY <1>10 DEF RunReturns, RunFails
  <2>2. UNCHANGED <<db, starts, edits, history>>
    BY <2>1 DEF Return
  <2>3. todo' \in [Runs -> SUBSET Plans] /\ item' \in [Runs -> Plans \cup {None}]
    BY <2>1 DEF Return
  <2>4. /\ pc' \in [Runs -> PCs] /\ asOf' \in [Runs -> Dates \cup {None}]
        /\ dryRun' \in [Runs -> BOOLEAN]
    BY <2>1 DEF Return
  <2>5. ASSUME NEW q \in Runs
        PROVE  /\ pc'[q] # "idle" => asOf'[q] \in Dates
               /\ pc'[q] \notin {"idle", "next"} => item'[q] \in Plans
    BY <2>1 DEF Return
  <2> QED
    BY <2>2, <2>3, <2>4, <2>5
<1>11. ASSUME NEW r \in Runs, ReadNav(r) \/ PlanFails(r) \/ InsertRow(r)
       PROVE  TypeOK'
  BY <1>11 DEF ReadNav, PlanFails, InsertRow, Goto
<1>12. ASSUME NEW r \in Runs, CheckOrder(r) \/ CheckExecution(r) \/ Claim(r)
       PROVE  TypeOK'
  BY <1>12 DEF CheckOrder, CheckExecution, Claim, Goto, Report
<1>13. ASSUME NEW r \in Runs, CommitBuy(r) PROVE TypeOK'
  BY <1>13 DEF CommitBuy, Buy, Execution, Report
<1> HIDE DEF TypeOK, Plans, PlanIds, Rows, db, locals, history, PCs, TxPCs
<1> QED
  BY <1>1, <1>2, <1>3, <1>4, <1>5, <1>6, <1>7, <1>8, <1>9, <1>10, <1>11,
     <1>12, <1>13 DEF Next, UserAction, RunAction, Step

\* Every state of every execution of the DCA runs is well typed.
THEOREM TypeCorrect == Spec => []TypeOK
<1>1. Init => TypeOK
  BY DCAAssumption DEF Init, TypeOK, Plans, PlanIds, Rows
<1> QED
  BY <1>1, TypeStep, PTL DEF Spec

-----------------------------------------------------------------------------
(* One row per order and fund                                              *)

\* Run r has claimed its order: its row is inserted but uncommitted, or, on
\* the single connection, its NOT EXISTS has just been answered.
Claimed(r) == pc[r] = "ledger" \/ (OneConn /\ pc[r] = "index")

\* NoDuplicateOrder is not inductive: a commit keeps it only because a
\* claimed order is not in the table and no two runs have claimed the same
\* one, which on SQLite follows from one transaction being open at a time.
OrderInv ==
    /\ NoDuplicateOrder
    /\ \A r \in Runs : Claimed(r) => ~OrderExists(item[r], asOf[r])
    /\ \A q, r \in Runs :
          q # r /\ pc[r] = "ledger"
            => ~Uncommitted(q, item[r].id, asOf[r], item[r].fund)
    /\ OneConn => \A q, r \in Runs : pc[q] \in TxPCs /\ pc[r] \in TxPCs => q = r

\* The deployments the argument covers: the unique index, or SQLite alone as
\* long as no row is moved onto another fund.
Guarded == UniqueIndex \/ (OneConn /\ "move_tx" \notin Ops)

\* A step that adds no row and lets no run advance inside a transaction.
Recedes ==
    /\ txns' \subseteq txns
    /\ \A r \in Runs : pc'[r] \in TxPCs =>
          pc'[r] = pc[r] /\ item'[r] = item[r] /\ asOf'[r] = asOf[r]

\* Rows that disappear break nothing.
LEMMA RecedesKeeps == OrderInv /\ Recedes => OrderInv'
  BY DEF OrderInv, Recedes, NoDuplicateOrder, Claimed, OrderExists, Uncommitted

\* Every action but the three below only recedes.
LEMMA MostRecede ==
    ASSUME TypeOK, Next
    PROVE  \/ Recedes
           \/ \E r \in Runs : Claim(r) \/ InsertRow(r) \/ CommitBuy(r)
           \/ \E t \in txns, f \in Funds : MoveBuy(t, f)
<1> USE DEF TypeOK, Recedes, db, locals, history
<1>1. ASSUME NEW f \in Funds, NEW due \in SUBSET Dates, NEW active \in BOOLEAN,
             \/ CreatePlan(f, due, active)
             \/ \E p \in plans : EditPlan(p, f, due, active)
      PROVE  Recedes
  BY <1>1 DEF CreatePlan, EditPlan, Edit
<1>2. ASSUME NEW p \in plans, DisableDCAPlan(p) PROVE Recedes
  BY <1>2 DEF DisableDCAPlan, Edit
<1>3. ASSUME NEW t \in txns, DeleteBuy(t) PROVE Recedes
  BY <1>3 DEF DeleteBuy, Edit
<1>4. ASSUME NEW f \in Funds, DeleteSecurity(f) \/ RefreshNav(f) PROVE Recedes
  BY <1>4 DEF DeleteSecurity, RefreshNav, Edit
<1>5. ASSUME NEW r \in Runs, NEW d \in Dates, NEW dry \in BOOLEAN,
             NEW want \in SUBSET PlanIds, LoadPlans(r, d, dry, want)
      PROVE  Recedes
  BY <1>5 DEF LoadPlans
<1>6. ASSUME NEW r \in Runs, NextPlan(r) PROVE Recedes
  BY <1>6 DEF NextPlan
<1>7. ASSUME NEW r \in Runs, RunReturns(r) \/ RunFails(r) PROVE Recedes
  BY <1>7 DEF RunReturns, RunFails, Return
<1>8. ASSUME NEW r \in Runs, ReadNav(r) \/ PlanFails(r) PROVE Recedes
  BY <1>8 DEF ReadNav, PlanFails, Goto
<1>9. ASSUME NEW r \in Runs, CheckOrder(r) \/ CheckExecution(r) PROVE Recedes
  BY <1>9 DEF CheckOrder, CheckExecution, Goto
<1> HIDE DEF TypeOK, Recedes, db, locals, history, PCs, TxPCs
<1> QED
  BY <1>1, <1>2, <1>3, <1>4, <1>5, <1>6, <1>7, <1>8, <1>9
  DEF Next, UserAction, RunAction, Step

\* Every step of runs and users keeps the orders unique.
LEMMA OrderStep ==
    ASSUME Guarded, TypeOK, OrderInv, [Next]_vars
    PROVE  OrderInv'
<1>1. CASE UNCHANGED vars
  <2>1. Recedes
    BY <1>1 DEF Recedes, vars, db
  <2> QED
    BY <2>1, RecedesKeeps
<1>2. ASSUME NEW r \in Runs, Claim(r) PROVE OrderInv'
  <2>1. CASE OrderExists(item[r], asOf[r])
    <3>1. Recedes
      BY <1>2, <2>1 DEF Claim, Goto, Recedes, TypeOK, db, locals
    <3> QED
      BY <3>1, RecedesKeeps
  <2>2. CASE ~OrderExists(item[r], asOf[r])
    BY <1>2, <2>2
    DEF Claim, Goto, TypeOK, db, locals, OrderInv, Claimed, NoDuplicateOrder,
        OrderExists, Uncommitted, Connection
  <2> QED
    BY <2>1, <2>2
<1>3. ASSUME NEW r \in Runs, InsertRow(r) PROVE OrderInv'
  <2>1. UNCHANGED <<txns, asOf>> /\ (pc'[r] = "next" \/ UNCHANGED item)
    BY <1>3 DEF InsertRow, Goto, TypeOK, db, locals
  <2>2. pc'[r] \in {"next", "ledger"} /\ \A q \in Runs \ {r} : pc'[q] = pc[q] /\ item'[q] = item[q]
    BY <1>3 DEF InsertRow, Goto, TypeOK
  <2>3. CASE pc'[r] = "next"
    <3>1. Recedes
      BY <2>1, <2>2, <2>3 DEF Recedes
    <3> QED
      BY <3>1, RecedesKeeps
  <2>4. CASE pc'[r] = "ledger"
    <3>1. ~OrderExists(item[r], asOf[r])
      BY <1>3, <2>4 DEF InsertRow, Goto, TypeOK, OrderInv, Claimed, Guarded
    <3>2. \A q \in Runs \ {r} : ~Uncommitted(q, item[r].id, asOf[r], item[r].fund)
      BY <1>3, <2>4 DEF InsertRow, Goto, TypeOK, OrderInv, Guarded, Uncommitted
    <3> QED
      BY <1>3, <2>1, <2>2, <2>4, <3>1, <3>2
      DEF InsertRow, OrderInv, Claimed, NoDuplicateOrder, OrderExists, Uncommitted
  <2> QED
    BY <2>2, <2>3, <2>4
<1>4. ASSUME NEW r \in Runs, CommitBuy(r) PROVE OrderInv'
  <2> DEFINE row == Buy(nextSeq, item[r], asOf[r])
  <2>1. pc[r] = "ledger" /\ txns' = txns \cup {row} /\ UNCHANGED asOf
    BY <1>4 DEF CommitBuy, locals
  <2>2. pc'[r] = "next" /\ \A q \in Runs \ {r} : pc'[q] = pc[q] /\ item'[q] = item[q]
    BY <1>4 DEF CommitBuy, TypeOK
  <2>3. row.plan = item[r].id /\ row.date = asOf[r] /\ row.fund = item[r].fund
    BY DEF Buy
  <2> HIDE DEF row
  <2>4. ~OrderExists(item[r], asOf[r])
    BY <2>1 DEF OrderInv, Claimed
  <2>5. NoDuplicateOrder'
    BY <2>1, <2>3, <2>4 DEF OrderInv, NoDuplicateOrder, OrderExists
  <2>6. ASSUME NEW q \in Runs, Claimed(q)' PROVE ~OrderExists(item[q], asOf[q])'
    <3>1. q # r /\ pc'[q] = pc[q] /\ item'[q] = item[q] /\ Claimed(q)
      BY <2>2, <2>6 DEF Claimed
    <3>2. ~OrderExists(item[q], asOf[q])
      BY <3>1 DEF OrderInv
    <3>3. ~(item[q].id = row.plan /\ asOf[q] = row.date /\ item[q].fund = row.fund)
      BY <2>1, <2>3, <3>1 DEF OrderInv, Claimed, Uncommitted
    <3> QED
      BY <2>1, <3>1, <3>2, <3>3 DEF OrderExists
  <2> QED
    BY <2>1, <2>2, <2>5, <2>6 DEF OrderInv, Uncommitted
<1>5. ASSUME NEW t \in txns, NEW f \in Funds, MoveBuy(t, f) PROVE OrderInv'
  <2> DEFINE moved == [t EXCEPT !.fund = f]
  <2>1. /\ UniqueIndex /\ UserConnection
        /\ \A u \in txns \ {t} : ~(u.plan = t.plan /\ u.date = t.date /\ u.fund = f)
        /\ \A q \in Runs : ~Uncommitted(q, t.plan, t.date, f)
        /\ txns' = (txns \ {t}) \cup {moved}
        /\ UNCHANGED <<pc, asOf, item>>
    BY <1>5 DEF MoveBuy, Edit, Guarded, locals
  <2>2. moved.plan = t.plan /\ moved.date = t.date /\ moved.fund = f
    BY DEF TypeOK, Rows
  <2> HIDE DEF moved
  <2>3. NoDuplicateOrder'
    BY <2>1, <2>2 DEF OrderInv, NoDuplicateOrder
  <2>4. ASSUME NEW q \in Runs, Claimed(q)' PROVE ~OrderExists(item[q], asOf[q])'
    BY <2>1, <2>2, <2>4
    DEF OrderInv, Claimed, OrderExists, Uncommitted, UserConnection
  <2> QED
    BY <2>1, <2>3, <2>4 DEF OrderInv, Uncommitted
<1> QED
  BY <1>1, <1>2, <1>3, <1>4, <1>5, MostRecede, RecedesKeeps

\* With the unique index, or on SQLite alone while no row is moved, no
\* interleaving of runs and users puts two rows of one order into one fund.
THEOREM OrderUnique == Guarded => (Spec => []NoDuplicateOrder)
<1> SUFFICES ASSUME Guarded PROVE Spec => []NoDuplicateOrder
  OBVIOUS
<1>1. Init => OrderInv
  BY DEF Init, OrderInv, NoDuplicateOrder, Claimed, Uncommitted
<1>2. TypeOK /\ OrderInv /\ [Next]_vars => OrderInv'
  BY OrderStep
<1>3. OrderInv => NoDuplicateOrder
  BY DEF OrderInv
<1> QED
  BY <1>1, <1>2, <1>3, TypeCorrect, PTL DEF Spec

-----------------------------------------------------------------------------
(* At most one buy per plan and due date                                   *)

\* Users neither change the fund of a plan nor delete or move a buy.
Undisturbed == Ops \cap {"edit_fund", "delete_tx", "move_tx", "drop"} = {}

\* g names the one fund of every plan, wherever a copy of the plan lives:
\* in the table, in a run's list, in its loop body, in a row it bought.
OneFund(g) ==
    /\ \A p \in plans : p.id < nextPlan /\ p.fund = g[p.id]
    /\ \A r \in Runs : \A p \in todo[r] : p.id < nextPlan /\ p.fund = g[p.id]
    /\ \A r \in Runs : item[r] # None =>
          item[r].id < nextPlan /\ item[r].fund = g[item[r].id]
    /\ \A t \in txns : t.plan < nextPlan /\ t.fund = g[t.plan]

\* AtMostOncePerDue follows from OrderUnique once every row is still there
\* and a plan has one fund.
OnceInv ==
    /\ bought = txns
    /\ \E g \in [PlanIds -> Funds \cup {None}] : OneFund(g)

\* Every undisturbed step keeps one buy per due date.
LEMMA OnceStep ==
    ASSUME Undisturbed, TypeOK, OnceInv, [Next]_vars
    PROVE  OnceInv'
<1>1. PICK g \in [PlanIds -> Funds \cup {None}] : OneFund(g)
  BY DEF OnceInv
<1>2. SUFFICES /\ bought' = txns'
               /\ \E h \in [PlanIds -> Funds \cup {None}] : OneFund(h)'
  BY DEF OnceInv, OneFund
<1>3. bought = txns
  BY DEF OnceInv
<1>4. CASE UNCHANGED vars
  BY <1>1, <1>3, <1>4 DEF vars, db, history, OneFund
<1>5. ASSUME NEW f \in Funds, NEW due \in SUBSET Dates, NEW active \in BOOLEAN,
             CreatePlan(f, due, active)
      PROVE  bought' = txns' /\ \E h \in [PlanIds -> Funds \cup {None}] : OneFund(h)'
  <2>1. /\ plans' = plans \cup {[id |-> nextPlan, fund |-> f, due |-> due, active |-> active]}
        /\ nextPlan' = nextPlan + 1 /\ nextPlan \in PlanIds
        /\ UNCHANGED <<todo, item, txns, bought>>
    BY <1>5, DCAAssumption DEF CreatePlan, Edit, TypeOK, PlanIds, history
  <2>2. PICK h \in [PlanIds -> Funds \cup {None}] : h = [g EXCEPT ![nextPlan] = f]
    BY <2>1
  <2>3. \A i \in PlanIds : i < nextPlan => h[i] = g[i] /\ i < nextPlan + 1
    BY <2>2, DCAAssumption DEF TypeOK, PlanIds
  <2>4. nextPlan < nextPlan + 1 /\ h[nextPlan] = f
    BY <2>1, <2>2, DCAAssumption DEF TypeOK
  <2>5. /\ \A p \in plans' : p.id < nextPlan' /\ p.fund = h[p.id]
        /\ \A t \in txns' : t.plan < nextPlan' /\ t.fund = h[t.plan]
    BY <1>1, <2>1, <2>3, <2>4 DEF OneFund, TypeOK, Plans, Rows
  <2>6. \A r \in Runs : \A p \in todo'[r] : p.id < nextPlan' /\ p.fund = h[p.id]
    BY <1>1, <2>1, <2>3 DEF OneFund, TypeOK, Plans
  <2>7. \A r \in Runs : item'[r] # None =>
           item'[r].id < nextPlan' /\ item'[r].fund = h[item'[r].id]
    BY <1>1, <2>1, <2>3 DEF OneFund, TypeOK, Plans
  <2>8. OneFund(h)'
    BY <2>5, <2>6, <2>7 DEF OneFund
  <2>9. bought' = txns'
    BY <1>3, <2>1
  <2> QED
    BY <2>8, <2>9
<1>6. ASSUME NEW p \in plans, NEW f \in Funds, NEW due \in SUBSET Dates,
             NEW active \in BOOLEAN, EditPlan(p, f, due, active)
      PROVE  bought' = txns' /\ OneFund(g)'
  <2>1. f = p.fund /\ UNCHANGED <<nextPlan, todo, item, txns, bought>>
    BY <1>6 DEF EditPlan, Edit, Undisturbed, history
  <2>2. plans' = (plans \ {p}) \cup
                 {[id |-> p.id, fund |-> f, due |-> due, active |-> active]}
    BY <1>6 DEF EditPlan
  <2> QED
    BY <1>1, <1>3, <2>1, <2>2 DEF OneFund
<1>7. ASSUME NEW p \in plans, DisableDCAPlan(p)
      PROVE  bought' = txns' /\ OneFund(g)'
  <2> DEFINE off == [p EXCEPT !.active = FALSE]
  <2>1. plans' = (plans \ {p}) \cup {off} /\ UNCHANGED <<nextPlan, todo, item, txns, bought>>
    BY <1>7 DEF DisableDCAPlan, Edit, history
  <2>2. off.id = p.id /\ off.fund = p.fund
    BY DEF TypeOK, Plans
  <2> HIDE DEF off
  <2> QED
    BY <1>1, <1>3, <2>1, <2>2 DEF OneFund
<1>8. ASSUME NEW f \in Funds, RefreshNav(f) PROVE bought' = txns' /\ OneFund(g)'
  BY <1>1, <1>3, <1>8 DEF RefreshNav, Edit, history, OneFund
<1>9. ASSUME NEW r \in Runs, NEW d \in Dates, NEW dry \in BOOLEAN,
             NEW want \in SUBSET PlanIds, LoadPlans(r, d, dry, want)
      PROVE  bought' = txns' /\ OneFund(g)'
  BY <1>1, <1>3, <1>9 DEF LoadPlans, TypeOK, db, history, OneFund
<1>10. ASSUME NEW r \in Runs, NextPlan(r) PROVE bought' = txns' /\ OneFund(g)'
  BY <1>1, <1>3, <1>10 DEF NextPlan, TypeOK, db, history, OneFund
<1>11. ASSUME NEW r \in Runs, RunReturns(r) \/ RunFails(r)
       PROVE  bought' = txns' /\ OneFund(g)'
  BY <1>1, <1>3, <1>11
  DEF RunReturns, RunFails, Return, TypeOK, db, history, OneFund
<1>12. ASSUME NEW r \in Runs,
              \/ ReadNav(r) \/ PlanFails(r) \/ InsertRow(r)
              \/ CheckOrder(r) \/ CheckExecution(r) \/ Claim(r)
       PROVE  bought' = txns' /\ OneFund(g)'
  <2>1. UNCHANGED <<plans, nextPlan, txns, bought, todo>>
    BY <1>12 DEF ReadNav, PlanFails, InsertRow, CheckOrder, CheckExecution,
                 Claim, Goto, db, history
  <2>2. \A q \in Runs : item'[q] = item[q] \/ item'[q] = None
    BY <1>12 DEF ReadNav, PlanFails, InsertRow, CheckOrder, CheckExecution,
                 Claim, Goto, TypeOK
  <2> QED
    BY <1>1, <1>3, <2>1, <2>2 DEF OneFund
<1>13. ASSUME NEW r \in Runs, CommitBuy(r) PROVE bought' = txns' /\ OneFund(g)'
  <2> DEFINE row == Buy(nextSeq, item[r], asOf[r])
  <2>1. /\ txns' = txns \cup {row} /\ bought' = bought \cup {row}
        /\ UNCHANGED <<plans, nextPlan, todo>>
        /\ \A q \in Runs : item'[q] = item[q] \/ item'[q] = None
    BY <1>13 DEF CommitBuy, TypeOK
  <2>2. row.plan = item[r].id /\ row.fund = item[r].fund
    BY DEF Buy
  <2>3. item[r] # None
    BY <1>13, DCAAssumption DEF CommitBuy, TypeOK
  <2> HIDE DEF row
  <2> QED
    BY <1>1, <1>3, <2>1, <2>2, <2>3 DEF OneFund
<1>14. ASSUME UserAction
       PROVE  bought' = txns' /\ \E h \in [PlanIds -> Funds \cup {None}] : OneFund(h)'
  <2>1. ASSUME NEW f \in Funds, DeleteSecurity(f) PROVE FALSE
    BY <2>1 DEF DeleteSecurity, Edit, Undisturbed
  <2>2. ASSUME NEW t \in txns, DeleteBuy(t) PROVE FALSE
    BY <2>2 DEF DeleteBuy, Edit, Undisturbed
  <2>3. ASSUME NEW t \in txns, NEW f \in Funds, MoveBuy(t, f) PROVE FALSE
    BY <2>3 DEF MoveBuy, Edit, Undisturbed
  <2> QED
    BY <1>5, <1>6, <1>7, <1>8, <1>14, <2>1, <2>2, <2>3 DEF UserAction
<1> QED
  BY <1>4, <1>9, <1>10, <1>11, <1>12, <1>13, <1>14 DEF Next, RunAction, Step

\* As long as no plan changes its fund and no buy is removed or moved, a
\* plan buys at most once for a due date, however many runs replay it.
THEOREM AtMostOnce ==
    (OneConn \/ UniqueIndex) /\ Undisturbed => (Spec => []AtMostOncePerDue)
<1> SUFFICES ASSUME OneConn \/ UniqueIndex, Undisturbed
             PROVE  Spec => []AtMostOncePerDue
  OBVIOUS
<1>1. Guarded
  BY DEF Guarded, Undisturbed
<1>2. Init => OnceInv
  <2> SUFFICES ASSUME Init PROVE OnceInv
    OBVIOUS
  <2>1. [i \in PlanIds |-> None] \in [PlanIds -> Funds \cup {None}]
    OBVIOUS
  <2>2. OneFund([i \in PlanIds |-> None])
    BY DEF Init, OneFund
  <2> QED
    BY <2>1, <2>2 DEF OnceInv, Init
<1>3. TypeOK /\ OnceInv /\ [Next]_vars => OnceInv'
  BY OnceStep
<1>4. NoDuplicateOrder /\ OnceInv => AtMostOncePerDue
  BY DEF NoDuplicateOrder, OnceInv, OneFund, AtMostOncePerDue
<1>5. Spec => []NoDuplicateOrder
  BY <1>1, OrderUnique
<1> QED
  BY <1>2, <1>3, <1>4, <1>5, TypeCorrect, PTL DEF Spec

-----------------------------------------------------------------------------
(* What a run reports                                                      *)

\* Every order in either table was bought at some time.
MarksInv ==
    /\ \A t \in txns \cup execs :
          \E b \in bought : b.plan = t.plan /\ b.date = t.date
    /\ ReportedWasBought

\* Every step keeps rows, marks and reports backed by a buy.
LEMMA MarksStep ==
    ASSUME TypeOK, MarksInv, [Next]_vars PROVE MarksInv'
<1> DEFINE Shrinks == /\ txns' \subseteq txns /\ execs' \subseteq execs
                      /\ UNCHANGED bought
<1>1. Shrinks /\ UNCHANGED reported => MarksInv'
  BY DEF MarksInv, ReportedWasBought
<1>2. CASE UNCHANGED vars
  BY <1>1, <1>2 DEF vars, db, history
<1>3. ASSUME UserAction,
             ~\E t \in txns, f \in Funds : MoveBuy(t, f)
      PROVE  MarksInv'
  <2>1. Shrinks /\ UNCHANGED reported
    BY <1>3 DEF UserAction, CreatePlan, EditPlan, DisableDCAPlan, DeleteBuy,
                DeleteSecurity, RefreshNav, Edit, history
  <2> QED
    BY <1>1, <2>1
<1>4. ASSUME NEW t \in txns, NEW f \in Funds, MoveBuy(t, f) PROVE MarksInv'
  <2> DEFINE moved == [t EXCEPT !.fund = f]
  <2>1. txns' = (txns \ {t}) \cup {moved} /\ UNCHANGED <<execs, bought, reported>>
    BY <1>4 DEF MoveBuy, Edit, history
  <2>2. moved.plan = t.plan /\ moved.date = t.date
    BY DEF TypeOK, Rows
  <2> HIDE DEF moved
  <2> QED
    BY <2>1, <2>2 DEF MarksInv, ReportedWasBought
<1>5. ASSUME NEW r \in Runs, NEW d \in Dates, NEW dry \in BOOLEAN,
             NEW want \in SUBSET PlanIds, LoadPlans(r, d, dry, want)
      PROVE  MarksInv'
  BY <1>1, <1>5 DEF LoadPlans, db, history
<1>6. ASSUME NEW r \in Runs,
             \/ NextPlan(r) \/ RunReturns(r) \/ RunFails(r) \/ ReadNav(r)
             \/ PlanFails(r) \/ InsertRow(r)
      PROVE  MarksInv'
  BY <1>1, <1>6 DEF NextPlan, RunReturns, RunFails, Return, ReadNav, PlanFails,
                    InsertRow, Goto, db, history
<1>7. ASSUME NEW r \in Runs, CheckOrder(r) \/ CheckExecution(r) \/ Claim(r)
      PROVE  MarksInv'
  <2>1. Shrinks
    BY <1>7 DEF CheckOrder, CheckExecution, Claim, Goto, db
  <2>2. CASE UNCHANGED reported
    BY <1>1, <2>1, <2>2
  <2>3. CASE /\ reported' = reported \cup {<<item[r].id, asOf[r]>>}
             /\ \/ OrderExists(item[r], asOf[r])
                \/ ExecutionExists(item[r], asOf[r])
    <3>1. PICK t \in txns \cup execs : t.plan = item[r].id /\ t.date = asOf[r]
      BY <2>3 DEF OrderExists, ExecutionExists
    <3>2. \E b \in bought : b.plan = item[r].id /\ b.date = asOf[r]
      BY <3>1 DEF MarksInv
    <3> QED
      BY <2>1, <2>3, <3>2 DEF MarksInv, ReportedWasBought
  <2> QED
    BY <1>7, <2>2, <2>3 DEF CheckOrder, CheckExecution, Claim, Report
<1>8. ASSUME NEW r \in Runs, CommitBuy(r) PROVE MarksInv'
  <2> DEFINE row == Buy(nextSeq, item[r], asOf[r])
             mark == Execution(item[r], asOf[r])
  <2>1. /\ txns' = txns \cup {row} /\ bought' = bought \cup {row}
        /\ execs' \subseteq execs \cup {mark}
        /\ reported' = reported \cup {<<item[r].id, asOf[r]>>}
    BY <1>8 DEF CommitBuy, Report
  <2>2. /\ row.plan = item[r].id /\ row.date = asOf[r]
        /\ mark.plan = item[r].id /\ mark.date = asOf[r]
    BY DEF Buy, Execution
  <2> HIDE DEF row, mark
  <2> QED
    BY <2>1, <2>2 DEF MarksInv, ReportedWasBought
<1> QED
  BY <1>2, <1>3, <1>4, <1>5, <1>6, <1>7, <1>8 DEF Next, RunAction, Step

\* In every deployment, "executed" and "order or execution already exists"
\* are only said of an order some run has committed.
THEOREM ReportsAreTrue == Spec => []ReportedWasBought
<1>1. Init => MarksInv
  BY DEF Init, MarksInv, ReportedWasBought
<1>2. TypeOK /\ MarksInv /\ [Next]_vars => MarksInv'
  BY MarksStep
<1>3. MarksInv => ReportedWasBought
  BY DEF MarksInv
<1> QED
  BY <1>1, <1>2, <1>3, TypeCorrect, PTL DEF Spec

-----------------------------------------------------------------------------
(* The mark that keeps a date from being replayed                          *)

\* While no row moves, a row and its mark agree on the fund as well, so the
\* cascade of DeleteSecurity takes both or neither.
RecordedInv ==
    \A t \in txns : \E e \in execs :
        /\ e.plan = t.plan /\ e.date = t.date
        /\ "move_tx" \notin Ops => e.fund = t.fund

\* Every step keeps rows and marks together.
LEMMA RecordedStep ==
    ASSUME "move_tx" \notin Ops \/ "drop" \notin Ops,
           TypeOK, RecordedInv, [Next]_vars
    PROVE  RecordedInv'
<1>1. (txns' \subseteq txns /\ UNCHANGED execs) => RecordedInv'
  BY DEF RecordedInv
<1>2. CASE UNCHANGED vars
  BY <1>1, <1>2 DEF vars, db
<1>3. ASSUME UserAction,
             ~\E t \in txns, f \in Funds : MoveBuy(t, f),
             ~\E f \in Funds : DeleteSecurity(f)
      PROVE  RecordedInv'
  BY <1>1, <1>3 DEF UserAction, CreatePlan, EditPlan, DisableDCAPlan, DeleteBuy,
                    RefreshNav
<1>4. ASSUME NEW t \in txns, NEW f \in Funds, MoveBuy(t, f) PROVE RecordedInv'
  <2> DEFINE moved == [t EXCEPT !.fund = f]
  <2>1. /\ txns' = (txns \ {t}) \cup {moved} /\ UNCHANGED execs
        /\ "move_tx" \in Ops
    BY <1>4 DEF MoveBuy, Edit
  <2>2. moved.plan = t.plan /\ moved.date = t.date
    BY DEF TypeOK, Rows
  <2> HIDE DEF moved
  <2> QED
    BY <2>1, <2>2 DEF RecordedInv
<1>5. ASSUME NEW f \in Funds, DeleteSecurity(f) PROVE RecordedInv'
  BY <1>5 DEF DeleteSecurity, Edit, RecordedInv
<1>6. ASSUME NEW r \in Runs, RunAction(r), ~CommitBuy(r) PROVE RecordedInv'
  <2>1. UNCHANGED <<txns, execs>>
    BY <1>6 DEF RunAction, Step, LoadPlans, NextPlan, RunReturns, RunFails,
                Return, ReadNav, PlanFails, InsertRow, CheckOrder,
                CheckExecution, Claim, Goto, db
  <2> QED
    BY <1>1, <2>1
<1>7. ASSUME NEW r \in Runs, CommitBuy(r) PROVE RecordedInv'
  <2> DEFINE row == Buy(nextSeq, item[r], asOf[r])
             mark == Execution(item[r], asOf[r])
  <2>1. /\ txns' = txns \cup {row}
        /\ execs' = execs \cup {mark}
    BY <1>7 DEF CommitBuy
  <2>2. mark.plan = row.plan /\ mark.date = row.date /\ mark.fund = row.fund
    BY DEF Buy, Execution
  <2> HIDE DEF row, mark
  <2> QED
    BY <2>1, <2>2 DEF RecordedInv
<1> QED
  BY <1>2, <1>3, <1>4, <1>5, <1>6, <1>7 DEF Next

\* Unless rows are moved and securities dropped as well, a buy in the ledger
\* always has its execution mark, whatever fails or is cancelled halfway.
THEOREM BuysAreRecorded ==
    "move_tx" \notin Ops \/ "drop" \notin Ops => (Spec => []BuyHasExecution)
<1> SUFFICES ASSUME "move_tx" \notin Ops \/ "drop" \notin Ops
             PROVE  Spec => []BuyHasExecution
  OBVIOUS
<1>1. Init => RecordedInv
  BY DEF Init, RecordedInv
<1>2. TypeOK /\ RecordedInv /\ [Next]_vars => RecordedInv'
  BY RecordedStep
<1>3. RecordedInv => BuyHasExecution
  BY DEF RecordedInv, BuyHasExecution
<1> QED
  BY <1>1, <1>2, <1>3, TypeCorrect, PTL DEF Spec

-----------------------------------------------------------------------------
(* The promise of auto-invest                                              *)

\* Only a commit adds to the buys, one row of the reported order; the duplicate
\* checks report an order and add nothing; no other step touches either.
LEMMA HistoryStep ==
    ASSUME [Next]_vars
    PROVE  \/ UNCHANGED history
           \/ \E r \in Runs : bought' = bought /\ Report(r)
           \/ \E r \in Runs : /\ bought' = bought \cup {Buy(nextSeq, item[r], asOf[r])}
                              /\ Report(r)
<1>1. CASE UNCHANGED vars
  BY <1>1 DEF vars, history
<1>2. CASE UserAction
  BY <1>2 DEF UserAction, CreatePlan, EditPlan, DisableDCAPlan, DeleteBuy, MoveBuy,
              DeleteSecurity, RefreshNav, Edit
<1>3. ASSUME NEW r \in Runs, RunAction(r)
      PROVE  \/ UNCHANGED history
             \/ bought' = bought /\ Report(r)
             \/ /\ bought' = bought \cup {Buy(nextSeq, item[r], asOf[r])}
                /\ Report(r)
  <2>1. CASE CommitBuy(r)
    BY <2>1 DEF CommitBuy
  <2>2. CASE CheckOrder(r) \/ CheckExecution(r) \/ Claim(r)
    BY <2>2 DEF CheckOrder, CheckExecution, Claim, history
  <2>3. CASE NextPlan(r) \/ RunReturns(r) \/ ReadNav(r) \/ InsertRow(r)
    BY <2>3 DEF NextPlan, RunReturns, Return, ReadNav, InsertRow
  <2>4. CASE PlanFails(r) \/ RunFails(r)
    BY <2>4 DEF PlanFails, RunFails, Return
  <2>5. CASE \E d \in Dates, dry \in BOOLEAN, want \in SUBSET PlanIds : LoadPlans(r, d, dry, want)
    BY <2>5 DEF LoadPlans
  <2> QED
    BY <1>3, <2>1, <2>2, <2>3, <2>4, <2>5 DEF RunAction, Step
<1> QED
  BY <1>1, <1>2, <1>3 DEF Next

\* A step into a state that keeps both invariants is a step of AutoInvest.
LEMMA PromiseStep ==
    AtMostOncePerDue' /\ ReportedWasBought' /\ [Next]_vars
        => [Promise!Next]_(Promise!vars)
<1> SUFFICES ASSUME AtMostOncePerDue', ReportedWasBought', [Next]_vars
             PROVE  [Promise!Next]_(Promise!vars)
  OBVIOUS
<1>1. CASE UNCHANGED history
  BY <1>1 DEF history, Promise!vars
<1>2. ASSUME NEW r \in Runs, bought' = bought, Report(r)
      PROVE  [Promise!Next]_(Promise!vars)
  <2> DEFINE o == <<item[r].id, asOf[r]>>
  <2>1. reported' = reported \cup {o}
    BY <1>2 DEF Report
  <2>2. CASE o \in reported
    BY <1>2, <2>1, <2>2 DEF Promise!vars
  <2>3. CASE o \notin reported
    <3>1. PICK b \in bought : b.plan = o[1] /\ b.date = o[2]
      BY <1>2, <2>1 DEF ReportedWasBought
    <3>2. Promise!Order(b) = o
      BY <3>1 DEF Promise!Order
    <3>3. Promise!Acknowledge(o)
      BY <1>2, <2>1, <3>2 DEF Promise!Acknowledge
    <3> QED
      BY <2>1, <2>3, <3>3 DEF Promise!Next
  <2> QED
    BY <2>2, <2>3
<1>3. ASSUME NEW r \in Runs, Report(r),
             bought' = bought \cup {Buy(nextSeq, item[r], asOf[r])}
      PROVE  [Promise!Next]_(Promise!vars)
  <2> DEFINE row == Buy(nextSeq, item[r], asOf[r])
  <2>1. CASE row \in bought
    BY <1>2, <1>3, <2>1
  <2>2. CASE row \notin bought
    <3>1. Promise!Order(row) = <<item[r].id, asOf[r]>>
      BY DEF Buy, Promise!Order
    <3>2. \A y \in bought : Promise!Order(y) # Promise!Order(row)
      BY <1>3, <2>2 DEF AtMostOncePerDue, Promise!Order
    <3>3. Promise!Materialize(row)
      BY <1>3, <3>1, <3>2 DEF Promise!Materialize, Report
    <3> QED
      BY <1>3, <2>2, <3>3 DEF Promise!Next
  <2> QED
    BY <2>1, <2>2
<1> QED
  BY <1>1, <1>2, <1>3, HistoryStep

\* On either database, as long as users neither retarget plans nor remove or
\* move what was bought, RunDCAAutoInvest implements AutoInvest for any number
\* of overlapping runs: no date is bought twice, and none is called done that
\* was not bought.
THEOREM ImplementsPromise ==
    (OneConn \/ UniqueIndex) /\ Undisturbed => (Spec => InvestSpec)
<1> SUFFICES ASSUME OneConn \/ UniqueIndex, Undisturbed
             PROVE  Spec => InvestSpec
  OBVIOUS
<1>1. Spec => []AtMostOncePerDue
  BY AtMostOnce
<1>2. Init => Promise!Init
  BY DEF Init, Promise!Init
<1> QED
  BY <1>1, <1>2, ReportsAreTrue, PromiseStep, PTL DEF Spec, InvestSpec, Promise!Spec
=============================================================================
