-------------------------------- MODULE Sums --------------------------------
(***************************************************************************)
(* Lemmas about naturals, finite sets and the sums of the model: what      *)
(* SumFunction of the community modules returns for every finite domain.   *)
(***************************************************************************)
EXTENDS Integers, Sequences, FiniteSets, FiniteSetsExt, FiniteSetTheorems,
        WellFoundedInduction, TLAPS

-----------------------------------------------------------------------------
(* Sums                                                                    *)

\* Two naturals are in the relation of the library when one is less.
LEMMA Before ==
    ASSUME NEW x \in Nat, NEW y \in Nat, y < x
    PROVE  <<y, x>> \in OpToRel(<, Nat)
BY DEF OpToRel

\* A set of naturals has a smallest member.
LEMMA SmallestOf ==
    ASSUME NEW T, T \subseteq Nat, T # {}
    PROVE  \E x \in T : \A y \in T : x <= y
<1>1. PICK x \in T : \A y \in T : ~ (<<y, x>> \in OpToRel(<, Nat))
    BY NatLessThanWellFounded, WFMin
<1>2. ASSUME NEW y \in T PROVE x <= y
  <2>1. ~ (y < x)
      BY <1>1, Before
  <2> QED
      BY <2>1
<1> QED
    BY <1>2

\* A set that holds 0 and the successor of each of its naturals holds them all.
LEMMA AllNaturals ==
    ASSUME NEW S, 0 \in S, \A n \in Nat : n \in S => n + 1 \in S
    PROVE  \A n \in Nat : n \in S
<1> DEFINE T == {n \in Nat : n \notin S}
<1> SUFFICES ASSUME T # {} PROVE FALSE
    OBVIOUS
<1>1. PICK x \in T : \A y \in T : x <= y
  <2>1. T \subseteq Nat
      OBVIOUS
  <2> HIDE DEF T
  <2> QED
      BY <2>1, SmallestOf
<1>2. x \in Nat /\ x # 0 /\ x - 1 \in Nat /\ x = (x - 1) + 1
    OBVIOUS
<1>3. x - 1 \in S
    BY <1>1, <1>2
<1> QED
    BY <1>2, <1>3

Chosen(T) == CHOOSE x \in T : TRUE

\* A finite set is built by adding, to what is left, the element that CHOOSE
\* takes from it: what holds of the empty set and survives that holds of every
\* subset.
LEMMA SubsetsBySize ==
    ASSUME NEW S, IsFiniteSet(S), NEW U, {} \in U,
           \A T \in SUBSET S : T # {} /\ T \ {Chosen(T)} \in U => T \in U
    PROVE  \A T \in SUBSET S : T \in U
<1> DEFINE N == {n \in Nat : \A T \in SUBSET S : Cardinality(T) <= n => T \in U}
<1>1. \A T \in SUBSET S : IsFiniteSet(T) /\ Cardinality(T) \in Nat
    BY FS_Subset, FS_CardinalityType
<1>2. 0 \in N
  <2>1. \A T \in SUBSET S : Cardinality(T) <= 0 => T = {}
      BY <1>1, FS_EmptySet
  <2> QED
      BY <2>1
<1>3. ASSUME NEW n \in Nat, n \in N PROVE n + 1 \in N
  <2> SUFFICES ASSUME NEW T \in SUBSET S, Cardinality(T) <= n + 1, T # {}
               PROVE  T \in U
      OBVIOUS
  <2>1. Chosen(T) \in T
      BY DEF Chosen
  <2>2. Cardinality(T \ {Chosen(T)}) = Cardinality(T) - 1
      BY <1>1, <2>1, FS_RemoveElement
  <2>3. T \ {Chosen(T)} \in SUBSET S /\ Cardinality(T \ {Chosen(T)}) <= n
      BY <1>1, <2>2
  <2>4. T \ {Chosen(T)} \in U
      BY <1>3, <2>3
  <2> QED
      BY <2>4
<1>4. \A n \in Nat : n \in N
  <2> HIDE DEF N
  <2> QED
      BY <1>2, <1>3, AllNaturals
<1> SUFFICES ASSUME NEW T \in SUBSET S PROVE T \in U
    OBVIOUS
<1>5. Cardinality(T) \in N
    BY <1>1, <1>4
<1> QED
    BY <1>1, <1>5

\* The sums of the values of g over the sets of D.
Sums(g, D, F) ==
    [T \in D |-> IF T = {} THEN 0 ELSE g[Chosen(T)] + F[T \ {Chosen(T)}]]

\* SumFunction is the last of these.
LEMMA TotalIs ==
    ASSUME NEW g
    PROVE  SumFunction(g) = (CHOOSE F : F = Sums(g, SUBSET DOMAIN g, F))[DOMAIN g]
BY DEF SumFunction, SumFunctionOnSet, FoldFunctionOnSet, MapThenFoldSet, Sums, Chosen

\* The sums over the subsets of a finite set exist.
LEMMA SumsStand ==
    ASSUME NEW g, NEW S, IsFiniteSet(S)
    PROVE  \E F : F = Sums(g, SUBSET S, F)
<1> DEFINE D(n) == {T \in SUBSET S : Cardinality(T) <= n}
           N == {n \in Nat : \E F : F = Sums(g, D(n), F)}
<1>1. \A T \in SUBSET S : IsFiniteSet(T) /\ Cardinality(T) \in Nat
    BY FS_Subset, FS_CardinalityType
<1>2. 0 \in N
  <2>1. \A T \in D(0) : T = {}
      BY <1>1, FS_EmptySet
  <2> DEFINE F == [T \in D(0) |-> 0]
  <2>2. F = Sums(g, D(0), F)
      BY <2>1 DEF Sums
  <2> HIDE DEF F, D
  <2> QED
      BY <2>2
<1>3. ASSUME NEW n \in Nat, n \in N PROVE n + 1 \in N
  <2>1. PICK F : F = Sums(g, D(n), F)
      BY <1>3
  <2> DEFINE G == Sums(g, D(n + 1), F)
  <2>2. ASSUME NEW T \in D(n + 1), T # {} PROVE T \ {Chosen(T)} \in D(n)
    <3>1. Chosen(T) \in T
        BY <2>2 DEF Chosen
    <3>2. Cardinality(T \ {Chosen(T)}) = Cardinality(T) - 1
        BY <1>1, <3>1, FS_RemoveElement
    <3> QED
        BY <1>1, <3>2
  <2>3. \A T \in D(n) : T \in D(n + 1)
      BY <1>1
  <2> HIDE DEF D
  <2>4. ASSUME NEW T \in D(n) PROVE G[T] = F[T]
      BY <2>1, <2>3 DEF Sums
  <2>5. G = Sums(g, D(n + 1), G)
      BY <2>2, <2>4 DEF Sums
  <2> HIDE DEF G
  <2>6. \E H : H = Sums(g, D(n + 1), H)
      BY <2>5
  <2> QED
      BY <2>6
<1>4. Cardinality(S) \in N
  <2>1. Cardinality(S) \in Nat
      BY FS_CardinalityType
  <2> HIDE DEF N
  <2> QED
      BY <1>2, <1>3, <2>1, AllNaturals
<1>5. D(Cardinality(S)) = SUBSET S
    BY <1>1, FS_Subset
<1> QED
    BY <1>4, <1>5

\* Sums are numbers.
LEMMA SumType ==
    ASSUME NEW S, IsFiniteSet(S), NEW g \in [S -> Int]
    PROVE  SumFunction(g) \in Int
<1> DEFINE F == CHOOSE F : F = Sums(g, SUBSET S, F)
           U == {T \in SUBSET S : F[T] \in Int}
<1>1. F = Sums(g, SUBSET S, F)
    BY SumsStand
<1>2. SumFunction(g) = F[S]
    BY TotalIs
<1> HIDE DEF F
<1>3. {} \in U
    BY <1>1 DEF Sums
<1>4. ASSUME NEW T \in SUBSET S, T # {}, T \ {Chosen(T)} \in U PROVE T \in U
  <2>1. Chosen(T) \in S
      BY <1>4 DEF Chosen
  <2>2. g[Chosen(T)] \in Int /\ F[T \ {Chosen(T)}] \in Int
      BY <1>4, <2>1
  <2>3. F[T] = g[Chosen(T)] + F[T \ {Chosen(T)}]
      BY <1>1, <1>4 DEF Sums
  <2> QED
      BY <2>2, <2>3
<1>5. S \in U
  <2> HIDE DEF U
  <2> QED
      BY <1>3, <1>4, SubsetsBySize
<1> QED
    BY <1>2, <1>5

\* A sum with one term that is not 0.
LEMMA SumOne ==
    ASSUME NEW S, IsFiniteSet(S), NEW g \in [S -> Int], NEW j \in S,
           \A i \in S \ {j} : g[i] = 0
    PROVE  SumFunction(g) = g[j]
<1> DEFINE F == CHOOSE F : F = Sums(g, SUBSET S, F)
           U == {T \in SUBSET S : F[T] = IF j \in T THEN g[j] ELSE 0}
<1>1. F = Sums(g, SUBSET S, F)
    BY SumsStand
<1>2. SumFunction(g) = F[S]
    BY TotalIs
<1> HIDE DEF F
<1>3. {} \in U
    BY <1>1 DEF Sums
<1>4. ASSUME NEW T \in SUBSET S, T # {}, T \ {Chosen(T)} \in U PROVE T \in U
  <2>1. Chosen(T) \in T /\ Chosen(T) \in S
      BY <1>4 DEF Chosen
  <2>2. F[T] = g[Chosen(T)] + F[T \ {Chosen(T)}]
      BY <1>1, <1>4 DEF Sums
  <2>3. g[j] \in Int
      OBVIOUS
  <2>4. CASE Chosen(T) = j
    <3>1. F[T \ {Chosen(T)}] = 0
        BY <1>4, <2>4
    <3> QED
        BY <2>1, <2>2, <2>3, <2>4, <3>1
  <2>5. CASE Chosen(T) # j
    <3>1. g[Chosen(T)] = 0 /\ F[T \ {Chosen(T)}] = IF j \in T THEN g[j] ELSE 0
        BY <1>4, <2>1, <2>5
    <3> QED
        BY <2>2, <2>3, <3>1
  <2> QED
      BY <2>4, <2>5
<1>5. S \in U
  <2> HIDE DEF U
  <2> QED
      BY <1>3, <1>4, SubsetsBySize
<1> QED
    BY <1>2, <1>5

\* The sum of the values of g over T.
SumOver(g, T) == SumFunction([x \in T |-> g[x]])

\* A sum over a set takes the element CHOOSE takes from it, then the rest.
LEMMA SumOverChosen ==
    ASSUME NEW S, IsFiniteSet(S), NEW g
    PROVE  /\ SumOver(g, {}) = 0
           /\ \A T \in SUBSET S : T # {} =>
                 SumOver(g, T) = g[Chosen(T)] + SumOver(g, T \ {Chosen(T)})
<1> DEFINE G(T) == [x \in T |-> g[x]]
           F(T) == CHOOSE H : H = Sums(G(T), SUBSET T, H)
<1>1. ASSUME NEW T \in SUBSET S
      PROVE  F(T) = Sums(G(T), SUBSET T, F(T)) /\ SumOver(g, T) = F(T)[T]
  <2>1. IsFiniteSet(T)
      BY FS_Subset
  <2>2. \E H : H = Sums(G(T), SUBSET T, H)
      BY <2>1, SumsStand
  <2>3. DOMAIN G(T) = T
      OBVIOUS
  <2>4. SumFunction(G(T)) = F(T)[T]
      BY <2>3, TotalIs
  <2> QED
      BY <2>2, <2>4 DEF SumOver
<1> HIDE DEF F
<1>2. ASSUME NEW T \in SUBSET S, NEW R \in SUBSET T
      PROVE  F(T)[R] = F(R)[R]
  <2> DEFINE U == {Q \in SUBSET R : F(T)[Q] = F(R)[Q]}
  <2>1. F(T) = Sums(G(T), SUBSET T, F(T)) /\ F(R) = Sums(G(R), SUBSET R, F(R))
      BY <1>1
  <2>2. {} \in U
    <3>1. F(T)[{}] = 0 /\ F(R)[{}] = 0
        BY <2>1 DEF Sums
    <3> QED
        BY <3>1
  <2>3. ASSUME NEW Q \in SUBSET R, Q # {}, Q \ {Chosen(Q)} \in U PROVE Q \in U
    <3>1. Chosen(Q) \in Q
        BY <2>3 DEF Chosen
    <3>2. G(T)[Chosen(Q)] = g[Chosen(Q)] /\ G(R)[Chosen(Q)] = g[Chosen(Q)]
        BY <3>1
    <3>3. F(T)[Q] = g[Chosen(Q)] + F(T)[Q \ {Chosen(Q)}]
        BY <2>1, <2>3, <3>2 DEF Sums
    <3>4. F(R)[Q] = g[Chosen(Q)] + F(R)[Q \ {Chosen(Q)}]
        BY <2>1, <2>3, <3>2 DEF Sums
    <3>5. F(T)[Q \ {Chosen(Q)}] = F(R)[Q \ {Chosen(Q)}]
        BY <2>3
    <3> QED
        BY <3>3, <3>4, <3>5
  <2>4. IsFiniteSet(R)
      BY FS_Subset
  <2>5. R \in U
    <3> HIDE DEF U
    <3> QED
        BY <2>2, <2>3, <2>4, SubsetsBySize
  <2> QED
      BY <2>5
<1>3. SumOver(g, {}) = 0
    BY <1>1 DEF Sums
<1>4. ASSUME NEW T \in SUBSET S, T # {}
      PROVE  SumOver(g, T) = g[Chosen(T)] + SumOver(g, T \ {Chosen(T)})
  <2>1. Chosen(T) \in T
      BY <1>4 DEF Chosen
  <2>2. G(T)[Chosen(T)] = g[Chosen(T)]
      BY <2>1
  <2>3. F(T)[T] = g[Chosen(T)] + F(T)[T \ {Chosen(T)}]
      BY <1>1, <1>4, <2>2 DEF Sums
  <2>4. F(T)[T \ {Chosen(T)}] = F(T \ {Chosen(T)})[T \ {Chosen(T)}]
      BY <1>2
  <2>5. SumOver(g, T \ {Chosen(T)}) = F(T \ {Chosen(T)})[T \ {Chosen(T)}]
      BY <1>1
  <2>6. SumOver(g, T) = F(T)[T]
      BY <1>1
  <2> QED
      BY <2>3, <2>4, <2>5, <2>6
<1> QED
    BY <1>3, <1>4

LEMMA SumOverType ==
    ASSUME NEW T, IsFiniteSet(T), NEW g, \A x \in T : g[x] \in Int
    PROVE  SumOver(g, T) \in Int
BY SumType DEF SumOver

\* A sum takes any one element out, then the rest.
LEMMA SumOverAny ==
    ASSUME NEW S, IsFiniteSet(S), NEW g, \A x \in S : g[x] \in Int
    PROVE  \A x \in S : SumOver(g, S) = g[x] + SumOver(g, S \ {x})
<1> DEFINE Any(T) == \A x \in T : SumOver(g, T) = g[x] + SumOver(g, T \ {x})
           N == {n \in Nat : \A T \in SUBSET S : Cardinality(T) <= n => Any(T)}
<1>1. \A T \in SUBSET S : IsFiniteSet(T) /\ Cardinality(T) \in Nat
    BY FS_Subset, FS_CardinalityType
<1>2. 0 \in N
  <2>1. \A T \in SUBSET S : Cardinality(T) <= 0 => T = {}
      BY <1>1, FS_EmptySet
  <2> QED
      BY <2>1
<1>3. ASSUME NEW n \in Nat, n \in N PROVE n + 1 \in N
  <2> SUFFICES ASSUME NEW T \in SUBSET S, Cardinality(T) <= n + 1, NEW x \in T
               PROVE  SumOver(g, T) = g[x] + SumOver(g, T \ {x})
      OBVIOUS
  <2> DEFINE c == Chosen(T)
  <2>0. c \in T
      BY DEF Chosen
  <2>1. c \in T /\ SumOver(g, T) = g[c] + SumOver(g, T \ {c})
      BY <2>0, SumOverChosen
  <2>2. ASSUME x # c PROVE SumOver(g, T) = g[x] + SumOver(g, T \ {x})
    <3>1. ASSUME NEW y \in T PROVE T \ {y} \in SUBSET S /\ Cardinality(T \ {y}) <= n
      <4>1. Cardinality(T \ {y}) = Cardinality(T) - 1
          BY <1>1, FS_RemoveElement
      <4> QED
          BY <1>1, <4>1
    <3>2. Any(T \ {c}) /\ Any(T \ {x})
        BY <1>3, <2>1, <3>1
    <3>3. SumOver(g, T \ {c}) = g[x] + SumOver(g, (T \ {c}) \ {x})
        BY <2>2, <3>2
    <3>4. SumOver(g, T \ {x}) = g[c] + SumOver(g, (T \ {x}) \ {c})
        BY <2>1, <2>2, <3>2
    <3>5. SumOver(g, (T \ {c}) \ {x}) = SumOver(g, (T \ {x}) \ {c})
      <4>1. (T \ {c}) \ {x} = (T \ {x}) \ {c}
          OBVIOUS
      <4> QED
          BY <4>1
    <3>6. g[x] \in Int /\ g[c] \in Int /\ SumOver(g, (T \ {x}) \ {c}) \in Int
      <4>1. IsFiniteSet((T \ {x}) \ {c})
          BY <1>1, FS_Subset
      <4> QED
          BY <2>1, <4>1, SumOverType
    <3> HIDE DEF c
    <3> QED
        BY <2>1, <3>3, <3>4, <3>5, <3>6
  <2> QED
      BY <2>1, <2>2
<1>4. \A n \in Nat : n \in N
  <2> HIDE DEF N
  <2> QED
      BY <1>2, <1>3, AllNaturals
<1>5. Cardinality(S) \in N
    BY <1>1, <1>4
<1> QED
    BY <1>1, <1>5

\* What the sum over the empty set satisfies, and keeps when an element is
\* added, the sum over S satisfies.
LEMMA SumOverAdds ==
    ASSUME NEW T, IsFiniteSet(T), NEW x, ~(x \in T), NEW g,
           \A y \in T : g[y] \in Int, g[x] \in Int
    PROVE  SumOver(g, T \cup {x}) = g[x] + SumOver(g, T)
<1>1. IsFiniteSet(T \cup {x})
    BY FS_AddElement
<1>2. (T \cup {x}) \ {x} = T
    OBVIOUS
<1> QED
    BY <1>1, <1>2, SumOverAny

\* The sum of the sums.
LEMMA SumOverSum ==
    ASSUME NEW S, IsFiniteSet(S), NEW f, NEW g, NEW h,
           \A x \in S : f[x] \in Int /\ g[x] \in Int /\ h[x] = f[x] + g[x]
    PROVE  SumOver(h, S) = SumOver(f, S) + SumOver(g, S)
<1> DEFINE U == {T \in SUBSET S : SumOver(h, T) = SumOver(f, T) + SumOver(g, T)}
<1>1. {} \in U
    BY SumOverChosen
<1>2. ASSUME NEW T \in SUBSET S, T # {}, T \ {Chosen(T)} \in U PROVE T \in U
  <2> DEFINE c == Chosen(T)
  <2>1. c \in S /\ f[c] \in Int /\ g[c] \in Int /\ h[c] = f[c] + g[c]
      BY <1>2 DEF Chosen
  <2>2. /\ SumOver(f, T) = f[c] + SumOver(f, T \ {c})
        /\ SumOver(g, T) = g[c] + SumOver(g, T \ {c})
        /\ SumOver(h, T) = h[c] + SumOver(h, T \ {c})
      BY <1>2, SumOverChosen
  <2>3. SumOver(f, T \ {c}) \in Int /\ SumOver(g, T \ {c}) \in Int
    <3>1. IsFiniteSet(T \ {c})
        BY FS_Subset
    <3> QED
        BY <3>1, SumOverType
  <2>4. SumOver(h, T \ {c}) = SumOver(f, T \ {c}) + SumOver(g, T \ {c})
      BY <1>2
  <2> HIDE DEF c
  <2> QED
      BY <2>1, <2>2, <2>3, <2>4
<1>3. S \in U
  <2> HIDE DEF U
  <2> QED
      BY <1>1, <1>2, SubsetsBySize
<1> QED
    BY <1>3

LEMMA TimesSum ==
    ASSUME NEW c \in Int, NEW a \in Int, NEW b \in Int
    PROVE  c * (a + b) = c * a + c * b
OBVIOUS

\* A factor of every term is one of the sum.
LEMMA SumOverScaled ==
    ASSUME NEW S, IsFiniteSet(S), NEW m \in Int, NEW g, NEW h,
           \A x \in S : g[x] \in Int /\ h[x] = m * g[x]
    PROVE  SumOver(h, S) = m * SumOver(g, S)
<1> DEFINE U == {T \in SUBSET S : SumOver(h, T) = m * SumOver(g, T)}
<1>1. {} \in U
  <2>1. SumOver(g, {}) = 0 /\ SumOver(h, {}) = 0 /\ m * 0 = 0
      BY SumOverChosen
  <2> QED
      BY <2>1
<1>2. ASSUME NEW T \in SUBSET S, T # {}, T \ {Chosen(T)} \in U PROVE T \in U
  <2> DEFINE c == Chosen(T)
  <2>1. c \in S /\ g[c] \in Int /\ h[c] = m * g[c]
      BY <1>2 DEF Chosen
  <2>2. /\ SumOver(g, T) = g[c] + SumOver(g, T \ {c})
        /\ SumOver(h, T) = h[c] + SumOver(h, T \ {c})
      BY <1>2, SumOverChosen
  <2>3. SumOver(g, T \ {c}) \in Int
    <3>1. IsFiniteSet(T \ {c})
        BY FS_Subset
    <3> QED
        BY <3>1, SumOverType
  <2>4. SumOver(h, T \ {c}) = m * SumOver(g, T \ {c})
      BY <1>2
  <2> HIDE DEF c
  <2>5. m * SumOver(g, T) = m * g[c] + m * SumOver(g, T \ {c})
      BY <2>1, <2>2, <2>3, TimesSum
  <2> QED
      BY <2>1, <2>2, <2>4, <2>5
<1>3. S \in U
  <2> HIDE DEF U
  <2> QED
      BY <1>1, <1>2, SubsetsBySize
<1> QED
    BY <1>3

\* Terms that are not larger add up to no more.
LEMMA SumOverLE ==
    ASSUME NEW S, IsFiniteSet(S), NEW g, NEW h,
           \A x \in S : g[x] \in Int /\ h[x] \in Int /\ g[x] <= h[x]
    PROVE  SumOver(g, S) <= SumOver(h, S)
<1> DEFINE U == {T \in SUBSET S : SumOver(g, T) <= SumOver(h, T)}
<1>1. {} \in U
  <2>1. SumOver(g, {}) = 0 /\ SumOver(h, {}) = 0
      BY SumOverChosen
  <2> QED
      BY <2>1
<1>2. ASSUME NEW T \in SUBSET S, T # {}, T \ {Chosen(T)} \in U PROVE T \in U
  <2> DEFINE c == Chosen(T)
  <2>1. c \in S /\ g[c] \in Int /\ h[c] \in Int /\ g[c] <= h[c]
      BY <1>2 DEF Chosen
  <2>2. /\ SumOver(g, T) = g[c] + SumOver(g, T \ {c})
        /\ SumOver(h, T) = h[c] + SumOver(h, T \ {c})
      BY <1>2, SumOverChosen
  <2>3. SumOver(g, T \ {c}) \in Int /\ SumOver(h, T \ {c}) \in Int
    <3>1. IsFiniteSet(T \ {c})
        BY FS_Subset
    <3> QED
        BY <3>1, SumOverType
  <2>4. SumOver(g, T \ {c}) <= SumOver(h, T \ {c})
      BY <1>2
  <2> HIDE DEF c
  <2> QED
      BY <2>1, <2>2, <2>3, <2>4
<1>3. S \in U
  <2> HIDE DEF U
  <2> QED
      BY <1>1, <1>2, SubsetsBySize
<1> QED
    BY <1>3

LEMMA SumOverNat ==
    ASSUME NEW S, IsFiniteSet(S), NEW g, \A x \in S : g[x] \in Nat
    PROVE  SumOver(g, S) \in Nat
<1> DEFINE U == {T \in SUBSET S : SumOver(g, T) \in Nat}
<1>1. {} \in U
    BY SumOverChosen
<1>2. ASSUME NEW T \in SUBSET S, T # {}, T \ {Chosen(T)} \in U PROVE T \in U
  <2>1. g[Chosen(T)] \in Nat
      BY <1>2 DEF Chosen
  <2>2. SumOver(g, T) = g[Chosen(T)] + SumOver(g, T \ {Chosen(T)})
      BY <1>2, SumOverChosen
  <2>3. SumOver(g, T \ {Chosen(T)}) \in Nat
      BY <1>2
  <2> QED
      BY <2>1, <2>2, <2>3
<1>3. S \in U
  <2> HIDE DEF U
  <2> QED
      BY <1>1, <1>2, SubsetsBySize
<1> QED
    BY <1>3

\* Counting is adding ones, and equal terms add up to a multiple.
LEMMA SumOverConstant ==
    ASSUME NEW S, IsFiniteSet(S), NEW m \in Int, NEW g, \A x \in S : g[x] = m
    PROVE  SumOver(g, S) = m * Cardinality(S)
<1> DEFINE U == {T \in SUBSET S : SumOver(g, T) = m * Cardinality(T)}
<1>1. {} \in U
  <2>1. SumOver(g, {}) = 0 /\ Cardinality({}) = 0 /\ m * 0 = 0
      BY SumOverChosen, FS_EmptySet
  <2> QED
      BY <2>1
<1>2. ASSUME NEW T \in SUBSET S, T # {}, T \ {Chosen(T)} \in U PROVE T \in U
  <2> DEFINE c == Chosen(T)
  <2>1. c \in T /\ g[c] = m
      BY <1>2 DEF Chosen
  <2>2. SumOver(g, T) = g[c] + SumOver(g, T \ {c})
      BY <1>2, SumOverChosen
  <2>3. /\ Cardinality(T) \in Nat /\ Cardinality(T \ {c}) \in Nat
        /\ Cardinality(T) = 1 + Cardinality(T \ {c})
    <3>1. IsFiniteSet(T) /\ IsFiniteSet(T \ {c})
        BY FS_Subset
    <3>2. Cardinality(T \ {c}) = Cardinality(T) - 1
        BY <2>1, <3>1, FS_RemoveElement
    <3>3. Cardinality(T) \in Nat /\ Cardinality(T \ {c}) \in Nat
        BY <3>1, FS_CardinalityType
    <3> HIDE DEF c
    <3> QED
        BY <3>2, <3>3
  <2>4. SumOver(g, T \ {c}) = m * Cardinality(T \ {c})
      BY <1>2
  <2> HIDE DEF c
  <2>5. m * Cardinality(T) = m * 1 + m * Cardinality(T \ {c})
      BY <2>3, TimesSum
  <2> QED
      BY <2>1, <2>2, <2>4, <2>5
<1>3. S \in U
  <2> HIDE DEF U
  <2> QED
      BY <1>1, <1>2, SubsetsBySize
<1> QED
    BY <1>3

\* Terms that are 0 may be left out of a sum, and those that are not negative
\* make it no smaller.
LEMMA SumOverPart ==
    ASSUME NEW S, IsFiniteSet(S), NEW R \in SUBSET S, NEW g, \A x \in S : g[x] \in Int
    PROVE  /\ (\A x \in S \ R : g[x] >= 0) => SumOver(g, R) <= SumOver(g, S)
           /\ (\A x \in S \ R : g[x] = 0) => SumOver(g, R) = SumOver(g, S)
<1> DEFINE h == [x \in S |-> IF x \in R THEN g[x] ELSE 0]
<1>1. IsFiniteSet(R)
    BY FS_Subset
<1>2. SumOver(h, S) = SumOver(g, R)
  <2> DEFINE U == {T \in SUBSET S : SumOver(h, T) = SumOver(g, T \cap R)}
  <2>1. {} \in U
    <3>1. {} \cap R = {} /\ SumOver(h, {}) = 0 /\ SumOver(g, {}) = 0
        BY SumOverChosen
    <3> QED
        BY <3>1
  <2>2. ASSUME NEW T \in SUBSET S, T # {}, T \ {Chosen(T)} \in U PROVE T \in U
    <3> DEFINE c == Chosen(T)
    <3>1. c \in T /\ c \in S
        BY <2>2 DEF Chosen
    <3>2. SumOver(h, T) = h[c] + SumOver(h, T \ {c})
        BY <2>2, SumOverChosen
    <3>3. SumOver(h, T \ {c}) = SumOver(g, (T \ {c}) \cap R)
        BY <2>2
    <3>4. IsFiniteSet(T \cap R) /\ IsFiniteSet((T \ {c}) \cap R)
        BY FS_Subset
    <3>5. SumOver(g, (T \ {c}) \cap R) \in Int
        BY <3>4, SumOverType
    <3> HIDE DEF c
    <3>6. CASE c \in R
      <4>1. (T \ {c}) \cap R = (T \cap R) \ {c} /\ c \in T \cap R
          BY <3>1, <3>6
      <4>2. SumOver(g, T \cap R) = g[c] + SumOver(g, (T \cap R) \ {c})
          BY <3>4, <4>1, SumOverAny
      <4>3. h[c] = g[c]
          BY <3>1, <3>6
      <4> HIDE DEF h
      <4>4. SumOver(h, T) = SumOver(g, T \cap R)
          BY <3>2, <3>3, <4>1, <4>2, <4>3
      <4> QED
          BY <4>4
    <3>7. CASE ~(c \in R)
      <4>1. SumOver(g, (T \ {c}) \cap R) = SumOver(g, T \cap R)
        <5>1. (T \ {c}) \cap R = T \cap R
            BY <3>7
        <5> QED
            BY <5>1
      <4>2. h[c] = 0
          BY <3>1, <3>7
      <4> HIDE DEF h
      <4>3. SumOver(h, T) = SumOver(g, T \cap R)
          BY <3>2, <3>3, <3>5, <4>1, <4>2
      <4> QED
          BY <4>3
    <3> QED
        BY <3>6, <3>7
  <2>3. S \in U
    <3> HIDE DEF U
    <3> QED
        BY <2>1, <2>2, SubsetsBySize
  <2>4. S \cap R = R
      OBVIOUS
  <2> QED
      BY <2>3, <2>4
<1>3. \A x \in S : h[x] \in Int
    OBVIOUS
<1>4. ASSUME \A x \in S \ R : g[x] >= 0 PROVE SumOver(h, S) <= SumOver(g, S)
  <2>1. \A x \in S : h[x] <= g[x]
      BY <1>4
  <2> HIDE DEF h
  <2> QED
      BY <1>3, <2>1, SumOverLE
<1>5. ASSUME \A x \in S \ R : g[x] = 0 PROVE SumOver(h, S) = SumOver(g, S)
  <2>1. [x \in S |-> h[x]] = [x \in S |-> g[x]]
      BY <1>5
  <2> QED
      BY <2>1 DEF SumOver
<1> QED
    BY <1>2, <1>4, <1>5

\* The rows of S with a key, and a column of a matrix.
Group(S, key, k) == {x \in S : key[x] = k}
Column(m, A, b) == [a \in A |-> m[a][b]]

\* The sums over the groups of a key add up to the sum over all.
LEMMA SumOverGroups ==
    ASSUME NEW S, IsFiniteSet(S), NEW K, IsFiniteSet(K), NEW key \in [S -> K],
           NEW g, \A x \in S : g[x] \in Int,
           NEW h, \A k \in K : h[k] = SumOver(g, Group(S, key, k))
    PROVE  SumOver(h, K) = SumOver(g, S)
<1> DEFINE G(T) == [k \in K |-> SumOver(g, Group(T, key, k))]
           U == {T \in SUBSET S : SumOver(G(T), K) = SumOver(g, T)}
<1>0. \A T \in SUBSET S, k \in K : G(T)[k] \in Int
  <2>1. \A T \in SUBSET S, k \in K : Group(T, key, k) \in SUBSET S
      BY DEF Group
  <2>2. \A T \in SUBSET S, k \in K : SumOver(g, Group(T, key, k)) \in Int
      BY <2>1, FS_Subset, SumOverType
  <2> QED
      BY <2>2
<1>1. {} \in U
  <2>1. \A k \in K : Group({}, key, k) = {}
      BY DEF Group
  <2>2. SumOver(g, {}) = 0
      BY SumOverChosen
  <2>3. \A k \in K : G({})[k] = 0
      BY <2>1, <2>2
  <2>4. Cardinality(K) \in Nat
      BY FS_CardinalityType
  <2> HIDE DEF G
  <2>5. SumOver(G({}), K) = 0 * Cardinality(K)
      BY <2>3, SumOverConstant
  <2>6. SumOver(G({}), K) = SumOver(g, {})
      BY <2>2, <2>4, <2>5
  <2> QED
      BY <2>6
<1>2. ASSUME NEW T \in SUBSET S, T # {}, T \ {Chosen(T)} \in U PROVE T \in U
  <2> DEFINE c == Chosen(T)
             R == T \ {c}
             one == [k \in K |-> IF k = key[c] THEN g[c] ELSE 0]
  <2>1. c \in T /\ c \in S /\ g[c] \in Int /\ key[c] \in K
      BY <1>2 DEF Chosen
  <2>2. SumOver(g, T) = g[c] + SumOver(g, R)
      BY <1>2, SumOverChosen
  <2>3. SumOver(G(R), K) = SumOver(g, R)
      BY <1>2
  <2>4. ASSUME NEW k \in K PROVE G(T)[k] = G(R)[k] + one[k]
    <3> DEFINE A == Group(T, key, k)
               B == Group(R, key, k)
    <3>1. IsFiniteSet(A)
      <4>1. A \in SUBSET S
          BY DEF Group
      <4> QED
          BY <4>1, FS_Subset
    <3>2. G(T)[k] = SumOver(g, A) /\ G(R)[k] = SumOver(g, B)
        OBVIOUS
    <3>3. G(R)[k] \in Int
        BY <1>0
    <3> HIDE DEF c, G
    <3>4. CASE k = key[c]
      <4>0. \A x \in A : g[x] \in Int
          BY DEF Group
      <4>1. c \in A /\ A \ {c} = B
          BY <2>1, <3>4 DEF Group
      <4>2. one[k] = g[c]
          BY <3>4
      <4>3. SumOver(g, A) = g[c] + SumOver(g, B)
        <5> HIDE DEF A, B
        <5> QED
            BY <3>1, <4>0, <4>1, SumOverAny
      <4> HIDE DEF A, B, one
      <4> QED
          BY <2>1, <3>2, <3>3, <4>2, <4>3
    <3>5. CASE k # key[c]
      <4>1. A = B
          BY <3>5 DEF Group
      <4>2. one[k] = 0
          BY <3>5
      <4> HIDE DEF A, B, one
      <4> QED
          BY <3>2, <3>3, <4>1, <4>2
    <3> QED
        BY <3>4, <3>5
  <2>5. SumOver(one, K) = g[c]
    <3>1. one \in [K -> Int]
        BY <2>1
    <3>2. one[key[c]] = g[c] /\ \A k \in K \ {key[c]} : one[k] = 0
        BY <2>1
    <3> HIDE DEF one, c
    <3>3. SumFunction(one) = g[c]
        BY <2>1, <3>1, <3>2, SumOne
    <3>4. one = [k \in K |-> one[k]]
        BY <3>1
    <3> QED
        BY <3>3, <3>4 DEF SumOver
  <2>6. \A k \in K : G(R)[k] \in Int /\ one[k] \in Int
    <3>1. \A k \in K : one[k] \in Int
        BY <2>1
    <3> QED
        BY <1>0, <3>1
  <2>7. SumOver(G(T), K) = SumOver(G(R), K) + SumOver(one, K)
    <3> HIDE DEF one, R, G
    <3> QED
        BY <2>4, <2>6, SumOverSum
  <2>8. SumOver(g, R) \in Int
    <3>1. IsFiniteSet(R)
        BY FS_Subset
    <3> QED
        BY <3>1, SumOverType
  <2>9. SumOver(G(T), K) = SumOver(g, T)
    <3> HIDE DEF one, R, G, c
    <3> QED
        BY <2>1, <2>2, <2>3, <2>5, <2>7, <2>8
  <2> QED
      BY <2>9
<1>3. S \in U
  <2> HIDE DEF U
  <2> QED
      BY <1>1, <1>2, SubsetsBySize
<1>4. SumOver(h, K) = SumOver(G(S), K)
  <2>1. [k \in K |-> h[k]] = [k \in K |-> G(S)[k]]
      OBVIOUS
  <2> HIDE DEF G
  <2> QED
      BY <2>1 DEF SumOver
<1> QED
    BY <1>3, <1>4

\* Two sums in either order.
LEMMA SumOverExchange ==
    ASSUME NEW A, IsFiniteSet(A), NEW B, IsFiniteSet(B), NEW m,
           \A a \in A, b \in B : m[a][b] \in Int,
           NEW g, \A a \in A : g[a] = SumOver(m[a], B),
           NEW h, \A b \in B : h[b] = SumOver(Column(m, A, b), A)
    PROVE  SumOver(g, A) = SumOver(h, B)
<1> DEFINE col(b) == Column(m, A, b)
           H(T) == [b \in B |-> SumOver(col(b), T)]
           U == {T \in SUBSET A : SumOver(g, T) = SumOver(H(T), B)}
<1>0. \A a \in A : g[a] \in Int
    BY SumOverType
<1>1. \A T \in SUBSET A, b \in B : H(T)[b] \in Int
  <2>1. ASSUME NEW T \in SUBSET A, NEW b \in B PROVE SumOver(col(b), T) \in Int
    <3>1. IsFiniteSet(T) /\ \A a \in T : col(b)[a] \in Int
        BY FS_Subset DEF Column
    <3> HIDE DEF col
    <3> QED
        BY <3>1, SumOverType
  <2> QED
      BY <2>1
<1>2. {} \in U
  <2>1. ASSUME NEW b \in B PROVE H({})[b] = 0
    <3> HIDE DEF col
    <3>1. SumOver(col(b), {}) = 0
        BY SumOverChosen
    <3> QED
        BY <3>1
  <2>2. SumOver(g, {}) = 0 /\ Cardinality(B) \in Nat
      BY SumOverChosen, FS_CardinalityType
  <2> HIDE DEF H
  <2>3. SumOver(H({}), B) = 0 * Cardinality(B)
      BY <2>1, SumOverConstant
  <2>4. SumOver(g, {}) = SumOver(H({}), B)
      BY <2>2, <2>3
  <2> QED
      BY <2>4
<1>3. ASSUME NEW T \in SUBSET A, T # {}, T \ {Chosen(T)} \in U PROVE T \in U
  <2> DEFINE c == Chosen(T)
             R == T \ {c}
  <2>1. c \in T /\ c \in A
      BY <1>3 DEF Chosen
  <2>2. SumOver(g, T) = g[c] + SumOver(g, R)
      BY <1>3, SumOverChosen
  <2>3. SumOver(g, R) = SumOver(H(R), B)
      BY <1>3
  <2>4. ASSUME NEW b \in B PROVE H(T)[b] = H(R)[b] + m[c][b]
    <3>1. IsFiniteSet(T)
        BY FS_Subset
    <3>2. \A a \in T : col(b)[a] \in Int
        BY DEF Column
    <3>3. col(b)[c] = m[c][b] /\ m[c][b] \in Int
        BY <2>1 DEF Column
    <3>4. H(T)[b] = SumOver(col(b), T) /\ H(R)[b] = SumOver(col(b), R)
        OBVIOUS
    <3> HIDE DEF col
    <3>5. SumOver(col(b), T) = col(b)[c] + SumOver(col(b), R)
        BY <2>1, <3>1, <3>2, SumOverAny
    <3>6. H(R)[b] \in Int
        BY <1>1
    <3> HIDE DEF H, c, R
    <3> QED
        BY <3>3, <3>4, <3>5, <3>6
  <2>5. \A b \in B : H(R)[b] \in Int /\ m[c][b] \in Int
      BY <1>1, <2>1
  <2>6. SumOver(H(T), B) = SumOver(H(R), B) + SumOver(m[c], B)
    <3> HIDE DEF H, c, R
    <3> QED
        BY <2>4, <2>5, SumOverSum
  <2>7. g[c] = SumOver(m[c], B) /\ g[c] \in Int
      BY <1>0, <2>1
  <2>8. SumOver(g, R) \in Int
    <3>1. IsFiniteSet(R)
        BY FS_Subset
    <3> QED
        BY <1>0, <3>1, SumOverType
  <2>9. SumOver(g, T) = SumOver(H(T), B)
    <3> HIDE DEF H, c, R
    <3> QED
        BY <2>2, <2>3, <2>6, <2>7, <2>8
  <2> QED
      BY <2>9
<1>4. A \in U
  <2> HIDE DEF U
  <2> QED
      BY <1>2, <1>3, SubsetsBySize
<1>5. SumOver(h, B) = SumOver(H(A), B)
  <2>1. [b \in B |-> h[b]] = [b \in B |-> H(A)[b]]
      OBVIOUS
  <2> HIDE DEF H
  <2> QED
      BY <2>1 DEF SumOver
<1> QED
    BY <1>4, <1>5
=============================================================================
