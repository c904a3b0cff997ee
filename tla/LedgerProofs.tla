---------------------------- MODULE LedgerProofs ----------------------------
(***************************************************************************)
(* What holds of Ledger for any number of requests, funds, portfolios,     *)
(* rows and batches, and for every amount.                                 *)
(***************************************************************************)
EXTENDS Ledger, Sums, TLAPS

-----------------------------------------------------------------------------
(* Rows, and the sums over them                                            *)

OrderIds == Nat \cup Orders \cup ClientOrders

LedgerRows ==
    [seq : Nat, order : OrderIds, fund : Funds, dir : Dirs, amount : Int,
     share : Int, fee : Int, cash : Int, chg : Int, given : BOOLEAN]

\* A ledger whose next row is n: seqs are handed out once, and an order named
\* by a seq is not yet one of a later row.
LedgerOK(t, n) ==
    /\ t \subseteq LedgerRows /\ IsFiniteSet(t)
    /\ \A r \in t : r.seq \in 1..(n - 1) /\ (r.order \in Nat => r.order < n)
    /\ \A r, s \in t : r.seq = s.seq => r = s

\* A ledger and the rows that are new in it.
LEMMA RowAdded ==
    ASSUME NEW t, NEW n \in Nat \ {0}, LedgerOK(t, n),
           NEW r \in LedgerRows, r.seq = n, r.order \in Nat => r.order <= n
    PROVE  LedgerOK(t \cup {r}, n + 1)
<1>1. IsFiniteSet(t \cup {r})
    BY FS_AddElement DEF LedgerOK
<1>2. \A s \in t : s \in LedgerRows /\ s.seq # n
    BY DEF LedgerOK
<1>3. ASSUME NEW s \in t \cup {r}
      PROVE  s.seq \in 1..n /\ (s.order \in Nat => s.order < n + 1)
  <2>1. CASE s = r
      BY <2>1
  <2>2. CASE s \in t
      BY <2>2 DEF LedgerOK, LedgerRows
  <2> QED
      BY <2>1, <2>2
<1>4. \A x, y \in t \cup {r} : x.seq = y.seq => x = y
    BY <1>2 DEF LedgerOK
<1>5. t \cup {r} \subseteq LedgerRows
    BY DEF LedgerOK
<1> QED
    BY <1>1, <1>3, <1>4, <1>5 DEF LedgerOK

\* Fewer rows.
LEMMA RowsRemoved ==
    ASSUME NEW t, NEW n, LedgerOK(t, n), NEW h \in SUBSET t
    PROVE  LedgerOK(h, n)
<1>1. IsFiniteSet(h)
    BY FS_Subset DEF LedgerOK
<1> QED
    BY <1>1 DEF LedgerOK

\* More room.
LEMMA RoomAdded ==
    ASSUME NEW t, NEW n \in Nat, NEW m \in Nat, n <= m, LedgerOK(t, n)
    PROVE  LedgerOK(t, m)
<1>1. ASSUME NEW s \in t
      PROVE  s.seq \in 1..(m - 1) /\ (s.order \in Nat => s.order < m)
  <2>1. s.seq \in 1..(n - 1) /\ (s.order \in Nat => s.order < n)
      BY DEF LedgerOK
  <2> QED
      BY <2>1
<1> QED
    BY <1>1 DEF LedgerOK

\* What a fund's rows sum up to are numbers.
LEMMA FundSums ==
    ASSUME NEW t, NEW n, LedgerOK(t, n), NEW f
    PROVE  SharesIn(t, f) \in Int /\ CashIn(t, f) \in Int
<1>1. IsFiniteSet(RowsOf(t, f)) /\ RowsOf(t, f) \subseteq LedgerRows
    BY FS_Subset DEF LedgerOK, RowsOf
<1>2. /\ [r \in RowsOf(t, f) |-> r.chg] \in [RowsOf(t, f) -> Int]
      /\ [r \in RowsOf(t, f) |-> r.cash] \in [RowsOf(t, f) -> Int]
    BY <1>1 DEF LedgerRows
<1> QED
    BY <1>1, <1>2, SumType DEF SharesIn, CashIn

\* The sums of a fund depend on its own rows only.
LEMMA SameRows ==
    ASSUME NEW t, NEW u, NEW f, RowsOf(t, f) = RowsOf(u, f)
    PROVE  SharesIn(t, f) = SharesIn(u, f) /\ CashIn(t, f) = CashIn(u, f)
BY DEF SharesIn, CashIn

\* A fund without rows.
LEMMA NoRows ==
    ASSUME NEW t, NEW f, RowsOf(t, f) = {}
    PROVE  SharesIn(t, f) = 0 /\ CashIn(t, f) = 0
<1> DEFINE g == [x \in {} |-> x]
           F == CHOOSE F : F = Sums(g, SUBSET {}, F)
<1>1. SharesIn(t, f) = SumFunction(g) /\ CashIn(t, f) = SumFunction(g)
  <2>1. /\ [r \in RowsOf(t, f) |-> r.chg] = g
        /\ [r \in RowsOf(t, f) |-> r.cash] = g
      OBVIOUS
  <2> QED
      BY <2>1 DEF SharesIn, CashIn
<1>2. IsFiniteSet({})
    BY FS_EmptySet
<1>3. F = Sums(g, SUBSET {}, F)
    BY <1>2, SumsStand
<1>4. SumFunction(g) = F[{}]
    BY TotalIs
<1> HIDE DEF F
<1>5. F[{}] = 0
    BY <1>3 DEF Sums
<1> QED
    BY <1>1, <1>4, <1>5

\* Settled sums stay close to the sum.
LEMMA SettleType ==
    ASSUME NEW n \in Int
    PROVE  Settle(n) \in Int /\ Abs(n - Settle(n)) <= Dust
BY LedgerAssumption DEF Settle, Abs

-----------------------------------------------------------------------------
(* New rows                                                                *)

\* A trade's row: signed columns are numbers, and follow the others when none
\* was provided.
LEMMA RowType ==
    ASSUME NEW seq \in Nat, NEW order \in OrderIds, NEW i, i.fund \in Funds,
           i.dir \in Dirs, i.amount \in Int, i.share \in Int, i.fee \in Int,
           i.cash \in Int \cup {Keep}, i.chg \in Int \cup {Keep}
    PROVE  /\ Row(seq, order, i) \in LedgerRows
           /\ Row(seq, order, i).seq = seq /\ Row(seq, order, i).order = order
           /\ Row(seq, order, i).fund = i.fund
<1>1. signedCashFlow(i.dir, i.amount, i.fee, i.cash) \in Int
    BY DEF signedCashFlow, Dirs
<1>2. signedShareChange(i.dir, i.share, i.chg) \in Int
    BY DEF signedShareChange, Dirs
<1> QED
    BY <1>1, <1>2 DEF Row, LedgerRows

\* The signed columns of a row agree with the rest of it.
RowSigned(r) ==
    ~r.given =>
        /\ r.cash = signedCashFlow(r.dir, r.amount, r.fee, Keep)
        /\ r.chg = signedShareChange(r.dir, r.share, Keep)

\* Those of a new row do.
LEMMA RowIsSigned ==
    ASSUME NEW seq, NEW order, NEW i
    PROVE  RowSigned(Row(seq, order, i))
BY DEF RowSigned, Row

\* The row of a trade that the system makes up.
LEMMA TradeRow ==
    ASSUME NEW seq \in Nat, NEW order \in OrderIds, NEW f \in Funds, NEW d \in Dirs,
           NEW a \in Int, NEW s \in Int, NEW fee \in Int
    PROVE  /\ Row(seq, order, Trade(f, d, a, s, fee)) \in LedgerRows
           /\ Row(seq, order, Trade(f, d, a, s, fee)).seq = seq
           /\ Row(seq, order, Trade(f, d, a, s, fee)).order = order
           /\ Row(seq, order, Trade(f, d, a, s, fee)).fund = f
<1> DEFINE i == Trade(f, d, a, s, fee)
<1>1. /\ i.fund = f /\ i.dir = d /\ i.amount = a /\ i.share = s /\ i.fee = fee
      /\ i.cash = Keep /\ i.chg = Keep
    BY DEF Trade
<1> HIDE DEF i
<1>2. /\ Row(seq, order, i) \in LedgerRows
      /\ Row(seq, order, i).seq = seq /\ Row(seq, order, i).order = order
      /\ Row(seq, order, i).fund = i.fund
    BY <1>1, RowType
<1> QED
    BY <1>1, <1>2 DEF i

\* The row an update describes.
LEMMA AppliedType ==
    ASSUME NEW r \in LedgerRows, NEW u \in Edits, u.dir # Keep => u.dir \in Dirs
    PROVE  Applied(u, r) \in LedgerRows
<1>1. /\ Pick(u.fund, r.fund) \in Funds /\ Pick(u.dir, r.dir) \in Dirs
      /\ Pick(u.amount, r.amount) \in Int /\ Pick(u.share, r.share) \in Int
      /\ Pick(u.fee, r.fee) \in Int
    BY DEF Pick, Edits, LedgerRows
<1>2. r.seq \in Nat /\ r.order \in OrderIds
    BY DEF LedgerRows
<1> QED
    BY <1>1, <1>2, TradeRow DEF Applied

\* The row an update makes of the row c that it hits.
LEMMA UpdatedType ==
    ASSUME NEW r \in LedgerRows, NEW c \in LedgerRows, NEW u \in Edits,
           u.dir # Keep => u.dir \in Dirs
    PROVE  /\ UpdatedRow(c, u, r) \in LedgerRows
           /\ UpdatedRow(c, u, r).seq = c.seq /\ UpdatedRow(c, u, r).order = c.order
           /\ UpdatedRow(c, u, r).fund = Pick(u.fund, c.fund)
<1>1. Applied(u, r).cash \in Int /\ Applied(u, r).chg \in Int
    BY AppliedType DEF LedgerRows
<1>2. /\ Pick(u.fund, c.fund) \in Funds /\ Pick(u.dir, c.dir) \in Dirs
      /\ Pick(u.amount, c.amount) \in Int /\ Pick(u.share, c.share) \in Int
      /\ Pick(u.fee, c.fee) \in Int
    BY DEF Pick, Edits, LedgerRows
<1> QED
    BY <1>1, <1>2 DEF UpdatedRow, LedgerRows

-----------------------------------------------------------------------------
(* A batch                                                                 *)

\* No two rows share an order and a fund.
Unique(t) == \A r, s \in t : r.order = s.order /\ r.fund = s.fund => r = s

\* What the items of a batch, the first m of them, make of the ledger.
Imported(acc, m) ==
    /\ acc.next \in Nat \ {0} /\ nextSeq <= acc.next /\ acc.next <= nextSeq + m
    /\ LedgerOK(acc.txns, acc.next)
    /\ acc.affected \subseteq Funds
    /\ txns \subseteq acc.txns
    /\ \A r \in acc.txns \ txns : r.fund \in acc.affected
    /\ Unique(txns) => Unique(acc.txns)
    /\ (\A r \in txns : RowSigned(r)) => \A r \in acc.txns : RowSigned(r)

\* One item: skipped when its order is known for its fund, else a new row.
LEMMA ItemImported ==
    ASSUME NEW m \in Nat, NEW acc, Imported(acc, m), nextSeq \in Nat \ {0},
           NEW i \in Items, ValidItem(i)
    PROVE  Imported(ImportItem(acc, i), m + 1)
<1> DEFINE order == IF i.order = Keep THEN acc.next ELSE i.order
           row == Row(acc.next, order, i)
<1>1. acc.next \in Nat \ {0} /\ order \in OrderIds
    BY DEF Imported, Items, OrderIds
<1>2. /\ row \in LedgerRows /\ row.seq = acc.next
      /\ row.order = order /\ row.fund = i.fund /\ i.fund \in Funds
    BY <1>1, RowType DEF Items, ValidItem
<1>3. row.order \in Nat => row.order <= acc.next
    BY <1>1, <1>2, LedgerAssumption DEF Items
<1>4. RowSigned(row)
    BY RowIsSigned
<1>5. CASE Exists(acc.txns, order, i.fund)
  <2>1. ImportItem(acc, i) = acc
      BY <1>5 DEF ImportItem
  <2>2. acc.next <= nextSeq + (m + 1)
      BY DEF Imported
  <2> QED
      BY <2>1, <2>2 DEF Imported
<1>6. CASE ~Exists(acc.txns, order, i.fund)
  <2> DEFINE new == ImportItem(acc, i)
  <2>1. /\ new.txns = acc.txns \cup {row} /\ new.next = acc.next + 1
        /\ new.affected = acc.affected \cup {i.fund}
      BY <1>6 DEF ImportItem
  <2> HIDE DEF row, order, new
  <2>2. LedgerOK(acc.txns \cup {row}, acc.next + 1)
      BY <1>1, <1>2, <1>3, RowAdded DEF Imported
  <2>3. new.next \in Nat \ {0} /\ nextSeq <= new.next /\ new.next <= nextSeq + (m + 1)
      BY <2>1, <1>1 DEF Imported
  <2>4. Unique(txns) => Unique(acc.txns \cup {row})
      BY <1>2, <1>6 DEF Imported, Unique, Exists
  <2>5. (\A r \in txns : RowSigned(r)) => \A r \in acc.txns \cup {row} : RowSigned(r)
      BY <1>4 DEF Imported
  <2>6. /\ new.affected \subseteq Funds /\ txns \subseteq new.txns
        /\ \A r \in new.txns \ txns : r.fund \in new.affected
      BY <1>2, <2>1 DEF Imported
  <2>7. Imported(new, m + 1)
      BY <2>1, <2>2, <2>3, <2>4, <2>5, <2>6 DEF Imported
  <2> QED
      BY <2>7 DEF new
<1> QED
    BY <1>5, <1>6

NothingImported == [txns |-> txns, next |-> nextSeq, affected |-> {}]

\* The loop over the first m items.
Loop(batch, m, F) ==
    [n \in 0..m |-> IF n = 0 THEN NothingImported ELSE ImportItem(F[n - 1], batch[n])]

\* It runs to its end.
LEMMA LoopRuns ==
    ASSUME NEW batch, NEW m \in Nat
    PROVE  \E F : F = Loop(batch, m, F)
<1> DEFINE N == {n \in Nat : \E F : F = Loop(batch, n, F)}
<1>1. 0 \in N
  <2> DEFINE F == [n \in 0..0 |-> NothingImported]
  <2>1. F = Loop(batch, 0, F)
      BY DEF Loop
  <2> HIDE DEF F
  <2> QED
      BY <2>1
<1>2. ASSUME NEW n \in Nat, n \in N PROVE n + 1 \in N
  <2>1. PICK F : F = Loop(batch, n, F)
      BY <1>2
  <2> DEFINE G == Loop(batch, n + 1, F)
  <2>2. ASSUME NEW k \in 0..n PROVE G[k] = F[k]
      BY <2>1 DEF Loop
  <2>3. G = Loop(batch, n + 1, G)
    <3>1. \A k \in 0..(n + 1) : k = 0 \/ k - 1 \in 0..n
        OBVIOUS
    <3> QED
        BY <2>2, <3>1 DEF Loop
  <2> HIDE DEF G
  <2> QED
      BY <2>3
<1> HIDE DEF N
<1>3. m \in N
    BY <1>1, <1>2, AllNaturals
<1> QED
    BY <1>3 DEF N

\* A batch of valid items leaves a ledger, and touches only what it says.
LEMMA BatchImported ==
    ASSUME NEW batch \in Imports, \A n \in 1..Len(batch) : ValidItem(batch[n]),
           LedgerOK(txns, nextSeq), nextSeq \in Nat \ {0}
    PROVE  Imported(ImportBatch(batch), Len(batch))
<1> DEFINE F == CHOOSE F : F = Loop(batch, Len(batch), F)
           N == {n \in Nat : n <= Len(batch) => Imported(F[n], n)}
<1>1. batch \in Seq(Items) /\ Len(batch) \in Nat
    BY LedgerAssumption
<1>2. F = Loop(batch, Len(batch), F)
    BY <1>1, LoopRuns
<1>3. ImportBatch(batch) = F[Len(batch)]
    BY DEF ImportBatch, Loop, NothingImported
<1> HIDE DEF F
<1>4. 0 \in N
  <2>1. F[0] = NothingImported
      BY <1>1, <1>2 DEF Loop
  <2>2. Imported(NothingImported, 0)
      BY DEF Imported, NothingImported
  <2> QED
      BY <2>1, <2>2
<1>5. ASSUME NEW n \in Nat, n \in N PROVE n + 1 \in N
  <2> SUFFICES ASSUME n + 1 <= Len(batch) PROVE Imported(F[n + 1], n + 1)
      OBVIOUS
  <2>1. Imported(F[n], n)
      BY <1>1, <1>5
  <2>2. n + 1 \in 1..Len(batch)
      BY <1>1
  <2>3. batch[n + 1] \in Items /\ ValidItem(batch[n + 1])
      BY <1>1, <2>2
  <2>4. F[n + 1] = ImportItem(F[n], batch[n + 1])
    <3>1. n + 1 \in 0..Len(batch) /\ n + 1 # 0 /\ (n + 1) - 1 = n
        BY <1>1
    <3> QED
        BY <1>2, <3>1 DEF Loop
  <2> QED
      BY <2>1, <2>3, <2>4, ItemImported
<1> HIDE DEF N
<1>6. Len(batch) \in N
    BY <1>1, <1>4, <1>5, AllNaturals
<1> QED
    BY <1>1, <1>3, <1>6 DEF N

\* The rows of the funds that no item touched.
LEMMA OthersKept ==
    ASSUME NEW t, NEW u, t \subseteq u, NEW A, \A r \in u \ t : r.fund \in A,
           NEW f, f \notin A
    PROVE  RowsOf(u, f) = RowsOf(t, f)
BY DEF RowsOf

-----------------------------------------------------------------------------
(* Types                                                                   *)

\* A rebuild knows its portfolio from the start, or once it has resolved it.
TaskOK(t) ==
    /\ t \in RecalcTasks
    /\ t.mode = "light" \/ t.pc \in {"eff", "write", "insert"} => t.pid \in Pids

\* What a request or a job is in the middle of.
ProcOK(k) ==
    \/ k = Idle
    \/ /\ k \in [pc : {"update"}, old : LedgerRows, upd : Edits]
       /\ k.upd.dir # Keep => k.upd.dir \in Dirs
    \/ k \in [pc : {"delete"}, old : LedgerRows]
    \/ k \in [pc : {"adjust"}, fund : Funds, pid : Pids, delta : Int]
    \/ TaskOK(k)

\* The stored rows of a projection: a row that is not there has no content.
SnapOK(sn) ==
    /\ sn \in [Funds \X Pids -> SnapRows]
    /\ \A k \in Funds \X Pids : ~sn[k].present => sn[k] = NoSnap

ProcsOK(pr) ==
    /\ pr = [p \in Procs |-> pr[p]]
    /\ \A p \in Procs : ProcOK(pr[p])

\* TypeOK in inductive form.
Base ==
    /\ LedgerOK(txns, nextSeq) /\ nextSeq \in 1..(MaxSeq + 1)
    /\ SnapOK(snap)
    /\ nav \in [Funds -> Navs \cup {0}]
    /\ details \subseteq Funds
    /\ ProcsOK(proc)
    /\ ops \in 0..MaxOps
    /\ ver \in [Funds -> Nat]
    /\ excused \subseteq Funds

\* The portfolio a rebuild writes to is one that is in use, and one with a row
\* if there is any.
LEMMA Resolves ==
    ASSUME NEW sn, NEW f
    PROVE  /\ resolvePortfolioID(sn, f) \in Pids
           /\ \A i \in Pids : sn[<<f, i>>].present
                 => sn[<<f, resolvePortfolioID(sn, f)>>].present
<1> DEFINE present == {i \in Pids : sn[<<f, i>>].present}
<1>1. CASE present = {}
    BY <1>1, LedgerAssumption DEF resolvePortfolioID
<1>2. CASE present # {}
  <2>1. present \subseteq Nat /\ present \subseteq Pids
      BY LedgerAssumption
  <2>2. PICK x \in present : \A y \in present : x <= y
    <3> HIDE DEF present
    <3> QED
        BY <1>2, <2>1, SmallestOf
  <2>3. Min(present) \in present
    <3> HIDE DEF present
    <3> QED
        BY <2>2 DEF Min
  <2> QED
      BY <1>2, <2>3 DEF resolvePortfolioID
<1> QED
    BY <1>1, <1>2

\* It depends on which rows of the fund are there.
LEMMA SameResolution ==
    ASSUME NEW sn, NEW so, NEW f,
           \A i \in Pids : sn[<<f, i>>].present <=> so[<<f, i>>].present
    PROVE  resolvePortfolioID(sn, f) = resolvePortfolioID(so, f)
<1>1. {i \in Pids : sn[<<f, i>>].present} = {i \in Pids : so[<<f, i>>].present}
    OBVIOUS
<1> QED
    BY <1>1 DEF resolvePortfolioID

\* A row that a rebuild stores.
LEMMA SnapRowType ==
    ASSUME NEW held \in Int, NEW cost \in Int, NEW latest \in Nat, NEW eff \in Nat
    PROVE  /\ SnapRow(held, cost, latest, eff) \in SnapRows
           /\ SnapRow(held, cost, latest, eff).present
           /\ SnapRow(held, cost, latest, eff).held = held
           /\ SnapRow(held, cost, latest, eff).cost = cost
           /\ SnapRow(held, cost, latest, eff).nav = latest
           /\ SnapRow(held, cost, latest, eff).value = held * eff
<1>1. held * eff \in Int
    OBVIOUS
<1> QED
    BY <1>1 DEF SnapRow, SnapRows, Value

\* The newest prices are numbers.
LEMMA NavType ==
    ASSUME Base
    PROVE  nav \in [Funds -> Nat]
<1>1. Navs \subseteq Nat
    BY LedgerAssumption
<1>2. Navs \cup {0} \subseteq Nat
    BY <1>1
<1> QED
    BY <1>2 DEF Base

\* The projection after a rebuild in the writer's own transaction.
LEMMA RecalcTxType ==
    ASSUME Base, NEW t, NEW n, LedgerOK(t, n), NEW codes
    PROVE  SnapOK(RecalcTx(t, codes))
<1>1. ASSUME NEW f \in Funds
      PROVE  SnapRow(Settle(SharesIn(t, f)), CashIn(t, f), nav[f], nav[f]) \in SnapRows
             /\ SnapRow(Settle(SharesIn(t, f)), CashIn(t, f), nav[f], nav[f]).present
  <2>1. SharesIn(t, f) \in Int /\ CashIn(t, f) \in Int
      BY FundSums
  <2>2. Settle(SharesIn(t, f)) \in Int
      BY <2>1, SettleType
  <2>3. nav[f] \in Nat
      BY NavType
  <2> QED
      BY <2>1, <2>2, <2>3, SnapRowType
<1>2. \A k \in Funds \X Pids : k[1] \in Funds
    OBVIOUS
<1> QED
    BY <1>1, <1>2 DEF RecalcTx, Base, SnapOK

\* Versions only grow.
LEMMA BumpType ==
    ASSUME Base, NEW t
    PROVE  /\ Bump(t) \in [Funds -> Nat]
           /\ \A f \in Funds :
                 /\ Bump(t)[f] >= ver[f]
                 /\ Bump(t)[f] = ver[f] => RowsOf(t, f) = RowsOf(txns, f)
BY DEF Bump, Changed, Base

\* One request moves on.
LEMMA ProcMoved ==
    ASSUME ProcsOK(proc), NEW p \in Procs, NEW k, ProcOK(k),
           proc' = [proc EXCEPT ![p] = k]
    PROVE  ProcsOK(proc')
<1>1. DOMAIN proc = Procs
    BY DEF ProcsOK
<1>2. proc' = [q \in Procs |-> IF q = p THEN k ELSE proc[q]]
    BY <1>1
<1> QED
    BY <1>2 DEF ProcsOK

\* A rebuild as it starts.
LEMMA BeginOK ==
    ASSUME NEW f \in Funds, NEW i \in Pids \cup {0}, NEW m \in {"full", "light"},
           m = "light" => i \in Pids, NEW todo \in SUBSET Funds
    PROVE  TaskOK(Begin(f, i, m, todo))
BY DEF Begin, TaskOK, RecalcTasks, RecalcPCs, maxSnapshotWriteRetries

\* What comes after a rebuild.
LEMMA NextTaskOK ==
    ASSUME NEW t, TaskOK(t), NEW n \in NextTask(t)
    PROVE  ProcOK(n)
<1>1. t.todo \subseteq Funds
    BY DEF TaskOK, RecalcTasks
<1>2. CASE t.todo = {}
    BY <1>2 DEF NextTask, ProcOK
<1>3. CASE t.todo # {}
  <2>1. PICK f \in t.todo : n = Begin(f, 0, "full", t.todo \ {f})
      BY <1>3 DEF NextTask
  <2>2. TaskOK(Begin(f, 0, "full", t.todo \ {f}))
      BY <1>1, BeginOK
  <2> QED
      BY <2>1, <2>2 DEF ProcOK
<1> QED
    BY <1>2, <1>3

\* A request that is past its first statement has the record of its label.
LEMMA ProcIs ==
    ASSUME NEW k, ProcOK(k)
    PROVE  /\ k.pc = "update" => /\ k.old \in LedgerRows /\ k.upd \in Edits
                                 /\ k.upd.dir # Keep => k.upd.dir \in Dirs
           /\ k.pc = "delete" => k.old \in LedgerRows
           /\ k.pc = "adjust" => k.fund \in Funds /\ k.pid \in Pids /\ k.delta \in Int
           /\ k.pc \in RecalcPCs => TaskOK(k)
BY DEF ProcOK, TaskOK, RecalcTasks, RecalcPCs, Idle

\* Starting an operation is counted.
LEMMA Counted ==
    ASSUME Base, NEW p \in Procs, NEW op, Starts(p, op)
    PROVE  ops' \in 0..MaxOps
<1>1. MaxOps \in Nat
    BY LedgerAssumption
<1> QED
    BY <1>1 DEF Base, Starts

\* The next row, appended by itself.
LEMMA BaseAppended ==
    ASSUME Base, nextSeq <= MaxSeq, NEW p \in Procs, NEW k, ProcOK(k),
           proc' = [proc EXCEPT ![p] = k],
           NEW r \in LedgerRows, r.seq = nextSeq, r.order \in Nat => r.order <= nextSeq,
           txns' = txns \cup {r}, ver' = Bump(txns \cup {r}), nextSeq' = nextSeq + 1,
           UNCHANGED <<snap, nav, details, excused>>, ops' \in 0..MaxOps
    PROVE  Base'
<1>1. MaxSeq \in Nat /\ nextSeq \in Nat \ {0} /\ nextSeq' \in 1..(MaxSeq + 1)
  <2>1. MaxSeq \in Nat
      BY LedgerAssumption
  <2> QED
      BY <2>1 DEF Base
<1>2. LedgerOK(txns', nextSeq')
    BY <1>1, RowAdded DEF Base
<1>3. ver' \in [Funds -> Nat]
    BY BumpType
<1>4. ProcsOK(proc')
    BY ProcMoved DEF Base
<1> QED
    BY <1>1, <1>2, <1>3, <1>4 DEF Base

\* Imports.
LEMMA BaseImport ==
    ASSUME Base, NEW p \in Procs, NEW b \in Imports, ImportTransactions(p, b)
    PROVE  Base'
<1>1. ops' \in 0..MaxOps
    BY Counted DEF ImportTransactions
<1>2. UNCHANGED <<nav, details, proc>>
    BY DEF ImportTransactions
<1>3. CASE UNCHANGED <<txns, nextSeq, snap, ver, excused>>
    BY <1>1, <1>2, <1>3 DEF Base
<1>4. ASSUME \A n \in 1..Len(b) : ValidItem(b[n]),
             NEW done, done = ImportBatch(b), nextSeq + Len(b) <= MaxSeq + 1,
             txns' = done.txns, nextSeq' = done.next,
             snap' = RecalcTx(done.txns, done.affected), ver' = Bump(done.txns),
             excused' = excused \ done.affected
      PROVE  Base'
  <2>1. MaxSeq \in Nat /\ nextSeq \in Nat \ {0} /\ Len(b) \in Nat
    <3>1. MaxSeq \in Nat /\ b \in Seq(Items)
        BY LedgerAssumption
    <3> QED
        BY <3>1 DEF Base
  <2>2. Imported(done, Len(b))
      BY <1>4, <2>1, BatchImported DEF Base
  <2>3. LedgerOK(txns', nextSeq') /\ nextSeq' \in 1..(MaxSeq + 1)
      BY <1>4, <2>1, <2>2 DEF Imported
  <2>4. SnapOK(snap')
      BY <1>4, <2>3, RecalcTxType
  <2>5. ver' \in [Funds -> Nat]
      BY <1>4, BumpType
  <2> QED
      BY <1>1, <1>2, <1>4, <2>3, <2>4, <2>5 DEF Base
<1> QED
    BY <1>3, <1>4 DEF ImportTransactions

\* The ledger after an update of the row that has a seq, if there is one.
LEMMA EditedOK ==
    ASSUME NEW t, NEW n, LedgerOK(t, n), NEW r \in LedgerRows, NEW u \in Edits,
           u.dir # Keep => u.dir \in Dirs,
           NEW hit, hit = {c \in t : c.seq = r.seq}
    PROVE  LedgerOK((t \ hit) \cup {UpdatedRow(c, u, r) : c \in hit}, n)
<1>1. CASE hit = {}
  <2>1. (t \ hit) \cup {UpdatedRow(c, u, r) : c \in hit} = t
      BY <1>1
  <2> QED
      BY <2>1
<1>2. ASSUME NEW c \in hit
      PROVE  LedgerOK((t \ hit) \cup {UpdatedRow(d, u, r) : d \in hit}, n)
  <2> DEFINE new == UpdatedRow(c, u, r)
  <2>1. hit = {c} /\ c \in t /\ c \in LedgerRows
      BY <1>2 DEF LedgerOK
  <2>2. (t \ hit) \cup {UpdatedRow(d, u, r) : d \in hit} = (t \ {c}) \cup {new}
      BY <2>1
  <2>3. new \in LedgerRows /\ new.seq = c.seq /\ new.order = c.order
      BY <2>1, UpdatedType
  <2> HIDE DEF new
  <2>4. IsFiniteSet((t \ {c}) \cup {new})
      BY FS_RemoveElement, FS_AddElement DEF LedgerOK
  <2>5. ASSUME NEW s \in (t \ {c}) \cup {new}
        PROVE  s.seq \in 1..(n - 1) /\ (s.order \in Nat => s.order < n)
      BY <2>1, <2>3 DEF LedgerOK
  <2>6. \A x, y \in (t \ {c}) \cup {new} : x.seq = y.seq => x = y
      BY <2>1, <2>3 DEF LedgerOK
  <2>7. (t \ {c}) \cup {new} \subseteq LedgerRows
      BY <2>3 DEF LedgerOK
  <2> QED
      BY <2>2, <2>4, <2>5, <2>6, <2>7 DEF LedgerOK
<1> QED
    BY <1>1, <1>2

\* Updates and deletes: the row that was read, then the transaction.
LEMMA BaseEdit ==
    ASSUME Base, NEW p \in Procs,
           \/ \E r \in txns : DeleteRead(p, r) \/ \E u \in Updates : UpdateRead(p, r, u)
           \/ UpdateCommit(p) \/ DeleteCommit(p)
    PROVE  Base'
<1>1. ASSUME NEW r \in txns, DeleteRead(p, r) PROVE Base'
  <2> DEFINE k == [pc |-> "delete", old |-> r]
  <2>1. ProcOK(k)
    <3>1. r \in LedgerRows
        BY DEF Base, LedgerOK
    <3>2. k \in [pc : {"delete"}, old : LedgerRows]
        BY <3>1
    <3> HIDE DEF k
    <3> QED
        BY <3>2 DEF ProcOK
  <2>2. proc' = [proc EXCEPT ![p] = k] /\ UNCHANGED <<store, ver, excused>>
      BY <1>1 DEF DeleteRead
  <2> HIDE DEF k
  <2>3. ProcsOK(proc') /\ ops' \in 0..MaxOps
      BY <1>1, <2>1, <2>2, ProcMoved, Counted DEF Base, DeleteRead
  <2> QED
      BY <2>2, <2>3 DEF Base, store
<1>2. ASSUME NEW r \in txns, NEW u \in Updates, UpdateRead(p, r, u) PROVE Base'
  <2> DEFINE k == [pc |-> "update", old |-> r, upd |-> u]
  <2>1. ProcOK(k)
    <3>1. r \in LedgerRows
        BY DEF Base, LedgerOK
    <3>2. u \in Edits
        BY LedgerAssumption
    <3>3. u.dir # Keep => u.dir \in Dirs
        BY <1>2 DEF UpdateRead, ValidUpdate
    <3>4. k \in [pc : {"update"}, old : LedgerRows, upd : Edits] /\ k.upd = u
        BY <3>1, <3>2
    <3> HIDE DEF k
    <3> QED
        BY <3>3, <3>4 DEF ProcOK
  <2>2. proc' = [proc EXCEPT ![p] = k] /\ UNCHANGED <<store, ver, excused>>
      BY <1>2 DEF UpdateRead
  <2> HIDE DEF k
  <2>3. ProcsOK(proc') /\ ops' \in 0..MaxOps
      BY <1>2, <2>1, <2>2, ProcMoved, Counted DEF Base, UpdateRead
  <2> QED
      BY <2>2, <2>3 DEF Base, store
<1>3. ASSUME NEW t, LedgerOK(t, nextSeq), NEW codes, NEW S \in SUBSET Funds,
             txns' = t, snap' = RecalcTx(t, codes), ver' = Bump(t), excused' = S,
             proc' = [proc EXCEPT ![p] = Idle], UNCHANGED <<nextSeq, nav, details, ops>>
      PROVE  Base'
  <2>1. SnapOK(snap') /\ ver' \in [Funds -> Nat]
      BY <1>3, RecalcTxType, BumpType
  <2>2. ProcOK(Idle)
      BY DEF ProcOK
  <2>3. ProcsOK(proc')
      BY <1>3, <2>2, ProcMoved DEF Base
  <2> QED
      BY <1>3, <2>1, <2>3 DEF Base
<1>4. ASSUME NEW r \in LedgerRows, NEW hit, hit = {c \in txns : c.seq = r.seq}
      PROVE  /\ hit \in SUBSET txns /\ LedgerOK(txns \ hit, nextSeq)
             /\ Strayed(hit, r) \subseteq Funds
  <2>1. hit \in SUBSET txns /\ txns \ hit \in SUBSET txns
      BY <1>4
  <2>2. LedgerOK(txns \ hit, nextSeq)
      BY <2>1, RowsRemoved DEF Base
  <2>3. \A c \in txns : c.fund \in Funds
      BY DEF Base, LedgerOK, LedgerRows
  <2> QED
      BY <2>1, <2>2, <2>3 DEF Strayed
<1>5. CASE DeleteCommit(p)
  <2> DEFINE r == proc[p].old
             hit == {c \in txns : c.seq = r.seq}
  <2>1. r \in LedgerRows
      BY <1>5, ProcIs DEF DeleteCommit, Base, ProcsOK
  <2>2. /\ txns' = txns \ hit /\ snap' = RecalcTx(txns \ hit, {r.fund})
        /\ ver' = Bump(txns \ hit)
        /\ excused' = (excused \cup Strayed(hit, r)) \ {r.fund}
        /\ proc' = [proc EXCEPT ![p] = Idle] /\ UNCHANGED <<nextSeq, nav, details, ops>>
      BY <1>5 DEF DeleteCommit
  <2> HIDE DEF r
  <2>3. LedgerOK(txns \ hit, nextSeq) /\ Strayed(hit, r) \subseteq Funds
      BY <1>4, <2>1
  <2> HIDE DEF hit
  <2>4. (excused \cup Strayed(hit, r)) \ {r.fund} \in SUBSET Funds
      BY <2>3 DEF Base
  <2> QED
      BY <1>3, <2>2, <2>3, <2>4
<1>6. CASE UpdateCommit(p)
  <2> DEFINE r == proc[p].old
             u == proc[p].upd
             hit == {c \in txns : c.seq = r.seq}
             t == (txns \ hit) \cup {UpdatedRow(c, u, r) : c \in hit}
             codes == UpdateRecalcs(u, r)
  <2>1. /\ r \in LedgerRows /\ u \in Edits
        /\ u.dir # Keep => u.dir \in Dirs
      BY <1>6, ProcIs DEF UpdateCommit, Base, ProcsOK
  <2>2. /\ \/ /\ txns' = t /\ snap' = RecalcTx(t, codes) /\ ver' = Bump(t)
              /\ excused' = (excused \cup Strayed(hit, r)) \ codes
           \/ UNCHANGED <<txns, snap, ver, excused>>
        /\ proc' = [proc EXCEPT ![p] = Idle] /\ UNCHANGED <<nextSeq, nav, details, ops>>
      BY <1>6 DEF UpdateCommit
  <2> HIDE DEF r, u
  <2>3. Strayed(hit, r) \subseteq Funds
      BY <1>4, <2>1
  <2>4. LedgerOK(t, nextSeq)
      BY <2>1, EditedOK DEF Base
  <2> HIDE DEF hit, t, codes
  <2>5. (excused \cup Strayed(hit, r)) \ codes \in SUBSET Funds
      BY <2>3 DEF Base
  <2>6. CASE UNCHANGED <<txns, snap, ver, excused>>
    <3>1. ProcOK(Idle)
        BY DEF ProcOK
    <3>2. ProcsOK(proc')
        BY <2>2, <3>1, ProcMoved DEF Base
    <3> QED
        BY <2>2, <2>6, <3>2 DEF Base
  <2> QED
      BY <1>3, <2>2, <2>4, <2>5, <2>6
<1> QED
    BY <1>1, <1>2, <1>5, <1>6

\* A step that only moves one request, and perhaps counts an operation.
LEMMA BaseGoesOn ==
    ASSUME Base, NEW p \in Procs, NEW k, ProcOK(k), proc' = [proc EXCEPT ![p] = k],
           UNCHANGED <<txns, nextSeq, snap, nav, details, ver>>,
           ops' \in 0..MaxOps, excused' \subseteq Funds
    PROVE  Base'
<1>1. ProcsOK(proc')
    BY ProcMoved DEF Base
<1> QED
    BY <1>1 DEF Base

\* Securities.
LEMMA BaseSecurity ==
    ASSUME Base, NEW p \in Procs, NEW f \in Funds,
           \/ DeleteSecurity(p, f) \/ UpsertSecurity(p, f)
           \/ \E n \in Navs : RefreshSecurity(p, f, n)
    PROVE  Base'
<1>1. ops' \in 0..MaxOps
    BY Counted DEF DeleteSecurity, UpsertSecurity, RefreshSecurity
<1>2. CASE DeleteSecurity(p, f)
  <2> DEFINE t == txns \ RowsOf(txns, f)
  <2>1. /\ txns' = t /\ ver' = Bump(t)
        /\ snap' = [k \in Funds \X Pids |-> IF k[1] = f THEN NoSnap ELSE snap[k]]
        /\ nav' = [nav EXCEPT ![f] = 0] /\ details' = details \ {f}
        /\ excused' = excused \ {f} /\ UNCHANGED <<nextSeq, proc>>
      BY <1>2 DEF DeleteSecurity
  <2>2. LedgerOK(t, nextSeq)
    <3>1. t \in SUBSET txns
        OBVIOUS
    <3> HIDE DEF t
    <3> QED
        BY <3>1, RowsRemoved DEF Base
  <2> HIDE DEF t
  <2>3. ver' \in [Funds -> Nat]
      BY <2>1, BumpType
  <2>4. SnapOK(snap')
    <3>1. NoSnap \in SnapRows
        BY DEF NoSnap, SnapRows
    <3> QED
        BY <2>1, <3>1 DEF SnapOK, Base
  <2>5. nav' \in [Funds -> Navs \cup {0}]
      BY <2>1 DEF Base
  <2> QED
      BY <1>1, <2>1, <2>2, <2>3, <2>4, <2>5 DEF Base
<1>3. CASE UpsertSecurity(p, f)
    BY <1>1, <1>3 DEF UpsertSecurity, Base
<1>4. ASSUME NEW n \in Navs, RefreshSecurity(p, f, n) PROVE Base'
  <2> DEFINE k == Begin(f, 0, "full", {})
  <2>1. ProcOK(k)
      BY BeginOK DEF ProcOK
  <2>2. /\ nav' = [nav EXCEPT ![f] = n] /\ proc' = [proc EXCEPT ![p] = k]
        /\ UNCHANGED <<txns, nextSeq, snap, details, ver, excused>>
      BY <1>4 DEF RefreshSecurity
  <2> HIDE DEF k
  <2>3. ProcsOK(proc')
      BY <2>1, <2>2, ProcMoved DEF Base
  <2>4. nav' \in [Funds -> Navs \cup {0}]
      BY <2>2 DEF Base
  <2> QED
      BY <1>1, <2>2, <2>3, <2>4 DEF Base
<1> QED
    BY <1>2, <1>3, <1>4

\* The shares a DCA run buys.
LEMMA RoundDivType ==
    ASSUME NEW a \in Nat, NEW b \in Nat \ {0}
    PROVE  RoundDiv(a, b) \in Int
BY DEF RoundDiv

\* The writers that rebuild afterwards.
LEMMA BaseWriter ==
    ASSUME Base, NEW p \in Procs,
           \/ \E f \in Funds, i \in Pids, n \in Targets : AdjustRead(p, f, i, n)
           \/ AdjustInsert(p)
           \/ \E o \in Orders, f \in Funds, i \in Pids, a \in DCAAmounts :
                 DCAMaterialize(p, o, f, i, a)
           \/ RecalcAllSnapshots(p)
    PROVE  Base'
<1>a. /\ MaxSeq \in Nat /\ nextSeq \in Nat \ {0} /\ nextSeq \in OrderIds
      /\ excused \subseteq Funds /\ ops \in 0..MaxOps
  <2>1. MaxSeq \in Nat
      BY LedgerAssumption
  <2> QED
      BY <2>1 DEF Base, OrderIds
<1>1. ASSUME NEW f \in Funds, NEW i \in Pids, NEW n \in Targets, AdjustRead(p, f, i, n)
      PROVE  Base'
  <2> DEFINE delta == AdjustTarget(n) - SharesIn(txns, f)
             k == IF Abs(delta) < Dust THEN Begin(f, i, "light", {})
                  ELSE [pc |-> "adjust", fund |-> f, pid |-> i, delta |-> delta]
  <2>1. delta \in Int
    <3>1. AdjustTarget(n) \in Int
      <4>1. n \in Nat
          BY LedgerAssumption
      <4> QED
          BY <4>1 DEF AdjustTarget
    <3>2. SharesIn(txns, f) \in Int
        BY FundSums DEF Base
    <3> QED
        BY <3>1, <3>2
  <2>2. /\ proc' = [proc EXCEPT ![p] = k] /\ UNCHANGED <<store, ver, excused>>
      BY <1>1 DEF AdjustRead
  <2> HIDE DEF delta
  <2>3. ProcOK(k)
    <3>1. TaskOK(Begin(f, i, "light", {}))
        BY BeginOK
    <3>2. [pc |-> "adjust", fund |-> f, pid |-> i, delta |-> delta]
          \in [pc : {"adjust"}, fund : Funds, pid : Pids, delta : Int]
        BY <2>1
    <3> QED
        BY <3>1, <3>2 DEF ProcOK
  <2> HIDE DEF k
  <2>4. ops' \in 0..MaxOps
      BY <1>1, Counted DEF AdjustRead
  <2> QED
      BY <1>a, <2>2, <2>3, <2>4, BaseGoesOn DEF store
<1>2. CASE AdjustInsert(p)
  <2> DEFINE d == proc[p].delta
             f == proc[p].fund
             dir == IF d < 0 THEN "sell" ELSE "buy"
             row == Row(nextSeq, nextSeq, Trade(f, dir, 0, Abs(d), 0))
             k == Begin(f, proc[p].pid, "light", {})
  <2>1. d \in Int /\ f \in Funds /\ proc[p].pid \in Pids
      BY <1>2, ProcIs DEF AdjustInsert, Base, ProcsOK
  <2>2. ProcOK(k)
      BY <2>1, BeginOK DEF ProcOK
  <2>3. dir \in Dirs /\ Abs(d) \in Int
      BY <2>1 DEF Dirs, Abs
  <2>4. /\ txns' = txns \cup {row} /\ ver' = Bump(txns \cup {row}) /\ nextSeq <= MaxSeq
        /\ nextSeq' = nextSeq + 1 /\ proc' = [proc EXCEPT ![p] = k]
        /\ UNCHANGED <<snap, nav, details, ops, excused>>
      BY <1>2 DEF AdjustInsert
  <2> HIDE DEF d, f, dir, k
  <2>5. row \in LedgerRows /\ row.seq = nextSeq /\ row.order = nextSeq
      BY <1>a, <2>1, <2>3, TradeRow
  <2> HIDE DEF row
  <2>6. row.order <= nextSeq /\ ops' \in 0..MaxOps
      BY <1>a, <2>4, <2>5
  <2> QED
      BY <2>2, <2>4, <2>5, <2>6, BaseAppended
<1>3. ASSUME NEW o \in Orders, NEW f \in Funds, NEW i \in Pids, NEW a \in DCAAmounts,
             DCAMaterialize(p, o, f, i, a)
      PROVE  Base'
  <2> DEFINE row == Row(nextSeq, o, Trade(f, "buy", a, RoundDiv(a, nav[f]), 0))
             k == Begin(f, i, "light", {})
  <2>1. a \in Nat /\ RoundDiv(a, nav[f]) \in Int
    <3>1. a \in Nat
        BY LedgerAssumption
    <3>2. nav[f] \in Nat \ {0}
        BY <1>3, NavType DEF DCAMaterialize
    <3> QED
        BY <3>1, <3>2, RoundDivType
  <2>2. ProcOK(k)
      BY BeginOK DEF ProcOK
  <2>3. /\ txns' = txns \cup {row} /\ ver' = Bump(txns \cup {row}) /\ nextSeq <= MaxSeq
        /\ nextSeq' = nextSeq + 1 /\ proc' = [proc EXCEPT ![p] = k]
        /\ UNCHANGED <<snap, nav, details, excused>>
      BY <1>3 DEF DCAMaterialize
  <2>4. row \in LedgerRows /\ row.seq = nextSeq /\ row.order = o
    <3>1. o \in OrderIds /\ "buy" \in Dirs
        BY DEF OrderIds, Dirs
    <3> QED
        BY <1>a, <2>1, <3>1, TradeRow
  <2>5. row.order \notin Nat
      BY <2>4, LedgerAssumption
  <2>6. ops' \in 0..MaxOps
      BY <1>3, Counted DEF DCAMaterialize
  <2> HIDE DEF row, k
  <2> QED
      BY <2>2, <2>3, <2>4, <2>5, <2>6, BaseAppended
<1>4. CASE RecalcAllSnapshots(p)
  <2> DEFINE codes == {r.fund : r \in txns}
  <2>1. codes \subseteq Funds
      BY DEF Base, LedgerOK, LedgerRows
  <2>2. PICK f \in codes :
           proc' = [proc EXCEPT ![p] = Begin(f, 0, "full", codes \ {f})]
      BY <1>4 DEF RecalcAllSnapshots
  <2> HIDE DEF codes
  <2>3. ProcOK(Begin(f, 0, "full", codes \ {f}))
      BY <2>1, BeginOK DEF ProcOK
  <2>4. ops' \in 0..MaxOps /\ UNCHANGED <<store, ver, excused>>
      BY <1>4, Counted DEF RecalcAllSnapshots
  <2> QED
      BY <1>a, <2>2, <2>3, <2>4, BaseGoesOn DEF store
<1> QED
    BY <1>1, <1>2, <1>3, <1>4

\* The statements of a rebuild.
LEMMA BaseRecalc ==
    ASSUME Base, NEW p \in Procs, Recalc(p) \/ Fail(p)
    PROVE  Base'
<1> DEFINE t == proc[p]
<1>a. ops \in 0..MaxOps /\ excused \subseteq Funds /\ ProcOK(t) /\ p \in DOMAIN proc
    BY DEF Base, ProcsOK
<1>1. ASSUME t.pc \in RecalcPCs
      PROVE  /\ t \in RecalcTasks /\ t.fund \in Funds /\ t.todo \subseteq Funds
             /\ t.pc \in {"eff", "write", "insert"} => t.pid \in Pids
             /\ t.mode = "light" => t.pid \in Pids
             /\ \A n \in NextTask(t) : ProcOK(n)
  <2>1. TaskOK(t)
      BY <1>a, <1>1, ProcIs
  <2> QED
      BY <2>1, NextTaskOK DEF TaskOK, RecalcTasks
<1>2. ASSUME NEW k, TaskOK(k), proc' = [proc EXCEPT ![p] = k],
             UNCHANGED <<store, ops, ver, excused>>
      PROVE  Base'
    BY <1>a, <1>2, BaseGoesOn DEF store, ProcOK
<1>3. CASE ReadSums(p)
  <2> DEFINE k == [t EXCEPT !.pc = "nav", !.held = Settle(SharesIn(txns, t.fund)),
                            !.cost = CashIn(txns, t.fund), !.ver = ver[t.fund]]
  <2>1. t.pc = "sums" /\ t.pc \in RecalcPCs
      BY <1>3 DEF ReadSums, RecalcPCs
  <2>2. SharesIn(txns, t.fund) \in Int /\ CashIn(txns, t.fund) \in Int
      BY FundSums DEF Base
  <2>3. Settle(SharesIn(txns, t.fund)) \in Int /\ ver[t.fund] \in Nat
      BY <1>1, <2>1, <2>2, SettleType DEF Base
  <2>4. TaskOK(k)
      BY <1>1, <2>1, <2>2, <2>3 DEF TaskOK, RecalcTasks, RecalcPCs
  <2>5. proc' = [proc EXCEPT ![p] = k] /\ UNCHANGED <<store, ops, ver, excused>>
      BY <1>a, <1>3 DEF ReadSums
  <2> HIDE DEF k
  <2> QED
      BY <1>2, <2>4, <2>5
<1>4. CASE ReadNav(p)
  <2> DEFINE n == nav[t.fund]
             l == CASE t.mode = "full" -> "pid"
                    [] t.mode = "light" /\ n = 0 -> "eff"
                    [] OTHER -> "write"
             k == [t EXCEPT !.nav = n, !.eff = n, !.pc = l]
  <2>1. t.pc = "nav" /\ t.pc \in RecalcPCs
      BY <1>4 DEF ReadNav, RecalcPCs
  <2>2. n \in Nat
      BY <1>1, <2>1, NavType
  <2>3. l \in {"pid", "eff", "write"} /\ (l # "pid" => t.mode = "light")
    <3>1. t.mode \in {"full", "light"}
        BY <1>1, <2>1 DEF RecalcTasks
    <3> QED
        BY <3>1
  <2>4. proc' = [proc EXCEPT ![p] = k] /\ UNCHANGED <<store, ops, ver, excused>>
      BY <1>a, <1>4 DEF ReadNav
  <2> HIDE DEF n, l
  <2>5. TaskOK(k)
      BY <1>1, <2>1, <2>2, <2>3 DEF TaskOK, RecalcTasks, RecalcPCs
  <2> HIDE DEF k
  <2> QED
      BY <1>2, <2>4, <2>5
<1>5. CASE ResolvePortfolio(p)
  <2> DEFINE i == resolvePortfolioID(snap, t.fund)
             k == [t EXCEPT !.pc = "write", !.pid = i]
  <2>1. t.pc = "pid" /\ t.pc \in RecalcPCs
      BY <1>5 DEF ResolvePortfolio, RecalcPCs
  <2>2. i \in Pids
      BY Resolves
  <2>3. proc' = [proc EXCEPT ![p] = k] /\ UNCHANGED <<store, ops, ver, excused>>
      BY <1>a, <1>5 DEF ResolvePortfolio
  <2> HIDE DEF i
  <2>4. TaskOK(k)
      BY <1>1, <2>1, <2>2 DEF TaskOK, RecalcTasks, RecalcPCs
  <2> HIDE DEF k
  <2> QED
      BY <1>2, <2>3, <2>4
<1>6. CASE ReadExistingNav(p)
  <2> DEFINE n == snap[<<t.fund, t.pid>>].nav
             k == [t EXCEPT !.pc = "write", !.eff = n]
  <2>1. t.pc = "eff" /\ t.pc \in RecalcPCs
      BY <1>6 DEF ReadExistingNav, RecalcPCs
  <2>2. n \in Nat
      BY <1>1, <2>1 DEF Base, SnapOK, SnapRows
  <2>3. proc' = [proc EXCEPT ![p] = k] /\ UNCHANGED <<store, ops, ver, excused>>
      BY <1>a, <1>6 DEF ReadExistingNav
  <2> HIDE DEF n
  <2>4. TaskOK(k)
      BY <1>1, <2>1, <2>2 DEF TaskOK, RecalcTasks, RecalcPCs
  <2> HIDE DEF k
  <2> QED
      BY <1>2, <2>3, <2>4
<1>7. ASSUME NEW n, ProcOK(n), proc' = [proc EXCEPT ![p] = n], SnapOK(snap'),
             excused' \subseteq Funds, UNCHANGED <<txns, nextSeq, nav, details, ops, ver>>
      PROVE  Base'
  <2>1. ProcsOK(proc')
      BY <1>7, ProcMoved DEF Base
  <2> QED
      BY <1>7, <2>1 DEF Base
<1>8. ASSUME t.pc \in RecalcPCs PROVE Landed(t) \subseteq Funds
    BY <1>a, <1>1, <1>8 DEF Landed
<1>9. ASSUME t.pc \in {"write", "insert"}, NEW n \in Nat, NEW e \in Nat,
             snap' = [snap EXCEPT ![<<t.fund, t.pid>>] = SnapRow(t.held, t.cost, n, e)]
      PROVE  SnapOK(snap')
  <2>1. t.held \in Int /\ t.cost \in Int /\ <<t.fund, t.pid>> \in Funds \X Pids
      BY <1>1, <1>9 DEF RecalcTasks, RecalcPCs
  <2>2. /\ SnapRow(t.held, t.cost, n, e) \in SnapRows
        /\ SnapRow(t.held, t.cost, n, e).present
      BY <2>1, SnapRowType
  <2> QED
      BY <1>9, <2>1, <2>2 DEF SnapOK, Base
<1>10. CASE WriteUpdate(p)
  <2>1. /\ t.pc = "write" /\ t.pc \in RecalcPCs
        /\ UNCHANGED <<txns, nextSeq, nav, details, ops, ver>>
      BY <1>10 DEF WriteUpdate, RecalcPCs
  <2>2. /\ t.nav \in Nat /\ t.eff \in Nat /\ snap[<<t.fund, t.pid>>].nav \in Nat
      BY <1>1, <2>1 DEF RecalcTasks, Base, SnapOK, SnapRows
  <2>3. CASE snap[<<t.fund, t.pid>>].present
    <3> DEFINE l == IF t.mode = "light" /\ t.nav = 0 THEN snap[<<t.fund, t.pid>>].nav
                    ELSE t.nav
    <3>1. /\ snap' = [snap EXCEPT ![<<t.fund, t.pid>>] =
                        SnapRow(t.held, t.cost, l, t.eff)]
          /\ excused' = Landed(t)
          /\ \E n \in NextTask(t) : proc' = [proc EXCEPT ![p] = n]
        BY <1>10, <2>3 DEF WriteUpdate
    <3>2. l \in Nat
        BY <2>2
    <3> HIDE DEF l
    <3> QED
        BY <1>1, <1>7, <1>8, <1>9, <2>1, <2>2, <3>1, <3>2
  <2>4. CASE ~snap[<<t.fund, t.pid>>].present
    <3> DEFINE k == [t EXCEPT !.pc = "insert"]
    <3>1. /\ proc' = [proc EXCEPT ![p] = k] /\ UNCHANGED <<snap, excused>>
        BY <1>a, <1>10, <2>4 DEF WriteUpdate
    <3>2. TaskOK(k)
        BY <1>1, <2>1 DEF TaskOK, RecalcTasks, RecalcPCs
    <3> HIDE DEF k
    <3> QED
        BY <1>2, <2>1, <3>1, <3>2 DEF store
  <2> QED
      BY <2>3, <2>4
<1>11. CASE WriteInsert(p)
  <2>1. /\ t.pc = "insert" /\ t.pc \in RecalcPCs
        /\ UNCHANGED <<txns, nextSeq, nav, details, ops, ver>>
      BY <1>11 DEF WriteInsert, RecalcPCs
  <2>2. t.nav \in Nat /\ t.eff \in Nat
      BY <1>1, <2>1 DEF RecalcTasks
  <2>3. \/ /\ snap' = [snap EXCEPT ![<<t.fund, t.pid>>] =
                          SnapRow(t.held, t.cost, t.nav, t.eff)]
           /\ excused' = Landed(t)
           /\ \E n \in NextTask(t) : proc' = [proc EXCEPT ![p] = n]
        \/ /\ t.tries < maxSnapshotWriteRetries - 1
           /\ proc' = [proc EXCEPT ![p].pc = "write", ![p].tries = t.tries + 1]
           /\ UNCHANGED <<snap, excused>>
        \/ /\ excused' = excused \cup {t.fund}
           /\ \E n \in NextTask(t) : proc' = [proc EXCEPT ![p] = n]
           /\ UNCHANGED snap
      BY <1>11 DEF WriteInsert
  <2>4. CASE /\ snap' = [snap EXCEPT ![<<t.fund, t.pid>>] =
                            SnapRow(t.held, t.cost, t.nav, t.eff)]
             /\ excused' = Landed(t)
             /\ \E n \in NextTask(t) : proc' = [proc EXCEPT ![p] = n]
      BY <1>1, <1>7, <1>8, <1>9, <2>1, <2>2, <2>4
  <2>5. CASE /\ t.tries < maxSnapshotWriteRetries - 1
             /\ proc' = [proc EXCEPT ![p].pc = "write", ![p].tries = t.tries + 1]
             /\ UNCHANGED <<snap, excused>>
    <3> DEFINE k == [t EXCEPT !.pc = "write", !.tries = t.tries + 1]
    <3>1. t.tries + 1 \in 0..maxSnapshotWriteRetries
        BY <1>1, <2>1, <2>5 DEF RecalcTasks, maxSnapshotWriteRetries
    <3>2. TaskOK(k)
        BY <1>1, <2>1, <3>1 DEF TaskOK, RecalcTasks, RecalcPCs
    <3>3. proc' = [proc EXCEPT ![p] = k]
        BY <1>a, <2>5
    <3> HIDE DEF k
    <3> QED
        BY <1>2, <2>1, <2>5, <3>2, <3>3 DEF store
  <2>6. CASE /\ excused' = excused \cup {t.fund}
             /\ \E n \in NextTask(t) : proc' = [proc EXCEPT ![p] = n]
             /\ UNCHANGED snap
    <3>1. SnapOK(snap') /\ excused' \subseteq Funds
        BY <1>a, <1>1, <2>1, <2>6 DEF Base
    <3> QED
        BY <1>1, <1>7, <2>1, <2>6, <3>1
  <2> QED
      BY <2>3, <2>4, <2>5, <2>6
<1>12. CASE Fail(p)
  <2>1. SnapOK(snap') /\ UNCHANGED <<txns, nextSeq, nav, details, ops, ver>>
      BY <1>12 DEF Fail, store, Base
  <2>2. ProcOK(Idle)
      BY DEF ProcOK
  <2>3. CASE t.pc \in RecalcPCs
    <3>1. excused' \subseteq Funds
        BY <1>a, <1>1, <1>12, <2>3 DEF Fail
    <3>2. \E n : ProcOK(n) /\ proc' = [proc EXCEPT ![p] = n]
        BY <1>1, <1>12, <2>2, <2>3 DEF Fail
    <3> QED
        BY <1>7, <2>1, <3>1, <3>2
  <2>4. CASE t.pc \notin RecalcPCs
    <3>1. proc' = [proc EXCEPT ![p] = Idle] /\ excused' = excused
        BY <1>12, <2>4 DEF Fail
    <3> QED
        BY <1>a, <1>7, <2>1, <2>2, <3>1
  <2> QED
      BY <2>3, <2>4
<1> QED
    BY <1>3, <1>4, <1>5, <1>6, <1>10, <1>11, <1>12 DEF Recalc

\* Every step keeps Base.
LEMMA BaseStep ==
    ASSUME Base, [Next]_vars
    PROVE  Base'
<1>1. CASE UNCHANGED vars
    BY <1>1 DEF vars, Base
<1>2. ASSUME Next PROVE Base'
    BY <1>2, BaseImport, BaseEdit, BaseSecurity, BaseWriter, BaseRecalc DEF Next
<1> QED
    BY <1>1, <1>2

\* It holds at the start.
LEMMA BaseInit ==
    ASSUME Init
    PROVE  Base
<1>1. MaxSeq \in Nat /\ MaxOps \in Nat
    BY LedgerAssumption
<1>2. LedgerOK({}, 1)
    BY FS_EmptySet DEF LedgerOK
<1>3. NoSnap \in SnapRows
    BY DEF NoSnap, SnapRows
<1>4. SnapOK(snap)
    BY <1>3 DEF Init, SnapOK
<1>5. ProcsOK(proc)
    BY DEF Init, ProcsOK, ProcOK
<1> QED
    BY <1>1, <1>2, <1>4, <1>5 DEF Init, Base

\* Every table and every request in flight keeps its type: sums over the rows
\* of a fund are numbers however many there are, a batch never hands out a seq
\* twice, and a rebuild writes to a portfolio that is in use.
THEOREM LedgerTypeCorrect == Spec => []TypeOK
<1>1. Base => TypeOK
  <2> SUFFICES ASSUME Base PROVE TypeOK
      OBVIOUS
  <2>1. \A p \in Procs : \/ proc[p].pc \in {"idle", "update", "delete", "adjust"}
                         \/ proc[p] \in RecalcTasks
      BY DEF Base, ProcsOK, ProcOK, TaskOK, Idle
  <2>2. \A r \in txns : /\ r.seq \in 1..(nextSeq - 1) /\ r.fund \in Funds
                        /\ r.dir \in Dirs /\ r.chg \in Int /\ r.cash \in Int
      BY DEF Base, LedgerOK, LedgerRows
  <2> QED
      BY <2>1, <2>2 DEF Base, TypeOK, SnapOK
<1> QED
    BY <1>1, BaseInit, BaseStep, PTL DEF Spec

-----------------------------------------------------------------------------
(* Where drift comes from                                                  *)

\* A fund has one row: the legacy key allows no more, or there is one
\* portfolio.
OneRow == LegacyPK \/ Pids = {1}

OnePerFund(sn) ==
    \A f \in Funds : \A i, j \in Pids :
        sn[<<f, i>>].present /\ sn[<<f, j>>].present => i = j

\* The row a rebuild would write is what it would write.
Synced(t, sn, f) ==
    /\ sn[<<f, resolvePortfolioID(sn, f)>>].held = Settle(SharesIn(t, f))
    /\ sn[<<f, resolvePortfolioID(sn, f)>>].cost = CashIn(t, f)

\* A rebuild carries the sums of the version it read.
Fits(k, t, v) ==
    /\ k.ver <= v[k.fund]
    /\ k.ver = v[k.fund] => /\ k.held = Settle(SharesIn(t, k.fund))
                            /\ k.cost = CashIn(t, k.fund)

\* A rebuild that is under way or still to come.
InWork(k, f) == k.pc \in RecalcPCs /\ (k.fund = f \/ f \in k.todo)

\* DriftHasCause is not inductive: a rebuild in flight must be known to land
\* the sums of the ledger as it is, or to find that its version has gone.
DriftInv ==
    /\ OnePerFund(snap)
    /\ \A p \in Procs : proc[p].pc \in RecalcPCs \ {"sums"} => Fits(proc[p], txns, ver)
    /\ \A f \in Funds : \/ f \in excused \/ Synced(txns, snap, f)
                        \/ \E p \in Procs : InWork(proc[p], f)

-----------------------------------------------------------------------------

\* What is in step stays so when neither its rows nor its projection change.
LEMMA SyncKept ==
    ASSUME NEW t, NEW u, NEW sn, NEW so, NEW f, RowsOf(u, f) = RowsOf(t, f),
           \A i \in Pids : so[<<f, i>>] = sn[<<f, i>>], Synced(t, sn, f)
    PROVE  Synced(u, so, f)
<1>1. SharesIn(u, f) = SharesIn(t, f) /\ CashIn(u, f) = CashIn(t, f)
    BY SameRows
<1>2. resolvePortfolioID(so, f) = resolvePortfolioID(sn, f)
    BY SameResolution
<1>3. resolvePortfolioID(sn, f) \in Pids
    BY Resolves
<1> QED
    BY <1>1, <1>2, <1>3 DEF Synced

\* so is sn with one row written, of a fund that has no other.
PutAlone(sn, so, f, i) ==
    /\ so[<<f, i>>].present
    /\ \A j \in Pids : sn[<<f, j>>].present => j = i
    /\ \A g \in Funds, j \in Pids : <<g, j>> # <<f, i>> => so[<<g, j>>] = sn[<<g, j>>]

\* A fund still has one row, the one written, which is where rebuilds find it.
LEMMA Written ==
    ASSUME NEW sn, NEW so, OnePerFund(sn), NEW f \in Funds, NEW i \in Pids,
           PutAlone(sn, so, f, i)
    PROVE  OnePerFund(so) /\ resolvePortfolioID(so, f) = i
<1>0. /\ so[<<f, i>>].present
      /\ \A j \in Pids : sn[<<f, j>>].present => j = i
      /\ \A g \in Funds, j \in Pids : <<g, j>> # <<f, i>> => so[<<g, j>>] = sn[<<g, j>>]
    BY DEF PutAlone
<1>1. \A j \in Pids : so[<<f, j>>].present => j = i
  <2> SUFFICES ASSUME NEW j \in Pids, so[<<f, j>>].present, j # i PROVE FALSE
      OBVIOUS
  <2>1. <<f, j>> # <<f, i>>
      OBVIOUS
  <2> QED
      BY <1>0, <2>1
<1>2. ASSUME NEW g \in Funds, NEW j \in Pids, NEW k \in Pids,
             so[<<g, j>>].present, so[<<g, k>>].present
      PROVE  j = k
  <2>1. CASE g = f
      BY <1>1, <1>2, <2>1
  <2>2. CASE g # f
    <3>1. <<g, j>> # <<f, i>> /\ <<g, k>> # <<f, i>>
        BY <2>2
    <3> QED
        BY <1>0, <1>2, <3>1 DEF OnePerFund
  <2> QED
      BY <2>1, <2>2
<1>3. resolvePortfolioID(so, f) \in Pids /\ so[<<f, resolvePortfolioID(so, f)>>].present
    BY <1>0, Resolves
<1> QED
    BY <1>1, <1>2, <1>3 DEF OnePerFund

\* A rebuild inside the writer's transaction leaves its funds in step and
\* touches no other.
LEMMA RecalcTxSyncs ==
    ASSUME Base, OnePerFund(snap), NEW t, NEW n, LedgerOK(t, n), NEW codes
    PROVE  /\ OnePerFund(RecalcTx(t, codes))
           /\ \A f \in Funds :
                 IF f \in codes THEN Synced(t, RecalcTx(t, codes), f)
                 ELSE \A i \in Pids : RecalcTx(t, codes)[<<f, i>>] = snap[<<f, i>>]
<1> DEFINE sn == RecalcTx(t, codes)
           at(f) == resolvePortfolioID(snap, f)
           row(f) == SnapRow(Settle(SharesIn(t, f)), CashIn(t, f), nav[f], nav[f])
<1>1. ASSUME NEW f \in Funds, NEW i \in Pids
      PROVE  sn[<<f, i>>] = IF f \in codes /\ i = at(f) THEN row(f) ELSE snap[<<f, i>>]
    BY DEF RecalcTx
<1>2. ASSUME NEW f \in Funds
      PROVE  /\ row(f).present /\ row(f).held = Settle(SharesIn(t, f))
             /\ row(f).cost = CashIn(t, f)
    BY DEF SnapRow
<1>3. ASSUME NEW f \in Funds
      PROVE  at(f) \in Pids /\ \A i \in Pids : snap[<<f, i>>].present => i = at(f)
    BY Resolves DEF OnePerFund
<1> HIDE DEF sn, row, at
<1>4. ASSUME NEW f \in Funds, f \in codes
      PROVE  /\ \A i \in Pids : sn[<<f, i>>].present => i = at(f)
             /\ sn[<<f, at(f)>>] = row(f)
    BY <1>1, <1>3, <1>4
<1>5. OnePerFund(sn)
  <2> SUFFICES ASSUME NEW f \in Funds, NEW i \in Pids, NEW j \in Pids,
                      sn[<<f, i>>].present, sn[<<f, j>>].present
               PROVE  i = j
      BY DEF OnePerFund
  <2>1. CASE f \in codes
      BY <1>4, <2>1
  <2>2. CASE f \notin codes
      BY <1>1, <1>3, <2>2
  <2> QED
      BY <2>1, <2>2
<1>6. ASSUME NEW f \in Funds, f \in codes PROVE Synced(t, sn, f)
  <2>1. sn[<<f, at(f)>>].present /\ at(f) \in Pids
      BY <1>2, <1>3, <1>4, <1>6
  <2>2. resolvePortfolioID(sn, f) \in Pids /\ sn[<<f, resolvePortfolioID(sn, f)>>].present
      BY <2>1, Resolves
  <2>3. resolvePortfolioID(sn, f) = at(f)
      BY <1>4, <1>6, <2>2
  <2> QED
      BY <1>2, <1>4, <1>6, <2>3 DEF Synced
<1>7. ASSUME NEW f \in Funds, f \notin codes, NEW i \in Pids
      PROVE  sn[<<f, i>>] = snap[<<f, i>>]
    BY <1>1, <1>7
<1> QED
    BY <1>5, <1>6, <1>7 DEF sn

\* A rebuild that fits still does when the ledger changes under it.
LEMMA FitsKept ==
    ASSUME Base, NEW k, k.fund \in Funds, Fits(k, txns, ver), k.ver \in Nat, NEW t
    PROVE  Fits(k, t, Bump(t))
<1>1. /\ Bump(t)[k.fund] \in Nat /\ ver[k.fund] \in Nat /\ Bump(t)[k.fund] >= ver[k.fund]
      /\ Bump(t)[k.fund] = ver[k.fund] => RowsOf(t, k.fund) = RowsOf(txns, k.fund)
    BY BumpType DEF Base
<1>2. k.ver <= Bump(t)[k.fund]
    BY <1>1 DEF Fits
<1>3. ASSUME k.ver = Bump(t)[k.fund]
      PROVE  k.held = Settle(SharesIn(t, k.fund)) /\ k.cost = CashIn(t, k.fund)
  <2>1. k.ver = ver[k.fund] /\ RowsOf(t, k.fund) = RowsOf(txns, k.fund)
      BY <1>1, <1>3 DEF Fits
  <2> QED
      BY <2>1, SameRows DEF Fits
<1> QED
    BY <1>2, <1>3 DEF Fits

\* A step of one request p, which goes on as k: the ledger changes with its
\* versions, and every fund is accounted for or left as it was.
LEMMA DriftFrame ==
    ASSUME Base, DriftInv, NEW p \in Procs, NEW k, proc' = [proc EXCEPT ![p] = k],
           UNCHANGED <<txns, ver>> \/ ver' = Bump(txns'),
           OnePerFund(snap'),
           k.pc \in RecalcPCs \ {"sums"} => Fits(k, txns', ver'),
           \A f \in Funds :
              \/ f \in excused' \/ Synced(txns', snap', f) \/ InWork(k, f)
              \/ /\ RowsOf(txns', f) = RowsOf(txns, f)
                 /\ \A i \in Pids : snap'[<<f, i>>] = snap[<<f, i>>]
                 /\ f \in excused => f \in excused'
                 /\ InWork(proc[p], f) => InWork(k, f)
    PROVE  DriftInv'
<1>1. proc'[p] = k /\ \A q \in Procs : q # p => proc'[q] = proc[q]
  <2>1. DOMAIN proc = Procs
      BY DEF Base, ProcsOK
  <2> QED
      BY <2>1
<1>2. ASSUME NEW q \in Procs, proc'[q].pc \in RecalcPCs \ {"sums"}
      PROVE  Fits(proc'[q], txns', ver')
  <2>1. CASE q = p
      BY <1>1, <1>2, <2>1
  <2>2. CASE q # p
    <3>1. proc'[q] = proc[q] /\ Fits(proc[q], txns, ver)
        BY <1>1, <1>2, <2>2 DEF DriftInv
    <3>2. proc[q].fund \in Funds /\ proc[q].ver \in Nat
      <4>1. TaskOK(proc[q])
          BY <1>2, <3>1, ProcIs DEF Base, ProcsOK
      <4> QED
          BY <4>1 DEF TaskOK, RecalcTasks
    <3>3. CASE UNCHANGED <<txns, ver>>
        BY <3>1, <3>3
    <3>4. CASE ver' = Bump(txns')
      <4>1. Fits(proc[q], txns', Bump(txns'))
          BY <3>1, <3>2, FitsKept
      <4> QED
          BY <3>1, <3>4, <4>1
    <3> QED
        BY <3>3, <3>4
  <2> QED
      BY <2>1, <2>2
<1>3. ASSUME NEW f \in Funds
      PROVE  \/ f \in excused' \/ Synced(txns', snap', f)
             \/ \E q \in Procs : InWork(proc'[q], f)
  <2>1. CASE f \in excused' \/ Synced(txns', snap', f) \/ InWork(k, f)
      BY <1>1, <2>1
  <2>2. CASE /\ RowsOf(txns', f) = RowsOf(txns, f)
             /\ \A i \in Pids : snap'[<<f, i>>] = snap[<<f, i>>]
             /\ f \in excused => f \in excused'
             /\ InWork(proc[p], f) => InWork(k, f)
    <3>1. CASE f \in excused
        BY <2>2, <3>1
    <3>2. CASE Synced(txns, snap, f)
        BY <2>2, <3>2, SyncKept
    <3>3. ASSUME NEW q \in Procs, InWork(proc[q], f)
          PROVE  \E r \in Procs : InWork(proc'[r], f)
      <4>1. CASE q = p
          BY <1>1, <2>2, <3>3, <4>1
      <4>2. CASE q # p
          BY <1>1, <3>3, <4>2
      <4> QED
          BY <4>1, <4>2
    <3> QED
        BY <3>1, <3>2, <3>3 DEF DriftInv
  <2> QED
      BY <2>1, <2>2
<1> QED
    BY <1>2, <1>3 DEF DriftInv

\* The funds that were still to come are taken over.
LEMMA NextTakesOver ==
    ASSUME NEW t, t.pc \in RecalcPCs, NEW n \in NextTask(t)
    PROVE  /\ n.pc \in {"sums", "idle"}
           /\ \A f : InWork(t, f) /\ f # t.fund => InWork(n, f)
<1>1. CASE t.todo = {}
    BY <1>1 DEF NextTask, Idle, InWork
<1>2. CASE t.todo # {}
  <2>1. PICK g \in t.todo : n = Begin(g, 0, "full", t.todo \ {g})
      BY <1>2 DEF NextTask
  <2>2. n.pc = "sums" /\ n.fund = g /\ n.todo = t.todo \ {g}
      BY <2>1 DEF Begin
  <2> QED
      BY <2>2 DEF InWork, RecalcPCs
<1> QED
    BY <1>1, <1>2

\* A step of one request that changes neither table.
LEMMA DriftQuietly ==
    ASSUME Base, DriftInv, NEW p \in Procs, NEW k, proc' = [proc EXCEPT ![p] = k],
           UNCHANGED <<txns, snap, ver>>,
           \A f \in Funds : f \in excused => f \in excused',
           k.pc \in RecalcPCs \ {"sums"} => Fits(k, txns, ver),
           \A f \in Funds : InWork(proc[p], f) => InWork(k, f) \/ f \in excused'
    PROVE  DriftInv'
<1>1. OnePerFund(snap')
    BY DEF DriftInv
<1>2. k.pc \in RecalcPCs \ {"sums"} => Fits(k, txns', ver')
    OBVIOUS
<1>3. \A f \in Funds :
         \/ f \in excused' \/ Synced(txns', snap', f) \/ InWork(k, f)
         \/ /\ RowsOf(txns', f) = RowsOf(txns, f)
            /\ \A i \in Pids : snap'[<<f, i>>] = snap[<<f, i>>]
            /\ f \in excused => f \in excused'
            /\ InWork(proc[p], f) => InWork(k, f)
    OBVIOUS
<1> QED
    BY <1>1, <1>2, <1>3, DriftFrame

\* A transaction that edits the ledger and rebuilds some funds in it.
LEMMA DriftEdited ==
    ASSUME Base, DriftInv, NEW p \in Procs, NEW k, proc' = [proc EXCEPT ![p] = k],
           proc[p].pc \notin RecalcPCs, k.pc \notin RecalcPCs,
           NEW t, NEW n, LedgerOK(t, n), NEW codes, txns' = t, ver' = Bump(t),
           snap' = RecalcTx(t, codes),
           \A f \in Funds \ codes : \/ f \in excused'
                                    \/ /\ RowsOf(t, f) = RowsOf(txns, f)
                                       /\ f \in excused => f \in excused'
    PROVE  DriftInv'
<1>1. /\ OnePerFund(snap')
      /\ \A f \in Funds :
            IF f \in codes THEN Synced(txns', snap', f)
            ELSE \A i \in Pids : snap'[<<f, i>>] = snap[<<f, i>>]
  <2>1. OnePerFund(snap)
      BY DEF DriftInv
  <2> QED
      BY <2>1, RecalcTxSyncs
<1>2. \A f \in Funds :
         \/ f \in excused' \/ Synced(txns', snap', f) \/ InWork(k, f)
         \/ /\ RowsOf(txns', f) = RowsOf(txns, f)
            /\ \A i \in Pids : snap'[<<f, i>>] = snap[<<f, i>>]
            /\ f \in excused => f \in excused'
            /\ InWork(proc[p], f) => InWork(k, f)
    BY <1>1 DEF InWork
<1>3. k.pc \in RecalcPCs \ {"sums"} => Fits(k, txns', ver')
    OBVIOUS
<1>4. ver' = Bump(txns')
    OBVIOUS
<1> QED
    BY <1>1, <1>2, <1>3, <1>4, DriftFrame

\* A row appended to the ledger of a fund, whose rebuild is then to come.
LEMMA DriftAppended ==
    ASSUME Base, DriftInv, NEW p \in Procs, NEW k, proc' = [proc EXCEPT ![p] = k],
           proc[p].pc \notin RecalcPCs, NEW r, k.pc = "sums", k.fund = r.fund,
           txns' = txns \cup {r}, ver' = Bump(txns \cup {r}), UNCHANGED <<snap, excused>>
    PROVE  DriftInv'
<1>1. OnePerFund(snap')
    BY DEF DriftInv
<1>2. \A f \in Funds \ {r.fund} : RowsOf(txns', f) = RowsOf(txns, f)
    BY DEF RowsOf
<1>3. \A f \in Funds :
         \/ f \in excused' \/ Synced(txns', snap', f) \/ InWork(k, f)
         \/ /\ RowsOf(txns', f) = RowsOf(txns, f)
            /\ \A i \in Pids : snap'[<<f, i>>] = snap[<<f, i>>]
            /\ f \in excused => f \in excused'
            /\ InWork(proc[p], f) => InWork(k, f)
    BY <1>2 DEF InWork, RecalcPCs
<1>4. ver' = Bump(txns')
    OBVIOUS
<1>5. k.pc \in RecalcPCs \ {"sums"} => Fits(k, txns', ver')
    OBVIOUS
<1> QED
    BY <1>1, <1>3, <1>4, <1>5, DriftFrame

\* Imports, updates, deletes.
LEMMA DriftEdits ==
    ASSUME Base, DriftInv, NEW p \in Procs,
           \/ \E b \in Imports : ImportTransactions(p, b)
           \/ \E r \in txns : DeleteRead(p, r) \/ \E u \in Updates : UpdateRead(p, r, u)
           \/ UpdateCommit(p) \/ DeleteCommit(p)
    PROVE  DriftInv'
<1>a. /\ DOMAIN proc = Procs /\ proc = [proc EXCEPT ![p] = proc[p]]
      /\ LedgerOK(txns, nextSeq) /\ nextSeq \in Nat \ {0}
    BY DEF Base, ProcsOK
<1>b. Idle.pc \notin RecalcPCs /\ "update" \notin RecalcPCs /\ "delete" \notin RecalcPCs
    BY DEF Idle, RecalcPCs
<1>1. ASSUME NEW b \in Imports, ImportTransactions(p, b) PROVE DriftInv'
  <2>1. proc[p] = Idle /\ proc' = [proc EXCEPT ![p] = proc[p]]
      BY <1>a, <1>1 DEF ImportTransactions, Starts
  <2>2. CASE UNCHANGED <<txns, snap, ver, excused>>
      BY <1>b, <2>1, <2>2, DriftQuietly
  <2>3. ASSUME NEW done, done = ImportBatch(b), \A n \in 1..Len(b) : ValidItem(b[n]),
               txns' = done.txns, snap' = RecalcTx(done.txns, done.affected),
               ver' = Bump(done.txns), excused' = excused \ done.affected
        PROVE  DriftInv'
    <3>1. Imported(done, Len(b))
        BY <1>a, <2>3, BatchImported
    <3>2. LedgerOK(done.txns, done.next)
        BY <3>1 DEF Imported
    <3>3. \A f \in Funds \ done.affected : RowsOf(done.txns, f) = RowsOf(txns, f)
        BY <3>1, OthersKept DEF Imported
    <3> QED
        BY <1>b, <2>1, <2>3, <3>2, <3>3, DriftEdited
  <2> QED
      BY <1>1, <2>2, <2>3 DEF ImportTransactions
<1>2. ASSUME NEW r \in txns, DeleteRead(p, r) PROVE DriftInv'
  <2> DEFINE k == [pc |-> "delete", old |-> r]
  <2>1. /\ proc[p] = Idle /\ proc' = [proc EXCEPT ![p] = k] /\ k.pc = "delete"
        /\ UNCHANGED <<txns, snap, ver, excused>>
      BY <1>2 DEF DeleteRead, Starts, store
  <2> HIDE DEF k
  <2> QED
      BY <1>b, <2>1, DriftQuietly DEF InWork
<1>3. ASSUME NEW r \in txns, NEW u \in Updates, UpdateRead(p, r, u) PROVE DriftInv'
  <2> DEFINE k == [pc |-> "update", old |-> r, upd |-> u]
  <2>1. /\ proc[p] = Idle /\ proc' = [proc EXCEPT ![p] = k] /\ k.pc = "update"
        /\ UNCHANGED <<txns, snap, ver, excused>>
      BY <1>3 DEF UpdateRead, Starts, store
  <2> HIDE DEF k
  <2> QED
      BY <1>b, <2>1, DriftQuietly DEF InWork
<1>4. CASE DeleteCommit(p)
  <2> DEFINE r == proc[p].old
             hit == {c \in txns : c.seq = r.seq}
             t == txns \ hit
  <2>1. /\ proc[p].pc = "delete" /\ txns' = t /\ snap' = RecalcTx(t, {r.fund})
        /\ ver' = Bump(t)
        /\ excused' = (excused \cup Strayed(hit, r)) \ {r.fund}
        /\ proc' = [proc EXCEPT ![p] = Idle]
      BY <1>4 DEF DeleteCommit
  <2> HIDE DEF r
  <2>2. LedgerOK(t, nextSeq)
    <3>1. t \in SUBSET txns
        OBVIOUS
    <3> HIDE DEF t
    <3> QED
        BY <1>a, <3>1, RowsRemoved
  <2>3. ASSUME NEW f \in Funds \ {r.fund}, f \notin excused'
        PROVE  RowsOf(t, f) = RowsOf(txns, f)
    <3>1. \A c \in hit : c.fund # f
        BY <2>1, <2>3 DEF Strayed
    <3> QED
        BY <3>1 DEF RowsOf
  <2>4. \A f \in Funds \ {r.fund} : f \in excused => f \in excused'
      BY <2>1
  <2> HIDE DEF hit, t
  <2> QED
      BY <1>b, <2>1, <2>2, <2>3, <2>4, DriftEdited
<1>5. CASE UpdateCommit(p)
  <2> DEFINE r == proc[p].old
             u == proc[p].upd
             hit == {c \in txns : c.seq = r.seq}
             t == (txns \ hit) \cup {UpdatedRow(c, u, r) : c \in hit}
             codes == UpdateRecalcs(u, r)
  <2>1. /\ r \in LedgerRows /\ u \in Edits
        /\ u.dir # Keep => u.dir \in Dirs
      BY <1>5, ProcIs DEF UpdateCommit, Base, ProcsOK
  <2>2. /\ proc[p].pc = "update"
        /\ \/ /\ txns' = t /\ snap' = RecalcTx(t, codes) /\ ver' = Bump(t)
              /\ excused' = (excused \cup Strayed(hit, r)) \ codes
           \/ UNCHANGED <<txns, snap, ver, excused>>
        /\ proc' = [proc EXCEPT ![p] = Idle]
      BY <1>5 DEF UpdateCommit
  <2> HIDE DEF r, u
  <2>3. CASE UNCHANGED <<txns, snap, ver, excused>>
      BY <1>b, <2>2, <2>3, DriftQuietly DEF InWork
  <2>4. CASE /\ txns' = t /\ snap' = RecalcTx(t, codes) /\ ver' = Bump(t)
             /\ excused' = (excused \cup Strayed(hit, r)) \ codes
    <3>1. LedgerOK(t, nextSeq)
        BY <1>a, <2>1, EditedOK
    <3>2. ASSUME NEW f \in Funds \ codes, f \notin excused'
          PROVE  RowsOf(t, f) = RowsOf(txns, f)
      <4>1. f # r.fund /\ f # Applied(u, r).fund
          BY DEF UpdateRecalcs
      <4>2. \A c \in hit : c.fund # f
          BY <2>4, <3>2, <4>1 DEF Strayed
      <4>3. ASSUME NEW c \in hit PROVE UpdatedRow(c, u, r).fund # f
        <5>1. UpdatedRow(c, u, r).fund = Pick(u.fund, c.fund)
          <6>1. c \in LedgerRows
              BY <1>a DEF LedgerOK
          <6> QED
              BY <2>1, <6>1, UpdatedType
        <5>2. Applied(u, r).fund = Pick(u.fund, r.fund)
            BY DEF Applied, Row, Trade
        <5> QED
            BY <4>1, <4>2, <5>1, <5>2 DEF Pick
      <4> QED
          BY <4>2, <4>3 DEF RowsOf
    <3>3. \A f \in Funds \ codes : f \in excused => f \in excused'
        BY <2>4
    <3> HIDE DEF hit, t, codes
    <3> QED
        BY <1>b, <2>2, <2>4, <3>1, <3>2, <3>3, DriftEdited
  <2> QED
      BY <2>2, <2>3, <2>4
<1> QED
    BY <1>1, <1>2, <1>3, <1>4, <1>5

\* A request that starts, and only reads.
LEMMA DriftStarts ==
    ASSUME Base, DriftInv, NEW p \in Procs, NEW k, proc' = [proc EXCEPT ![p] = k],
           proc[p] = Idle, k.pc = "sums" \/ k.pc = "adjust",
           UNCHANGED <<txns, snap, ver, excused>>
    PROVE  DriftInv'
<1>1. Idle.pc \notin RecalcPCs /\ "adjust" \notin RecalcPCs
    BY DEF Idle, RecalcPCs
<1>2. ~ \E f \in Funds : InWork(proc[p], f)
    BY <1>1 DEF InWork
<1>3. k.pc \notin RecalcPCs \ {"sums"}
    BY <1>1
<1> QED
    BY <1>2, <1>3, DriftQuietly

\* Securities, and the writers that rebuild afterwards.
LEMMA DriftWriters ==
    ASSUME Base, DriftInv, NEW p \in Procs,
           \/ \E f \in Funds : \/ DeleteSecurity(p, f) \/ UpsertSecurity(p, f)
                               \/ \E n \in Navs : RefreshSecurity(p, f, n)
           \/ \E f \in Funds, i \in Pids, n \in Targets : AdjustRead(p, f, i, n)
           \/ AdjustInsert(p)
           \/ \E o \in Orders, f \in Funds, i \in Pids, a \in DCAAmounts :
                 DCAMaterialize(p, o, f, i, a)
           \/ RecalcAllSnapshots(p)
    PROVE  DriftInv'
<1>a. DOMAIN proc = Procs /\ proc = [proc EXCEPT ![p] = proc[p]]
    BY DEF Base, ProcsOK
<1>b. Idle.pc \notin RecalcPCs /\ "adjust" \notin RecalcPCs
    BY DEF Idle, RecalcPCs
<1>c. ASSUME NEW f, NEW i, NEW m, NEW todo
      PROVE  Begin(f, i, m, todo).pc = "sums" /\ Begin(f, i, m, todo).fund = f
    BY DEF Begin
<1>1. ASSUME NEW f \in Funds, DeleteSecurity(p, f) PROVE DriftInv'
  <2> DEFINE t == txns \ RowsOf(txns, f)
  <2>1. /\ proc[p] = Idle /\ proc' = [proc EXCEPT ![p] = proc[p]]
        /\ txns' = t /\ ver' = Bump(t)
        /\ snap' = [k \in Funds \X Pids |-> IF k[1] = f THEN NoSnap ELSE snap[k]]
        /\ excused' = excused \ {f}
      BY <1>a, <1>1 DEF DeleteSecurity, Starts
  <2>2. \A i \in Pids : snap'[<<f, i>>] = NoSnap
      BY <2>1
  <2>3. \A g \in Funds \ {f} :
           RowsOf(t, g) = RowsOf(txns, g) /\ \A i \in Pids : snap'[<<g, i>>] = snap[<<g, i>>]
      BY <2>1 DEF RowsOf
  <2>4. RowsOf(t, f) = {}
      BY DEF RowsOf
  <2> HIDE DEF t
  <2>5. Synced(t, snap', f)
    <3>1. SharesIn(t, f) = 0 /\ CashIn(t, f) = 0
        BY <2>4, NoRows
    <3>2. Settle(0) = 0
        BY DEF Settle
    <3>3. resolvePortfolioID(snap', f) \in Pids
        BY Resolves
    <3> QED
        BY <2>2, <3>1, <3>2, <3>3 DEF Synced, NoSnap
  <2>6. OnePerFund(snap')
    <3>1. ~NoSnap.present
        BY DEF NoSnap
    <3> QED
        BY <2>2, <2>3, <3>1 DEF OnePerFund, DriftInv
  <2>7. \A g \in Funds :
           \/ g \in excused' \/ Synced(txns', snap', g) \/ InWork(proc[p], g)
           \/ /\ RowsOf(txns', g) = RowsOf(txns, g)
              /\ \A i \in Pids : snap'[<<g, i>>] = snap[<<g, i>>]
              /\ g \in excused => g \in excused'
              /\ InWork(proc[p], g) => InWork(proc[p], g)
    <3>1. Synced(txns', snap', f)
        BY <2>1, <2>5
    <3> QED
        BY <2>1, <2>3, <3>1
  <2>8. ver' = Bump(txns') /\ proc[p].pc \notin RecalcPCs
      BY <1>b, <2>1
  <2> QED
      BY <2>1, <2>6, <2>7, <2>8, DriftFrame
<1>2. ASSUME NEW f \in Funds, UpsertSecurity(p, f) PROVE DriftInv'
  <2>1. /\ proc[p] = Idle /\ proc' = [proc EXCEPT ![p] = proc[p]]
        /\ UNCHANGED <<txns, snap, ver, excused>>
      BY <1>a, <1>2 DEF UpsertSecurity, Starts
  <2> QED
      BY <1>b, <2>1, DriftQuietly
<1>4. ASSUME NEW f \in Funds, NEW n \in Navs, RefreshSecurity(p, f, n) PROVE DriftInv'
  <2> DEFINE k == Begin(f, 0, "full", {})
  <2>1. k.pc = "sums" \/ k.pc = "adjust"
      BY <1>c
  <2>2. proc[p] = Idle
      BY <1>4 DEF RefreshSecurity, Starts
  <2>3. proc' = [proc EXCEPT ![p] = k]
      BY <1>4 DEF RefreshSecurity
  <2>4. UNCHANGED <<txns, snap, ver, excused>>
      BY <1>4 DEF RefreshSecurity
  <2> HIDE DEF k
  <2> QED
      BY <2>1, <2>2, <2>3, <2>4, DriftStarts, Zenon
<1>5. ASSUME NEW f \in Funds, NEW i \in Pids, NEW n \in Targets, AdjustRead(p, f, i, n)
      PROVE  DriftInv'
  <2> DEFINE delta == AdjustTarget(n) - SharesIn(txns, f)
             a == [pc |-> "adjust", fund |-> f, pid |-> i, delta |-> delta]
             k == IF Abs(delta) < Dust THEN Begin(f, i, "light", {}) ELSE a
  <2>1. k.pc = "sums" \/ k.pc = "adjust"
    <3>1. a.pc = "adjust"
        OBVIOUS
    <3> HIDE DEF a, delta
    <3> QED
        BY <1>c, <3>1
  <2>2. proc[p] = Idle
      BY <1>5 DEF AdjustRead, Starts
  <2>3. proc' = [proc EXCEPT ![p] = k]
      BY <1>5 DEF AdjustRead
  <2>4. UNCHANGED <<txns, snap, ver, excused>>
      BY <1>5 DEF AdjustRead, store
  <2> HIDE DEF k
  <2> QED
      BY <2>1, <2>2, <2>3, <2>4, DriftStarts, Zenon
<1>6. CASE RecalcAllSnapshots(p)
  <2> DEFINE codes == {r.fund : r \in txns}
  <2>5. proc[p] = Idle
      BY <1>6 DEF RecalcAllSnapshots, Starts
  <2>6. UNCHANGED <<txns, snap, ver, excused>>
      BY <1>6 DEF RecalcAllSnapshots, store
  <2>1. \E f \in codes : proc' = [proc EXCEPT ![p] = Begin(f, 0, "full", codes \ {f})]
      BY <1>6 DEF RecalcAllSnapshots
  <2> HIDE DEF codes
  <2>2. PICK f \in codes : proc' = [proc EXCEPT ![p] = Begin(f, 0, "full", codes \ {f})]
      BY <2>1
  <2> DEFINE k == Begin(f, 0, "full", codes \ {f})
  <2>3. k.pc = "sums" \/ k.pc = "adjust"
      BY <1>c
  <2>4. proc' = [proc EXCEPT ![p] = k]
      BY <2>2
  <2> HIDE DEF k
  <2> QED
      BY <2>3, <2>4, <2>5, <2>6, DriftStarts, Zenon
<1>7. CASE AdjustInsert(p)
  <2> DEFINE d == proc[p].delta
             f == proc[p].fund
             row == Row(nextSeq, nextSeq,
                        Trade(f, IF d < 0 THEN "sell" ELSE "buy", 0, Abs(d), 0))
             k == Begin(f, proc[p].pid, "light", {})
  <2>1. /\ proc[p].pc = "adjust" /\ txns' = txns \cup {row} /\ ver' = Bump(txns \cup {row})
        /\ proc' = [proc EXCEPT ![p] = k] /\ UNCHANGED <<snap, excused>>
      BY <1>7 DEF AdjustInsert
  <2>2. row.fund = f
      BY DEF Row, Trade
  <2>3. k.pc = "sums" /\ k.fund = f
      BY <1>c
  <2> HIDE DEF row, k, f
  <2> QED
      BY <1>b, <2>1, <2>2, <2>3, DriftAppended
<1>8. ASSUME NEW o \in Orders, NEW f \in Funds, NEW i \in Pids, NEW a \in DCAAmounts,
             DCAMaterialize(p, o, f, i, a)
      PROVE  DriftInv'
  <2> DEFINE row == Row(nextSeq, o, Trade(f, "buy", a, RoundDiv(a, nav[f]), 0))
             k == Begin(f, i, "light", {})
  <2>1. /\ proc[p] = Idle /\ txns' = txns \cup {row} /\ ver' = Bump(txns \cup {row})
        /\ proc' = [proc EXCEPT ![p] = k] /\ UNCHANGED <<snap, excused>>
      BY <1>8 DEF DCAMaterialize, Starts
  <2>2. row.fund = f
      BY DEF Row, Trade
  <2>3. k.pc = "sums" /\ k.fund = f
      BY <1>c
  <2> HIDE DEF row, k
  <2> QED
      BY <1>b, <2>1, <2>2, <2>3, DriftAppended
<1> QED
    BY <1>1, <1>2, <1>4, <1>5, <1>6, <1>7, <1>8

\* A rebuild writes its row where the fund has no other: the fund is in step,
\* or excused because the ledger has moved on.
LEMMA DriftLanded ==
    ASSUME Base, DriftInv, NEW p \in Procs, NEW t, t = proc[p],
           t.pc = "write" \/ t.pc = "insert",
           NEW row, row.present, row.held = t.held, row.cost = t.cost,
           snap' = [snap EXCEPT ![<<t.fund, t.pid>>] = row],
           \A j \in Pids : snap[<<t.fund, j>>].present => j = t.pid,
           excused' = Landed(t), UNCHANGED <<txns, ver>>,
           NEW n \in NextTask(t), proc' = [proc EXCEPT ![p] = n]
    PROVE  DriftInv'
<1> DEFINE f == t.fund
           i == t.pid
<1>1. t.pc \in RecalcPCs \ {"sums"}
    BY DEF RecalcPCs
<1>2. f \in Funds /\ i \in Pids
  <2>1. TaskOK(t)
      BY <1>1, ProcIs DEF Base, ProcsOK
  <2> QED
      BY <2>1 DEF TaskOK, RecalcTasks
<1>3. /\ snap'[<<f, i>>] = row
      /\ \A g \in Funds, j \in Pids : <<g, j>> # <<f, i>> => snap'[<<g, j>>] = snap[<<g, j>>]
    BY <1>2 DEF Base, SnapOK
<1>4. OnePerFund(snap') /\ resolvePortfolioID(snap', f) = i
  <2>1. OnePerFund(snap)
      BY DEF DriftInv
  <2>2. PutAlone(snap, snap', f, i)
      BY <1>3 DEF PutAlone
  <2> QED
      BY <1>2, <2>1, <2>2, Written
<1>5. f \in excused' \/ Synced(txns', snap', f)
  <2>1. CASE t.ver = ver[f]
    <3>1. Fits(t, txns, ver)
        BY <1>1 DEF DriftInv
    <3>2. t.held = Settle(SharesIn(txns, f)) /\ t.cost = CashIn(txns, f)
        BY <2>1, <3>1 DEF Fits
    <3> QED
        BY <1>3, <1>4, <3>2 DEF Synced
  <2>2. CASE t.ver # ver[f]
      BY <2>2 DEF Landed
  <2> QED
      BY <2>1, <2>2
<1>6. ASSUME NEW g \in Funds, g # f
      PROVE  /\ RowsOf(txns', g) = RowsOf(txns, g)
             /\ \A j \in Pids : snap'[<<g, j>>] = snap[<<g, j>>]
             /\ g \in excused => g \in excused'
             /\ InWork(proc[p], g) => InWork(n, g)
  <2>1. \A j \in Pids : <<g, j>> # <<f, i>>
      BY <1>6
  <2>2. g \in excused => g \in excused'
      BY <1>6 DEF Landed
  <2>3. InWork(t, g) => InWork(n, g)
      BY <1>1, <1>6, NextTakesOver
  <2> QED
      BY <1>3, <1>6, <2>1, <2>2, <2>3
<1>7. n.pc \notin RecalcPCs \ {"sums"}
    BY <1>1, NextTakesOver DEF RecalcPCs
<1>8. \A g \in Funds :
         \/ g \in excused' \/ Synced(txns', snap', g) \/ InWork(n, g)
         \/ /\ RowsOf(txns', g) = RowsOf(txns, g)
            /\ \A j \in Pids : snap'[<<g, j>>] = snap[<<g, j>>]
            /\ g \in excused => g \in excused'
            /\ InWork(proc[p], g) => InWork(n, g)
    BY <1>5, <1>6
<1> QED
    BY <1>4, <1>7, <1>8, DriftFrame

\* A rebuild that gives its fund up and goes on with the next, or with none.
LEMMA DriftGivesUp ==
    ASSUME Base, DriftInv, NEW p \in Procs, NEW t, t = proc[p], t.pc \in RecalcPCs,
           UNCHANGED <<txns, snap, ver>>,
           NEW n, proc' = [proc EXCEPT ![p] = n],
           \/ n \in NextTask(t) /\ excused' = excused \cup {t.fund}
           \/ n = Idle /\ excused' = excused \cup {t.fund} \cup t.todo
    PROVE  DriftInv'
<1>1. Idle.pc \notin RecalcPCs
    BY DEF Idle, RecalcPCs
<1>2. CASE n \in NextTask(t) /\ excused' = excused \cup {t.fund}
  <2>1. n.pc \notin RecalcPCs \ {"sums"}
      BY <1>2, NextTakesOver DEF RecalcPCs
  <2>2. \A f \in Funds : InWork(proc[p], f) => InWork(n, f) \/ f \in excused'
      BY <1>2, NextTakesOver
  <2>3. \A f \in Funds : f \in excused => f \in excused'
      BY <1>2
  <2> QED
      BY <2>1, <2>2, <2>3, DriftQuietly
<1>3. CASE n = Idle /\ excused' = excused \cup {t.fund} \cup t.todo
  <2>1. \A f \in Funds : InWork(proc[p], f) => f \in excused'
      BY <1>3 DEF InWork
  <2>2. \A f \in Funds : f \in excused => f \in excused'
      BY <1>3
  <2> QED
      BY <1>1, <1>3, <2>1, <2>2, DriftQuietly
<1> QED
    BY <1>2, <1>3

\* The statements of a rebuild.
LEMMA DriftRecalc ==
    ASSUME OneRow, Base, DriftInv, NEW p \in Procs, Recalc(p) \/ Fail(p)
    PROVE  DriftInv'
<1> DEFINE t == proc[p]
<1>a. p \in DOMAIN proc
    BY DEF Base, ProcsOK
<1>1. ASSUME t.pc \in RecalcPCs PROVE TaskOK(t) /\ t \in RecalcTasks
  <2>1. TaskOK(t)
      BY <1>1, ProcIs DEF Base, ProcsOK
  <2> QED
      BY <2>1 DEF TaskOK
\* A statement that only reads, and leaves the sums alone.
<1>2. ASSUME t.pc \in RecalcPCs \ {"sums"}, NEW k, proc' = [proc EXCEPT ![p] = k],
             UNCHANGED <<txns, snap, ver, excused>>, k.pc \in RecalcPCs,
             k.fund = t.fund /\ k.held = t.held /\ k.cost = t.cost,
             k.ver = t.ver /\ k.todo = t.todo
      PROVE  DriftInv'
  <2>1. Fits(t, txns, ver)
      BY <1>2 DEF DriftInv
  <2>2. Fits(k, txns, ver)
      BY <1>2, <2>1 DEF Fits
  <2>3. \A f \in Funds : InWork(proc[p], f) => InWork(k, f)
      BY <1>2 DEF InWork
  <2> QED
      BY <1>2, <2>2, <2>3, DriftQuietly
<1>3. CASE ReadSums(p)
  <2> DEFINE k == [t EXCEPT !.pc = "nav", !.held = Settle(SharesIn(txns, t.fund)),
                            !.cost = CashIn(txns, t.fund), !.ver = ver[t.fund]]
  <2>1. t.pc = "sums" /\ t.pc \in RecalcPCs
      BY <1>3 DEF ReadSums, RecalcPCs
  <2>2. /\ k.pc = "nav" /\ k.fund = t.fund /\ k.todo = t.todo
        /\ k.held = Settle(SharesIn(txns, t.fund)) /\ k.cost = CashIn(txns, t.fund)
        /\ k.ver = ver[t.fund]
      BY <1>1, <2>1 DEF RecalcTasks
  <2>3. proc' = [proc EXCEPT ![p] = k]
      BY <1>a, <1>3 DEF ReadSums
  <2>4. UNCHANGED <<txns, snap, ver, excused>>
      BY <1>3 DEF ReadSums, store
  <2> HIDE DEF k
  <2>5. ver[t.fund] \in Nat
      BY <1>1, <2>1 DEF Base, RecalcTasks
  <2>6. Fits(k, txns, ver)
      BY <2>2, <2>5 DEF Fits
  <2>7. \A f \in Funds : InWork(proc[p], f) => InWork(k, f)
      BY <2>2 DEF InWork, RecalcPCs
  <2> QED
      BY <2>3, <2>4, <2>6, <2>7, DriftQuietly
<1>4. CASE ReadNav(p)
  <2> DEFINE n == nav[t.fund]
             l == CASE t.mode = "full" -> "pid"
                    [] t.mode = "light" /\ n = 0 -> "eff"
                    [] OTHER -> "write"
             k == [t EXCEPT !.nav = n, !.eff = n, !.pc = l]
  <2>1. t.pc = "nav" /\ t.pc \in RecalcPCs \ {"sums"}
      BY <1>4 DEF ReadNav, RecalcPCs
  <2>2. l \in {"pid", "eff", "write"}
      OBVIOUS
  <2>3. proc' = [proc EXCEPT ![p] = k]
      BY <1>a, <1>4 DEF ReadNav
  <2>4. UNCHANGED <<txns, snap, ver, excused>>
      BY <1>4 DEF ReadNav, store
  <2> HIDE DEF n, l
  <2>5. /\ k.pc = l /\ k.fund = t.fund /\ k.held = t.held /\ k.cost = t.cost
        /\ k.ver = t.ver /\ k.todo = t.todo
      BY <1>1, <2>1 DEF RecalcTasks
  <2> HIDE DEF k
  <2>6. k.pc \in RecalcPCs
      BY <2>2, <2>5 DEF RecalcPCs
  <2> QED
      BY <1>2, <2>1, <2>3, <2>4, <2>5, <2>6
<1>5. CASE ResolvePortfolio(p)
  <2> DEFINE i == resolvePortfolioID(snap, t.fund)
             k == [t EXCEPT !.pc = "write", !.pid = i]
  <2>1. t.pc = "pid" /\ t.pc \in RecalcPCs \ {"sums"}
      BY <1>5 DEF ResolvePortfolio, RecalcPCs
  <2>3. proc' = [proc EXCEPT ![p] = k]
      BY <1>a, <1>5 DEF ResolvePortfolio
  <2>4. UNCHANGED <<txns, snap, ver, excused>>
      BY <1>5 DEF ResolvePortfolio, store
  <2> HIDE DEF i
  <2>5. /\ k.pc = "write" /\ k.fund = t.fund /\ k.held = t.held /\ k.cost = t.cost
        /\ k.ver = t.ver /\ k.todo = t.todo
      BY <1>1, <2>1 DEF RecalcTasks
  <2> HIDE DEF k
  <2>6. k.pc \in RecalcPCs
      BY <2>5 DEF RecalcPCs
  <2> QED
      BY <1>2, <2>1, <2>3, <2>4, <2>5, <2>6
<1>6. CASE ReadExistingNav(p)
  <2> DEFINE n == snap[<<t.fund, t.pid>>].nav
             k == [t EXCEPT !.pc = "write", !.eff = n]
  <2>1. t.pc = "eff" /\ t.pc \in RecalcPCs \ {"sums"}
      BY <1>6 DEF ReadExistingNav, RecalcPCs
  <2>3. proc' = [proc EXCEPT ![p] = k]
      BY <1>a, <1>6 DEF ReadExistingNav
  <2>4. UNCHANGED <<txns, snap, ver, excused>>
      BY <1>6 DEF ReadExistingNav, store
  <2> HIDE DEF n
  <2>5. /\ k.pc = "write" /\ k.fund = t.fund /\ k.held = t.held /\ k.cost = t.cost
        /\ k.ver = t.ver /\ k.todo = t.todo
      BY <1>1, <2>1 DEF RecalcTasks
  <2> HIDE DEF k
  <2>6. k.pc \in RecalcPCs
      BY <2>5 DEF RecalcPCs
  <2> QED
      BY <1>2, <2>1, <2>3, <2>4, <2>5, <2>6
<1>7. CASE WriteUpdate(p)
  <2>1. t.pc = "write" /\ t.pc \in RecalcPCs \ {"sums"} /\ UNCHANGED <<txns, ver>>
      BY <1>7 DEF WriteUpdate, RecalcPCs
  <2>2. t.fund \in Funds /\ t.pid \in Pids
      BY <1>1, <2>1 DEF TaskOK, RecalcTasks
  <2>3. CASE snap[<<t.fund, t.pid>>].present
    <3> DEFINE l == IF t.mode = "light" /\ t.nav = 0 THEN snap[<<t.fund, t.pid>>].nav
                    ELSE t.nav
               row == SnapRow(t.held, t.cost, l, t.eff)
    <3>1. /\ snap' = [snap EXCEPT ![<<t.fund, t.pid>>] = row]
          /\ excused' = Landed(t)
          /\ \E n \in NextTask(t) : proc' = [proc EXCEPT ![p] = n]
        BY <1>7, <2>3 DEF WriteUpdate
    <3>2. row.present /\ row.held = t.held /\ row.cost = t.cost
        BY DEF SnapRow
    <3>3. \A j \in Pids : snap[<<t.fund, j>>].present => j = t.pid
        BY <2>2, <2>3 DEF DriftInv, OnePerFund
    <3> HIDE DEF row
    <3>4. PICK n \in NextTask(t) : proc' = [proc EXCEPT ![p] = n]
        BY <3>1
    <3> QED
        BY <2>1, <3>1, <3>2, <3>3, <3>4, DriftLanded
  <2>4. CASE ~snap[<<t.fund, t.pid>>].present
    <3> DEFINE k == [t EXCEPT !.pc = "insert"]
    <3>1. proc' = [proc EXCEPT ![p] = k]
        BY <1>a, <1>7, <2>4 DEF WriteUpdate
    <3>2. UNCHANGED <<txns, snap, ver, excused>>
        BY <1>7, <2>4 DEF WriteUpdate
    <3>3. /\ k.pc = "insert" /\ k.fund = t.fund /\ k.held = t.held /\ k.cost = t.cost
          /\ k.ver = t.ver /\ k.todo = t.todo
        BY <1>1, <2>1 DEF RecalcTasks
    <3> HIDE DEF k
    <3>4. k.pc \in RecalcPCs
        BY <3>3 DEF RecalcPCs
    <3> QED
        BY <1>2, <2>1, <3>1, <3>2, <3>3, <3>4
  <2> QED
      BY <2>3, <2>4
<1>8. CASE WriteInsert(p)
  <2> DEFINE conflict == \/ snap[<<t.fund, t.pid>>].present
                         \/ LegacyPK /\ \E i \in Pids : snap[<<t.fund, i>>].present
             row == SnapRow(t.held, t.cost, t.nav, t.eff)
             k == [t EXCEPT !.pc = "write", !.tries = t.tries + 1]
  <2>1. t.pc = "insert" /\ t.pc \in RecalcPCs \ {"sums"} /\ UNCHANGED <<txns, ver>>
      BY <1>8 DEF WriteInsert, RecalcPCs
  <2>2. t.fund \in Funds /\ t.pid \in Pids
      BY <1>1, <2>1 DEF TaskOK, RecalcTasks
  <2>3. \/ /\ ~conflict
           /\ snap' = [snap EXCEPT ![<<t.fund, t.pid>>] = row]
           /\ excused' = Landed(t)
           /\ \E n \in NextTask(t) : proc' = [proc EXCEPT ![p] = n]
        \/ /\ proc' = [proc EXCEPT ![p] = k]
           /\ UNCHANGED <<snap, excused>>
        \/ /\ excused' = excused \cup {t.fund}
           /\ \E n \in NextTask(t) : proc' = [proc EXCEPT ![p] = n]
           /\ UNCHANGED snap
      BY <1>a, <1>8 DEF WriteInsert
  <2>4. CASE /\ ~conflict
             /\ snap' = [snap EXCEPT ![<<t.fund, t.pid>>] = row]
             /\ excused' = Landed(t)
             /\ \E n \in NextTask(t) : proc' = [proc EXCEPT ![p] = n]
    <3>1. row.present /\ row.held = t.held /\ row.cost = t.cost
        BY DEF SnapRow
    <3>2. \A j \in Pids : snap[<<t.fund, j>>].present => j = t.pid
        BY <2>2, <2>4 DEF OneRow
    <3> HIDE DEF row, conflict
    <3>3. PICK n \in NextTask(t) : proc' = [proc EXCEPT ![p] = n]
        BY <2>4
    <3> QED
        BY <2>1, <2>4, <3>1, <3>2, <3>3, DriftLanded
  <2>5. CASE proc' = [proc EXCEPT ![p] = k] /\ UNCHANGED <<snap, excused>>
    <3>1. UNCHANGED <<txns, snap, ver, excused>>
        BY <2>1, <2>5
    <3>2. /\ k.pc = "write" /\ k.fund = t.fund /\ k.held = t.held /\ k.cost = t.cost
          /\ k.ver = t.ver /\ k.todo = t.todo
        BY <1>1, <2>1 DEF RecalcTasks
    <3> HIDE DEF k
    <3>3. k.pc \in RecalcPCs
        BY <3>2 DEF RecalcPCs
    <3> QED
        BY <1>2, <2>1, <2>5, <3>1, <3>2, <3>3
  <2>6. CASE /\ excused' = excused \cup {t.fund}
             /\ \E n \in NextTask(t) : proc' = [proc EXCEPT ![p] = n]
             /\ UNCHANGED snap
    <3>1. PICK n \in NextTask(t) : proc' = [proc EXCEPT ![p] = n]
        BY <2>6
    <3>2. UNCHANGED <<txns, snap, ver>> /\ t.pc \in RecalcPCs
        BY <2>1, <2>6
    <3> QED
        BY <2>6, <3>1, <3>2, DriftGivesUp
  <2> HIDE DEF conflict, row, k
  <2> QED
      BY <2>3, <2>4, <2>5, <2>6
<1>9. CASE Fail(p)
  <2>1. UNCHANGED <<txns, snap, ver>>
      BY <1>9 DEF Fail, store
  <2>2. CASE t.pc \in RecalcPCs
    <3>1. \/ /\ excused' = excused \cup {t.fund}
             /\ \E n \in NextTask(t) : proc' = [proc EXCEPT ![p] = n]
          \/ /\ excused' = excused \cup {t.fund} \cup t.todo
             /\ proc' = [proc EXCEPT ![p] = Idle]
        BY <1>9, <2>2 DEF Fail
    <3>2. \E n : /\ proc' = [proc EXCEPT ![p] = n]
                 /\ \/ n \in NextTask(t) /\ excused' = excused \cup {t.fund}
                    \/ n = Idle /\ excused' = excused \cup {t.fund} \cup t.todo
        BY <3>1
    <3>3. PICK n : /\ proc' = [proc EXCEPT ![p] = n]
                   /\ \/ n \in NextTask(t) /\ excused' = excused \cup {t.fund}
                      \/ n = Idle /\ excused' = excused \cup {t.fund} \cup t.todo
        BY <3>2
    <3> QED
        BY <2>1, <2>2, <3>3, DriftGivesUp
  <2>3. CASE t.pc \notin RecalcPCs
    <3>1. proc' = [proc EXCEPT ![p] = Idle] /\ excused' = excused
        BY <1>9, <2>3 DEF Fail
    <3>2. Idle.pc \notin RecalcPCs /\ \A f \in Funds : ~InWork(proc[p], f)
        BY <2>3 DEF Idle, RecalcPCs, InWork
    <3> QED
        BY <2>1, <3>1, <3>2, DriftQuietly
  <2> QED
      BY <2>2, <2>3
<1> QED
    BY <1>3, <1>4, <1>5, <1>6, <1>7, <1>8, <1>9 DEF Recalc

\* Every step keeps it, where a fund has one row.
LEMMA DriftStep ==
    ASSUME OneRow, Base, DriftInv, [Next]_vars
    PROVE  DriftInv'
<1>1. CASE UNCHANGED vars
    BY <1>1 DEF vars, DriftInv
<1>2. ASSUME Next PROVE DriftInv'
    BY <1>2, DriftEdits, DriftWriters, DriftRecalc DEF Next
<1> QED
    BY <1>1, <1>2

\* It holds at the start: nothing is stored and the ledger is empty.
LEMMA DriftStart ==
    ASSUME Init
    PROVE  DriftInv
<1>1. \A k \in Funds \X Pids : snap[k] = NoSnap
    BY DEF Init
<1>2. OnePerFund(snap)
    BY <1>1 DEF OnePerFund, NoSnap
<1>3. ASSUME NEW f \in Funds PROVE Synced(txns, snap, f)
  <2>1. SharesIn(txns, f) = 0 /\ CashIn(txns, f) = 0
    <3>1. RowsOf(txns, f) = {}
        BY DEF Init, RowsOf
    <3> QED
        BY <3>1, NoRows
  <2>2. Settle(0) = 0
      BY DEF Settle
  <2>3. resolvePortfolioID(snap, f) \in Pids
      BY Resolves
  <2>4. snap[<<f, resolvePortfolioID(snap, f)>>] = NoSnap
      BY <1>1, <2>3
  <2> QED
      BY <2>1, <2>2, <2>4 DEF Synced, NoSnap
<1>4. \A p \in Procs : proc[p].pc = "idle"
    BY DEF Init, Idle
<1> QED
    BY <1>2, <1>3, <1>4 DEF DriftInv, RecalcPCs

\* A fund in step shows no drift: its other rows are empty, and the dust rule
\* hides no more than the dust.
LEMMA SyncedNoDrift ==
    ASSUME Base, OnePerFund(snap), NEW f \in Funds, Synced(txns, snap, f)
    PROVE  ~Drift(f) /\ ~CostDrift(f)
<1> DEFINE j == resolvePortfolioID(snap, f)
           g == [i \in Pids |-> snap[<<f, i>>].held]
<1>1. j \in Pids /\ \A i \in Pids : snap[<<f, i>>].present => snap[<<f, j>>].present
    BY Resolves
<1> HIDE DEF j
<1>2. SumFunction(g) = snap[<<f, j>>].held
  <2>1. IsFiniteSet(Pids)
      BY LedgerAssumption
  <2>2. g \in [Pids -> Int]
      BY DEF Base, SnapOK, SnapRows
  <2>3. ASSUME NEW i \in Pids \ {j} PROVE g[i] = 0
    <3>1. ~snap[<<f, i>>].present
        BY <1>1, <2>3 DEF OnePerFund
    <3>2. snap[<<f, i>>] = NoSnap
        BY <3>1 DEF Base, SnapOK
    <3> QED
        BY <3>2 DEF NoSnap
  <2>4. g[j] = snap[<<f, j>>].held
      BY <1>1
  <2> HIDE DEF g
  <2> QED
      BY <1>1, <2>1, <2>2, <2>3, <2>4, SumOne
<1>3. snap[<<f, j>>].held = Settle(SharesIn(txns, f)) /\ snap[<<f, j>>].cost = CashIn(txns, f)
    BY DEF Synced, j
<1>4. SharesIn(txns, f) \in Int
    BY FundSums DEF Base
<1>5. Abs(SharesIn(txns, f) - Settle(SharesIn(txns, f))) <= Dust
    BY <1>4, SettleType
<1>6. Abs(SharesIn(txns, f) - SumFunction(g)) <= Dust
    BY <1>2, <1>3, <1>5
<1>7. Abs(SharesIn(txns, f) - SumFunction(g)) \in Int /\ Dust \in Int
  <2>1. Dust \in Int
      BY LedgerAssumption
  <2>2. Settle(SharesIn(txns, f)) \in Int
      BY <1>4, SettleType
  <2>3. SharesIn(txns, f) - SumFunction(g) \in Int
      BY <1>2, <1>3, <1>4, <2>2
  <2> QED
      BY <2>1, <2>3 DEF Abs
<1>8. ~Drift(f)
    BY <1>6, <1>7 DEF Drift
<1> QED
    BY <1>3, <1>8 DEF CostDrift, j

\* DriftHasCause (snapshot.recalc, AdjustPosition, Update- and
\* DeleteTransaction): where a fund has one row, the legacy key or a single
\* portfolio, a stored position that is off its ledger is one whose rebuild
\* is still to come, or that a lost race or a failed statement left so.
THEOREM DriftAlwaysHasCause ==
    ASSUME OneRow
    PROVE  Spec => []DriftHasCause
<1>1. Base /\ DriftInv => DriftHasCause
  <2> SUFFICES ASSUME Base, DriftInv, NEW f \in Funds, Drift(f) \/ CostDrift(f),
                      f \notin excused
               PROVE  \E p \in Procs : Rebuilding(p, f)
      BY DEF DriftHasCause
  <2>1. ~Synced(txns, snap, f)
      BY SyncedNoDrift DEF DriftInv
  <2>2. PICK p \in Procs : InWork(proc[p], f)
      BY <2>1 DEF DriftInv
  <2> QED
      BY <2>2 DEF InWork, Rebuilding
<1> QED
    BY <1>1, BaseInit, BaseStep, DriftStart, DriftStep, PTL DEF Spec

-----------------------------------------------------------------------------
(* One row per order and fund                                              *)

\* A row whose order its fund does not have yet.
LEMMA UniqueAdded ==
    ASSUME NEW t, Unique(t), NEW r, ~Exists(t, r.order, r.fund)
    PROVE  Unique(t \cup {r})
BY DEF Unique, Exists

\* No step makes a second row of an order in a fund: an insert asks first, a
\* fresh order is later than all, and the index stops an update.
LEMMA UniqueStep ==
    ASSUME UniqueIndex, Base, Unique(txns), Next
    PROVE  Unique(txns')
<1> PICK p \in Procs :
        \/ \E b \in Imports : ImportTransactions(p, b)
        \/ \E r \in txns, u \in Updates : UpdateRead(p, r, u)
        \/ UpdateCommit(p)
        \/ \E r \in txns : DeleteRead(p, r)
        \/ DeleteCommit(p)
        \/ \E f \in Funds : DeleteSecurity(p, f) \/ UpsertSecurity(p, f)
        \/ \E f \in Funds, i \in Pids, n \in Targets : AdjustRead(p, f, i, n)
        \/ AdjustInsert(p)
        \/ \E o \in Orders, f \in Funds, i \in Pids, a \in DCAAmounts :
              DCAMaterialize(p, o, f, i, a)
        \/ \E f \in Funds, n \in Navs : RefreshSecurity(p, f, n)
        \/ RecalcAllSnapshots(p)
        \/ Recalc(p)
        \/ Fail(p)
    BY DEF Next
<1>a. LedgerOK(txns, nextSeq) /\ nextSeq \in Nat \ {0} /\ ProcOK(proc[p])
    BY DEF Base, ProcsOK
<1>1. CASE txns' = txns
    BY <1>1
<1>2. ASSUME txns' \subseteq txns PROVE Unique(txns')
    BY <1>2 DEF Unique
<1>3. ASSUME NEW b \in Imports, ImportTransactions(p, b) PROVE Unique(txns')
  <2>1. ASSUME \A n \in 1..Len(b) : ValidItem(b[n]), txns' = ImportBatch(b).txns
        PROVE  Unique(txns')
      BY <1>a, <2>1, BatchImported DEF Imported
  <2> QED
      BY <1>3, <2>1 DEF ImportTransactions
<1>4. CASE UpdateCommit(p)
  <2> DEFINE r == proc[p].old
             u == proc[p].upd
             hit == {c \in txns : c.seq = r.seq}
             clash == \E c \in hit : \E d \in txns \ hit :
                         d.order = c.order /\ d.fund = UpdatedRow(c, u, r).fund
  <2>1. r \in LedgerRows /\ u \in Edits /\ (u.dir # Keep => u.dir \in Dirs)
      BY <1>4, <1>a, ProcIs DEF UpdateCommit
  <2>2. \/ /\ ~clash
           /\ txns' = (txns \ hit) \cup {UpdatedRow(c, u, r) : c \in hit}
        \/ txns' = txns
      BY <1>4 DEF UpdateCommit
  <2> HIDE DEF r, u
  <2>3. CASE hit = {}
      BY <2>2, <2>3
  <2>4. ASSUME NEW c \in hit, ~clash,
               txns' = (txns \ hit) \cup {UpdatedRow(d, u, r) : d \in hit}
        PROVE  Unique(txns')
    <3> DEFINE new == UpdatedRow(c, u, r)
    <3>1. hit = {c} /\ c \in LedgerRows
        BY <1>a, <2>4 DEF LedgerOK
    <3>2. txns' = (txns \ {c}) \cup {new}
        BY <2>4, <3>1
    <3>3. new.order = c.order
        BY <2>1, <3>1, UpdatedType
    <3>4. ~ \E d \in txns \ {c} : d.order = new.order /\ d.fund = new.fund
        BY <2>4, <3>1, <3>3
    <3> HIDE DEF new, hit, clash
    <3>5. Unique(txns \ {c}) /\ ~Exists(txns \ {c}, new.order, new.fund)
        BY <3>4 DEF Unique, Exists
    <3> QED
        BY <3>2, <3>5, UniqueAdded
  <2> QED
      BY <2>2, <2>3, <2>4
<1>5. CASE AdjustInsert(p)
  <2> DEFINE d == proc[p].delta
             row == Row(nextSeq, nextSeq,
                        Trade(proc[p].fund, IF d < 0 THEN "sell" ELSE "buy",
                              0, Abs(d), 0))
  <2>1. txns' = txns \cup {row}
      BY <1>5 DEF AdjustInsert
  <2>2. row.order = nextSeq
      BY DEF Row
  <2> HIDE DEF row
  <2>3. ~Exists(txns, row.order, row.fund)
      BY <1>a, <2>2 DEF Exists, LedgerOK
  <2> QED
      BY <2>1, <2>3, UniqueAdded
<1>6. ASSUME NEW o \in Orders, NEW f \in Funds, NEW i \in Pids, NEW a \in DCAAmounts,
             DCAMaterialize(p, o, f, i, a)
      PROVE  Unique(txns')
  <2> DEFINE row == Row(nextSeq, o, Trade(f, "buy", a, RoundDiv(a, nav[f]), 0))
  <2>1. txns' = txns \cup {row} /\ ~Exists(txns, o, f)
      BY <1>6 DEF DCAMaterialize
  <2>2. row.order = o /\ row.fund = f
      BY DEF Row, Trade
  <2> HIDE DEF row
  <2> QED
      BY <2>1, <2>2, UniqueAdded
<1>7. ASSUME NEW f \in Funds, DeleteSecurity(p, f) PROVE Unique(txns')
    BY <1>2, <1>7 DEF DeleteSecurity
<1>8. CASE DeleteCommit(p)
    BY <1>2, <1>8 DEF DeleteCommit
<1>9. CASE \/ \E r \in txns, u \in Updates : UpdateRead(p, r, u)
           \/ \E r \in txns : DeleteRead(p, r)
           \/ \E f \in Funds : UpsertSecurity(p, f)
           \/ \E f \in Funds, i \in Pids, n \in Targets : AdjustRead(p, f, i, n)
    BY <1>1, <1>9 DEF UpdateRead, DeleteRead, UpsertSecurity, AdjustRead, store
<1>10. CASE \/ \E f \in Funds, n \in Navs : RefreshSecurity(p, f, n)
            \/ RecalcAllSnapshots(p)
            \/ Fail(p)
    BY <1>1, <1>10 DEF RefreshSecurity, RecalcAllSnapshots, Fail, store
<1>11. CASE Recalc(p)
    BY <1>1, <1>11 DEF Recalc, ReadSums, ReadNav, ResolvePortfolio, ReadExistingNav,
       WriteUpdate, WriteInsert, store
<1> QED
    BY <1>3, <1>4, <1>5, <1>6, <1>7, <1>8, <1>9, <1>10, <1>11

\* OrderFundUnique (idx_transactions_order_fund_unique and the NOT EXISTS of
\* every insert): with the index in place no interleaving of requests leaves
\* two rows of one order in one fund.
THEOREM OrdersStayApart ==
    ASSUME UniqueIndex
    PROVE  Spec => []OrderFundUnique
<1>1. Init => Unique(txns)
    BY DEF Init, Unique
<1>2. Base /\ Unique(txns) /\ [Next]_vars => Unique(txns')
  <2>1. CASE UNCHANGED vars
      BY <2>1 DEF vars
  <2> QED
      BY <2>1, UniqueStep
<1>3. Unique(txns) <=> OrderFundUnique
    BY DEF Unique, OrderFundUnique
<1>4. Base /\ OrderFundUnique /\ [Next]_vars => OrderFundUnique'
  <2>1. Unique(txns') => OrderFundUnique'
      BY DEF Unique, OrderFundUnique
  <2> QED
      BY <1>2, <1>3, <2>1
<1>5. Init => OrderFundUnique
    BY <1>1, <1>3
<1> QED
    BY <1>4, <1>5, BaseInit, BaseStep, PTL DEF Spec

-----------------------------------------------------------------------------
(* One request at a time                                                   *)

Alone == \E p \in Procs : Procs = {p}

\* What a lone request knows of the tables between its statements.
Knows(k, t, sn, v) ==
    /\ k.pc \in {"update", "delete"} => k.old \in t
    /\ k.pc \in RecalcPCs \ {"sums"} => k.ver = v[k.fund]
    /\ k.pc = "insert" => ~sn[<<k.fund, k.pid>>].present
    /\ k.pc = "eff" => k.mode = "light" /\ k.nav = 0
    /\ k.pc = "pid" => k.mode = "full" /\ k.eff = k.nav
    /\ k.pc \in {"write", "insert"} =>
          IF k.mode = "light" /\ k.nav = 0 THEN k.eff = sn[<<k.fund, k.pid>>].nav
          ELSE k.eff = k.nav

Valued(sn) == \A k \in Funds \X Pids : sn[k].value = Value(sn[k].held, sn[k].nav)

\* StoredRowsAgree is not inductive: the row an update read must still be the
\* one it changes, and the NAV a rebuild values at the one it stores.
AloneInv ==
    /\ \A p \in Procs : Knows(proc[p], txns, snap, ver)
    /\ Valued(snap)
    /\ \A r \in txns : RowSigned(r)

\* Before its first statement, and after its last, a request knows nothing.
LEMMA KnowsNothing ==
    ASSUME NEW k, k.pc = "idle" \/ k.pc = "adjust" \/ k.pc = "sums",
           NEW t, NEW sn, NEW v
    PROVE  Knows(k, t, sn, v)
BY DEF Knows, RecalcPCs

\* A step of the one request, which goes on as k.
LEMMA AloneFrame ==
    ASSUME Base, NEW p, Procs = {p}, NEW k, proc' = [proc EXCEPT ![p] = k],
           Knows(k, txns', snap', ver'), Valued(snap'), \A r \in txns' : RowSigned(r)
    PROVE  AloneInv'
<1>1. proc'[p] = k
    BY DEF Base, ProcsOK
<1>2. \A q \in Procs : Knows(proc'[q], txns', snap', ver')
    BY <1>1
<1> QED
    BY <1>2 DEF AloneInv, Knows, Valued

\* A rebuild inside a transaction values a row at the NAV it stores.
LEMMA RecalcTxValued ==
    ASSUME Valued(snap), NEW t, NEW codes
    PROVE  Valued(RecalcTx(t, codes))
BY DEF Valued, RecalcTx, SnapRow

\* One row written, with the value of its NAV.
LEMMA RowValued ==
    ASSUME Base, Valued(snap), NEW i, NEW h, NEW c, NEW n,
           snap' = [snap EXCEPT ![i] = SnapRow(h, c, n, n)]
    PROVE  Valued(snap')
<1>1. snap = [k \in Funds \X Pids |-> snap[k]]
    BY DEF Base, SnapOK
<1>2. ASSUME NEW k \in Funds \X Pids
      PROVE  snap'[k] = snap[k] \/ snap'[k] = SnapRow(h, c, n, n)
    BY <1>1
<1>3. SnapRow(h, c, n, n).value = Value(SnapRow(h, c, n, n).held, SnapRow(h, c, n, n).nav)
    BY DEF SnapRow
<1> QED
    BY <1>2, <1>3 DEF Valued

\* The row an update makes of the one it read has the signs of its columns.
LEMMA UpdatedIsSigned ==
    ASSUME NEW r \in LedgerRows, NEW u
    PROVE  RowSigned(UpdatedRow(r, u, r))
<1> DEFINE new == UpdatedRow(r, u, r)
           row == Applied(u, r)
<1>1. /\ new.dir = Pick(u.dir, r.dir) /\ new.amount = Pick(u.amount, r.amount)
      /\ new.share = Pick(u.share, r.share) /\ new.fee = Pick(u.fee, r.fee)
      /\ new.cash = row.cash /\ new.chg = row.chg
    BY DEF UpdatedRow, LedgerRows
<1>2. /\ row.dir = Pick(u.dir, r.dir) /\ row.amount = Pick(u.amount, r.amount)
      /\ row.share = Pick(u.share, r.share) /\ row.fee = Pick(u.fee, r.fee)
      /\ row.given = FALSE
    BY DEF Applied, Row, Trade
<1>3. RowSigned(row)
    BY RowIsSigned DEF Applied
<1> HIDE DEF new, row
<1>4. RowSigned(new)
    BY <1>1, <1>2, <1>3 DEF RowSigned
<1> QED
    BY <1>4 DEF new

\* Starting, or ending, without touching the tables.
LEMMA AloneStarts ==
    ASSUME Base, AloneInv, NEW p, Procs = {p}, NEW k, proc' = [proc EXCEPT ![p] = k],
           UNCHANGED <<txns, snap>>, Knows(k, txns, snap, ver')
    PROVE  AloneInv'
<1>1. Valued(snap') /\ \A r \in txns' : RowSigned(r)
    BY DEF AloneInv
<1>2. Knows(k, txns', snap', ver')
    OBVIOUS
<1> QED
    BY <1>1, <1>2, AloneFrame

\* Imports, updates, deletes, when nobody else is at it.
LEMMA AloneEdits ==
    ASSUME Base, AloneInv, NEW p, Procs = {p},
           \/ \E b \in Imports : ImportTransactions(p, b)
           \/ \E r \in txns : DeleteRead(p, r) \/ \E u \in Updates : UpdateRead(p, r, u)
           \/ UpdateCommit(p) \/ DeleteCommit(p)
    PROVE  AloneInv'
<1>a. /\ proc = [proc EXCEPT ![p] = proc[p]] /\ ProcOK(proc[p])
      /\ LedgerOK(txns, nextSeq) /\ nextSeq \in Nat \ {0}
    BY DEF Base, ProcsOK
<1>b. /\ Knows(proc[p], txns, snap, ver) /\ Valued(snap)
      /\ \A r \in txns : RowSigned(r)
    BY DEF AloneInv
<1>c. \A t, sn, v : Knows(Idle, t, sn, v)
    BY KnowsNothing DEF Idle
<1>1. ASSUME NEW b \in Imports, ImportTransactions(p, b) PROVE AloneInv'
  <2>1. proc[p] = Idle /\ proc' = [proc EXCEPT ![p] = Idle]
      BY <1>a, <1>1 DEF ImportTransactions, Starts
  <2>2. CASE UNCHANGED <<txns, snap>>
      BY <1>c, <2>1, <2>2, AloneStarts
  <2>3. ASSUME NEW done, done = ImportBatch(b), \A n \in 1..Len(b) : ValidItem(b[n]),
               txns' = done.txns, snap' = RecalcTx(done.txns, done.affected)
        PROVE  AloneInv'
    <3>1. \A r \in txns' : RowSigned(r)
        BY <1>a, <1>b, <2>3, BatchImported DEF Imported
    <3>2. Valued(snap')
        BY <1>b, <2>3, RecalcTxValued
    <3>3. Knows(Idle, txns', snap', ver')
        BY <1>c
    <3> QED
        BY <2>1, <3>1, <3>2, <3>3, AloneFrame
  <2> QED
      BY <1>1, <2>2, <2>3 DEF ImportTransactions
<1>2. ASSUME NEW r \in txns, DeleteRead(p, r) PROVE AloneInv'
  <2> DEFINE k == [pc |-> "delete", old |-> r]
  <2>1. proc' = [proc EXCEPT ![p] = k] /\ UNCHANGED <<txns, snap, ver>>
      BY <1>2 DEF DeleteRead, store
  <2>2. k.pc = "delete" /\ k.old = r
      OBVIOUS
  <2> HIDE DEF k
  <2>3. Knows(k, txns, snap, ver')
      BY <2>2 DEF Knows, RecalcPCs
  <2> QED
      BY <2>1, <2>3, AloneStarts
<1>3. ASSUME NEW r \in txns, NEW u \in Updates, UpdateRead(p, r, u) PROVE AloneInv'
  <2> DEFINE k == [pc |-> "update", old |-> r, upd |-> u]
  <2>1. proc' = [proc EXCEPT ![p] = k] /\ UNCHANGED <<txns, snap, ver>>
      BY <1>3 DEF UpdateRead, store
  <2>2. k.pc = "update" /\ k.old = r
      OBVIOUS
  <2> HIDE DEF k
  <2>3. Knows(k, txns, snap, ver')
      BY <2>2 DEF Knows, RecalcPCs
  <2> QED
      BY <2>1, <2>3, AloneStarts
<1>4. CASE DeleteCommit(p)
  <2> DEFINE r == proc[p].old
             t == txns \ {c \in txns : c.seq = r.seq}
  <2>1. /\ txns' = t /\ snap' = RecalcTx(t, {r.fund}) /\ proc' = [proc EXCEPT ![p] = Idle]
      BY <1>4 DEF DeleteCommit
  <2>2. \A c \in t : RowSigned(c)
      BY <1>b
  <2> HIDE DEF t, r
  <2>3. Valued(snap')
      BY <1>b, <2>1, RecalcTxValued
  <2>4. Knows(Idle, txns', snap', ver') /\ \A c \in txns' : RowSigned(c)
      BY <1>c, <2>1, <2>2
  <2> QED
      BY <2>1, <2>3, <2>4, AloneFrame
<1>5. CASE UpdateCommit(p)
  <2> DEFINE r == proc[p].old
             u == proc[p].upd
             hit == {c \in txns : c.seq = r.seq}
             t == (txns \ hit) \cup {UpdatedRow(c, u, r) : c \in hit}
  <2>1. proc' = [proc EXCEPT ![p] = Idle]
      BY <1>5 DEF UpdateCommit
  <2>2. \/ txns' = t /\ snap' = RecalcTx(t, UpdateRecalcs(u, r))
        \/ UNCHANGED <<txns, snap>>
      BY <1>5 DEF UpdateCommit
  <2>3. r \in txns
      BY <1>5, <1>b DEF UpdateCommit, Knows
  <2> HIDE DEF r, u
  <2>4. hit = {r} /\ r \in LedgerRows
      BY <1>a, <2>3 DEF LedgerOK
  <2>5. \A c \in t : RowSigned(c)
    <3>1. t = (txns \ {r}) \cup {UpdatedRow(r, u, r)}
        BY <2>4
    <3> HIDE DEF t
    <3> QED
        BY <1>b, <2>4, <3>1, UpdatedIsSigned
  <2> HIDE DEF t, hit
  <2>6. CASE txns' = t /\ snap' = RecalcTx(t, UpdateRecalcs(u, r))
    <3>1. Valued(snap')
        BY <1>b, <2>6, RecalcTxValued
    <3>2. Knows(Idle, txns', snap', ver') /\ \A c \in txns' : RowSigned(c)
        BY <1>c, <2>5, <2>6
    <3> QED
        BY <2>1, <3>1, <3>2, AloneFrame
  <2>7. CASE UNCHANGED <<txns, snap>>
      BY <1>c, <2>1, <2>7, AloneStarts
  <2> QED
      BY <2>2, <2>6, <2>7
<1> QED
    BY <1>1, <1>2, <1>3, <1>4, <1>5

\* Securities, and the writers that rebuild afterwards, likewise.
LEMMA AloneWriters ==
    ASSUME Base, AloneInv, NEW p, Procs = {p},
           \/ \E f \in Funds : \/ DeleteSecurity(p, f) \/ UpsertSecurity(p, f)
                               \/ \E n \in Navs : RefreshSecurity(p, f, n)
           \/ \E f \in Funds, i \in Pids, n \in Targets : AdjustRead(p, f, i, n)
           \/ AdjustInsert(p)
           \/ \E o \in Orders, f \in Funds, i \in Pids, a \in DCAAmounts :
                 DCAMaterialize(p, o, f, i, a)
           \/ RecalcAllSnapshots(p)
    PROVE  AloneInv'
<1>a. proc = [proc EXCEPT ![p] = proc[p]]
    BY DEF Base, ProcsOK
<1>b. Valued(snap) /\ \A r \in txns : RowSigned(r)
    BY DEF AloneInv
<1>c. \A t, sn, v : Knows(Idle, t, sn, v)
    BY KnowsNothing DEF Idle
<1>d. ASSUME NEW f, NEW i, NEW m, NEW todo, NEW t, NEW sn, NEW v
      PROVE  Knows(Begin(f, i, m, todo), t, sn, v)
  <2>1. Begin(f, i, m, todo).pc = "sums"
      BY DEF Begin
  <2> HIDE DEF Begin
  <2> QED
      BY <2>1, KnowsNothing
<1>1. ASSUME NEW f \in Funds, DeleteSecurity(p, f) PROVE AloneInv'
  <2>1. proc[p] = Idle /\ proc' = [proc EXCEPT ![p] = Idle]
      BY <1>a, <1>1 DEF DeleteSecurity, Starts
  <2>2. Valued(snap')
    <3>1. Value(0, 0) = 0
        BY DEF Value
    <3>2. \A k \in Funds \X Pids : snap'[k] = NoSnap \/ snap'[k] = snap[k]
        BY <1>1 DEF DeleteSecurity
    <3> QED
        BY <1>b, <3>1, <3>2 DEF Valued, NoSnap
  <2>3. \A r \in txns' : RowSigned(r)
      BY <1>1, <1>b DEF DeleteSecurity
  <2>4. Knows(Idle, txns', snap', ver')
      BY <1>c
  <2> QED
      BY <2>1, <2>2, <2>3, <2>4, AloneFrame
<1>2. ASSUME NEW f \in Funds, UpsertSecurity(p, f) PROVE AloneInv'
  <2>1. proc[p] = Idle /\ proc' = [proc EXCEPT ![p] = Idle] /\ UNCHANGED <<txns, snap>>
      BY <1>a, <1>2 DEF UpsertSecurity, Starts
  <2> QED
      BY <1>c, <2>1, AloneStarts
<1>3. ASSUME NEW f \in Funds, NEW n \in Navs, RefreshSecurity(p, f, n) PROVE AloneInv'
  <2> DEFINE k == Begin(f, 0, "full", {})
  <2>1. proc' = [proc EXCEPT ![p] = k] /\ UNCHANGED <<txns, snap>>
      BY <1>3 DEF RefreshSecurity
  <2>2. Knows(k, txns, snap, ver')
      BY <1>d
  <2> HIDE DEF k
  <2> QED
      BY <2>1, <2>2, AloneStarts
<1>4. ASSUME NEW f \in Funds, NEW i \in Pids, NEW n \in Targets, AdjustRead(p, f, i, n)
      PROVE  AloneInv'
  <2> DEFINE delta == AdjustTarget(n) - SharesIn(txns, f)
             a == [pc |-> "adjust", fund |-> f, pid |-> i, delta |-> delta]
             k == IF Abs(delta) < Dust THEN Begin(f, i, "light", {}) ELSE a
  <2>1. proc' = [proc EXCEPT ![p] = k] /\ UNCHANGED <<txns, snap>>
      BY <1>4 DEF AdjustRead, store
  <2>2. a.pc = "adjust"
      OBVIOUS
  <2> HIDE DEF a, delta
  <2>3. Knows(k, txns, snap, ver')
      BY <1>d, <2>2, KnowsNothing
  <2> HIDE DEF k
  <2> QED
      BY <2>1, <2>3, AloneStarts
<1>5. CASE RecalcAllSnapshots(p)
  <2> DEFINE codes == {r.fund : r \in txns}
  <2>1. /\ \E f \in codes : proc' = [proc EXCEPT ![p] = Begin(f, 0, "full", codes \ {f})]
        /\ UNCHANGED <<txns, snap>>
      BY <1>5 DEF RecalcAllSnapshots, store
  <2> HIDE DEF codes
  <2>2. PICK f \in codes : proc' = [proc EXCEPT ![p] = Begin(f, 0, "full", codes \ {f})]
      BY <2>1
  <2> DEFINE k == Begin(f, 0, "full", codes \ {f})
  <2>3. Knows(k, txns, snap, ver') /\ proc' = [proc EXCEPT ![p] = k]
      BY <1>d, <2>2
  <2> HIDE DEF k
  <2> QED
      BY <2>1, <2>3, AloneStarts
<1>6. CASE AdjustInsert(p)
  <2> DEFINE d == proc[p].delta
             row == Row(nextSeq, nextSeq,
                        Trade(proc[p].fund, IF d < 0 THEN "sell" ELSE "buy",
                              0, Abs(d), 0))
             k == Begin(proc[p].fund, proc[p].pid, "light", {})
  <2>1. txns' = txns \cup {row} /\ snap' = snap /\ proc' = [proc EXCEPT ![p] = k]
      BY <1>6 DEF AdjustInsert
  <2>2. RowSigned(row)
      BY RowIsSigned
  <2>3. Knows(k, txns', snap', ver')
      BY <1>d
  <2> HIDE DEF row, k
  <2>4. Valued(snap') /\ \A r \in txns' : RowSigned(r)
      BY <1>b, <2>1, <2>2
  <2> QED
      BY <2>1, <2>3, <2>4, AloneFrame
<1>7. ASSUME NEW o \in Orders, NEW f \in Funds, NEW i \in Pids, NEW a \in DCAAmounts,
             DCAMaterialize(p, o, f, i, a)
      PROVE  AloneInv'
  <2> DEFINE row == Row(nextSeq, o, Trade(f, "buy", a, RoundDiv(a, nav[f]), 0))
             k == Begin(f, i, "light", {})
  <2>1. txns' = txns \cup {row} /\ snap' = snap /\ proc' = [proc EXCEPT ![p] = k]
      BY <1>7 DEF DCAMaterialize
  <2>2. RowSigned(row)
      BY RowIsSigned
  <2>3. Knows(k, txns', snap', ver')
      BY <1>d
  <2> HIDE DEF row, k
  <2>4. Valued(snap') /\ \A r \in txns' : RowSigned(r)
      BY <1>b, <2>1, <2>2
  <2> QED
      BY <2>1, <2>3, <2>4, AloneFrame
<1> QED
    BY <1>1, <1>2, <1>3, <1>4, <1>5, <1>6, <1>7

\* The statements of a lone rebuild.
LEMMA AloneRecalc ==
    ASSUME Base, AloneInv, NEW p, Procs = {p}, Recalc(p) \/ Fail(p)
    PROVE  AloneInv'
<1> DEFINE t == proc[p]
<1>a. p \in DOMAIN proc /\ ProcOK(t)
    BY DEF Base, ProcsOK
<1>b. Knows(t, txns, snap, ver) /\ Valued(snap) /\ \A r \in txns : RowSigned(r)
    BY DEF AloneInv
<1>1. ASSUME t.pc \in RecalcPCs PROVE t \in RecalcTasks /\ TaskOK(t)
  <2>1. TaskOK(t)
      BY <1>1, <1>a, ProcIs
  <2> QED
      BY <2>1 DEF TaskOK
<1>2. ASSUME NEW n, n = Idle \/ n \in NextTask(t), t.pc \in RecalcPCs
      PROVE  Knows(n, txns', snap', ver')
  <2>1. n.pc = "idle" \/ n.pc = "sums"
      BY <1>2, NextTakesOver DEF Idle
  <2> QED
      BY <2>1, KnowsNothing
<1>3. CASE ReadSums(p)
  <2> DEFINE k == [t EXCEPT !.pc = "nav", !.held = Settle(SharesIn(txns, t.fund)),
                            !.cost = CashIn(txns, t.fund), !.ver = ver[t.fund]]
  <2>1. t.pc = "sums" /\ t.pc \in RecalcPCs /\ UNCHANGED <<txns, snap, ver>>
      BY <1>3 DEF ReadSums, RecalcPCs, store
  <2>2. k.pc = "nav" /\ k.fund = t.fund /\ k.ver = ver[t.fund]
      BY <1>1, <2>1 DEF RecalcTasks
  <2>3. proc' = [proc EXCEPT ![p] = k]
      BY <1>a, <1>3 DEF ReadSums
  <2> HIDE DEF k
  <2>4. Knows(k, txns, snap, ver')
      BY <2>1, <2>2 DEF Knows
  <2> QED
      BY <2>1, <2>3, <2>4, AloneStarts
<1>4. CASE ReadNav(p)
  <2> DEFINE n == nav[t.fund]
             l == CASE t.mode = "full" -> "pid"
                    [] t.mode = "light" /\ n = 0 -> "eff"
                    [] OTHER -> "write"
             k == [t EXCEPT !.nav = n, !.eff = n, !.pc = l]
  <2>1. t.pc = "nav" /\ t.pc \in RecalcPCs \ {"sums"} /\ UNCHANGED <<txns, snap, ver>>
      BY <1>4 DEF ReadNav, RecalcPCs, store
  <2>2. \/ l = "pid" /\ t.mode = "full"
        \/ l = "eff" /\ t.mode = "light" /\ n = 0
        \/ l = "write" /\ t.mode = "light" /\ n # 0
    <3>1. t.mode \in {"full", "light"}
        BY <1>1, <2>1 DEF RecalcTasks
    <3> HIDE DEF n
    <3> QED
        BY <3>1
  <2>3. proc' = [proc EXCEPT ![p] = k]
      BY <1>a, <1>4 DEF ReadNav
  <2> HIDE DEF n, l
  <2>4. /\ k.pc = l /\ k.fund = t.fund /\ k.ver = t.ver /\ k.mode = t.mode
        /\ k.nav = n /\ k.eff = n
      BY <1>1, <2>1 DEF RecalcTasks
  <2>5. t.ver = ver[t.fund]
      BY <1>b, <2>1 DEF Knows
  <2> HIDE DEF k, t
  <2>6. Knows(k, txns, snap, ver')
      BY <2>1, <2>2, <2>4, <2>5 DEF Knows
  <2> QED
      BY <2>1, <2>3, <2>6, AloneStarts
<1>5. CASE ResolvePortfolio(p)
  <2> DEFINE i == resolvePortfolioID(snap, t.fund)
             k == [t EXCEPT !.pc = "write", !.pid = i]
  <2>1. t.pc = "pid" /\ t.pc \in RecalcPCs \ {"sums"} /\ UNCHANGED <<txns, snap, ver>>
      BY <1>5 DEF ResolvePortfolio, RecalcPCs, store
  <2>2. proc' = [proc EXCEPT ![p] = k]
      BY <1>a, <1>5 DEF ResolvePortfolio
  <2> HIDE DEF i
  <2>3. /\ k.pc = "write" /\ k.fund = t.fund /\ k.ver = t.ver /\ k.mode = t.mode
        /\ k.nav = t.nav /\ k.eff = t.eff
      BY <1>1, <2>1 DEF RecalcTasks
  <2>4. t.ver = ver[t.fund] /\ t.mode = "full" /\ t.eff = t.nav
      BY <1>b, <2>1 DEF Knows
  <2> HIDE DEF k, t
  <2>5. Knows(k, txns, snap, ver')
      BY <2>1, <2>3, <2>4 DEF Knows
  <2> QED
      BY <2>1, <2>2, <2>5, AloneStarts
<1>6. CASE ReadExistingNav(p)
  <2> DEFINE n == snap[<<t.fund, t.pid>>].nav
             k == [t EXCEPT !.pc = "write", !.eff = n]
  <2>1. t.pc = "eff" /\ t.pc \in RecalcPCs \ {"sums"} /\ UNCHANGED <<txns, snap, ver>>
      BY <1>6 DEF ReadExistingNav, RecalcPCs, store
  <2>2. proc' = [proc EXCEPT ![p] = k]
      BY <1>a, <1>6 DEF ReadExistingNav
  <2>3. /\ k.pc = "write" /\ k.fund = t.fund /\ k.ver = t.ver /\ k.mode = t.mode
        /\ k.nav = t.nav /\ k.pid = t.pid /\ k.eff = snap[<<t.fund, t.pid>>].nav
      BY <1>1, <2>1 DEF RecalcTasks
  <2>4. t.ver = ver[t.fund] /\ t.mode = "light" /\ t.nav = 0
      BY <1>b, <2>1 DEF Knows
  <2> HIDE DEF k, t
  <2>5. Knows(k, txns, snap, ver')
      BY <2>1, <2>3, <2>4 DEF Knows
  <2> QED
      BY <2>1, <2>2, <2>5, AloneStarts
<1>7. CASE WriteUpdate(p)
  <2> DEFINE l == IF t.mode = "light" /\ t.nav = 0 THEN snap[<<t.fund, t.pid>>].nav
                  ELSE t.nav
             k == [t EXCEPT !.pc = "insert"]
  <2>1. t.pc = "write" /\ t.pc \in RecalcPCs \ {"sums"} /\ UNCHANGED <<txns, ver>>
      BY <1>7 DEF WriteUpdate, RecalcPCs
  <2>2. t.eff = l
      BY <1>b, <2>1 DEF Knows
  <2>3. CASE snap[<<t.fund, t.pid>>].present
    <3>1. /\ snap' = [snap EXCEPT ![<<t.fund, t.pid>>] = SnapRow(t.held, t.cost, l, t.eff)]
          /\ \E n \in NextTask(t) : proc' = [proc EXCEPT ![p] = n]
        BY <1>7, <2>3 DEF WriteUpdate
    <3> HIDE DEF l
    <3>2. PICK n \in NextTask(t) : proc' = [proc EXCEPT ![p] = n]
        BY <3>1
    <3>3. Valued(snap')
        BY <1>b, <2>2, <3>1, RowValued
    <3>4. Knows(n, txns', snap', ver') /\ \A r \in txns' : RowSigned(r)
        BY <1>2, <1>b, <2>1
    <3> QED
        BY <3>2, <3>3, <3>4, AloneFrame
  <2>4. CASE ~snap[<<t.fund, t.pid>>].present
    <3>1. proc' = [proc EXCEPT ![p] = k]
        BY <1>a, <1>7, <2>4 DEF WriteUpdate
    <3>2. UNCHANGED <<txns, snap, ver>>
        BY <1>7, <2>4 DEF WriteUpdate
    <3>3. /\ k.pc = "insert" /\ k.fund = t.fund /\ k.pid = t.pid /\ k.ver = t.ver
          /\ k.mode = t.mode /\ k.nav = t.nav /\ k.eff = t.eff
        BY <1>1, <2>1 DEF RecalcTasks
    <3>4. t.ver = ver[t.fund]
        BY <1>b, <2>1 DEF Knows
    <3> HIDE DEF k, t
    <3>5. Knows(k, txns, snap, ver')
        BY <2>2, <2>4, <3>2, <3>3, <3>4 DEF Knows, l
    <3> QED
        BY <3>1, <3>2, <3>5, AloneStarts
  <2> QED
      BY <2>3, <2>4
<1>8. CASE WriteInsert(p)
  <2> DEFINE conflict == \/ snap[<<t.fund, t.pid>>].present
                         \/ LegacyPK /\ \E i \in Pids : snap[<<t.fund, i>>].present
             k == [t EXCEPT !.pc = "write", !.tries = t.tries + 1]
  <2>1. t.pc = "insert" /\ t.pc \in RecalcPCs \ {"sums"} /\ UNCHANGED <<txns, ver>>
      BY <1>8 DEF WriteInsert, RecalcPCs
  <2>2. t.fund \in Funds /\ t.pid \in Pids
      BY <1>1, <2>1 DEF TaskOK, RecalcTasks
  <2>3. /\ t.ver = ver[t.fund]
        /\ IF t.mode = "light" /\ t.nav = 0 THEN t.eff = snap[<<t.fund, t.pid>>].nav
           ELSE t.eff = t.nav
      BY <1>b, <2>1 DEF Knows
  <2>4. \/ /\ ~conflict
           /\ snap' = [snap EXCEPT ![<<t.fund, t.pid>>] =
                          SnapRow(t.held, t.cost, t.nav, t.eff)]
           /\ \E n \in NextTask(t) : proc' = [proc EXCEPT ![p] = n]
        \/ proc' = [proc EXCEPT ![p] = k] /\ UNCHANGED snap
        \/ /\ \E n \in NextTask(t) : proc' = [proc EXCEPT ![p] = n]
           /\ UNCHANGED snap
      BY <1>a, <1>8 DEF WriteInsert
  <2>5. CASE /\ ~conflict
             /\ snap' = [snap EXCEPT ![<<t.fund, t.pid>>] =
                            SnapRow(t.held, t.cost, t.nav, t.eff)]
             /\ \E n \in NextTask(t) : proc' = [proc EXCEPT ![p] = n]
    <3>1. t.eff = t.nav
      <4>1. snap[<<t.fund, t.pid>>] = NoSnap
          BY <2>2, <2>5 DEF Base, SnapOK
      <4> QED
          BY <2>3, <4>1 DEF NoSnap
    <3>2. PICK n \in NextTask(t) : proc' = [proc EXCEPT ![p] = n]
        BY <2>5
    <3>3. Valued(snap')
        BY <1>b, <2>5, <3>1, RowValued
    <3>4. Knows(n, txns', snap', ver') /\ \A r \in txns' : RowSigned(r)
        BY <1>2, <1>b, <2>1
    <3> QED
        BY <3>2, <3>3, <3>4, AloneFrame
  <2>6. CASE proc' = [proc EXCEPT ![p] = k] /\ UNCHANGED snap
    <3>1. /\ k.pc = "write" /\ k.fund = t.fund /\ k.pid = t.pid /\ k.ver = t.ver
          /\ k.mode = t.mode /\ k.nav = t.nav /\ k.eff = t.eff
        BY <1>1, <2>1 DEF RecalcTasks
    <3> HIDE DEF k, t
    <3>2. Knows(k, txns, snap, ver')
        BY <2>1, <2>3, <3>1 DEF Knows
    <3>3. UNCHANGED <<txns, snap>>
        BY <2>1, <2>6
    <3> QED
        BY <2>6, <3>2, <3>3, AloneStarts
  <2>7. CASE /\ \E n \in NextTask(t) : proc' = [proc EXCEPT ![p] = n]
             /\ UNCHANGED snap
    <3>1. PICK n \in NextTask(t) : proc' = [proc EXCEPT ![p] = n]
        BY <2>7
    <3>2. UNCHANGED <<txns, snap>> /\ Knows(n, txns', snap', ver')
        BY <1>2, <2>1, <2>7
    <3>3. Knows(n, txns, snap, ver')
        BY <3>2
    <3> QED
        BY <3>1, <3>2, <3>3, AloneStarts
  <2> HIDE DEF conflict, k
  <2> QED
      BY <2>4, <2>5, <2>6, <2>7
<1>9. CASE Fail(p)
  <2>1. UNCHANGED <<txns, snap>>
      BY <1>9 DEF Fail, store
  <2>2. ASSUME NEW n, n = Idle \/ (t.pc \in RecalcPCs /\ n \in NextTask(t)),
               proc' = [proc EXCEPT ![p] = n]
        PROVE  AloneInv'
    <3>1. n.pc = "idle" \/ n.pc = "sums"
        BY <2>2, NextTakesOver DEF Idle
    <3>2. Knows(n, txns, snap, ver')
        BY <3>1, KnowsNothing
    <3> QED
        BY <2>1, <2>2, <3>2, AloneStarts
  <2>3. \/ proc' = [proc EXCEPT ![p] = Idle]
        \/ t.pc \in RecalcPCs /\ \E n \in NextTask(t) : proc' = [proc EXCEPT ![p] = n]
      BY <1>9 DEF Fail
  <2> HIDE DEF t
  <2> QED
      BY <2>2, <2>3
<1> QED
    BY <1>3, <1>4, <1>5, <1>6, <1>7, <1>8, <1>9 DEF Recalc

\* Every step of a lone request keeps it.
LEMMA AloneStep ==
    ASSUME Alone, Base, AloneInv, [Next]_vars
    PROVE  AloneInv'
<1>1. CASE UNCHANGED vars
    BY <1>1 DEF vars, AloneInv
<1>2. ASSUME Next PROVE AloneInv'
  <2>1. PICK p \in Procs : Procs = {p}
      BY DEF Alone
  <2> QED
      BY <1>2, <2>1, AloneEdits, AloneWriters, AloneRecalc DEF Next
<1> QED
    BY <1>1, <1>2

\* It holds at the start.
LEMMA AloneStart ==
    ASSUME Init
    PROVE  AloneInv
<1>1. \A p \in Procs : Knows(proc[p], txns, snap, ver)
  <2>1. \A p \in Procs : proc[p].pc = "idle"
      BY DEF Init, Idle
  <2> QED
      BY <2>1, KnowsNothing
<1>2. Valued(snap)
  <2>1. Value(0, 0) = 0
      BY DEF Value
  <2> QED
      BY <2>1 DEF Init, Valued, NoSnap
<1> QED
    BY <1>1, <1>2 DEF Init, AloneInv

\* SignedColumnsMatch, ValueMatchesNav and OrderFundUnique: while one request
\* runs at a time, whatever it imports, edits, adjusts, refreshes or fails at,
\* what is stored agrees with itself.
THEOREM StoredRowsAlwaysAgree ==
    ASSUME Alone, UniqueIndex
    PROVE  Spec => []StoredRowsAgree
<1>1. AloneInv => SignedColumnsMatch /\ ValueMatchesNav
    BY DEF AloneInv, RowSigned, SignedColumnsMatch, Valued, ValueMatchesNav
<1> QED
    BY <1>1, BaseInit, BaseStep, AloneStart, AloneStep, OrdersStayApart, PTL
    DEF Spec, StoredRowsAgree

\* Nothing is excused when one request runs at a time, one portfolio is in use
\* and no statement fails: a rebuild lands on the version it read, no row moves
\* under an update, and no insert conflicts.
LEMMA NothingExcused ==
    ASSUME Alone, Pids = {1}, "fail" \notin Ops, Base, AloneInv, excused = {}, [Next]_vars
    PROVE  excused' = {}
<1>1. CASE UNCHANGED vars
    BY <1>1 DEF vars
<1>2. PICK p \in Procs : Procs = {p}
    BY DEF Alone
<1> DEFINE t == proc[p]
<1>3. Knows(t, txns, snap, ver) /\ LedgerOK(txns, nextSeq) /\ ProcOK(t)
    BY DEF AloneInv, Base, ProcsOK
<1>4. ASSUME t.pc \in RecalcPCs \ {"sums"} PROVE Landed(t) = {}
  <2>1. t.ver = ver[t.fund]
      BY <1>3, <1>4 DEF Knows
  <2> QED
      BY <2>1 DEF Landed
<1>5. ASSUME t.pc = "update" \/ t.pc = "delete"
      PROVE  Strayed({c \in txns : c.seq = t.old.seq}, t.old) = {}
  <2>1. t.old \in txns
      BY <1>3, <1>5 DEF Knows
  <2>2. {c \in txns : c.seq = t.old.seq} = {t.old}
      BY <1>3, <2>1 DEF LedgerOK
  <2> QED
      BY <2>2 DEF Strayed
<1>6. CASE UpdateCommit(p)
  <2>1. /\ t.pc = "update"
        /\ \/ \E codes : excused' = (excused \cup Strayed({c \in txns : c.seq = t.old.seq},
                                                          t.old)) \ codes
           \/ excused' = excused
      BY <1>6 DEF UpdateCommit
  <2> QED
      BY <1>5, <2>1
<1>7. CASE DeleteCommit(p)
  <2>1. /\ t.pc = "delete"
        /\ excused' = (excused \cup Strayed({c \in txns : c.seq = t.old.seq}, t.old))
                         \ {t.old.fund}
      BY <1>7 DEF DeleteCommit
  <2> QED
      BY <1>5, <2>1
<1>8. CASE WriteUpdate(p)
  <2>1. t.pc \in RecalcPCs \ {"sums"} /\ (excused' = Landed(t) \/ excused' = excused)
      BY <1>8 DEF WriteUpdate, RecalcPCs
  <2> QED
      BY <1>4, <2>1
<1>9. CASE WriteInsert(p)
  <2>1. t.pc = "insert" /\ t.pc \in RecalcPCs \ {"sums"}
      BY <1>9 DEF WriteInsert, RecalcPCs
  <2>2. ~snap[<<t.fund, t.pid>>].present
      BY <1>3, <2>1 DEF Knows
  <2>3. t.pid = 1
    <3>1. TaskOK(t)
        BY <1>3, <2>1, ProcIs
    <3> QED
        BY <2>1, <3>1 DEF TaskOK
  <2>4. ~ \E i \in Pids : snap[<<t.fund, i>>].present
      BY <2>2, <2>3
  <2>5. excused' = Landed(t) \/ excused' = excused
      BY <1>9, <2>2, <2>4 DEF WriteInsert
  <2> QED
      BY <1>4, <2>1, <2>5
<1>10. ASSUME NEW b \in Imports, ImportTransactions(p, b) PROVE excused' = {}
    BY <1>10 DEF ImportTransactions
<1>11. ASSUME NEW f \in Funds,
              \/ DeleteSecurity(p, f) \/ UpsertSecurity(p, f)
              \/ \E n \in Navs : RefreshSecurity(p, f, n)
              \/ \E i \in Pids, n \in Targets : AdjustRead(p, f, i, n)
       PROVE  excused' = {}
    BY <1>11 DEF DeleteSecurity, UpsertSecurity, RefreshSecurity, AdjustRead
<1>12. ASSUME NEW r \in txns,
              DeleteRead(p, r) \/ \E u \in Updates : UpdateRead(p, r, u)
       PROVE  excused' = {}
    BY <1>12 DEF DeleteRead, UpdateRead
<1>13. CASE \/ AdjustInsert(p) \/ RecalcAllSnapshots(p)
            \/ \E o \in Orders, f \in Funds, i \in Pids, a \in DCAAmounts :
                  DCAMaterialize(p, o, f, i, a)
            \/ ReadSums(p) \/ ReadNav(p) \/ ResolvePortfolio(p) \/ ReadExistingNav(p)
    BY <1>13 DEF AdjustInsert, RecalcAllSnapshots, DCAMaterialize, ReadSums, ReadNav,
       ResolvePortfolio, ReadExistingNav
<1>14. ~Fail(p)
    BY DEF Fail
<1>15. ASSUME Next PROVE excused' = {}
    BY <1>2, <1>6, <1>7, <1>8, <1>9, <1>10, <1>11, <1>12, <1>13, <1>14, <1>15
    DEF Next, Recalc
<1> QED
    BY <1>1, <1>15

\* QuietMeansNoDrift (integrity.reconcileShareDrift, "so held_shares matches
\* the new ledger row"): one request at a time, one portfolio and no failing
\* statement, and between requests every stored position is what its
\* transactions add up to.
THEOREM QuietNeverDrifts ==
    ASSUME Alone, Pids = {1}, "fail" \notin Ops
    PROVE  Spec => []QuietMeansNoDrift
<1>1. OneRow
    BY DEF OneRow
<1>2. Base /\ DriftInv /\ excused = {} => QuietMeansNoDrift
  <2> SUFFICES ASSUME Base, DriftInv, excused = {}, Quiet, NEW f \in Funds
               PROVE  ~Drift(f) /\ ~CostDrift(f)
      BY DEF QuietMeansNoDrift
  <2>1. \A p \in Procs : ~InWork(proc[p], f)
      BY DEF Quiet, InWork, Idle, RecalcPCs
  <2>2. Synced(txns, snap, f)
      BY <2>1 DEF DriftInv
  <2> QED
      BY <2>2, SyncedNoDrift DEF DriftInv
<1>3. Init => excused = {}
    BY DEF Init
<1>4. Base /\ DriftInv /\ [Next]_vars => DriftInv'
    BY <1>1, DriftStep
<1>5. Base /\ AloneInv /\ excused = {} /\ [Next]_vars => (excused = {})'
    BY NothingExcused
<1>6. Base /\ AloneInv /\ [Next]_vars => AloneInv'
    BY AloneStep
<1> QED
    BY <1>2, <1>3, <1>4, <1>5, <1>6, BaseInit, BaseStep, DriftStart, AloneStart, PTL
    DEF Spec
=============================================================================
