------------------------------- MODULE Ledger -------------------------------
(***************************************************************************)
(* The trade ledger and the positions derived from it.                     *)
(*                                                                         *)
(* transactions is the source of truth; portfolio_snapshot is a stored     *)
(* projection of it that snapshot.recalc rebuilds, one row per fund and    *)
(* portfolio.  This module models every operation that writes either       *)
(* table, at the granularity of the SQL statements they issue: requests    *)
(* and jobs run concurrently over the one SQLite connection of             *)
(* repository/db, so a statement is atomic, a transaction (BeginTx to      *)
(* Commit) is atomic, and anything may happen between two statements that  *)
(* share no transaction.                                                   *)
(*                                                                         *)
(* Shares are integers in units of 1e-4 and money in cents, the precision  *)
(* snapshot.recalc settles to, so its rounding of a sum is the identity    *)
(* here; its dust rule is not, and is modelled.  Names, dates and the      *)
(* derived profit columns carry no control and are left out.               *)
(***************************************************************************)
EXTENDS Integers, Sequences, FiniteSets, FiniteSetsExt

CONSTANTS
    Procs,        \* concurrent requests and jobs
    Funds,        \* security codes
    Pids,         \* portfolio ids in use; 1 is the default portfolio
    Navs,         \* unit NAVs the price source may report
    Imports,      \* batches (sequences of items) a client may import
    Updates,      \* partial updates a client may send
    Targets,      \* share counts an adjust-position request may ask for
    Orders,       \* order ids of the DCA runs
    ClientOrders, \* order ids imported rows may carry
    DCAAmounts,   \* amounts of the DCA plans
    Dust,         \* HeldSharesDust, in share units
    UniqueIndex,  \* idx_transactions_order_fund_unique exists
    LegacyPK,     \* portfolio_snapshot is keyed by fund_code alone
    Keep,         \* "field absent from the request"
    Ops,          \* operations this deployment exercises
    MaxOps,       \* bound on operations started
    MaxSeq        \* bound on rows ever inserted

Dirs == {"buy", "sell", "dividend"}

\* What a client may send, before any check: an item to import and the
\* fields of an update.
Items ==
    [order : ClientOrders \cup {Keep}, fund : Funds, dir : STRING, amount : Int,
     share : Int, fee : Int, cash : Int \cup {Keep}, chg : Int \cup {Keep}]
Edits ==
    [fund : Funds \cup {Keep}, dir : STRING \cup {Keep}, amount : Int \cup {Keep},
     share : Int \cup {Keep}, fee : Int \cup {Keep}]

ASSUME LedgerAssumption ==
    /\ Pids \subseteq Nat \ {0} /\ 1 \in Pids /\ IsFiniteSet(Pids)
    /\ Navs \subseteq Nat \ {0}
    /\ Targets \subseteq Nat /\ DCAAmounts \subseteq Nat
    /\ Dust \in Nat \ {0}
    /\ UniqueIndex \in BOOLEAN /\ LegacyPK \in BOOLEAN
    /\ MaxOps \in Nat /\ MaxSeq \in Nat
    /\ Imports \subseteq Seq(Items) /\ Updates \subseteq Edits
    /\ \A o \in Orders \cup ClientOrders : o \notin Nat  \* seqs name the others

VARIABLES
    txns,     \* rows of transactions
    nextSeq,  \* AUTOINCREMENT of transactions.seq
    snap,     \* portfolio_snapshot, by <<fund_code, portfolio_id>>
    nav,      \* newest unit_nav of nav_history per fund, 0 when absent
    details,  \* fund codes in fund_details
    proc,     \* what each request or job is in the middle of
    ops,      \* operations started
    ver,      \* history: committed changes to each fund's ledger rows
    excused   \* history: funds whose projection was left to a lost race or
              \* a failed statement since it was last rebuilt

vars == <<txns, nextSeq, snap, nav, details, proc, ops, ver, excused>>
store == <<txns, nextSeq, snap, nav, details>>

NoSnap == [held |-> 0, cost |-> 0, nav |-> 0, value |-> 0, present |-> FALSE]
Idle == [pc |-> "idle"]

-----------------------------------------------------------------------------
(* The ledger and the pure part of a rebuild                               *)

RowsOf(t, f) == {r \in t : r.fund = f}
SharesIn(t, f) == SumFunction([r \in RowsOf(t, f) |-> r.chg])
CashIn(t, f) == SumFunction([r \in RowsOf(t, f) |-> r.cash])

\* A sum inside the dust band is no position.
Settle(shares) == IF -Dust < shares /\ shares < Dust THEN 0 ELSE shares

\* Valuation of a position; an empty position and a missing NAV are worth 0.
Value(held, unitNav) == held * unitNav

\* A value the client provides wins; fees are never negative here.
signedCashFlow(dir, amount, fee, provided) ==
    CASE provided # Keep -> provided
      [] dir = "buy"     -> -(amount + fee)
      [] dir = "sell"    -> amount - fee
      [] OTHER           -> amount

signedShareChange(dir, share, provided) ==
    CASE provided # Keep   -> provided
      [] dir = "dividend"  -> 0
      [] dir = "buy"       -> share
      [] OTHER             -> -share

\* math.Round(a / b) for a >= 0, b > 0.
RoundDiv(a, b) == (2 * a + b) \div (2 * b)

\* A trade without provided signed values.
Trade(f, dir, amount, share, fee) ==
    [fund |-> f, dir |-> dir, amount |-> amount, share |-> share, fee |-> fee,
     cash |-> Keep, chg |-> Keep]

\* Its row; given marks (history) signed values the client provided.
Row(seq, order, i) ==
    [seq |-> seq, order |-> order, fund |-> i.fund, dir |-> i.dir,
     amount |-> i.amount, share |-> i.share, fee |-> i.fee,
     cash |-> signedCashFlow(i.dir, i.amount, i.fee, i.cash),
     chg |-> signedShareChange(i.dir, i.share, i.chg),
     given |-> {i.cash, i.chg} # {Keep}]

\* The NOT EXISTS guard every insert into transactions carries.
Exists(t, order, f) == \E r \in t : r.order = order /\ r.fund = f

\* The existing row with the smallest portfolio id, else portfolio 1.
resolvePortfolioID(sn, f) ==
    LET present == {i \in Pids : sn[<<f, i>>].present}
    IN  IF present = {} THEN 1 ELSE Min(present)

SnapRow(held, cost, latest, eff) ==
    [held |-> held, cost |-> cost, nav |-> latest,
     value |-> Value(held, eff), present |-> TRUE]

\* A ModeFull rebuild of every fund in codes inside one transaction over
\* the ledger t.
RecalcTx(t, codes) ==
    [k \in Funds \X Pids |->
        IF k[1] \in codes /\ k[2] = resolvePortfolioID(snap, k[1])
        THEN SnapRow(Settle(SharesIn(t, k[1])), CashIn(t, k[1]),
                     nav[k[1]], nav[k[1]])
        ELSE snap[k]]

Changed(t) == {f \in Funds : RowsOf(t, f) # RowsOf(txns, f)}
Bump(t) == [f \in Funds |-> IF f \in Changed(t) THEN ver[f] + 1 ELSE ver[f]]

\* A rebuild in its own statements: what recalc carries from one to the next.
Begin(f, pid, mode, todo) ==
    [pc |-> "sums", fund |-> f, pid |-> pid, mode |-> mode, held |-> 0,
     cost |-> 0, nav |-> 0, eff |-> 0, tries |-> 0, ver |-> 0, todo |-> todo]

RecalcPCs == {"sums", "nav", "pid", "eff", "write", "insert"}
Rebuilding(p, f) ==
    /\ proc[p].pc \in RecalcPCs
    /\ \/ proc[p].fund = f
       \/ f \in proc[p].todo

Starts(p, op) ==
    /\ op \in Ops
    /\ proc[p] = Idle
    /\ ops < MaxOps
    /\ ops' = ops + 1

-----------------------------------------------------------------------------
(* Writers that rebuild inside their own transaction                       *)

\* Mutant of ValidItem: an unknown direction gets through.
ValidItemAnyDir(i) ==
    /\ i.amount > 0 /\ i.fee >= 0
    /\ i.dir \in {"buy", "sell"} => i.share > 0

\* normalizeImportTransaction's checks, on what the model keeps of an item.
ValidItem(i) ==
    /\ i.dir \in Dirs
    /\ i.amount > 0 /\ i.fee >= 0
    /\ i.dir \in {"buy", "sell"} => i.share > 0

\* One row of the batch: inserted unless its order is known for this fund.
\* A blank order id becomes a fresh one, named here by the row's seq.
ImportItem(acc, i) ==
    LET order == IF i.order = Keep THEN acc.next ELSE i.order
    IN  IF Exists(acc.txns, order, i.fund) THEN acc
        ELSE [txns |-> acc.txns \cup {Row(acc.next, order, i)},
              next |-> acc.next + 1,
              affected |-> acc.affected \cup {i.fund}]

ImportBatch(batch) ==
    LET done[n \in 0..Len(batch)] ==
          IF n = 0 THEN [txns |-> txns, next |-> nextSeq, affected |-> {}]
          ELSE ImportItem(done[n - 1], batch[n])
    IN  done[Len(batch)]

\* One bad item rolls the whole batch back.
ImportTransactions(p, batch) ==
    LET done == ImportBatch(batch) IN
    /\ Starts(p, "import")
    /\ nextSeq + Len(batch) <= MaxSeq + 1
    /\ \/ /\ \A n \in 1..Len(batch) : ValidItem(batch[n])
          /\ txns' = done.txns
          /\ nextSeq' = done.next
          /\ snap' = RecalcTx(done.txns, done.affected)
          /\ ver' = Bump(done.txns)
          /\ excused' = excused \ done.affected
       \/ /\ \E n \in 1..Len(batch) : ~ValidItem(batch[n])
          /\ UNCHANGED <<txns, nextSeq, snap, ver, excused>>
    /\ UNCHANGED <<nav, details, proc>>

Pick(new, old) == IF new = Keep THEN old ELSE new

\* The row an update describes, on top of the row r that was read.
Applied(u, r) ==
    Row(r.seq, r.order,
        Trade(Pick(u.fund, r.fund), Pick(u.dir, r.dir),
              Pick(u.amount, r.amount), Pick(u.share, r.share),
              Pick(u.fee, r.fee)))

ValidUpdate(u, r) ==
    /\ u # [fund |-> Keep, dir |-> Keep, amount |-> Keep, share |-> Keep,
            fee |-> Keep]
    /\ u.dir # Keep => u.dir \in Dirs
    /\ u.amount # Keep => u.amount > 0
    /\ u.fee # Keep => u.fee >= 0
    /\ Applied(u, r).dir \in {"buy", "sell"} => Applied(u, r).share > 0

\* UpdateTransaction reads and validates the row before its transaction.
UpdateRead(p, r, u) ==
    /\ Starts(p, "update")
    /\ ValidUpdate(u, r)
    /\ proc' = [proc EXCEPT ![p] = [pc |-> "update", old |-> r, upd |-> u]]
    /\ UNCHANGED <<store, ver, excused>>

\* Mutant of UpdatedRow: the signed columns keep their old values.
UpdatedRowSignsKept(c, u, r) ==
    [c EXCEPT !.fund = Pick(u.fund, c.fund), !.dir = Pick(u.dir, c.dir),
              !.amount = Pick(u.amount, c.amount),
              !.share = Pick(u.share, c.share), !.fee = Pick(u.fee, c.fee)]

\* UPDATE sets the named columns of whatever row now has the seq, and the
\* signed columns computed from the row that was read.
UpdatedRow(c, u, r) ==
    [c EXCEPT !.fund = Pick(u.fund, c.fund), !.dir = Pick(u.dir, c.dir),
              !.amount = Pick(u.amount, c.amount),
              !.share = Pick(u.share, c.share), !.fee = Pick(u.fee, c.fee),
              !.cash = Applied(u, r).cash, !.chg = Applied(u, r).chg,
              !.given = FALSE]

\* Mutant of UpdateRecalcs: the fund a row moves away from is forgotten.
UpdateRecalcsNewOnly(u, r) == {Applied(u, r).fund}

\* The funds UpdateTransaction rebuilds: the new code and the one it read.
UpdateRecalcs(u, r) == {Applied(u, r).fund, r.fund}

\* The fund a row has moved to since it was read, which nobody rebuilds.
Strayed(hit, r) == {c.fund : c \in hit} \ {r.fund}

UpdateCommit(p) ==
    /\ proc[p].pc = "update"
    /\ LET r == proc[p].old
           u == proc[p].upd
           hit == {c \in txns : c.seq = r.seq}
           t == (txns \ hit) \cup {UpdatedRow(c, u, r) : c \in hit}
           codes == UpdateRecalcs(u, r)
           clash == \E c \in hit : \E d \in txns \ hit :
                       /\ d.order = c.order
                       /\ d.fund = UpdatedRow(c, u, r).fund
       IN  \/ /\ ~(UniqueIndex /\ clash)
              /\ txns' = t
              /\ snap' = RecalcTx(t, codes)
              /\ ver' = Bump(t)
              /\ excused' = (excused \cup Strayed(hit, r)) \ codes
           \/ /\ UniqueIndex /\ clash
              /\ UNCHANGED <<txns, snap, ver, excused>>
    /\ proc' = [proc EXCEPT ![p] = Idle]
    /\ UNCHANGED <<nextSeq, nav, details, ops>>

\* DeleteTransaction, likewise reading its row before its transaction.
DeleteRead(p, r) ==
    /\ Starts(p, "delete")
    /\ proc' = [proc EXCEPT ![p] = [pc |-> "delete", old |-> r]]
    /\ UNCHANGED <<store, ver, excused>>

DeleteCommit(p) ==
    /\ proc[p].pc = "delete"
    /\ LET r == proc[p].old
           hit == {c \in txns : c.seq = r.seq}
           t == txns \ hit
       IN  /\ txns' = t
           /\ snap' = RecalcTx(t, {r.fund})
           /\ ver' = Bump(t)
           /\ excused' = (excused \cup Strayed(hit, r)) \ {r.fund}
    /\ proc' = [proc EXCEPT ![p] = Idle]
    /\ UNCHANGED <<nextSeq, nav, details, ops>>

\* DeleteSecurity cascades over every table that mentions the code.
DeleteSecurity(p, f) ==
    /\ Starts(p, "drop_security")
    /\ LET t == txns \ RowsOf(txns, f) IN txns' = t /\ ver' = Bump(t)
    /\ snap' = [k \in Funds \X Pids |-> IF k[1] = f THEN NoSnap ELSE snap[k]]
    /\ nav' = [nav EXCEPT ![f] = 0]
    /\ details' = details \ {f}
    /\ excused' = excused \ {f}
    /\ UNCHANGED <<nextSeq, proc>>

UpsertSecurity(p, f) ==
    /\ Starts(p, "add_security")
    /\ f \notin details
    /\ details' = details \cup {f}
    /\ UNCHANGED <<txns, nextSeq, snap, nav, proc, ver, excused>>

-----------------------------------------------------------------------------
(* Writers that rebuild after the fact, outside any transaction            *)

AdjustTarget(n) == IF n > 0 /\ n < Dust THEN 0 ELSE n

Abs(n) == IF n < 0 THEN -n ELSE n

\* AdjustPosition up to the SUM it balances against.
AdjustRead(p, f, pid, n) ==
    /\ Starts(p, "adjust")
    /\ f \in details
    /\ LET delta == AdjustTarget(n) - SharesIn(txns, f)
       IN  proc' = [proc EXCEPT ![p] =
                IF Abs(delta) < Dust THEN Begin(f, pid, "light", {})
                ELSE [pc |-> "adjust", fund |-> f, pid |-> pid,
                      delta |-> delta]]
    /\ UNCHANGED <<store, ver, excused>>

\* Mutant of AdjustInsert: the balancing row without its rebuild.
AdjustInsertOnly(p) ==
    /\ proc[p].pc = "adjust"
    /\ nextSeq <= MaxSeq
    /\ LET d == proc[p].delta
           row == Row(nextSeq, nextSeq,
                      Trade(proc[p].fund, IF d < 0 THEN "sell" ELSE "buy",
                            0, Abs(d), 0))
       IN  txns' = txns \cup {row} /\ ver' = Bump(txns \cup {row})
    /\ nextSeq' = nextSeq + 1
    /\ proc' = [proc EXCEPT ![p] = Idle]
    /\ UNCHANGED <<snap, nav, details, ops, excused>>

\* The balancing row, in a statement of its own, then the rebuild.  The
\* verifying SELECT that follows only chooses the reply.
AdjustInsert(p) ==
    /\ proc[p].pc = "adjust"
    /\ nextSeq <= MaxSeq
    /\ LET d == proc[p].delta
           row == Row(nextSeq, nextSeq,
                      Trade(proc[p].fund, IF d < 0 THEN "sell" ELSE "buy",
                            0, Abs(d), 0))
       IN  txns' = txns \cup {row} /\ ver' = Bump(txns \cup {row})
    /\ nextSeq' = nextSeq + 1
    /\ proc' = [proc EXCEPT ![p] =
                   Begin(proc[p].fund, proc[p].pid, "light", {})]
    /\ UNCHANGED <<snap, nav, details, ops, excused>>

\* The materializing transaction of RunDCAAutoInvest, then the rebuild.
DCAMaterialize(p, order, f, pid, amount) ==
    /\ Starts(p, "dca")
    /\ nextSeq <= MaxSeq
    /\ nav[f] > 0
    /\ ~Exists(txns, order, f)
    /\ LET row == Row(nextSeq, order,
                      Trade(f, "buy", amount, RoundDiv(amount, nav[f]), 0))
       IN  txns' = txns \cup {row} /\ ver' = Bump(txns \cup {row})
    /\ nextSeq' = nextSeq + 1
    /\ proc' = [proc EXCEPT ![p] = Begin(f, pid, "light", {})]
    /\ UNCHANGED <<snap, nav, details, excused>>

\* RefreshSecurity: the nav_history transaction, then the rebuild.
RefreshSecurity(p, f, n) ==
    /\ Starts(p, "refresh")
    /\ nav' = [nav EXCEPT ![f] = n]
    /\ proc' = [proc EXCEPT ![p] = Begin(f, 0, "full", {})]
    /\ UNCHANGED <<txns, nextSeq, snap, details, ver, excused>>

\* RecalcAllSnapshots: the funds of the ledger, one rebuild after another.
RecalcAllSnapshots(p) ==
    LET codes == {r.fund : r \in txns} IN
    /\ Starts(p, "recalc_all")
    /\ \E f \in codes :
          proc' = [proc EXCEPT ![p] = Begin(f, 0, "full", codes \ {f})]
    /\ UNCHANGED <<store, ver, excused>>

-----------------------------------------------------------------------------
(* snapshot.recalc, statement by statement                                 *)

ReadSums(p) ==
    /\ proc[p].pc = "sums"
    /\ LET f == proc[p].fund
       IN  proc' = [proc EXCEPT ![p].pc = "nav",
                                ![p].held = Settle(SharesIn(txns, f)),
                                ![p].cost = CashIn(txns, f),
                                ![p].ver = ver[f]]
    /\ UNCHANGED <<store, ops, ver, excused>>

ReadNav(p) ==
    /\ proc[p].pc = "nav"
    /\ LET n == nav[proc[p].fund]
       IN  proc' = [proc EXCEPT
                ![p].nav = n, ![p].eff = n,
                ![p].pc = CASE proc[p].mode = "full" -> "pid"
                            [] proc[p].mode = "light" /\ n = 0 -> "eff"
                            [] OTHER -> "write"]
    /\ UNCHANGED <<store, ops, ver, excused>>

ResolvePortfolio(p) ==
    /\ proc[p].pc = "pid"
    /\ proc' = [proc EXCEPT ![p].pc = "write",
                            ![p].pid = resolvePortfolioID(snap, proc[p].fund)]
    /\ UNCHANGED <<store, ops, ver, excused>>

\* ModeLight without a NAV values the position at the NAV on the row.
ReadExistingNav(p) ==
    /\ proc[p].pc = "eff"
    /\ proc' = [proc EXCEPT ![p].pc = "write",
                            ![p].eff = snap[<<proc[p].fund, proc[p].pid>>].nav]
    /\ UNCHANGED <<store, ops, ver, excused>>

\* The next rebuild of the batch, or the end of the request.
NextTask(t) ==
    IF t.todo = {} THEN {Idle}
    ELSE {Begin(f, 0, "full", t.todo \ {f}) : f \in t.todo}

Landed(t) == IF t.ver = ver[t.fund] THEN excused \ {t.fund}
             ELSE excused \cup {t.fund}

WriteUpdate(p) ==
    /\ proc[p].pc = "write"
    /\ LET t == proc[p]
           k == <<t.fund, t.pid>>
       IN  \/ /\ snap[k].present
              /\ snap' = [snap EXCEPT ![k] =
                    SnapRow(t.held, t.cost,
                            IF t.mode = "light" /\ t.nav = 0 THEN snap[k].nav
                            ELSE t.nav,
                            t.eff)]
              /\ excused' = Landed(t)
              /\ \E n \in NextTask(t) : proc' = [proc EXCEPT ![p] = n]
           \/ /\ ~snap[k].present
              /\ proc' = [proc EXCEPT ![p].pc = "insert"]
              /\ UNCHANGED <<snap, excused>>
    /\ UNCHANGED <<txns, nextSeq, nav, details, ops, ver>>

maxSnapshotWriteRetries == 3

\* A row that appeared meanwhile (or, under the legacy key, one of another
\* portfolio) is a unique violation: back to the UPDATE, at most three times.
WriteInsert(p) ==
    /\ proc[p].pc = "insert"
    /\ LET t == proc[p]
           k == <<t.fund, t.pid>>
           conflict == \/ snap[k].present
                       \/ LegacyPK /\ \E i \in Pids : snap[<<t.fund, i>>].present
       IN  \/ /\ ~conflict
              /\ snap' = [snap EXCEPT ![k] = SnapRow(t.held, t.cost, t.nav, t.eff)]
              /\ excused' = Landed(t)
              /\ \E n \in NextTask(t) : proc' = [proc EXCEPT ![p] = n]
           \/ /\ conflict /\ t.tries < maxSnapshotWriteRetries - 1
              /\ proc' = [proc EXCEPT ![p].pc = "write", ![p].tries = t.tries + 1]
              /\ UNCHANGED <<snap, excused>>
           \/ /\ conflict /\ t.tries >= maxSnapshotWriteRetries - 1
              /\ excused' = excused \cup {t.fund}
              /\ \E n \in NextTask(t) : proc' = [proc EXCEPT ![p] = n]
              /\ UNCHANGED snap
    /\ UNCHANGED <<txns, nextSeq, nav, details, ops, ver>>

\* A statement fails, the request is cancelled or the process dies: a batch
\* goes on with its next fund or stops, anything else is abandoned.
Fail(p) ==
    /\ "fail" \in Ops
    /\ proc[p] # Idle
    /\ IF proc[p].pc \in RecalcPCs
       THEN \/ /\ excused' = excused \cup {proc[p].fund}
               /\ \E n \in NextTask(proc[p]) : proc' = [proc EXCEPT ![p] = n]
            \/ /\ excused' = excused \cup {proc[p].fund} \cup proc[p].todo
               /\ proc' = [proc EXCEPT ![p] = Idle]
       ELSE /\ proc' = [proc EXCEPT ![p] = Idle]
            /\ UNCHANGED excused
    /\ UNCHANGED <<store, ops, ver>>

-----------------------------------------------------------------------------

Init ==
    /\ txns = {} /\ nextSeq = 1
    /\ snap = [k \in Funds \X Pids |-> NoSnap]
    /\ nav = [f \in Funds |-> 0]
    /\ details \in SUBSET Funds
    /\ proc = [p \in Procs |-> Idle]
    /\ ops = 0
    /\ ver = [f \in Funds |-> 0]
    /\ excused = {}

Recalc(p) ==
    \/ ReadSums(p) \/ ReadNav(p) \/ ResolvePortfolio(p) \/ ReadExistingNav(p)
    \/ WriteUpdate(p) \/ WriteInsert(p)

Next ==
    \E p \in Procs :
        \/ \E b \in Imports : ImportTransactions(p, b)
        \/ \E r \in txns, u \in Updates : UpdateRead(p, r, u)
        \/ UpdateCommit(p)
        \/ \E r \in txns : DeleteRead(p, r)
        \/ DeleteCommit(p)
        \/ \E f \in Funds : DeleteSecurity(p, f) \/ UpsertSecurity(p, f)
        \/ \E f \in Funds, i \in Pids, n \in Targets : AdjustRead(p, f, i, n)
        \/ AdjustInsert(p)
        \/ \E o \in Orders, f \in Funds, i \in Pids, a \in DCAAmounts :
              DCAMaterialize(p, o, f, i, a)
        \/ \E f \in Funds, n \in Navs : RefreshSecurity(p, f, n)
        \/ RecalcAllSnapshots(p)
        \/ Recalc(p)
        \/ Fail(p)

Spec == Init /\ [][Next]_vars

-----------------------------------------------------------------------------
(* Properties                                                              *)

SnapRows == [held : Int, cost : Int, nav : Nat, value : Int, present : BOOLEAN]

RecalcTasks ==
    [pc : RecalcPCs, fund : Funds, pid : Pids \cup {0},
     mode : {"full", "light"}, held : Int, cost : Int, nav : Nat, eff : Nat,
     tries : 0..maxSnapshotWriteRetries, ver : Nat, todo : SUBSET Funds]

\* Every table and every request in flight has its type.
TypeOK ==
    /\ \A r \in txns : /\ r.seq \in 1..(nextSeq - 1) /\ r.fund \in Funds
                       /\ r.dir \in Dirs /\ r.chg \in Int /\ r.cash \in Int
    /\ nextSeq \in 1..(MaxSeq + 1)
    /\ snap \in [Funds \X Pids -> SnapRows]
    /\ nav \in [Funds -> Navs \cup {0}]
    /\ details \subseteq Funds
    /\ \A p \in Procs : \/ proc[p].pc \in {"idle", "update", "delete", "adjust"}
                        \/ proc[p] \in RecalcTasks
    /\ ops \in 0..MaxOps
    /\ ver \in [Funds -> Nat]
    /\ excused \subseteq Funds

\* What integrity.reconcileShareDrift reports: the ledger's shares of a fund
\* against the held shares summed over its snapshot rows, beyond the dust.
Drift(f) ==
    Abs(SharesIn(txns, f)
          - SumFunction([i \in Pids |-> snap[<<f, i>>].held])) > Dust

\* The cost column of the row a rebuild resolves to, against the ledger.
CostDrift(f) ==
    LET row == snap[<<f, resolvePortfolioID(snap, f)>>]
    IN  row.cost # CashIn(txns, f)

Quiet == \A p \in Procs : proc[p] = Idle

\* With no request in flight the stored position of every fund is what its
\* transactions add up to: "so held_shares matches the new ledger row"
\* (AdjustPosition) and the check reconcileShareDrift runs.
QuietMeansNoDrift == Quiet => \A f \in Funds : ~Drift(f) /\ ~CostDrift(f)

\* Any drift has one of the causes the code leaves open: a rebuild of the
\* fund is still to come, or the fund was excused, that is, a rebuild landed
\* after the ledger had moved on, a statement of it failed, or an update or
\* delete rebuilt the code it had read while the row had moved to another.
DriftHasCause ==
    \A f \in Funds :
        (Drift(f) \/ CostDrift(f))
            => f \in excused \/ \E p \in Procs : Rebuilding(p, f)

\* The signed columns follow the direction, amount, share and fee of their
\* own row ("buy = -(amount+fee), sell = amount-fee, dividend = amount"),
\* unless the client provided them.
SignedColumnsMatch ==
    \A r \in txns : ~r.given =>
        /\ r.cash = signedCashFlow(r.dir, r.amount, r.fee, Keep)
        /\ r.chg = signedShareChange(r.dir, r.share, Keep)

\* A stored row never shows a NAV its value was not computed from.
ValueMatchesNav ==
    \A k \in Funds \X Pids : snap[k].value = Value(snap[k].held, snap[k].nav)

\* Two rows never share an order id and a fund, which is what the unique
\* index and the NOT EXISTS guards promise each other.
OrderFundUnique ==
    \A r, s \in txns : r.order = s.order /\ r.fund = s.fund => r = s

\* What is stored agrees with itself through every edit, import, adjust and
\* refresh: signed columns with their row, values with their NAV, and one row
\* per order and fund.
StoredRowsAgree == SignedColumnsMatch /\ ValueMatchesNav /\ OrderFundUnique
=============================================================================
