-------------------------------- MODULE DCA --------------------------------
(***************************************************************************)
(* RunDCAAutoInvest: due auto-invest plans become buy rows of the ledger.  *)
(*                                                                         *)
(* The 20:00 job, the morning backfill, the startup catch-up and manual    *)
(* calls run the same function at the same time, for dates that overlap,   *)
(* while users edit plans, delete and move transactions and drop           *)
(* securities.  The function loads the plans once, then checks each for an *)
(* earlier execution and materializes it in a transaction of its own.      *)
(*                                                                         *)
(* Every step is one SQL statement.  On SQLite the pool has one connection *)
(* (OneConn), which an open transaction keeps; on PostgreSQL the           *)
(* statements of other sessions go on meanwhile and see committed rows     *)
(* only.  An order id is DCA-<plan>-<date>, so a plan and a date stand for *)
(* it.  Amounts and the rebuild that follows a commit are module Ledger's; *)
(* the start, end and weekday gates of a plan are the set of dates they    *)
(* let through.                                                            *)
(***************************************************************************)
EXTENDS Integers

CONSTANTS
    Runs,          \* concurrent callers of RunDCAAutoInvest
    Funds,         \* security codes
    Dates,         \* due dates
    OneConn,       \* SQLite: MaxOpenConns(1)
    UniqueIndex,   \* idx_transactions_order_fund_unique exists
    Ops,           \* user operations this deployment exercises
    MaxPlans,      \* bound on plans ever created
    MaxRuns,       \* bound on runs started
    MaxEdits,      \* bound on user operations
    None           \* the value of a local that is not set

PlanIds == 1..MaxPlans
Plans == [id : PlanIds, fund : Funds, due : SUBSET Dates, active : BOOLEAN]

ASSUME DCAAssumption ==
    /\ OneConn \in BOOLEAN /\ UniqueIndex \in BOOLEAN
    /\ MaxPlans \in Nat /\ MaxRuns \in Nat /\ MaxEdits \in Nat
    /\ None \notin Plans /\ None \notin Dates

VARIABLES
    plans,     \* rows of dca_plans
    nextPlan,  \* its AUTOINCREMENT
    txns,      \* the DCA rows of transactions
    nextSeq,   \* their AUTOINCREMENT
    execs,     \* rows of dca_plan_executions
    hasNav,    \* funds with a positive unit NAV in nav_history
    pc, asOf, dryRun, todo, item,   \* the locals of each run
    starts, edits,                  \* counters of the bounds
    bought,    \* history: every row a run ever committed
    reported   \* history: orders a run called executed or a duplicate

db == <<plans, nextPlan, txns, nextSeq, execs, hasNav>>
locals == <<asOf, dryRun>>
history == <<bought, reported>>
vars == <<db, pc, asOf, dryRun, todo, item, starts, edits, history>>

-----------------------------------------------------------------------------

\* What the materializing transaction inserts for plan p on date d.
Buy(seq, p, d) == [seq |-> seq, plan |-> p.id, date |-> d, fund |-> p.fund]
Execution(p, d) == [plan |-> p.id, date |-> d, fund |-> p.fund]

\* SELECT COUNT(1) FROM transactions WHERE order_id = ? AND fund_code = ?
OrderExists(p, d) ==
    \E t \in txns : t.plan = p.id /\ t.date = d /\ t.fund = p.fund

\* Mutant of ExecutionExists: the ledger is not consulted.
ExecutionUnchecked(p, d) == FALSE

\* The execution ledger.  Build creates the table before anything runs, so
\* the branches for a missing one do not arise.
ExecutionExists(p, d) == \E e \in execs : e.plan = p.id /\ e.date = d

\* Inside the transaction, with its insert not yet (index) or already made.
TxPCs == {"index", "ledger"}

\* Whether a statement outside r's transaction finds a connection.
Connection(r) == OneConn => \A q \in Runs \ {r} : pc[q] \notin TxPCs
UserConnection == OneConn => \A q \in Runs : pc[q] \notin TxPCs

\* Another session's uncommitted row for plan i on date d in fund f.
Uncommitted(q, i, d, f) ==
    /\ pc[q] = "ledger"
    /\ item[q].id = i /\ asOf[q] = d /\ item[q].fund = f

-----------------------------------------------------------------------------
(* A run                                                                   *)

\* SELECT the active plans (PlanID, FundCode and PortfolioID narrow them)
\* and drain the cursor, which releases the connection.
LoadPlans(r, d, dry, want) ==
    /\ pc[r] = "idle" /\ Connection(r)
    /\ starts < MaxRuns /\ starts' = starts + 1
    /\ pc' = [pc EXCEPT ![r] = "next"]
    /\ asOf' = [asOf EXCEPT ![r] = d]
    /\ dryRun' = [dryRun EXCEPT ![r] = dry]
    /\ todo' = [todo EXCEPT ![r] = {p \in plans : p.active /\ p.id \in want}]
    /\ UNCHANGED <<db, item, edits, history>>

\* The end of a call, and of its locals.
Return(r) ==
    /\ pc' = [pc EXCEPT ![r] = "idle"]
    /\ asOf' = [asOf EXCEPT ![r] = None]
    /\ dryRun' = [dryRun EXCEPT ![r] = FALSE]
    /\ todo' = [todo EXCEPT ![r] = {}]
    /\ item' = [item EXCEPT ![r] = None]
    /\ UNCHANGED <<db, starts, edits, history>>

\* The loop head: ORDER BY id, then the date and weekday gates.
NextPlan(r) ==
    /\ pc[r] = "next"
    /\ \E p \in todo[r] :
          /\ \A q \in todo[r] : p.id <= q.id
          /\ todo' = [todo EXCEPT ![r] = @ \ {p}]
          /\ IF asOf[r] \in p.due
             THEN /\ item' = [item EXCEPT ![r] = p]
                  /\ pc' = [pc EXCEPT ![r] = "nav"]
             ELSE UNCHANGED <<item, pc>>
    /\ UNCHANGED <<db, locals, starts, edits, history>>

RunReturns(r) == pc[r] = "next" /\ todo[r] = {} /\ Return(r)

Goto(r, label) ==
    /\ pc' = [pc EXCEPT ![r] = label]
    /\ item' = IF label = "next" THEN [item EXCEPT ![r] = None] ELSE item
    /\ UNCHANGED <<db, locals, todo, starts, edits>>

Report(r) == reported' = reported \cup {<<item[r].id, asOf[r]>>}

\* Mutant of ReadNav: a plan without a NAV is waited for.
ReadNavWaits(r) ==
    /\ pc[r] = "nav" /\ Connection(r)
    /\ Goto(r, IF item[r].fund \in hasNav THEN "orders" ELSE "nav")
    /\ UNCHANGED history

\* Without a NAV the plan is skipped.
ReadNav(r) ==
    /\ pc[r] = "nav" /\ Connection(r)
    /\ Goto(r, IF item[r].fund \in hasNav THEN "orders" ELSE "next")
    /\ UNCHANGED history

CheckOrder(r) ==
    /\ pc[r] = "orders" /\ Connection(r)
    /\ \/ /\ OrderExists(item[r], asOf[r])
          /\ Goto(r, "next") /\ Report(r)
       \/ /\ ~OrderExists(item[r], asOf[r])
          /\ Goto(r, "execs") /\ UNCHANGED reported
    /\ UNCHANGED bought

\* A dry run stops at the preview.
CheckExecution(r) ==
    /\ pc[r] = "execs" /\ Connection(r)
    /\ \/ /\ ExecutionExists(item[r], asOf[r])
          /\ Goto(r, "next") /\ Report(r)
       \/ /\ ~ExecutionExists(item[r], asOf[r])
          /\ Goto(r, IF dryRun[r] THEN "next" ELSE "claim")
          /\ UNCHANGED reported
    /\ UNCHANGED bought

\* BeginTx and the INSERT's NOT EXISTS; no row affected is a duplicate.
Claim(r) ==
    /\ pc[r] = "claim" /\ Connection(r)
    /\ \/ /\ OrderExists(item[r], asOf[r])
          /\ Goto(r, "next") /\ Report(r)
       \/ /\ ~OrderExists(item[r], asOf[r])
          /\ Goto(r, "index") /\ UNCHANGED reported
    /\ UNCHANGED bought

\* Mutant of InsertRow: no unique index stands behind the INSERT.
InsertRowUnindexed(r) ==
    /\ pc[r] = "index"
    /\ Goto(r, "ledger")
    /\ UNCHANGED history

\* The INSERT itself.  The unique index makes it wait for an uncommitted
\* row of the same order and fund, and fail on a committed one.
InsertRow(r) ==
    /\ pc[r] = "index"
    /\ \/ /\ UniqueIndex
          /\ \A q \in Runs \ {r} :
                ~Uncommitted(q, item[r].id, asOf[r], item[r].fund)
          /\ Goto(r, IF OrderExists(item[r], asOf[r]) THEN "next" ELSE "ledger")
       \/ /\ ~UniqueIndex
          /\ Goto(r, "ledger")
    /\ UNCHANGED history

\* Mutant of CommitBuy: the execution is not recorded.
CommitBuyUnrecorded(r) ==
    LET row == Buy(nextSeq, item[r], asOf[r]) IN
    /\ pc[r] = "ledger"
    /\ pc' = [pc EXCEPT ![r] = "next"]
    /\ item' = [item EXCEPT ![r] = None]
    /\ txns' = txns \cup {row}
    /\ nextSeq' = nextSeq + 1
    /\ bought' = bought \cup {row}
    /\ Report(r)
    /\ UNCHANGED <<plans, nextPlan, execs, hasNav, locals, todo, starts, edits>>

\* recordDCAPlanExecutionTx and Commit make both rows visible at once.
CommitBuy(r) ==
    LET row == Buy(nextSeq, item[r], asOf[r]) IN
    /\ pc[r] = "ledger"
    /\ pc' = [pc EXCEPT ![r] = "next"]
    /\ item' = [item EXCEPT ![r] = None]
    /\ txns' = txns \cup {row}
    /\ nextSeq' = nextSeq + 1
    /\ execs' = execs \cup {Execution(item[r], asOf[r])}
    /\ bought' = bought \cup {row}
    /\ Report(r)
    /\ UNCHANGED <<plans, nextPlan, hasNav, locals, todo, starts, edits>>

\* Mutant of PlanFails: a rolled-back plan is reported as executed.
PlanFailsReported(r) ==
    /\ pc[r] \in {"nav", "claim"} \cup TxPCs
    /\ Goto(r, "next") /\ Report(r)
    /\ UNCHANGED bought

\* A failed NAV read or a failed transaction (rolled back) is an error of
\* its plan; the loop goes on.
PlanFails(r) ==
    /\ pc[r] \in {"nav", "claim"} \cup TxPCs
    /\ Goto(r, "next")
    /\ UNCHANGED history

\* A failed duplicate check, a cancelled context or the end of the process
\* ends the run; an open transaction rolls back.
RunFails(r) ==
    /\ pc[r] # "idle"
    /\ Return(r)

-----------------------------------------------------------------------------
(* What users do meanwhile                                                 *)

Edit(op) ==
    /\ op \in Ops /\ UserConnection
    /\ edits < MaxEdits /\ edits' = edits + 1
    /\ UNCHANGED <<pc, locals, todo, item, starts, history>>

\* UpsertDCAPlan with id 0.
CreatePlan(f, due, active) ==
    /\ Edit("create")
    /\ nextPlan <= MaxPlans
    /\ plans' = plans \cup
                {[id |-> nextPlan, fund |-> f, due |-> due, active |-> active]}
    /\ nextPlan' = nextPlan + 1
    /\ UNCHANGED <<txns, nextSeq, execs, hasNav>>

\* UpsertDCAPlan with an id overwrites every column.
EditPlan(p, f, due, active) ==
    /\ Edit(IF f = p.fund THEN "edit" ELSE "edit_fund")
    /\ plans' = (plans \ {p}) \cup
                {[id |-> p.id, fund |-> f, due |-> due, active |-> active]}
    /\ UNCHANGED <<nextPlan, txns, nextSeq, execs, hasNav>>

DisableDCAPlan(p) ==
    /\ Edit("edit")
    /\ plans' = (plans \ {p}) \cup {[p EXCEPT !.active = FALSE]}
    /\ UNCHANGED <<nextPlan, txns, nextSeq, execs, hasNav>>

\* admin DeleteTransaction leaves the execution ledger alone.
DeleteBuy(t) ==
    /\ Edit("delete_tx")
    /\ txns' = txns \ {t}
    /\ UNCHANGED <<plans, nextPlan, nextSeq, execs, hasNav>>

\* admin UpdateTransaction moves a row to another fund, never to another
\* order; the unique index refuses (or waits for) a row already there.
MoveBuy(t, f) ==
    /\ Edit("move_tx")
    /\ UniqueIndex =>
          /\ \A u \in txns \ {t} :
                ~(u.plan = t.plan /\ u.date = t.date /\ u.fund = f)
          /\ \A q \in Runs : ~Uncommitted(q, t.plan, t.date, f)
    /\ txns' = (txns \ {t}) \cup {[t EXCEPT !.fund = f]}
    /\ UNCHANGED <<plans, nextPlan, nextSeq, execs, hasNav>>

\* The cascade matches fund_code in each table.
DeleteSecurity(f) ==
    /\ Edit("drop")
    /\ plans' = {p \in plans : p.fund # f}
    /\ txns' = {t \in txns : t.fund # f}
    /\ execs' = {e \in execs : e.fund # f}
    /\ hasNav' = hasNav \ {f}
    /\ UNCHANGED <<nextPlan, nextSeq>>

\* A price refresh brings a fund its first NAV.
RefreshNav(f) ==
    /\ Edit("refresh")
    /\ hasNav' = hasNav \cup {f}
    /\ UNCHANGED <<plans, nextPlan, txns, nextSeq, execs>>

-----------------------------------------------------------------------------

Init ==
    /\ plans = {} /\ nextPlan = 1
    /\ txns = {} /\ nextSeq = 1
    /\ execs = {}
    /\ hasNav \in SUBSET Funds
    /\ pc = [r \in Runs |-> "idle"]
    /\ asOf = [r \in Runs |-> None]
    /\ dryRun = [r \in Runs |-> FALSE]
    /\ todo = [r \in Runs |-> {}]
    /\ item = [r \in Runs |-> None]
    /\ starts = 0 /\ edits = 0
    /\ bought = {} /\ reported = {}

Step(r) ==
    \/ NextPlan(r) \/ RunReturns(r) \/ ReadNav(r) \/ CheckOrder(r) \/ CheckExecution(r)
    \/ Claim(r) \/ InsertRow(r) \/ CommitBuy(r)

RunAction(r) ==
    \/ \E d \in Dates, dry \in BOOLEAN, want \in SUBSET PlanIds :
          LoadPlans(r, d, dry, want)
    \/ Step(r)
    \/ PlanFails(r)
    \/ RunFails(r)

UserAction ==
    \/ \E f \in Funds, due \in SUBSET Dates, active \in BOOLEAN :
          \/ CreatePlan(f, due, active)
          \/ \E p \in plans : EditPlan(p, f, due, active)
    \/ \E p \in plans : DisableDCAPlan(p)
    \/ \E t \in txns : DeleteBuy(t) \/ (\E f \in Funds : MoveBuy(t, f))
    \/ \E f \in Funds : DeleteSecurity(f) \/ RefreshNav(f)

Next == UserAction \/ \E r \in Runs : RunAction(r)

Spec == Init /\ [][Next]_vars

\* The Go runtime and the connection pool serve every run in the end.
FairSpec == Spec /\ \A r \in Runs : WF_vars(Step(r))

-----------------------------------------------------------------------------
(* Properties                                                              *)

Rows == [seq : Nat, plan : PlanIds, date : Dates, fund : Funds]
PCs == {"idle", "next", "nav", "orders", "execs", "claim", "index", "ledger"}

\* Every table and every local of a run has its type, and a run that is
\* working on a plan has one.
TypeOK ==
    /\ plans \subseteq Plans /\ nextPlan \in 1..(MaxPlans + 1)
    /\ txns \subseteq Rows /\ nextSeq \in Nat
    /\ execs \subseteq [plan : PlanIds, date : Dates, fund : Funds]
    /\ hasNav \subseteq Funds
    /\ pc \in [Runs -> PCs]
    /\ asOf \in [Runs -> Dates \cup {None}]
    /\ dryRun \in [Runs -> BOOLEAN]
    /\ todo \in [Runs -> SUBSET Plans]
    /\ item \in [Runs -> Plans \cup {None}]
    /\ \A r \in Runs : /\ pc[r] # "idle" => asOf[r] \in Dates
                       /\ pc[r] \notin {"idle", "next"} => item[r] \in Plans
    /\ starts \in Nat /\ edits \in Nat
    /\ bought \subseteq Rows
    /\ reported \subseteq PlanIds \X Dates

\* The ledger never holds two rows of one order in one fund, whatever runs
\* and users do at the same time: "Idempotent via order_id".
NoDuplicateOrder ==
    \A t, u \in txns :
        t.plan = u.plan /\ t.date = u.date /\ t.fund = u.fund => t = u

\* A plan buys at most once for a due date, also after the row was deleted
\* or moved: "a replayed date either materializes once ... or is skipped as
\* duplicate" (runDCABackfill).
AtMostOncePerDue ==
    \A a, b \in bought : a.plan = b.plan /\ a.date = b.date => a = b

\* A run never calls a missed date a duplicate: what it reports as executed
\* or as already existing was committed by some run.
ReportedWasBought ==
    \A x \in reported : \E b \in bought : b.plan = x[1] /\ b.date = x[2]

\* Buy row and execution row appear and disappear together (#211), so no
\* row in the ledger lacks the mark that keeps its date from being replayed.
BuyHasExecution ==
    \A t \in txns : \E e \in execs : e.plan = t.plan /\ e.date = t.date

\* Every run returns: no run waits for a connection or an index entry that
\* is never given up.
RunsReturn == \A r \in Runs : pc[r] # "idle" ~> pc[r] = "idle"

Promise == INSTANCE AutoInvest WITH invested <- bought, told <- reported

\* Auto-invest keeps its promise, also when users delete, move or edit what
\* earlier runs bought: every history of committed buys and of dates that runs
\* called executed or a duplicate is one of AutoInvest.
InvestSpec == Promise!Spec

=============================================================================
