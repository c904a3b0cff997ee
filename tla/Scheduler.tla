----------------------------- MODULE Scheduler -----------------------------
(***************************************************************************)
(* The background scheduler: windows, claims, shutdown and catch-up.       *)
(*                                                                         *)
(* Each process runs two goroutines, the tick loop and the startup         *)
(* catch-up.  Both claim a job for a calendar day before they run it, in   *)
(* memory (lastRun) and in crawl_log, so that a window runs once across    *)
(* restarts; both ask jobContext for a context that Stop is meant to       *)
(* cancel.  Processes start, stop and crash; every statement may fail.     *)
(*                                                                         *)
(* Time is a day and one of the hours of a day that have a window; day 0   *)
(* is the weekday FirstDay, Monday being 0.  A tick keeps the time it      *)
(* fired at while the clock goes on.  Jobs are opaque but for the due      *)
(* dates they hand to RunDCAAutoInvest (module DCA); the status records    *)
(* of recordJob decide nothing and are left out.                           *)
(***************************************************************************)
EXTENDS Integers, Sequences

CONSTANTS
    Procs,        \* processes over one database
    Jobs,         \* jobs this deployment exercises
    FirstDay,     \* weekday of day 0
    None,         \* no window, no tick
    MaxDay,       \* bound on the calendar
    MaxStarts,    \* bound on process starts
    MaxErrors     \* bound on failing statements

AllJobs == {"startup_refresh", "price_dca", "holdings", "dca_backfill", "wal"}

ASSUME SchedulerAssumption ==
    /\ Jobs \subseteq AllJobs
    /\ FirstDay \in 0..6
    /\ MaxDay \in Nat /\ MaxStarts \in Nat /\ MaxErrors \in Nat
    /\ None \notin Int /\ None \notin AllJobs

VARIABLES
    day, hour,   \* the clock
    crawlLog,    \* latest_date of the row __sched_<job>
    status,      \* of each process
    lastRun,     \* its in-memory claims
    pending,     \* the tick waiting in its ticker channel
    task,        \* what its two goroutines are doing
    starts, errors,   \* counters of the bounds
    ran,         \* history: windows whose job has run
    twice,       \* history: windows whose job has run again
    lost,        \* history: windows whose claim failed, or led to no run
    attempted,   \* history: due dates handed to RunDCAAutoInvest
    passes       \* history: days whose backfill went through all its dates

clock == <<day, hour>>
history == <<ran, twice, lost, attempted, passes>>
vars == <<clock, crawlLog, status, lastRun, pending, task, starts, errors,
          history>>

Days == 0..MaxDay
Hours == <<"wal", "morning", "holdings", "dca">>
Goroutines == Procs \X {"loop", "startup"}

\* Mutant of dcaBackfillLookbackDays.
SixDays == 6
dcaBackfillLookbackDays == 7

Weekday(d) == (d + FirstDay) % 7
IsSaturday(d) == Weekday(d) = 5
IsWeekend(d) == Weekday(d) \in {5, 6}

Off == [pc |-> "off"]
Wait == [pc |-> "wait"]

\* Mutant of Task: the day of the window is the UTC one, a day behind.
TaskUTC(job, d) ==
    [pc |-> "claim", job |-> job, now |-> d - 1, ctx |-> "root", left |-> 0]

\* A goroutine that took a tick, or whose startup timer fired, on day d.
Task(job, d) ==
    [pc |-> "claim", job |-> job, now |-> d, ctx |-> "root", left |-> 0]

Window(g) == <<task[g].job, task[g].now>>
AboutToRun(g) == task[g].pc = "begin"

-----------------------------------------------------------------------------
(* Processes, the clock and the ticker                                     *)

\* NewScheduler and Start.
Start(p) ==
    /\ status[p] = "down"
    /\ starts < MaxStarts /\ starts' = starts + 1
    /\ status' = [status EXCEPT ![p] = "up"]
    /\ lastRun' = [lastRun EXCEPT ![p] = [j \in Jobs |-> None]]
    /\ task' = [g \in Goroutines |-> IF g[1] = p THEN Wait ELSE task[g]]
    /\ UNCHANGED <<clock, crawlLog, pending, errors, history>>

Halt(p) ==
    /\ status' = [status EXCEPT ![p] = "down"]
    /\ task' = [g \in Goroutines |-> IF g[1] = p THEN Off ELSE task[g]]
    /\ pending' = [pending EXCEPT ![p] = None]
    /\ lost' = lost \cup
          {Window(g) : g \in {h \in Goroutines : h[1] = p /\ AboutToRun(h)}}
    /\ UNCHANGED <<clock, crawlLog, lastRun, starts, errors, ran, twice,
                   attempted, passes>>

Crash(p) == status[p] # "down" /\ Halt(p)

\* Stop up to its unlock: stopCh is closed, the ticker stopped, the root
\* context cancelled and forgotten.
Stop(p) ==
    /\ status[p] = "up"
    /\ status' = [status EXCEPT ![p] = "stopping"]
    /\ pending' = [pending EXCEPT ![p] = None]
    /\ UNCHANGED <<clock, crawlLog, lastRun, task, starts, errors, history>>

\* Stop returns when both goroutines have ended; the database is closed.
StopReturns(p) ==
    /\ status[p] = "stopping"
    /\ task[<<p, "loop">>] = Off /\ task[<<p, "startup">>] = Off
    /\ Halt(p)

AdvanceClock ==
    /\ \/ hour < Len(Hours) /\ hour' = hour + 1 /\ UNCHANGED day
       \/ hour = Len(Hours) /\ day < MaxDay /\ hour' = 1 /\ day' = day + 1
    /\ UNCHANGED <<crawlLog, status, lastRun, pending, task, starts, errors,
                   history>>

\* The channel holds one tick; a tick that finds it full is dropped.
TickFires(p) ==
    /\ status[p] = "up" /\ pending[p] = None
    /\ pending' = [pending EXCEPT ![p] = clock]
    /\ UNCHANGED <<clock, crawlLog, status, lastRun, task, starts, errors,
                   history>>

-----------------------------------------------------------------------------
(* Goroutines                                                              *)

\* The window of a tick at time t, if it has one.
WindowJob(t) ==
    CASE Hours[t[2]] = "dca"                         -> "price_dca"
      [] Hours[t[2]] = "holdings" /\ IsSaturday(t[1]) -> "holdings"
      [] Hours[t[2]] = "morning"                     -> "dca_backfill"
      [] Hours[t[2]] = "wal"                         -> "wal"
      [] OTHER                                       -> None

Become(g, t) == task' = [task EXCEPT ![g] = t]
Others == UNCHANGED <<clock, status, starts>>

\* loop receives a tick; a time without a window returns at once.
Tick(g) ==
    LET t == pending[g[1]] IN
    /\ g[2] = "loop" /\ task[g] = Wait /\ t # None
    /\ pending' = [pending EXCEPT ![g[1]] = None]
    /\ Become(g, IF WindowJob(t) \in Jobs THEN Task(WindowJob(t), t[1]) ELSE Wait)
    /\ Others /\ UNCHANGED <<crawlLog, lastRun, errors, history>>

\* The startup timer fires and runStartupCatchUp finds no Stop.
StartupFires(g) ==
    /\ g[2] = "startup" /\ task[g] = Wait /\ status[g[1]] = "up"
    /\ Become(g, IF "startup_refresh" \in Jobs
                 THEN Task("startup_refresh", day) ELSE Off)
    /\ Others /\ UNCHANGED <<crawlLog, lastRun, pending, errors, history>>

\* Mutant of Exit: the loop's select has no case for stopCh.
ExitStartupOnly(g) ==
    /\ g[2] = "startup" /\ task[g] = Wait /\ status[g[1]] = "stopping"
    /\ Become(g, Off)
    /\ Others /\ UNCHANGED <<crawlLog, lastRun, pending, errors, history>>

\* The select sees stopCh, or isStopped does.
Exit(g) ==
    /\ task[g] = Wait /\ status[g[1]] = "stopping"
    /\ Become(g, Off)
    /\ Others /\ UNCHANGED <<crawlLog, lastRun, pending, errors, history>>

\* The loop goes back to its select, the startup goroutine ends.
Finished(g) == IF g[2] = "loop" THEN Wait ELSE Off

\* A root context is cancelled by Stop; jobContext returns a background one
\* when it finds no root.
jobContext(g) == IF status[g[1]] = "up" THEN "root" ELSE "background"
Alive(g) == task[g].ctx = "background" \/ status[g[1]] = "up"

\* claimWindow: the in-memory check.
Claim(g) ==
    /\ task[g].pc = "claim"
    /\ Become(g, IF lastRun[g[1]][task[g].job] = task[g].now THEN Finished(g)
                 ELSE [task[g] EXCEPT !.pc = "lookup", !.ctx = jobContext(g)])
    /\ Others /\ UNCHANGED <<crawlLog, lastRun, pending, errors, history>>

\* claimWindow records the window in memory whether the durable claim was
\* won or not.
Record(g) == lastRun' = [lastRun EXCEPT ![g[1]][task[g].job] = task[g].now]
Granted(g) == Record(g) /\ Become(g, [task[g] EXCEPT !.pc = "begin"])
Denied(g) == Record(g) /\ Become(g, Finished(g))

\* Mutant of Lookup: a row of any day counts as today's claim.
LookupAnyDay(g) ==
    LET row == crawlLog[task[g].job] IN
    /\ task[g].pc = "lookup" /\ Alive(g)
    /\ \/ row # None /\ Denied(g)
       \/ /\ row = None /\ UNCHANGED lastRun
          /\ Become(g, [task[g] EXCEPT !.pc = "insert"])
    /\ Others /\ UNCHANGED <<crawlLog, pending, errors, history>>

\* claimWindowDurable: the SELECT.  Build creates crawl_log before anything
\* runs, so the branches for a missing table do not arise.
Lookup(g) ==
    LET row == crawlLog[task[g].job] IN
    /\ task[g].pc = "lookup" /\ Alive(g)
    /\ \/ row = task[g].now /\ Denied(g)
       \/ /\ row # task[g].now
          /\ Become(g, [task[g] EXCEPT !.pc = IF row = None THEN "insert"
                                              ELSE "update"])
          /\ UNCHANGED lastRun
    /\ Others /\ UNCHANGED <<crawlLog, pending, errors, history>>

\* No row yet: INSERT, and a primary key violation loses the claim.
InsertClaim(g) ==
    /\ task[g].pc = "insert" /\ Alive(g)
    /\ \/ /\ crawlLog[task[g].job] = None
          /\ crawlLog' = [crawlLog EXCEPT ![task[g].job] = task[g].now]
          /\ Granted(g) /\ UNCHANGED lost
       \/ /\ crawlLog[task[g].job] # None
          /\ lost' = IF crawlLog[task[g].job] = task[g].now THEN lost
                     ELSE lost \cup {Window(g)}
          /\ Denied(g) /\ UNCHANGED crawlLog
    /\ Others
    /\ UNCHANGED <<pending, errors, ran, twice, attempted, passes>>

\* Mutant of UpdateClaim: the new day is not written.
UpdateClaimUnsaved(g) ==
    /\ task[g].pc = "update" /\ Alive(g)
    /\ Granted(g)
    /\ Others /\ UNCHANGED <<crawlLog, pending, errors, history>>

\* A row of another day: UPDATE ... WHERE fund_code = ?
UpdateClaim(g) ==
    /\ task[g].pc = "update" /\ Alive(g)
    /\ crawlLog' = [crawlLog EXCEPT ![task[g].job] = task[g].now]
    /\ Granted(g)
    /\ Others /\ UNCHANGED <<pending, errors, history>>

\* A cancelled context or a failing database fails closed.
ClaimFails(g) ==
    /\ task[g].pc \in {"lookup", "insert", "update"}
    /\ IF Alive(g) THEN errors < MaxErrors /\ errors' = errors + 1
       ELSE UNCHANGED errors
    /\ lost' = lost \cup {Window(g)}
    /\ Denied(g)
    /\ Others
    /\ UNCHANGED <<crawlLog, pending, ran, twice, attempted, passes>>

\* The backfill replays the days before d, on weekdays only.
Backfill(t) ==
    IF IsWeekend(t.now) THEN [t EXCEPT !.pc = "done"]
    ELSE [t EXCEPT !.pc = "dates", !.left = dcaBackfillLookbackDays]

\* The claimed job takes its context and begins.
Begin(g) ==
    LET t == [task[g] EXCEPT !.ctx = jobContext(g)]
        window == <<t.job, t.now>>
    IN
    /\ task[g].pc = "begin"
    /\ Become(g, IF t.job = "dca_backfill" THEN Backfill(t)
                 ELSE [t EXCEPT !.pc = "work"])
    /\ ran' = ran \cup {window}
    /\ twice' = IF window \in ran THEN twice \cup {window} ELSE twice
    /\ Others
    /\ UNCHANGED <<crawlLog, lastRun, pending, errors, lost, attempted, passes>>

\* The price, holdings or maintenance work ends, well or not, and the job
\* goes on to its due dates: today's for price_dca on a weekday, the past
\* week's for the startup catch-up.
Work(g) ==
    LET t == task[g] IN
    /\ t.pc = "work"
    /\ Become(g, CASE t.job = "startup_refresh" -> Backfill(t)
                   [] t.job = "price_dca" /\ ~IsWeekend(t.now) ->
                        [t EXCEPT !.pc = "dates", !.left = 0]
                   [] OTHER -> [t EXCEPT !.pc = "done"])
    /\ Others
    /\ UNCHANGED <<crawlLog, lastRun, pending, errors, history>>

\* Mutant of DueDate: the lookback counts from today.
DueDateFromToday(t) == IF t.left = 0 THEN t.now ELSE t.now - t.left + 1

\* The due date a job is at; left counts the days back.
DueDate(t) == t.now - t.left

\* RunDCAAutoInvest for one date; its error is logged and the next date
\* follows.
RunDate(g) ==
    LET t == task[g] IN
    /\ t.pc = "dates"
    /\ \/ /\ Alive(g)
          /\ attempted' = attempted \cup {DueDate(t)}
          /\ UNCHANGED errors
       \/ /\ Alive(g)
          /\ errors < MaxErrors /\ errors' = errors + 1
          /\ UNCHANGED attempted
       \/ /\ ~Alive(g)
          /\ UNCHANGED <<attempted, errors>>
    /\ Become(g, IF t.left <= 1 THEN [t EXCEPT !.pc = "done"]
                 ELSE [t EXCEPT !.left = t.left - 1])
    /\ Others
    /\ UNCHANGED <<crawlLog, lastRun, pending, ran, twice, lost, passes>>

\* The job returns.
Done(g) ==
    LET t == task[g] IN
    /\ t.pc = "done"
    /\ passes' = IF t.left = 1 /\ Alive(g) /\ errors = 0
                 THEN passes \cup {t.now} ELSE passes
    /\ Become(g, Finished(g))
    /\ Others
    /\ UNCHANGED <<crawlLog, lastRun, pending, errors, ran, twice, lost,
                   attempted>>

-----------------------------------------------------------------------------

Init ==
    /\ day = 0 /\ hour = 1
    /\ crawlLog = [j \in Jobs |-> None]
    /\ status = [p \in Procs |-> "down"]
    /\ lastRun = [p \in Procs |-> [j \in Jobs |-> None]]
    /\ pending = [p \in Procs |-> None]
    /\ task = [g \in Goroutines |-> Off]
    /\ starts = 0 /\ errors = 0
    /\ ran = {} /\ twice = {} /\ lost = {} /\ attempted = {} /\ passes = {}

Goroutine(g) ==
    \/ Tick(g) \/ StartupFires(g) \/ Exit(g) \/ Claim(g) \/ Lookup(g)
    \/ InsertClaim(g) \/ UpdateClaim(g) \/ ClaimFails(g) \/ Begin(g)
    \/ Work(g) \/ RunDate(g) \/ Done(g)

Process(p) ==
    Start(p) \/ Crash(p) \/ Stop(p) \/ StopReturns(p) \/ TickFires(p)

Next ==
    \/ AdvanceClock
    \/ \E p \in Procs : Process(p)
    \/ \E g \in Goroutines : Goroutine(g)

Spec == Init /\ [][Next]_vars

\* The Go runtime runs every goroutine; a job ends because its context is
\* cancelled or times out.
FairSpec ==
    /\ Spec
    /\ \A g \in Goroutines : WF_vars(Goroutine(g))
    /\ \A p \in Procs : WF_vars(StopReturns(p))

-----------------------------------------------------------------------------
(* Properties                                                              *)

Tasks ==
    [pc : {"claim", "lookup", "insert", "update", "begin", "work", "dates",
           "done"},
     job : Jobs, now : Days, ctx : {"root", "background"},
     left : Nat]

\* The clock, the claims and the goroutines have their types; a process
\* that is down runs nothing.
TypeOK ==
    /\ day \in Days /\ hour \in 1..Len(Hours)
    /\ crawlLog \in [Jobs -> Days \cup {None}]
    /\ status \in [Procs -> {"down", "up", "stopping"}]
    /\ lastRun \in [Procs -> [Jobs -> Days \cup {None}]]
    /\ pending \in [Procs -> (Days \X (1..Len(Hours))) \cup {None}]
    /\ task \in [Goroutines -> Tasks \cup {Off, Wait}]
    /\ \A g \in Goroutines : status[g[1]] = "down" => task[g] = Off
    /\ starts \in Nat /\ errors \in Nat
    /\ ran \subseteq Jobs \X Days /\ twice \subseteq ran
    /\ lost \subseteq Jobs \X Days
    /\ attempted \subseteq Int /\ passes \subseteq Days

\* "each scheduled window runs at most once per calendar day (CST) via
\* lastRun + durable crawl_log claims", across crashes, restarts, stops and
\* failing statements.
OncePerWindow == twice = {}

\* "today itself is never touched here (stays with the 20:00 window)": no
\* due date is handed to the DCA run before 20:00 of that date.
NeverEarly ==
    [][\A d \in attempted' \ attempted :
          d < day \/ (d = day /\ Hours[hour] = "dca")]_vars

\* "any weekday_mask slot missed while the process was down ... is retried
\* at least once": a pass that ran undisturbed on any weekday leaves no
\* earlier date of the preceding week unattempted.
PassCoversWeek ==
    \A w \in passes : (w - 7)..(w - 1) \subseteq attempted

\* A window is never suppressed without cause: whatever crawl_log or a
\* process takes for claimed has run, is about to, or was lost when its claim
\* failed or its process ended between claim and run.
SuppressedHasCause ==
    LET Accounted(w) ==
            \/ w \in ran \cup lost
            \/ \E g \in Goroutines : AboutToRun(g) /\ Window(g) = w
    IN  \A j \in Jobs :
            /\ crawlLog[j] # None => Accounted(<<j, crawlLog[j]>>)
            /\ \A p \in Procs :
                  status[p] # "down" /\ lastRun[p][j] # None
                      => Accounted(<<j, lastRun[p][j]>>)

\* "In-flight jobs are canceled through rootCtx": once Stop has been called,
\* no job of the process holds a context Stop cannot cancel.
StopCancelsJobs ==
    \A g \in Goroutines :
        status[g[1]] = "stopping" /\ task[g].pc \in {"work", "dates"}
            => task[g].ctx = "root"

\* Stop returns: neither goroutine can keep it waiting for ever.
StopTerminates ==
    \A p \in Procs : status[p] = "stopping" ~> status[p] = "down"

=============================================================================
