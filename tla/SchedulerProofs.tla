-------------------------- MODULE SchedulerProofs --------------------------
(***************************************************************************)
(* Theorems about Scheduler for any calendar and any number of restarts    *)
(* and failing statements: once per window with one process at a time, the *)
(* others with any number of processes.                                    *)
(***************************************************************************)
EXTENDS Scheduler, TLAPS

\* The deployment: a single process at a time.
Single == \A p, q \in Procs : p = q

Active(g) == task[g].pc \notin {"off", "wait"}

\* The goroutine that runs a job: startup_refresh has its own.
Owns(g, j) == (g[2] = "startup") <=> (j = "startup_refresh")

\* The row of job j is not newer than day d.
NotAfter(j, d) == crawlLog[j] # None => crawlLog[j] <= d

\* What the invariant asks of one goroutine.
GoroutineInv(g) ==
    Active(g) =>
      /\ Owns(g, task[g].job)
      /\ task[g].now <= day
      /\ \A j \in Jobs : Owns(g, j) => NotAfter(j, task[g].now)
      /\ g[2] = "loop" /\ pending[g[1]] # None => task[g].now <= pending[g[1]][1]
      /\ task[g].pc = "insert" => crawlLog[task[g].job] = None
      /\ task[g].pc = "update" => /\ crawlLog[task[g].job] # None
                                  /\ crawlLog[task[g].job] # task[g].now
      /\ task[g].pc = "begin" => /\ crawlLog[task[g].job] = task[g].now
                                 /\ <<task[g].job, task[g].now>> \notin ran

\* What it asks of crawl_log and the ticks in the channels.
LogInv ==
    /\ twice = {}
    /\ \A x \in ran : crawlLog[x[1]] # None /\ x[2] <= crawlLog[x[1]]
    /\ \A j \in Jobs : NotAfter(j, day)
    /\ \A p \in Procs : pending[p] # None =>
          /\ pending[p][1] <= day
          /\ \A j \in Jobs \ {"startup_refresh"} : NotAfter(j, pending[p][1])

\* OncePerWindow is not inductive: an advance of a claim is to a day that
\* has not run because rows only move forward, and they do because ticks are
\* taken in the order they fired.
ClaimInv == LogInv /\ \A g \in Goroutines : GoroutineInv(g)

-----------------------------------------------------------------------------
(* Types                                                                   *)

\* A goroutine past its select holds a whole task.
LEMMA ActiveTask ==
    ASSUME TypeOK, NEW g \in Goroutines, Active(g)
    PROVE  task[g] \in Tasks /\ task[g] # Off /\ task[g] # Wait
  BY DEF TypeOK, Active, Off, Wait

\* What Become writes, and that the process it writes for is not down.
LEMMA BecomeType ==
    ASSUME TypeOK, NEW g \in Goroutines, task[g] # Off,
           NEW t \in Tasks \cup {Off, Wait}, Become(g, t), UNCHANGED status
    PROVE  /\ task' \in [Goroutines -> Tasks \cup {Off, Wait}]
           /\ \A h \in Goroutines : status'[h[1]] = "down" => task'[h] = Off
  BY DEF TypeOK, Become

\* A goroutine that is done with its task waits or ends.
LEMMA FinishedType ==
    ASSUME NEW g \in Goroutines PROVE Finished(g) \in Tasks \cup {Off, Wait}
  BY DEF Finished

\* The last window of a day is the 20:00 one.
LEMMA HoursType == Len(Hours) = 4 /\ Hours[4] = "dca"
  BY DEF Hours

\* A task is for a job and a day of the calendar.
LEMMA WindowType ==
    ASSUME TypeOK, NEW g \in Goroutines, Active(g)
    PROVE  Window(g) \in Jobs \X Days
  BY ActiveTask DEF Window, Tasks

\* A backfill, or its weekend no-op, stays the same window's task.
LEMMA BackfillType ==
    ASSUME NEW t \in Tasks
    PROVE  /\ Backfill(t) \in Tasks /\ Backfill(t).pc \in {"dates", "done"}
           /\ Backfill(t).job = t.job /\ Backfill(t).now = t.now
  BY DEF Backfill, Tasks, dcaBackfillLookbackDays

\* The price_dca task moves to today's date and stays the same window's task.
LEMMA TodayType ==
    ASSUME NEW t \in Tasks, NEW u, u = [t EXCEPT !.pc = "dates", !.left = 0]
    PROVE  /\ u \in Tasks /\ u.pc \in {"dates", "done"}
           /\ u.job = t.job /\ u.now = t.now
  BY DEF Tasks

\* Every action keeps the types.
LEMMA TypeStep == TypeOK /\ [Next]_vars => TypeOK'
<1> SUFFICES ASSUME TypeOK, [Next]_vars PROVE TypeOK'
  OBVIOUS
<1> USE SchedulerAssumption, HoursType
<1>1. CASE UNCHANGED vars
  BY <1>1 DEF vars, clock, history, TypeOK
<1>2. CASE AdvanceClock
  BY <1>2 DEF AdvanceClock, TypeOK, history, Days
<1>3. ASSUME NEW p \in Procs, Start(p) PROVE TypeOK'
  BY <1>3 DEF Start, TypeOK, clock, history, Goroutines
<1>4. ASSUME NEW p \in Procs, Halt(p) PROVE TypeOK'
  <2>1. lost' \subseteq Jobs \X Days
    BY <1>4, WindowType DEF Halt, TypeOK, AboutToRun, Active
  <2> QED
    BY <1>4, <2>1 DEF Halt, TypeOK, clock, Goroutines
<1>5. ASSUME NEW p \in Procs, Stop(p) PROVE TypeOK'
  BY <1>5 DEF Stop, TypeOK, clock, history, Goroutines
<1>6. ASSUME NEW p \in Procs, TickFires(p) PROVE TypeOK'
  BY <1>6 DEF TickFires, TypeOK, clock, history, Goroutines
<1>7. ASSUME NEW g \in Goroutines, Tick(g) PROVE TypeOK'
  <2> DEFINE t == pending[g[1]]
             s == IF WindowJob(t) \in Jobs THEN Task(WindowJob(t), t[1]) ELSE Wait
  <2>1. t \in Days \X (1..Len(Hours)) /\ g[1] \in Procs /\ task[g] # Off
    BY <1>7 DEF Tick, TypeOK, Goroutines, Off, Wait
  <2>2. s \in Tasks \cup {Off, Wait}
    BY <2>1 DEF Task, Tasks, dcaBackfillLookbackDays
  <2>3. Become(g, s) /\ UNCHANGED status
    BY <1>7 DEF Tick, Others
  <2> HIDE DEF s
  <2>4. /\ task' \in [Goroutines -> Tasks \cup {Off, Wait}]
        /\ \A h \in Goroutines : status'[h[1]] = "down" => task'[h] = Off
    BY <2>1, <2>2, <2>3, BecomeType
  <2> QED
    BY <1>7, <2>1, <2>4 DEF Tick, Others, TypeOK, clock, history
<1>8. ASSUME NEW g \in Goroutines, StartupFires(g) \/ Exit(g) PROVE TypeOK'
  <2>1. PICK s \in Tasks \cup {Off, Wait} : Become(g, s)
    BY <1>8 DEF StartupFires, Exit, Task, Tasks, dcaBackfillLookbackDays, TypeOK
  <2>2. UNCHANGED status /\ task[g] # Off
    BY <1>8 DEF StartupFires, Exit, Others, Off, Wait
  <2>3. /\ task' \in [Goroutines -> Tasks \cup {Off, Wait}]
        /\ \A h \in Goroutines : status'[h[1]] = "down" => task'[h] = Off
    BY <2>1, <2>2, BecomeType
  <2> QED
    BY <1>8, <2>3 DEF StartupFires, Exit, Others, TypeOK, clock, history
<1>9. ASSUME NEW g \in Goroutines, Active(g), NEW s \in Tasks \cup {Off, Wait},
             Become(g, s), UNCHANGED status
      PROVE  /\ task' \in [Goroutines -> Tasks \cup {Off, Wait}]
             /\ \A h \in Goroutines : status'[h[1]] = "down" => task'[h] = Off
  BY <1>9, ActiveTask, BecomeType
<1>10. ASSUME NEW g \in Goroutines, Claim(g) PROVE TypeOK'
  <2>1. Active(g) /\ UNCHANGED status
    BY <1>10 DEF Claim, Active, Others
  <2>2. PICK s \in Tasks \cup {Off, Wait} : Become(g, s)
    BY <1>10, <2>1, ActiveTask, FinishedType DEF Claim, Tasks, jobContext
  <2> QED
    BY <1>9, <1>10, <2>1, <2>2 DEF Claim, Others, TypeOK, clock, history
<1>11. ASSUME NEW g \in Goroutines, Active(g), Record(g)
       PROVE  lastRun' \in [Procs -> [Jobs -> Days \cup {None}]]
  BY <1>11, ActiveTask DEF Record, TypeOK, Tasks, Goroutines
<1>12. ASSUME NEW g \in Goroutines,
              Lookup(g) \/ InsertClaim(g) \/ UpdateClaim(g) \/ ClaimFails(g)
       PROVE  TypeOK'
  <2>1. Active(g) /\ UNCHANGED <<status, clock, starts>>
    BY <1>12 DEF Lookup, InsertClaim, UpdateClaim, ClaimFails, Active, Others
  <2>2. PICK s \in Tasks \cup {Off, Wait} : Become(g, s)
    BY <1>12, <2>1, ActiveTask, FinishedType
    DEF Lookup, InsertClaim, UpdateClaim, ClaimFails, Granted, Denied, Tasks
  <2>3. lastRun' \in [Procs -> [Jobs -> Days \cup {None}]]
    BY <1>11, <1>12, <2>1
    DEF Lookup, InsertClaim, UpdateClaim, ClaimFails, Granted, Denied, TypeOK
  <2>4. crawlLog' \in [Jobs -> Days \cup {None}]
    BY <1>12, <2>1, ActiveTask
    DEF Lookup, InsertClaim, UpdateClaim, ClaimFails, TypeOK, Tasks
  <2>5. lost' \subseteq Jobs \X Days /\ errors' \in Nat
    BY <1>12, <2>1, WindowType
    DEF Lookup, InsertClaim, UpdateClaim, ClaimFails, TypeOK, history
  <2>6. UNCHANGED <<pending, ran, twice, attempted, passes>>
    BY <1>12 DEF Lookup, InsertClaim, UpdateClaim, ClaimFails, history
  <2> QED
    BY <1>9, <2>1, <2>2, <2>3, <2>4, <2>5, <2>6 DEF TypeOK, clock
<1>13. ASSUME NEW g \in Goroutines, Begin(g) PROVE TypeOK'
  <2>1. Active(g) /\ UNCHANGED status
    BY <1>13 DEF Begin, Active, Others
  <2>2. [task[g] EXCEPT !.ctx = jobContext(g)] \in Tasks
    BY <2>1, ActiveTask DEF Tasks, jobContext
  <2>3. PICK s \in Tasks \cup {Off, Wait} : Become(g, s)
    <3> DEFINE t == [task[g] EXCEPT !.ctx = jobContext(g)]
    <3>1. Backfill(t) \in Tasks
      BY <2>2, BackfillType
    <3>2. [t EXCEPT !.pc = "work"] \in Tasks
      BY <2>2 DEF Tasks
    <3> QED
      BY <1>13, <3>1, <3>2 DEF Begin
  <2>4. <<task[g].job, task[g].now>> \in Jobs \X Days
    BY <2>1, WindowType DEF Window
  <2>5. ran' \subseteq Jobs \X Days /\ twice' \subseteq ran'
    <3>1. task[g] \in Tasks
      BY <2>1, ActiveTask
    <3>2. LET t == [task[g] EXCEPT !.ctx = jobContext(g)]
          IN  t.job = task[g].job /\ t.now = task[g].now
      BY <3>1 DEF Tasks
    <3>3. ran' = ran \cup {<<task[g].job, task[g].now>>}
      BY <1>13, <3>2 DEF Begin
    <3>4. twice' \subseteq twice \cup {<<task[g].job, task[g].now>>}
      BY <1>13, <3>2 DEF Begin
    <3> QED
      BY <2>4, <3>3, <3>4 DEF TypeOK
  <2> QED
    BY <1>9, <1>13, <2>1, <2>3, <2>5 DEF Begin, Others, TypeOK, clock
<1>14. ASSUME NEW g \in Goroutines, Work(g) PROVE TypeOK'
  <2>1. Active(g) /\ UNCHANGED status
    BY <1>14 DEF Work, Active, Others
  <2>2. task[g] \in Tasks
    BY <2>1, ActiveTask
  <2>3. /\ [task[g] EXCEPT !.pc = "dates", !.left = 0] \in Tasks
        /\ [task[g] EXCEPT !.pc = "done"] \in Tasks
    BY <2>2 DEF Tasks, dcaBackfillLookbackDays
  <2>4. Backfill(task[g]) \in Tasks
    BY <2>2, BackfillType
  <2>5. PICK s \in Tasks \cup {Off, Wait} : Become(g, s)
    BY <1>14, <2>3, <2>4 DEF Work
  <2> QED
    BY <1>9, <1>14, <2>1, <2>5 DEF Work, Others, TypeOK, clock, history
<1>15. ASSUME NEW g \in Goroutines, RunDate(g) PROVE TypeOK'
  <2>1. Active(g) /\ UNCHANGED status
    BY <1>15 DEF RunDate, Active, Others
  <2>2. PICK s \in Tasks \cup {Off, Wait} : Become(g, s)
    BY <1>15, <2>1, ActiveTask DEF RunDate, Tasks, dcaBackfillLookbackDays
  <2>3. attempted' \subseteq Int /\ errors' \in Nat
    BY <1>15, <2>1, ActiveTask DEF RunDate, DueDate, TypeOK, Tasks, Days
  <2> QED
    BY <1>9, <1>15, <2>1, <2>2, <2>3 DEF RunDate, Others, TypeOK, clock
<1>16. ASSUME NEW g \in Goroutines, Done(g) PROVE TypeOK'
  <2>1. Active(g) /\ UNCHANGED status
    BY <1>16 DEF Done, Active, Others
  <2>2. Become(g, Finished(g)) /\ Finished(g) \in Tasks \cup {Off, Wait}
    BY <1>16, FinishedType DEF Done
  <2>3. passes' \subseteq Days
    BY <1>16, <2>1, ActiveTask DEF Done, TypeOK, Tasks
  <2> QED
    BY <1>9, <1>16, <2>1, <2>2, <2>3 DEF Done, Others, TypeOK, clock
<1> QED
  BY <1>1, <1>2, <1>3, <1>4, <1>5, <1>6, <1>7, <1>8, <1>10, <1>12, <1>13,
     <1>14, <1>15, <1>16
  DEF Next, Process, Goroutine, Crash, StopReturns

\* Every state of every execution of the scheduler is well typed; in
\* particular a process that is down runs nothing.
THEOREM TypeCorrect == Spec => []TypeOK
<1>1. Init => TypeOK
  BY SchedulerAssumption, HoursType DEF Init, TypeOK, Days
<1> QED
  BY <1>1, TypeStep, PTL DEF Spec

-----------------------------------------------------------------------------
(* Once per window                                                         *)

\* The two goroutines of the one process never hold the same job.
LEMMA OneOwner ==
    ASSUME Single, NEW g \in Goroutines, NEW h \in Goroutines, g # h, NEW j,
           Owns(g, j)
    PROVE  ~Owns(h, j)
<1>1. PICK p \in Procs, a \in {"loop", "startup"} : g = <<p, a>>
  BY DEF Goroutines
<1>2. PICK q \in Procs, b \in {"loop", "startup"} : h = <<q, b>>
  BY DEF Goroutines
<1>3. p = q
  BY DEF Single
<1> QED
  BY <1>1, <1>2, <1>3 DEF Owns

\* Time passes, ticks are dropped and goroutines end without harm.
LEMMA IdleKeeps ==
    ASSUME TypeOK, ClaimInv, UNCHANGED <<crawlLog, ran, twice>>,
           day' \in Days, day <= day',
           \A p \in Procs : pending'[p] = pending[p] \/ pending'[p] = None,
           \A g \in Goroutines : task'[g] = task[g] \/ task'[g] \in {Off, Wait}
    PROVE  ClaimInv'
<1>1. LogInv'
  BY DEF ClaimInv, LogInv, NotAfter, TypeOK, Days, GoroutineInv
<1>2. ASSUME NEW g \in Goroutines PROVE GoroutineInv(g)'
  <2>1. CASE task'[g] \in {Off, Wait}
    BY <2>1 DEF GoroutineInv, Active, Off, Wait
  <2>2. CASE task'[g] = task[g]
    <3>1. Active(g) => task[g].now \in Days /\ task[g].job \in Jobs
      BY ActiveTask DEF Tasks
    <3>2. g[1] \in Procs
      BY DEF Goroutines
    <3> QED
      BY <2>2, <3>1, <3>2
      DEF ClaimInv, GoroutineInv, Active, NotAfter, TypeOK, Days, LogInv
  <2> QED
    BY <2>1, <2>2
<1> QED
  BY <1>1, <1>2 DEF ClaimInv, LogInv, GoroutineInv

\* A goroutine moves on within its task, crawl_log untouched.
LEMMA MoveKeeps ==
    ASSUME TypeOK, ClaimInv, NEW g \in Goroutines, Active(g),
           UNCHANGED <<crawlLog, ran, twice, day, pending>>,
           NEW t \in Tasks, Become(g, t),
           t.job = task[g].job, t.now = task[g].now,
           t.pc \in {"lookup", "insert", "update", "work", "dates", "done"},
           t.pc = "insert" => crawlLog[t.job] = None,
           t.pc = "update" => crawlLog[t.job] # None /\ crawlLog[t.job] # t.now
    PROVE  ClaimInv'
<1>1. LogInv'
  BY DEF ClaimInv, LogInv, NotAfter, GoroutineInv
<1>2. task'[g] = t /\ \A h \in Goroutines \ {g} : task'[h] = task[h]
  BY DEF Become, TypeOK
<1>3. ASSUME NEW h \in Goroutines PROVE GoroutineInv(h)'
  BY <1>2 DEF ClaimInv, GoroutineInv, Active, NotAfter, Owns, LogInv
<1> QED
  BY <1>1, <1>3 DEF ClaimInv, LogInv, GoroutineInv

\* A won claim: the row moves forward, to a window that has not run.
LEMMA GrantKeeps ==
    ASSUME Single, TypeOK, ClaimInv, NEW g \in Goroutines,
           InsertClaim(g) \/ UpdateClaim(g), Granted(g),
           crawlLog' = [crawlLog EXCEPT ![task[g].job] = task[g].now],
           UNCHANGED <<ran, twice, day, pending>>
    PROVE  ClaimInv'
<1>0. Active(g) /\ task[g] \in Tasks
  <2>1. Active(g)
    BY DEF InsertClaim, UpdateClaim, Active
  <2> QED
    BY <2>1, ActiveTask
<1>1. PICK j \in Jobs, w \in Days : task[g].job = j /\ task[g].now = w
  BY <1>0 DEF Tasks
<1>2. GoroutineInv(g)
  BY DEF ClaimInv
<1>3. crawlLog[j] # None => crawlLog[j] \in Days /\ crawlLog[j] < w
  <2>1. CASE task[g].pc = "insert"
    BY <1>0, <1>1, <1>2, <2>1 DEF GoroutineInv
  <2>2. CASE task[g].pc = "update"
    <3>1. crawlLog[j] \in Days \cup {None} /\ crawlLog[j] # w
      BY <1>0, <1>1, <1>2, <2>2 DEF GoroutineInv, TypeOK
    <3>2. crawlLog[j] # None => crawlLog[j] <= w
      BY <1>0, <1>1, <1>2 DEF GoroutineInv, NotAfter
    <3> QED
      BY <1>0, <1>1, <3>1, <3>2 DEF Days
  <2> QED
    BY <2>1, <2>2 DEF InsertClaim, UpdateClaim
<1>4. /\ crawlLog'[j] = w
      /\ \A k \in Jobs \ {j} : crawlLog'[k] = crawlLog[k]
      /\ w # None
  BY <1>0, <1>1, SchedulerAssumption DEF TypeOK, Days
<1>5. <<j, w>> \notin ran
  <2> SUFFICES ASSUME <<j, w>> \in ran PROVE FALSE
    OBVIOUS
  <2>1. crawlLog[j] # None /\ w <= crawlLog[j]
    BY DEF ClaimInv, LogInv, GoroutineInv
  <2> QED
    BY <1>0, <1>1, <1>3, <2>1 DEF Days
<1>6. task'[g] = [task[g] EXCEPT !.pc = "begin"]
      /\ \A h \in Goroutines \ {g} : task'[h] = task[h]
  BY DEF Granted, Become, TypeOK
<1>7. task'[g].pc = "begin" /\ task'[g].job = j /\ task'[g].now = w
  BY <1>0, <1>1, <1>6 DEF Tasks
<1>8. LogInv'
  <2>1. ASSUME NEW x \in ran PROVE crawlLog'[x[1]] # None /\ x[2] <= crawlLog'[x[1]]
    <3>1. x[1] \in Jobs /\ x[2] \in Days /\ crawlLog[x[1]] # None /\ x[2] <= crawlLog[x[1]]
      BY DEF TypeOK, ClaimInv, LogInv, GoroutineInv
    <3> QED
      BY <1>0, <1>1, <1>3, <1>4, <3>1 DEF Days
  <2>2. w <= day
    BY <1>0, <1>1, <1>2 DEF GoroutineInv
  <2>3. ASSUME NEW k \in Jobs PROVE NotAfter(k, day)'
    BY <1>4, <2>2 DEF ClaimInv, NotAfter, LogInv, GoroutineInv
  <2>4. ASSUME NEW p \in Procs, pending[p] # None, NEW k \in Jobs \ {"startup_refresh"}
        PROVE  NotAfter(k, pending[p][1])'
    <3>1. CASE k # j
      BY <1>4, <2>4, <3>1 DEF ClaimInv, NotAfter, LogInv, GoroutineInv
    <3>2. CASE k = j
      <4>1. g[1] = p /\ g[2] \in {"loop", "startup"}
        BY DEF Single, Goroutines
      <4>2. g[2] = "loop"
        BY <1>0, <1>1, <1>2, <3>2, <4>1 DEF GoroutineInv, Owns
      <4>3. w <= pending[p][1]
        BY <1>0, <1>1, <1>2, <2>4, <4>1, <4>2 DEF GoroutineInv
      <4> QED
        BY <1>4, <3>2, <4>3 DEF NotAfter
    <3> QED
      BY <3>1, <3>2
  <2> QED
    BY <2>1, <2>3, <2>4 DEF LogInv, ClaimInv, GoroutineInv
<1>9. ASSUME NEW h \in Goroutines PROVE GoroutineInv(h)'
  <2>1. CASE h = g
    <3>1. \A k \in Jobs : Owns(g, k) => NotAfter(k, w)'
      BY <1>0, <1>1, <1>2, <1>4 DEF GoroutineInv, NotAfter, Days
    <3>2. Owns(g, j) /\ w <= day
      BY <1>0, <1>1, <1>2 DEF GoroutineInv
    <3>3. g[2] = "loop" /\ pending[g[1]] # None => w <= pending[g[1]][1]
      BY <1>0, <1>1, <1>2 DEF GoroutineInv
    <3> QED
      BY <1>4, <1>5, <1>7, <2>1, <3>1, <3>2, <3>3
      DEF GoroutineInv, NotAfter, Owns
  <2>2. CASE h # g
    <3>1. Owns(g, j)
      BY <1>0, <1>1, <1>2 DEF GoroutineInv
    <3>2. ~Owns(h, j)
      BY <2>2, <3>1, OneOwner
    <3>3. GoroutineInv(h) /\ task'[h] = task[h]
      BY <1>6, <2>2 DEF ClaimInv
    <3>4. Active(h) => task[h].job \in Jobs
      BY ActiveTask DEF Tasks
    <3> QED
      BY <1>4, <3>2, <3>3, <3>4 DEF GoroutineInv, Active, NotAfter, Owns
  <2> QED
    BY <2>1, <2>2
<1> QED
  BY <1>8, <1>9 DEF ClaimInv, LogInv, GoroutineInv

\* Every action keeps the claims in front of the runs.
LEMMA ClaimStep ==
    ASSUME Single, TypeOK, ClaimInv, [Next]_vars PROVE ClaimInv'
<1> USE SchedulerAssumption, HoursType
<1>1. CASE UNCHANGED vars
  BY <1>1, IdleKeeps DEF vars, clock, history, TypeOK, Days
<1>2. CASE AdvanceClock
  BY <1>2, IdleKeeps DEF AdvanceClock, history, TypeOK, Days
<1>3. ASSUME NEW p \in Procs, Start(p) \/ Halt(p) \/ Stop(p) PROVE ClaimInv'
  <2>1. UNCHANGED <<crawlLog, ran, twice, day>>
    BY <1>3 DEF Start, Halt, Stop, clock, history
  <2>2. \A q \in Procs : pending'[q] = pending[q] \/ pending'[q] = None
    BY <1>3 DEF Start, Halt, Stop, TypeOK
  <2>3. \A g \in Goroutines : task'[g] = task[g] \/ task'[g] \in {Off, Wait}
    BY <1>3 DEF Start, Halt, Stop, TypeOK
  <2> QED
    BY <2>1, <2>2, <2>3, IdleKeeps DEF TypeOK, Days
<1>4. ASSUME NEW p \in Procs, TickFires(p) PROVE ClaimInv'
  <2>1. /\ UNCHANGED <<crawlLog, ran, twice, day, task>>
        /\ pending'[p] = <<day, hour>>
        /\ \A q \in Procs \ {p} : pending'[q] = pending[q]
    BY <1>4 DEF TickFires, clock, history, TypeOK
  <2>2. LogInv'
    BY <2>1 DEF ClaimInv, LogInv, NotAfter, TypeOK, Days, GoroutineInv
  <2>3. ASSUME NEW g \in Goroutines PROVE GoroutineInv(g)'
    <3>1. g[1] \in Procs
      BY DEF Goroutines
    <3> QED
      BY <2>1, <3>1 DEF ClaimInv, GoroutineInv, Active, NotAfter, LogInv
  <2> QED
    BY <2>2, <2>3 DEF ClaimInv, LogInv, GoroutineInv
<1>5. ASSUME NEW g \in Goroutines, Become(g, Off) \/ Become(g, Wait),
             UNCHANGED <<crawlLog, ran, twice, day, pending>>
      PROVE  ClaimInv'
  BY <1>5, IdleKeeps DEF Become, TypeOK, Days
<1>6. ASSUME NEW g \in Goroutines, Tick(g) PROVE ClaimInv'
  <2> DEFINE p == g[1]
  <2>1. p \in Procs /\ g[2] = "loop" /\ pending[p] # None
    BY <1>6 DEF Tick, Goroutines
  <2>2. PICK t \in Days \X (1..Len(Hours)) : t = pending[p]
    BY <2>1 DEF TypeOK
  <2>3. /\ UNCHANGED <<crawlLog, ran, twice, day>>
        /\ pending'[p] = None /\ \A q \in Procs \ {p} : pending'[q] = pending[q]
    BY <1>6, <2>1 DEF Tick, Others, clock, history, TypeOK
  <2>4. CASE Become(g, Wait)
    BY <2>3, <2>4, IdleKeeps DEF Become, TypeOK, Days
  <2>5. CASE WindowJob(t) \in Jobs /\ Become(g, Task(WindowJob(t), t[1]))
    <3>1. WindowJob(t) # "startup_refresh"
      <4>1. WindowJob(t) \in {"price_dca", "holdings", "dca_backfill", "wal", None}
        BY DEF WindowJob
      <4>2. None # "startup_refresh"
        BY DEF AllJobs
      <4> QED
        BY <4>1, <4>2
    <3>2. /\ task'[g].pc = "claim" /\ task'[g].job = WindowJob(t)
          /\ task'[g].now = t[1]
          /\ \A h \in Goroutines \ {g} : task'[h] = task[h]
      BY <2>5 DEF Become, Task, TypeOK
    <3>3. LogInv'
      BY <2>3 DEF ClaimInv, LogInv, NotAfter, GoroutineInv
    <3>4. GoroutineInv(g)'
      <4>1. t[1] <= day /\ \A j \in Jobs \ {"startup_refresh"} : NotAfter(j, t[1])
        BY <2>1, <2>2 DEF ClaimInv, LogInv, GoroutineInv
      <4> QED
        BY <2>1, <2>3, <3>1, <3>2, <4>1 DEF GoroutineInv, NotAfter, Owns
    <3>5. ASSUME NEW h \in Goroutines, h # g PROVE GoroutineInv(h)'
      <4>1. h[1] \in Procs /\ task'[h] = task[h]
        BY <3>2, <3>5 DEF Goroutines
      <4> QED
        BY <2>3, <4>1 DEF ClaimInv, GoroutineInv, Active, NotAfter, Owns, LogInv
    <3> QED
      BY <3>3, <3>4, <3>5 DEF ClaimInv, LogInv, GoroutineInv
  <2> QED
    BY <1>6, <2>2, <2>4, <2>5 DEF Tick
<1>7. ASSUME NEW g \in Goroutines, StartupFires(g) PROVE ClaimInv'
  <2>1. g[2] = "startup" /\ UNCHANGED <<crawlLog, ran, twice, day, pending>>
    BY <1>7 DEF StartupFires, Others, clock, history
  <2>2. CASE Become(g, Off)
    BY <1>5, <2>1, <2>2
  <2>3. CASE Become(g, Task("startup_refresh", day))
    <3>1. /\ task'[g].pc = "claim" /\ task'[g].job = "startup_refresh"
          /\ task'[g].now = day
          /\ \A h \in Goroutines \ {g} : task'[h] = task[h]
      BY <2>3 DEF Become, Task, TypeOK
    <3>2. LogInv'
      BY <2>1 DEF ClaimInv, LogInv, NotAfter, GoroutineInv
    <3>3. GoroutineInv(g)'
      BY <2>1, <3>1 DEF ClaimInv, GoroutineInv, NotAfter, Owns, TypeOK, Days, LogInv
    <3>4. ASSUME NEW h \in Goroutines, h # g PROVE GoroutineInv(h)'
      BY <2>1, <3>1, <3>4 DEF ClaimInv, GoroutineInv, Active, NotAfter, Owns, LogInv
    <3> QED
      BY <3>2, <3>3, <3>4 DEF ClaimInv, LogInv, GoroutineInv
  <2> QED
    BY <1>7, <2>2, <2>3 DEF StartupFires
<1>8. ASSUME NEW g \in Goroutines, Exit(g) \/ Done(g) \/ ClaimFails(g)
      PROVE  ClaimInv'
  BY <1>5, <1>8
  DEF Exit, Done, ClaimFails, Denied, Finished, Others, clock, history
<1>9. ASSUME NEW g \in Goroutines, Claim(g) PROVE ClaimInv'
  <2>1. Active(g) /\ UNCHANGED <<crawlLog, ran, twice, day, pending>>
    BY <1>9 DEF Claim, Active, Others, clock, history
  <2>2. task[g] \in Tasks
    BY <2>1, ActiveTask
  <2>3. CASE Become(g, Finished(g))
    BY <1>5, <2>1, <2>3 DEF Finished
  <2>4. CASE Become(g, [task[g] EXCEPT !.pc = "lookup", !.ctx = jobContext(g)])
    <3>1. PICK t \in Tasks : t = [task[g] EXCEPT !.pc = "lookup", !.ctx = jobContext(g)]
      BY <2>2 DEF Tasks, jobContext
    <3>2. t.pc = "lookup" /\ t.job = task[g].job /\ t.now = task[g].now
      BY <2>2, <3>1 DEF Tasks
    <3> QED
      BY <2>1, <2>4, <3>1, <3>2, MoveKeeps
  <2> QED
    BY <1>9, <2>3, <2>4 DEF Claim
<1>10. ASSUME NEW g \in Goroutines, Lookup(g) PROVE ClaimInv'
  <2>1. Active(g) /\ UNCHANGED <<crawlLog, ran, twice, day, pending>>
    BY <1>10 DEF Lookup, Active, Others, clock, history
  <2>2. task[g] \in Tasks
    BY <2>1, ActiveTask
  <2>3. CASE Denied(g)
    BY <1>5, <2>1, <2>3 DEF Denied, Finished
  <2>4. ASSUME NEW l \in {"insert", "update"},
               l = "insert" <=> crawlLog[task[g].job] = None,
               crawlLog[task[g].job] # task[g].now,
               Become(g, [task[g] EXCEPT !.pc = l])
        PROVE  ClaimInv'
    <3>1. PICK t \in Tasks : t = [task[g] EXCEPT !.pc = l]
      BY <2>2 DEF Tasks
    <3>2. t.pc = l /\ t.job = task[g].job /\ t.now = task[g].now
      BY <2>2, <3>1 DEF Tasks
    <3> QED
      BY <2>1, <2>4, <3>1, <3>2, MoveKeeps
  <2> QED
    BY <1>10, <2>3, <2>4 DEF Lookup, Single
<1>11. ASSUME NEW g \in Goroutines, InsertClaim(g) \/ UpdateClaim(g)
       PROVE  ClaimInv'
  <2>1. UNCHANGED <<ran, twice, day, pending>>
    BY <1>11 DEF InsertClaim, UpdateClaim, Others, clock, history
  <2>2. CASE Denied(g) /\ UNCHANGED crawlLog
    BY <1>5, <2>1, <2>2 DEF Denied, Finished
  <2>3. CASE /\ Granted(g)
             /\ crawlLog' = [crawlLog EXCEPT ![task[g].job] = task[g].now]
    BY <1>11, <2>1, <2>3, GrantKeeps
  <2> QED
    BY <1>11, <2>2, <2>3 DEF InsertClaim, UpdateClaim
<1>12. ASSUME NEW g \in Goroutines, Begin(g) PROVE ClaimInv'
  <2>1. Active(g) /\ UNCHANGED <<crawlLog, day, pending>>
    BY <1>12 DEF Begin, Active, Others, clock
  <2>2. PICK c \in Tasks : c = task[g]
    BY <2>1, ActiveTask
  <2>3. PICK t \in Tasks : t = [c EXCEPT !.ctx = jobContext(g)]
    BY <2>2 DEF Tasks, jobContext
  <2>4. t.job = c.job /\ t.now = c.now
    BY <2>3 DEF Tasks
  <2>5. <<c.job, c.now>> \notin ran /\ crawlLog[c.job] = c.now /\ c.now # None
    BY <1>12, <2>1, <2>2 DEF ClaimInv, Begin, Tasks, Days, LogInv, GoroutineInv
  <2>6. ran' = ran \cup {<<c.job, c.now>>} /\ twice' = {}
    BY <1>12, <2>2, <2>3, <2>4, <2>5 DEF Begin, ClaimInv, LogInv, GoroutineInv
  <2>7. PICK s \in Tasks : /\ Become(g, s) /\ s.pc \in {"work", "dates", "done"}
                           /\ s.job = c.job /\ s.now = c.now
    <3> DEFINE s1 == [t EXCEPT !.pc = "work"]
    <3>1. /\ Backfill(t) \in Tasks /\ Backfill(t).pc \in {"dates", "done"}
          /\ Backfill(t).job = c.job /\ Backfill(t).now = c.now
      BY <2>4, BackfillType
    <3>2. s1 \in Tasks /\ s1.pc = "work" /\ s1.job = c.job /\ s1.now = c.now
      BY <2>4 DEF Tasks
    <3>3. Become(g, Backfill(t)) \/ Become(g, s1)
      BY <1>12, <2>2, <2>3 DEF Begin
    <3> HIDE DEF s1
    <3> QED
      BY <3>1, <3>2, <3>3
  <2>8. task'[g] = s /\ \A h \in Goroutines \ {g} : task'[h] = task[h]
    BY <2>7 DEF Become, TypeOK
  <2>9. LogInv'
    <3>1. c.now \in Days /\ c.job \in Jobs
      BY <2>2 DEF Tasks
    <3>2. \A x \in ran' : crawlLog[x[1]] # None /\ x[2] <= crawlLog[x[1]]
      BY <2>5, <2>6, <3>1 DEF ClaimInv, Days, LogInv, GoroutineInv
    <3> QED
      BY <2>1, <2>6, <3>2 DEF ClaimInv, LogInv, NotAfter, GoroutineInv
  <2>10. GoroutineInv(g)'
    BY <2>1, <2>2, <2>7, <2>8 DEF ClaimInv, GoroutineInv, Active, NotAfter, Owns, LogInv
  <2>11. ASSUME NEW h \in Goroutines, h # g PROVE GoroutineInv(h)'
    <3>1. Owns(g, c.job)
      BY <2>1, <2>2 DEF ClaimInv, LogInv, GoroutineInv
    <3>2. ~Owns(h, c.job)
      BY <2>11, <3>1, OneOwner
    <3>3. Active(h) => Owns(h, task[h].job)
      BY DEF ClaimInv, LogInv, GoroutineInv
    <3>4. Active(h) => <<task[h].job, task[h].now>> # <<c.job, c.now>>
      BY <3>2, <3>3
    <3>5. GoroutineInv(h) /\ task'[h] = task[h]
      BY <2>8, <2>11 DEF ClaimInv
    <3> QED
      BY <2>1, <2>6, <3>4, <3>5 DEF GoroutineInv, Active, NotAfter, Owns
  <2> QED
    BY <2>9, <2>10, <2>11 DEF ClaimInv, LogInv, GoroutineInv
<1>13. ASSUME NEW g \in Goroutines, Work(g) \/ RunDate(g) PROVE ClaimInv'
  <2>1. Active(g) /\ UNCHANGED <<crawlLog, ran, twice, day, pending>>
    BY <1>13 DEF Work, RunDate, Active, Others, clock, history
  <2>2. task[g] \in Tasks
    BY <2>1, ActiveTask
  <2>3. PICK t \in Tasks : /\ Become(g, t) /\ t.pc \in {"dates", "done"}
                           /\ t.job = task[g].job /\ t.now = task[g].now
    <3>1. CASE Work(g)
      <4>1. /\ Backfill(task[g]) \in Tasks
            /\ Backfill(task[g]).pc \in {"dates", "done"}
            /\ Backfill(task[g]).job = task[g].job
            /\ Backfill(task[g]).now = task[g].now
        BY <2>2, BackfillType
      <4>2. CASE Become(g, Backfill(task[g]))
        BY <4>1, <4>2
      <4>3. CASE Become(g, [task[g] EXCEPT !.pc = "dates", !.left = 0])
        <5>1. PICK u : u = [task[g] EXCEPT !.pc = "dates", !.left = 0]
          OBVIOUS
        <5>2. /\ u \in Tasks /\ u.pc \in {"dates", "done"}
              /\ u.job = task[g].job /\ u.now = task[g].now
          BY <2>2, <5>1, TodayType
        <5> QED
          BY <4>3, <5>1, <5>2
      <4>4. CASE Become(g, [task[g] EXCEPT !.pc = "done"])
        BY <2>2, <4>4 DEF Tasks
      <4> QED
        BY <3>1, <4>2, <4>3, <4>4 DEF Work
    <3>2. CASE RunDate(g)
      <4>1. CASE Become(g, [task[g] EXCEPT !.pc = "done"])
        BY <2>2, <4>1 DEF Tasks
      <4>2. CASE task[g].pc = "dates" /\ ~(task[g].left <= 1)
                 /\ Become(g, [task[g] EXCEPT !.left = task[g].left - 1])
        BY <2>2, <4>2 DEF Tasks
      <4> QED
        BY <3>2, <4>1, <4>2 DEF RunDate
    <3> QED
      BY <1>13, <3>1, <3>2
  <2> QED
    BY <2>1, <2>3, MoveKeeps
<1> QED
  BY <1>1, <1>2, <1>3, <1>4, <1>6, <1>7, <1>8, <1>9, <1>10, <1>11, <1>12, <1>13
  DEF Next, Process, Goroutine, Crash, StopReturns

\* With one process at a time no window ever runs twice, through any number of crashes, restarts, stops, late ticks and
\* failing statements.
THEOREM WindowsRunOnce == Single => (Spec => []OncePerWindow)
<1> SUFFICES ASSUME Single PROVE Spec => []OncePerWindow
  OBVIOUS
<1>1. Init => ClaimInv
  BY DEF Init, ClaimInv, NotAfter, Active, Off, LogInv, GoroutineInv
<1>2. TypeOK /\ ClaimInv /\ [Next]_vars => ClaimInv'
  BY ClaimStep
<1>3. ClaimInv => OncePerWindow
  BY DEF ClaimInv, OncePerWindow, LogInv, GoroutineInv
<1> QED
  BY <1>1, <1>2, <1>3, TypeCorrect, PTL DEF Spec

-----------------------------------------------------------------------------
(* Suppressed windows                                                      *)

\* A window somebody takes for claimed has run, is about to, or was lost.
Accounted(w) ==
    w \in ran \cup lost \/ \E g \in Goroutines : AboutToRun(g) /\ Window(g) = w

CauseInv ==
    \A j \in Jobs :
        /\ crawlLog[j] # None => Accounted(<<j, crawlLog[j]>>)
        /\ \A p \in Procs :
              status[p] # "down" /\ lastRun[p][j] # None => Accounted(<<j, lastRun[p][j]>>)


\* A goroutine that was granted its window is about to run it.
LEMMA GrantedRuns ==
    ASSUME TypeOK, NEW g \in Goroutines, Active(g), Granted(g), NEW w, w = Window(g)
    PROVE  Accounted(w)'
<1>1. task'[g] = [task[g] EXCEPT !.pc = "begin"]
  BY DEF Granted, Become, TypeOK
<1>2. task'[g].pc = "begin" /\ task'[g].job = task[g].job /\ task'[g].now = task[g].now
  BY <1>1, ActiveTask DEF Tasks
<1> QED
  BY <1>2 DEF Accounted, AboutToRun, Window

\* An account stays valid: a window about to run runs, or is lost when its
\* process ends.
LEMMA AccountKept ==
    ASSUME TypeOK, [Next]_vars, NEW w, Accounted(w)
    PROVE  Accounted(w)'
<1>1. ASSUME NEW g \in Goroutines, NEW t, Become(g, t), ~AboutToRun(g),
             ran \cup lost \subseteq (ran \cup lost)'
      PROVE  Accounted(w)'
  <2>1. \A h \in Goroutines \ {g} : task'[h] = task[h]
    BY <1>1 DEF Become, TypeOK
  <2> QED
    BY <1>1, <2>1 DEF Accounted, AboutToRun, Window
<1>2. ASSUME UNCHANGED task, ran \cup lost \subseteq (ran \cup lost)' PROVE Accounted(w)'
  BY <1>2 DEF Accounted, AboutToRun, Window
<1>3. CASE UNCHANGED vars
  BY <1>2, <1>3 DEF vars, history
<1>4. CASE AdvanceClock
  BY <1>2, <1>4 DEF AdvanceClock, history
<1>5. ASSUME NEW p \in Procs, Stop(p) \/ TickFires(p) PROVE Accounted(w)'
  BY <1>2, <1>5 DEF Stop, TickFires, history
<1>6. ASSUME NEW p \in Procs, Start(p) PROVE Accounted(w)'
  <2>1. \A h \in Goroutines : AboutToRun(h) => task'[h] = task[h]
    BY <1>6 DEF Start, TypeOK, AboutToRun, Off
  <2> QED
    BY <1>6, <2>1 DEF Start, history, Accounted, AboutToRun, Window
<1>7. ASSUME NEW p \in Procs, Halt(p) PROVE Accounted(w)'
  <2>1. CASE w \in ran \cup lost
    BY <1>7, <2>1 DEF Halt, Accounted
  <2>2. ASSUME NEW g \in Goroutines, AboutToRun(g), Window(g) = w PROVE Accounted(w)'
    <3>1. CASE g[1] = p
      BY <1>7, <2>2, <3>1 DEF Halt, Accounted
    <3>2. CASE g[1] # p
      <4>1. task'[g] = task[g]
        BY <1>7, <3>2 DEF Halt
      <4> QED
        BY <2>2, <4>1 DEF Accounted, AboutToRun, Window
    <3> QED
      BY <3>1, <3>2
  <2> QED
    BY <2>1, <2>2 DEF Accounted
<1>8. ASSUME NEW g \in Goroutines, Tick(g) \/ StartupFires(g) \/ Exit(g) PROVE Accounted(w)'
  <2>1. ~AboutToRun(g)
    BY <1>8 DEF Tick, StartupFires, Exit, AboutToRun, Wait
  <2>2. UNCHANGED <<ran, lost>>
    BY <1>8 DEF Tick, StartupFires, Exit, history
  <2>3. \E t : Become(g, t)
    BY <1>8 DEF Tick, StartupFires, Exit
  <2> QED
    BY <1>1, <2>1, <2>2, <2>3
<1>9. ASSUME NEW g \in Goroutines,
             \/ Claim(g) \/ Lookup(g) \/ InsertClaim(g) \/ UpdateClaim(g) \/ ClaimFails(g)
             \/ Work(g) \/ RunDate(g) \/ Done(g)
      PROVE  Accounted(w)'
  <2>1. ~AboutToRun(g)
    BY <1>9
    DEF Claim, Lookup, InsertClaim, UpdateClaim, ClaimFails, Work, RunDate, Done, AboutToRun
  <2>2. ran \subseteq ran' /\ lost \subseteq lost'
    BY <1>9
    DEF Claim, Lookup, InsertClaim, UpdateClaim, ClaimFails, Work, RunDate, Done, history
  <2>3. \E t : Become(g, t)
    BY <1>9 DEF Claim, Lookup, InsertClaim, UpdateClaim, ClaimFails, Work, RunDate, Done,
                Granted, Denied
  <2> QED
    BY <1>1, <2>1, <2>2, <2>3
<1>10. ASSUME NEW g \in Goroutines, Begin(g) PROVE Accounted(w)'
  <2>1. Active(g)
    BY <1>10 DEF Begin, Active
  <2>2. PICK t : t = [task[g] EXCEPT !.ctx = jobContext(g)]
    OBVIOUS
  <2>3. t.job = task[g].job /\ t.now = task[g].now
    BY <2>1, <2>2, ActiveTask DEF Tasks
  <2>4. ran' = ran \cup {Window(g)} /\ lost' = lost
    BY <1>10, <2>2, <2>3 DEF Begin, Window
  <2>5. \A h \in Goroutines \ {g} : task'[h] = task[h]
    BY <1>10 DEF Begin, Become, TypeOK
  <2> QED
    BY <2>4, <2>5 DEF Accounted, AboutToRun, Window
<1> QED
  BY <1>3, <1>4, <1>5, <1>6, <1>7, <1>8, <1>9, <1>10
  DEF Next, Process, Goroutine, Crash, StopReturns

\* What a goroutine writes down, in memory or in crawl_log, is its window.
LEMMA RecordKeeps ==
    ASSUME TypeOK, CauseInv, [Next]_vars, NEW g \in Goroutines, Active(g),
           Record(g), UNCHANGED status, NEW w, w = Window(g), Accounted(w)',
           crawlLog' = crawlLog \/ crawlLog' = [crawlLog EXCEPT ![task[g].job] = task[g].now]
    PROVE  CauseInv'
<1>1. PICK k \in Jobs, d \in Days : k = task[g].job /\ d = task[g].now /\ w = <<k, d>>
  BY ActiveTask DEF Tasks, Window
<1>2. ASSUME NEW j \in Jobs, crawlLog'[j] # None PROVE Accounted(<<j, crawlLog[j]>>)'
  <2>1. CASE crawlLog'[j] = crawlLog[j]
    <3>1. Accounted(<<j, crawlLog[j]>>)
      BY <1>2, <2>1 DEF CauseInv
    <3>2. PICK x : x = <<j, crawlLog[j]>>
      OBVIOUS
    <3>3. Accounted(x)'
      BY <3>1, <3>2, AccountKept
    <3> QED
      BY <2>1, <3>2, <3>3 DEF Accounted
  <2>2. CASE crawlLog'[j] # crawlLog[j]
    <3>1. j = k /\ crawlLog'[j] = d
      BY <1>1, <2>2 DEF TypeOK
    <3> QED
      BY <1>1, <3>1 DEF Accounted
  <2> QED
    BY <2>1, <2>2
<1>3. ASSUME NEW p \in Procs, NEW j \in Jobs, status'[p] # "down", lastRun'[p][j] # None
      PROVE  Accounted(<<j, lastRun[p][j]>>)'
  <2>1. CASE lastRun'[p][j] = lastRun[p][j]
    <3>1. Accounted(<<j, lastRun[p][j]>>)
      BY <1>3, <2>1 DEF CauseInv
    <3>2. PICK x : x = <<j, lastRun[p][j]>>
      OBVIOUS
    <3>3. Accounted(x)'
      BY <3>1, <3>2, AccountKept
    <3> QED
      BY <2>1, <3>2, <3>3 DEF Accounted
  <2>2. CASE lastRun'[p][j] # lastRun[p][j]
    <3>1. j = k /\ lastRun'[p][j] = d
      BY <1>1, <2>2 DEF Record, TypeOK
    <3> QED
      BY <1>1, <3>1 DEF Accounted
  <2> QED
    BY <2>1, <2>2
<1> QED
  BY <1>2, <1>3 DEF CauseInv

\* Every action leaves each claim with its cause.
LEMMA CauseStep ==
    ASSUME TypeOK, CauseInv, [Next]_vars PROVE CauseInv'
<1> USE SchedulerAssumption
<1>1. ASSUME UNCHANGED crawlLog,
             \A p \in Procs : status'[p] # "down" =>
                 \/ status[p] # "down" /\ lastRun'[p] = lastRun[p]
                 \/ \A j \in Jobs : lastRun'[p][j] = None
      PROVE  CauseInv'
  <2>1. ASSUME NEW j \in Jobs, crawlLog'[j] # None PROVE Accounted(<<j, crawlLog[j]>>)'
    <3>1. PICK x : x = <<j, crawlLog[j]>> /\ Accounted(x)
      BY <1>1, <2>1 DEF CauseInv
    <3> QED
      BY <1>1, <3>1, AccountKept DEF Accounted
  <2>2. ASSUME NEW p \in Procs, NEW j \in Jobs, status'[p] # "down", lastRun'[p][j] # None
        PROVE  Accounted(<<j, lastRun[p][j]>>)'
    <3>1. status[p] # "down" /\ lastRun'[p] = lastRun[p]
      BY <1>1, <2>2
    <3>2. PICK x : x = <<j, lastRun[p][j]>> /\ Accounted(x)
      BY <2>2, <3>1 DEF CauseInv
    <3> QED
      BY <3>1, <3>2, AccountKept DEF Accounted
  <2> QED
    BY <2>1, <2>2 DEF CauseInv
<1>2. CASE UNCHANGED vars \/ AdvanceClock
  BY <1>1, <1>2 DEF vars, history, clock, AdvanceClock
<1>3. ASSUME NEW p \in Procs, Start(p) \/ Halt(p) \/ Stop(p) \/ TickFires(p) PROVE CauseInv'
  <2>1. CASE Start(p)
    BY <1>1, <2>1 DEF Start, TypeOK
  <2>2. CASE Halt(p)
    BY <1>1, <2>2 DEF Halt, TypeOK
  <2>3. CASE Stop(p)
    BY <1>1, <2>3 DEF Stop, TypeOK
  <2>4. CASE TickFires(p)
    BY <1>1, <2>4 DEF TickFires, TypeOK
  <2> QED
    BY <1>3, <2>1, <2>2, <2>3, <2>4
<1>4. ASSUME NEW g \in Goroutines,
             \/ Tick(g) \/ StartupFires(g) \/ Exit(g) \/ Claim(g) \/ Begin(g)
             \/ Work(g) \/ RunDate(g) \/ Done(g)
      PROVE  CauseInv'
  <2>1. UNCHANGED <<crawlLog, lastRun, status>>
    BY <1>4 DEF Tick, StartupFires, Exit, Claim, Begin, Work, RunDate, Done, Others
  <2> QED
    BY <1>1, <2>1
<1>5. ASSUME NEW g \in Goroutines,
             Lookup(g) \/ InsertClaim(g) \/ UpdateClaim(g) \/ ClaimFails(g)
      PROVE  CauseInv'
  <2>1. Active(g) /\ UNCHANGED status
    BY <1>5 DEF Lookup, InsertClaim, UpdateClaim, ClaimFails, Active, Others
  <2>2. PICK w : w = Window(g)
    OBVIOUS
  <2>3. CASE Lookup(g) /\ crawlLog[task[g].job] = task[g].now /\ Denied(g)
    <3>1. task[g].job \in Jobs /\ task[g].now # None
      BY <2>1, ActiveTask DEF Tasks, Days
    <3>2. Accounted(w)
      BY <2>2, <2>3, <3>1 DEF CauseInv, Window
    <3>3. Accounted(w)'
      BY <3>2, AccountKept
    <3>4. UNCHANGED crawlLog /\ Record(g)
      BY <2>3 DEF Lookup, Denied
    <3> QED
      BY <2>1, <2>2, <3>3, <3>4, RecordKeeps
  <2>4. CASE Lookup(g) /\ UNCHANGED lastRun
    BY <1>1, <2>1, <2>4 DEF Lookup
  <2>5. CASE /\ InsertClaim(g) \/ UpdateClaim(g)
             /\ crawlLog' = [crawlLog EXCEPT ![task[g].job] = task[g].now] /\ Granted(g)
    <3>1. Accounted(w)'
      BY <2>1, <2>2, <2>5, GrantedRuns
    <3>2. Record(g)
      BY <2>5 DEF Granted
    <3> QED
      BY <2>1, <2>2, <2>5, <3>1, <3>2, RecordKeeps
  <2>6. CASE /\ InsertClaim(g) /\ crawlLog[task[g].job] # None
             /\ Denied(g) /\ UNCHANGED crawlLog
    <3>1. /\ task[g].job \in Jobs /\ crawlLog[task[g].job] # None
          /\ Record(g)
          /\ \/ crawlLog[task[g].job] = task[g].now
             \/ w \in lost'
      <4>1. task[g].job \in Jobs
        BY <2>1, ActiveTask DEF Tasks
      <4> QED
        BY <2>2, <2>6, <4>1 DEF InsertClaim, Denied
    <3>2. Accounted(w)'
      <4>1. CASE crawlLog[task[g].job] = task[g].now
        <5>1. Accounted(w)
          BY <2>2, <3>1, <4>1 DEF CauseInv, Window
        <5> QED
          BY <5>1, AccountKept
      <4>2. CASE w \in lost'
        BY <4>2 DEF Accounted
      <4> QED
        BY <3>1, <4>1, <4>2
    <3> QED
      BY <2>1, <2>2, <2>6, <3>1, <3>2, RecordKeeps
  <2>7. CASE ClaimFails(g)
    <3>1. Accounted(w)' /\ Record(g) /\ UNCHANGED crawlLog
      BY <2>2, <2>7 DEF ClaimFails, Denied, Accounted
    <3> QED
      BY <2>1, <2>2, <3>1, RecordKeeps
  <2> QED
    BY <1>5, <2>3, <2>4, <2>5, <2>6, <2>7 DEF Lookup, InsertClaim, UpdateClaim
<1> QED
  BY <1>2, <1>3, <1>4, <1>5 DEF Next, Process, Goroutine, Crash, StopReturns

\* Whatever crawl_log or a process takes for claimed has run, is about to, or
\* was lost when its claim failed or its process ended: for any number of
\* processes over the database, restarts and failing statements
\* (claimWindow, claimWindowDurable).
THEOREM SuppressionsExplained == Spec => []SuppressedHasCause
<1>1. Init => CauseInv
  BY DEF Init, CauseInv
<1>2. TypeOK /\ CauseInv /\ [Next]_vars => CauseInv'
  BY CauseStep
<1>3. CauseInv => SuppressedHasCause
  BY DEF CauseInv, SuppressedHasCause, Accounted
<1> QED
  BY <1>1, <1>2, <1>3, TypeCorrect, PTL DEF Spec

-----------------------------------------------------------------------------
(* Due dates                                                              *)

\* Of a task: what its label says about the dates it has left.
Dated(t) ==
    /\ t.pc \in {"claim", "lookup", "insert", "update", "begin", "work"} => t.left = 0
    /\ t.pc = "dates" => t.left \in 0..7 /\ (t.left = 0 => t.job = "price_dca")
    /\ t.pc = "done" => t.left \in {0, 1}

\* NeverEarly is not inductive: a window's job keeps the day of its tick
\* through claim and work, and only price_dca, whose tick fired at 20:00,
\* comes to hand over that day itself.
TimeInv ==
    /\ \A p \in Procs : pending[p] # None =>
          pending[p][1] < day \/ (pending[p][1] = day /\ pending[p][2] <= hour)
    /\ \A g \in Goroutines : Active(g) =>
          /\ task[g].now <= day /\ Dated(task[g])
          /\ task[g].job = "price_dca" => task[g].now < day \/ hour = 4

\* What holds of a goroutine when the clock and the ticks go on.
TimeOf(g, t, d, h) ==
    t.pc \notin {"off", "wait"} =>
        /\ t.now <= d /\ Dated(t)
        /\ t.job = "price_dca" => t.now < d \/ h = 4

\* A task that moves on, or ends, keeps the invariant.
LEMMA TimeMoved ==
    ASSUME TypeOK, TimeInv, UNCHANGED <<clock, pending>>,
           NEW g \in Goroutines, NEW t, Become(g, t), TimeOf(g, t, day, hour)
    PROVE  TimeInv'
<1>1. \A h \in Goroutines \ {g} : task'[h] = task[h]
  BY DEF Become, TypeOK
<1>2. task'[g] = t
  BY DEF Become, TypeOK
<1>3. ASSUME NEW h \in Goroutines, task'[h].pc \notin {"off", "wait"}
      PROVE  /\ task'[h].now <= day /\ Dated(task'[h])
             /\ task'[h].job = "price_dca" => task'[h].now < day \/ hour = 4
  BY <1>1, <1>2, <1>3 DEF TimeInv, TimeOf, Active
<1> QED
  BY <1>3 DEF TimeInv, Active, clock, Dated

\* The dates a backfill has left, and today's date, are in order.
LEMMA DatedNext ==
    ASSUME NEW t \in Tasks, t.pc \in {"begin", "work"}, Dated(t)
    PROVE  /\ Dated(Backfill(t)) /\ Dated([t EXCEPT !.pc = "work"])
           /\ Dated([t EXCEPT !.pc = "done"])
           /\ t.job = "price_dca" => Dated([t EXCEPT !.pc = "dates", !.left = 0])
  BY DEF Tasks, Dated, Backfill, dcaBackfillLookbackDays

\* The dates a job is at are past ones, or today's after 20:00.
LEMMA TimeStep ==
    ASSUME TypeOK, TimeInv, [Next]_vars PROVE TimeInv'
<1> USE SchedulerAssumption, HoursType
<1>1. ASSUME UNCHANGED <<clock, pending>>,
             \A g \in Goroutines : task'[g] = task[g] \/ task'[g] \in {Off, Wait}
      PROVE  TimeInv'
  <2>1. ASSUME NEW g \in Goroutines, task'[g].pc \notin {"off", "wait"} PROVE task'[g] = task[g]
    BY <1>1, <2>1 DEF Off, Wait
  <2> QED
    BY <1>1, <2>1 DEF TimeInv, Active, clock, Dated
<1>2. CASE UNCHANGED vars
  BY <1>1, <1>2 DEF vars, clock
<1>3. CASE AdvanceClock
  <2>1. UNCHANGED <<pending, task>>
    BY <1>3 DEF AdvanceClock
  <2>2. day' > day \/ (day' = day /\ hour' > hour)
    BY <1>3 DEF AdvanceClock, TypeOK, Days
  <2>3. day \in Nat /\ day' \in Nat /\ hour \in 1..4 /\ hour' \in 1..4
    BY <1>3 DEF AdvanceClock, TypeOK, Days
  <2>4. \A p \in Procs : pending[p] # None => pending[p][1] \in Nat /\ pending[p][2] \in 1..4
    BY DEF TypeOK, Days
  <2>5. \A g \in Goroutines : Active(g) => task[g].now \in Nat
    BY ActiveTask DEF Tasks, Days
  <2>6. \A p \in Procs : pending'[p] # None =>
           pending'[p][1] < day' \/ (pending'[p][1] = day' /\ pending'[p][2] <= hour')
    BY <2>1, <2>2, <2>3, <2>4 DEF TimeInv
  <2>7. ASSUME NEW g \in Goroutines, task'[g].pc \notin {"off", "wait"}
        PROVE  /\ task'[g].now <= day' /\ Dated(task'[g])
               /\ task'[g].job = "price_dca" => task'[g].now < day' \/ hour' = 4
    <3>1. Active(g)
      BY <2>1, <2>7 DEF Active
    <3>2. /\ task[g].now <= day /\ Dated(task[g])
          /\ task[g].job = "price_dca" => task[g].now < day \/ hour = 4
      BY <3>1 DEF TimeInv
    <3> QED
      BY <2>1, <2>2, <2>3, <2>5, <3>1, <3>2
  <2> QED
    BY <2>6, <2>7 DEF TimeInv, Active, Dated
<1>4. ASSUME NEW p \in Procs, Start(p) PROVE TimeInv'
  BY <1>1, <1>4 DEF Start, clock, TypeOK
<1>5. ASSUME NEW p \in Procs, Halt(p) \/ Stop(p) PROVE TimeInv'
  <2>1. \A g \in Goroutines : task'[g] = task[g] \/ task'[g] \in {Off, Wait}
    BY <1>5 DEF Halt, Stop, TypeOK
  <2>2. \A g \in Goroutines : task'[g].pc \notin {"off", "wait"} => task'[g] = task[g]
    BY <2>1 DEF Off, Wait
  <2>3. \A q \in Procs : pending'[q] # None => pending'[q] = pending[q]
    BY <1>5 DEF Halt, Stop, TypeOK
  <2>4. UNCHANGED clock
    BY <1>5 DEF Halt, Stop
  <2> QED
    BY <2>2, <2>3, <2>4 DEF TimeInv, Active, clock, Dated
<1>6. ASSUME NEW p \in Procs, TickFires(p) PROVE TimeInv'
  <2>1. /\ UNCHANGED <<clock, task>> /\ pending'[p] = <<day, hour>>
        /\ \A q \in Procs \ {p} : pending'[q] = pending[q]
    BY <1>6 DEF TickFires, TypeOK, clock
  <2>2. \A q \in Procs : pending'[q] # None =>
           pending'[q][1] < day \/ (pending'[q][1] = day /\ pending'[q][2] <= hour)
    BY <2>1 DEF TimeInv, TypeOK
  <2> QED
    BY <2>1, <2>2 DEF TimeInv, Active, clock, Dated
<1>7. ASSUME NEW g \in Goroutines, Tick(g) PROVE TimeInv'
  <2>1. g[1] \in Procs /\ pending[g[1]] # None
    BY <1>7 DEF Tick, Goroutines
  <2>2. PICK t \in Days \X (1..4) : t = pending[g[1]]
    BY <2>1 DEF TypeOK
  <2>3. t[1] < day \/ (t[1] = day /\ t[2] <= hour)
    BY <2>1, <2>2 DEF TimeInv
  <2>4. PICK s : Become(g, s) /\ (s = Wait \/ s = Task(WindowJob(t), t[1]))
    BY <1>7, <2>2 DEF Tick
  <2>5. task'[g] = s /\ \A h \in Goroutines \ {g} : task'[h] = task[h]
    BY <2>4 DEF Become, TypeOK
  <2>6. day \in Nat /\ hour \in 1..4 /\ t[1] \in Nat /\ t[2] \in 1..4
    BY <2>2 DEF TypeOK, Days
  <2>7. WindowJob(t) = "price_dca" => t[2] = 4
    <3>1. Hours[1] = "wal" /\ Hours[2] = "morning" /\ Hours[3] = "holdings"
      BY DEF Hours
    <3>2. None # "price_dca"
      BY DEF AllJobs
    <3> QED
      BY <2>6, <3>1, <3>2 DEF WindowJob
  <2>8. TimeOf(g, s, day, hour)
    <3>1. CASE s = Wait
      BY <3>1 DEF Wait, TimeOf
    <3>2. CASE s = Task(WindowJob(t), t[1])
      <4>1. s.pc = "claim" /\ s.now = t[1] /\ s.left = 0 /\ s.job = WindowJob(t)
        BY <3>2 DEF Task
      <4>2. t[1] <= day /\ (t[2] = 4 => t[1] < day \/ hour = 4)
        BY <2>3, <2>6
      <4> QED
        BY <2>7, <4>1, <4>2 DEF TimeOf, Dated
    <3> QED
      BY <2>4, <3>1, <3>2
  <2>9. UNCHANGED clock /\ \A q \in Procs : pending'[q] # None => pending'[q] = pending[q]
    BY <1>7 DEF Tick, Others, TypeOK
  <2>10. ASSUME NEW h \in Goroutines, task'[h].pc \notin {"off", "wait"}
         PROVE  /\ task'[h].now <= day /\ Dated(task'[h])
                /\ task'[h].job = "price_dca" => task'[h].now < day \/ hour = 4
    BY <2>5, <2>8, <2>10 DEF TimeInv, TimeOf, Active
  <2> QED
    BY <2>9, <2>10 DEF TimeInv, Active, clock, Dated
<1>8. ASSUME NEW g \in Goroutines, StartupFires(g) PROVE TimeInv'
  <2>1. UNCHANGED <<clock, pending>>
    BY <1>8 DEF StartupFires, Others
  <2>2. PICK s : Become(g, s) /\ (s = Off \/ s = Task("startup_refresh", day))
    BY <1>8 DEF StartupFires
  <2>3. TimeOf(g, s, day, hour)
    BY <2>2 DEF TimeOf, Task, Off, Dated, TypeOK, Days
  <2> QED
    BY <2>1, <2>2, <2>3, TimeMoved
<1>9. ASSUME NEW g \in Goroutines, UNCHANGED <<clock, pending>>,
             Become(g, Off) \/ Become(g, Wait)
      PROVE  TimeInv'
  BY <1>1, <1>9 DEF Become, TypeOK
<1>10. ASSUME NEW g \in Goroutines, Exit(g) \/ Done(g) \/ ClaimFails(g) PROVE TimeInv'
  BY <1>9, <1>10 DEF Exit, Done, ClaimFails, Denied, Finished, Others
<1>11. ASSUME NEW g \in Goroutines, Active(g), UNCHANGED <<clock, pending>>,
              NEW l \in {"lookup", "insert", "update", "begin"},
              task[g].left = 0, NEW c,
              \/ Become(g, [task[g] EXCEPT !.pc = l])
              \/ Become(g, [task[g] EXCEPT !.pc = l, !.ctx = c])
       PROVE  TimeInv'
  <2>1. PICK s : /\ Become(g, s)
                 /\ s = [task[g] EXCEPT !.pc = l] \/ s = [task[g] EXCEPT !.pc = l, !.ctx = c]
    BY <1>11
  <2>2. s.pc = l /\ s.left = 0 /\ s.job = task[g].job /\ s.now = task[g].now
    <3>1. task[g] \in Tasks
      BY <1>11, ActiveTask
    <3> QED
      BY <1>11, <2>1, <3>1 DEF Tasks
  <2>3. TimeOf(g, s, day, hour)
    BY <1>11, <2>2 DEF TimeInv, TimeOf, Dated
  <2> QED
    BY <1>11, <2>1, <2>3, TimeMoved
<1>12. ASSUME NEW g \in Goroutines, Claim(g) PROVE TimeInv'
  <2>1. Active(g) /\ UNCHANGED <<clock, pending>>
    BY <1>12 DEF Claim, Active, Others
  <2>2. task[g].left = 0
    BY <1>12, <2>1 DEF Claim, TimeInv, Dated
  <2>3. CASE Become(g, Finished(g))
    BY <1>9, <2>1, <2>3 DEF Finished
  <2>4. CASE Become(g, [task[g] EXCEPT !.pc = "lookup", !.ctx = jobContext(g)])
    BY <1>11, <2>1, <2>2, <2>4
  <2> QED
    BY <1>12, <2>3, <2>4 DEF Claim
<1>13. ASSUME NEW g \in Goroutines, Lookup(g) \/ InsertClaim(g) \/ UpdateClaim(g) PROVE TimeInv'
  <2>1. Active(g) /\ UNCHANGED <<clock, pending>>
    BY <1>13 DEF Lookup, InsertClaim, UpdateClaim, Active, Others
  <2>2. task[g].left = 0
    BY <1>13, <2>1 DEF Lookup, InsertClaim, UpdateClaim, TimeInv, Dated
  <2>3. CASE Become(g, Finished(g))
    BY <1>9, <2>1, <2>3 DEF Finished
  <2>4. CASE \E l \in {"insert", "update", "begin"} : Become(g, [task[g] EXCEPT !.pc = l])
    BY <1>11, <2>1, <2>2, <2>4
  <2> QED
    BY <1>13, <2>3, <2>4 DEF Lookup, InsertClaim, UpdateClaim, Granted, Denied
<1>14. ASSUME NEW g \in Goroutines, Begin(g) PROVE TimeInv'
  <2>1. Active(g) /\ UNCHANGED <<clock, pending>>
    BY <1>14 DEF Begin, Active, Others
  <2>2. PICK t \in Tasks : t = [task[g] EXCEPT !.ctx = jobContext(g)]
    <3>1. task[g] \in Tasks /\ jobContext(g) \in {"root", "background"}
      BY <2>1, ActiveTask DEF jobContext
    <3> QED
      BY <3>1 DEF Tasks
  <2>3. /\ t.pc = "begin" /\ t.job = task[g].job /\ t.now = task[g].now
        /\ t.left = task[g].left
    BY <1>14, <2>1, <2>2, ActiveTask DEF Begin, Tasks
  <2>4. Dated(t) /\ TimeOf(g, task[g], day, hour)
    BY <2>1, <2>3, <1>14 DEF TimeInv, Dated, TimeOf, Active, Begin
  <2>5. PICK s : Become(g, s) /\ (s = Backfill(t) \/ s = [t EXCEPT !.pc = "work"])
    BY <1>14, <2>2 DEF Begin
  <2>6. s.job = t.job /\ s.now = t.now /\ Dated(s)
    <3>1. Dated(s)
      BY <2>3, <2>4, <2>5, DatedNext
    <3>2. CASE s = Backfill(t)
      BY <3>1, <3>2, BackfillType
    <3>3. CASE s = [t EXCEPT !.pc = "work"]
      BY <3>1, <3>3 DEF Tasks
    <3> QED
      BY <2>5, <3>2, <3>3
  <2>7. TimeOf(g, s, day, hour)
    BY <2>1, <2>3, <2>4, <2>6 DEF TimeOf, Active
  <2> QED
    BY <2>1, <2>5, <2>7, TimeMoved
<1>15. ASSUME NEW g \in Goroutines, Work(g) PROVE TimeInv'
  <2>1. Active(g) /\ UNCHANGED <<clock, pending>>
    BY <1>15 DEF Work, Active, Others
  <2>2. PICK t \in Tasks : t = task[g]
    BY <2>1, ActiveTask
  <2>3. t.pc = "work" /\ Dated(t) /\ TimeOf(g, t, day, hour)
    BY <1>15, <2>1, <2>2 DEF TimeInv, TimeOf, Active, Work
  <2>4. PICK s : /\ Become(g, s)
                 /\ \/ s = Backfill(t)
                    \/ t.job = "price_dca" /\ s = [t EXCEPT !.pc = "dates", !.left = 0]
                    \/ s = [t EXCEPT !.pc = "done"]
    BY <1>15, <2>2 DEF Work
  <2>5. s.job = t.job /\ s.now = t.now /\ Dated(s)
    <3>1. Dated(s)
      BY <2>3, <2>4, DatedNext
    <3>2. CASE s = Backfill(t)
      BY <3>1, <3>2, BackfillType
    <3>3. CASE s = [t EXCEPT !.pc = "dates", !.left = 0] \/ s = [t EXCEPT !.pc = "done"]
      BY <3>1, <3>3 DEF Tasks
    <3> QED
      BY <2>4, <3>2, <3>3
  <2>6. TimeOf(g, s, day, hour)
    BY <2>1, <2>2, <2>3, <2>5 DEF TimeOf, Active
  <2> QED
    BY <2>1, <2>4, <2>6, TimeMoved
<1>16. ASSUME NEW g \in Goroutines, RunDate(g) PROVE TimeInv'
  <2>1. Active(g) /\ UNCHANGED <<clock, pending>>
    BY <1>16 DEF RunDate, Active, Others
  <2>2. PICK t \in Tasks : t = task[g]
    BY <2>1, ActiveTask
  <2>3. t.pc = "dates" /\ Dated(t) /\ TimeOf(g, t, day, hour) /\ t.left \in Nat
    BY <1>16, <2>1, <2>2 DEF TimeInv, TimeOf, Active, RunDate, Tasks
  <2>4. PICK s : /\ Become(g, s)
                 /\ \/ t.left <= 1 /\ s = [t EXCEPT !.pc = "done"]
                    \/ ~(t.left <= 1) /\ s = [t EXCEPT !.left = t.left - 1]
    BY <1>16, <2>2 DEF RunDate
  <2>5. s.job = t.job /\ s.now = t.now /\ Dated(s)
    BY <2>3, <2>4 DEF Tasks, Dated
  <2>6. TimeOf(g, s, day, hour)
    BY <2>1, <2>2, <2>3, <2>5 DEF TimeOf, Active
  <2> QED
    BY <2>1, <2>4, <2>6, TimeMoved
<1> QED
  BY <1>2, <1>3, <1>4, <1>5, <1>6, <1>7, <1>8, <1>10, <1>12, <1>13, <1>14, <1>15, <1>16
  DEF Next, Process, Goroutine, Crash, StopReturns

\* No due date is handed to the DCA run before 20:00 of that date, for any
\* number of processes, restarts and late ticks (runDCABackfill, runPriceDCA).
THEOREM NeverAhead == Spec => NeverEarly
<1> DEFINE Early == \A d \in attempted' \ attempted : d < day \/ (d = day /\ Hours[hour] = "dca")
<1>1. Init => TimeInv
  BY DEF Init, TimeInv, Active, Off
<1>2. TypeOK /\ TimeInv /\ [Next]_vars => TimeInv'
  BY TimeStep
<1>3. TypeOK /\ TimeInv /\ [Next]_vars => [Early]_vars
  <2> SUFFICES ASSUME TypeOK, TimeInv, [Next]_vars, NEW d \in attempted' \ attempted
               PROVE  d < day \/ (d = day /\ Hours[hour] = "dca")
    OBVIOUS
  <2>1. PICK g \in Goroutines : RunDate(g)
    BY DEF Next, Process, Goroutine, Crash, StopReturns, vars, history, AdvanceClock, Start,
           Halt, Stop, TickFires, Tick, StartupFires, Exit, Claim, Lookup, InsertClaim,
           UpdateClaim, ClaimFails, Begin, Work, Done
  <2>2. Active(g) /\ task[g].pc = "dates"
    BY <2>1 DEF RunDate, Active
  <2>3. PICK t \in Tasks : t = task[g]
    BY <2>2, ActiveTask
  <2>4. d = t.now - t.left
    BY <2>1, <2>3 DEF RunDate, DueDate
  <2>5. /\ t.now <= day /\ t.left \in 0..7
        /\ t.left = 0 => t.job = "price_dca"
        /\ t.job = "price_dca" => t.now < day \/ hour = 4
    BY <2>2, <2>3 DEF TimeInv, Dated
  <2>6. t.now \in Nat /\ day \in Nat
    BY <2>3, SchedulerAssumption DEF Tasks, TypeOK, Days
  <2>7. t.left = 0 => d < day \/ (d = day /\ hour = 4)
    BY <2>4, <2>5, <2>6
  <2>8. t.left # 0 => d < day
    BY <2>4, <2>5, <2>6
  <2> QED
    BY <2>7, <2>8, HoursType
<1> QED
  BY <1>1, <1>2, <1>3, TypeCorrect, PTL DEF Spec, NeverEarly

-----------------------------------------------------------------------------
(* Backfill passes                                                        *)

\* The dates of the preceding week a backfill has behind it.
Tried(t) == {t.now - k : k \in (IF t.pc = "dates" THEN t.left + 1 ELSE 1)..7}

\* PassCoversWeek is not inductive: a backfill that no failing statement and
\* no Stop has disturbed has attempted every date it has behind it.
PassInv ==
    /\ PassCoversWeek
    /\ \A g \in Goroutines :
          /\ task[g].pc \in {"dates", "done"} /\ task[g].left >= 1
          /\ errors = 0 /\ Alive(g)
          => Tried(task[g]) \subseteq attempted

\* Whether a goroutine's context lives is decided by its own task and its
\* own process.
LEMMA AliveBefore ==
    ASSUME TypeOK, NEW g \in Goroutines, Active(g), UNCHANGED status,
           task'[g].ctx = task[g].ctx, Alive(g)'
    PROVE  Alive(g)
  BY DEF Alive

\* A task that is not past its due dates, or has none left, asks for nothing.
LEMMA PassMoved ==
    ASSUME TypeOK, PassInv, UNCHANGED <<attempted, passes, status, errors>>,
           NEW g \in Goroutines, NEW t, Become(g, t),
           t.pc \notin {"dates", "done"} \/ ~(t.left >= 1) \/ Tried(t) = {}
    PROVE  PassInv'
<1>1. \A h \in Goroutines \ {g} : task'[h] = task[h]
  BY DEF Become, TypeOK
<1>2. task'[g] = t
  BY DEF Become, TypeOK
<1>3. PassCoversWeek'
  BY DEF PassInv, PassCoversWeek
<1>4. ASSUME NEW h \in Goroutines, task'[h].pc \in {"dates", "done"}, task'[h].left >= 1,
             errors = 0, Alive(h)'
      PROVE  Tried(task'[h]) \subseteq attempted
  <2>1. CASE h = g
    BY <1>2, <1>4, <2>1
  <2>2. CASE h # g
    <3>1. task'[h] = task[h]
      BY <1>1, <2>2
    <3>2. Alive(h)
      BY <1>4, <3>1 DEF Alive
    <3> QED
      BY <1>4, <3>1, <3>2 DEF PassInv
  <2> QED
    BY <2>1, <2>2
<1> QED
  BY <1>3, <1>4 DEF PassInv, Tried

\* A backfill has nothing behind it when it begins.
LEMMA BackfillFresh ==
    ASSUME NEW t \in Tasks, t.left = 0
    PROVE  ~(Backfill(t).left >= 1) \/ Tried(Backfill(t)) = {}
<1>1. CASE IsWeekend(t.now)
  BY <1>1 DEF Backfill, Tasks
<1>2. CASE ~IsWeekend(t.now)
  <2>1. Backfill(t).pc = "dates" /\ Backfill(t).left = 7
    BY <1>2 DEF Backfill, Tasks, dcaBackfillLookbackDays
  <2> QED
    BY <2>1 DEF Tried
<1> QED
  BY <1>1, <1>2

\* A statement that fails, and a Stop, disturb the pass for good; what is
\* undisturbed goes on to its last date.
LEMMA PassStep ==
    ASSUME TypeOK, TimeInv, PassInv, [Next]_vars PROVE PassInv'
<1> USE SchedulerAssumption
<1>1. ASSUME UNCHANGED <<attempted, passes, errors>>,
             \A g \in Goroutines :
                \/ task'[g].pc \notin {"dates", "done"}
                \/ task'[g] = task[g] /\ (Alive(g)' => Alive(g))
      PROVE  PassInv'
  <2>1. PassCoversWeek'
    BY <1>1 DEF PassInv, PassCoversWeek
  <2>2. ASSUME NEW h \in Goroutines, task'[h].pc \in {"dates", "done"}, task'[h].left >= 1,
               errors = 0, Alive(h)'
        PROVE  Tried(task'[h]) \subseteq attempted
    BY <1>1, <2>2 DEF PassInv
  <2> QED
    BY <1>1, <2>1, <2>2 DEF PassInv, Tried
<1>2. CASE UNCHANGED vars
  BY <1>1, <1>2 DEF vars, history, Alive
<1>3. CASE AdvanceClock
  BY <1>1, <1>3 DEF AdvanceClock, history, Alive
<1>4. ASSUME NEW p \in Procs, Start(p) PROVE PassInv'
  <2>1. ASSUME NEW g \in Goroutines, task'[g].pc \in {"dates", "done"}
        PROVE  task'[g] = task[g] /\ (Alive(g)' => Alive(g))
    <3>1. g[1] # p /\ task'[g] = task[g]
      BY <1>4, <2>1 DEF Start, Wait
    <3>2. status'[g[1]] = status[g[1]]
      BY <1>4, <3>1 DEF Start, TypeOK, Goroutines
    <3> QED
      BY <3>1, <3>2 DEF Alive
  <2> QED
    BY <1>1, <1>4, <2>1 DEF Start, history
<1>5. ASSUME NEW p \in Procs, Halt(p) PROVE PassInv'
  <2>1. ASSUME NEW g \in Goroutines, task'[g].pc \in {"dates", "done"}
        PROVE  task'[g] = task[g] /\ (Alive(g)' => Alive(g))
    <3>1. g[1] # p /\ task'[g] = task[g]
      BY <1>5, <2>1 DEF Halt, Off
    <3>2. status'[g[1]] = status[g[1]]
      BY <1>5, <3>1 DEF Halt, TypeOK, Goroutines
    <3> QED
      BY <3>1, <3>2 DEF Alive
  <2> QED
    BY <1>1, <1>5, <2>1 DEF Halt
<1>6. ASSUME NEW p \in Procs, Stop(p) \/ TickFires(p) PROVE PassInv'
  <2>1. UNCHANGED <<attempted, passes, errors, task>>
    BY <1>6 DEF Stop, TickFires, history
  <2>2. \A q \in Procs : status'[q] = "up" => status[q] = "up"
    BY <1>6 DEF Stop, TickFires, TypeOK
  <2>3. \A g \in Goroutines : Alive(g)' => Alive(g)
    BY <2>1, <2>2 DEF Alive, Goroutines
  <2> QED
    BY <1>1, <2>1, <2>3
<1>7. ASSUME NEW g \in Goroutines, Tick(g) \/ StartupFires(g) \/ Exit(g) PROVE PassInv'
  <2>1. UNCHANGED <<attempted, passes, status, errors>>
    BY <1>7 DEF Tick, StartupFires, Exit, Others, history
  <2>2. \E t : Become(g, t) /\ t.pc \notin {"dates", "done"}
    BY <1>7 DEF Tick, StartupFires, Exit, Task, Wait, Off
  <2> QED
    BY <2>1, <2>2, PassMoved
<1>8. ASSUME NEW g \in Goroutines, Active(g), task[g].pc \notin {"dates", "done"},
             UNCHANGED <<attempted, passes, status>>, NEW t, Become(g, t),
             t.pc \notin {"dates", "done"} \/ ~(t.left >= 1) \/ Tried(t) = {},
             errors' = errors \/ (errors' = errors + 1)
      PROVE  PassInv'
  <2>1. CASE errors' = errors
    BY <1>8, <2>1, PassMoved
  <2>2. CASE errors' = errors + 1
    <3>1. errors' # 0
      BY <2>2 DEF TypeOK
    <3> QED
      BY <1>8, <3>1 DEF PassInv, PassCoversWeek
  <2> QED
    BY <1>8, <2>1, <2>2
<1>9. ASSUME NEW g \in Goroutines,
             Claim(g) \/ Lookup(g) \/ InsertClaim(g) \/ UpdateClaim(g) \/ ClaimFails(g)
      PROVE  PassInv'
  <2>1. Active(g) /\ task[g].pc \notin {"dates", "done"}
    BY <1>9 DEF Claim, Lookup, InsertClaim, UpdateClaim, ClaimFails, Active
  <2>2. UNCHANGED <<attempted, passes, status>>
    BY <1>9 DEF Claim, Lookup, InsertClaim, UpdateClaim, ClaimFails, Others, history
  <2>3. errors' = errors \/ errors' = errors + 1
    BY <1>9 DEF Claim, Lookup, InsertClaim, UpdateClaim, ClaimFails
  <2>4. \E t : /\ Become(g, t)
               /\ \/ t = Finished(g)
                  \/ t = [task[g] EXCEPT !.pc = "lookup", !.ctx = jobContext(g)]
                  \/ \E l \in {"insert", "update", "begin"} : t = [task[g] EXCEPT !.pc = l]
    BY <1>9 DEF Claim, Lookup, InsertClaim, UpdateClaim, ClaimFails, Granted, Denied
  <2>5. \E t : Become(g, t) /\ t.pc \notin {"dates", "done"}
    <3>1. Finished(g).pc \in {"off", "wait"}
      BY DEF Finished, Off, Wait
    <3>2. [task[g] EXCEPT !.pc = "lookup", !.ctx = jobContext(g)].pc = "lookup"
      BY <2>1, ActiveTask DEF Tasks
    <3>3. \A l \in {"insert", "update", "begin"} : [task[g] EXCEPT !.pc = l].pc = l
      BY <2>1, ActiveTask DEF Tasks
    <3> QED
      BY <2>4, <3>1, <3>2, <3>3
  <2> QED
    BY <1>8, <2>1, <2>2, <2>3, <2>5
<1>10. ASSUME NEW g \in Goroutines, Begin(g) PROVE PassInv'
  <2>1. Active(g) /\ UNCHANGED <<attempted, passes, status, errors>>
    BY <1>10 DEF Begin, Active, Others
  <2>2. PICK t \in Tasks : t = [task[g] EXCEPT !.ctx = jobContext(g)]
    <3>1. task[g] \in Tasks /\ jobContext(g) \in {"root", "background"}
      BY <2>1, ActiveTask DEF jobContext
    <3> QED
      BY <3>1 DEF Tasks
  <2>3. t.left = 0
    <3>1. task[g].left = 0
      BY <1>10, <2>1 DEF TimeInv, Dated, Begin
    <3> QED
      BY <2>1, <2>2, <3>1, ActiveTask DEF Tasks
  <2>4. PICK s : Become(g, s) /\ (s = Backfill(t) \/ s = [t EXCEPT !.pc = "work"])
    BY <1>10, <2>2 DEF Begin
  <2>5. s.pc \notin {"dates", "done"} \/ ~(s.left >= 1) \/ Tried(s) = {}
    <3>1. CASE s = Backfill(t)
      BY <2>3, <3>1, BackfillFresh
    <3>2. CASE s = [t EXCEPT !.pc = "work"]
      BY <3>2 DEF Tasks
    <3> QED
      BY <2>4, <3>1, <3>2
  <2> QED
    BY <2>1, <2>4, <2>5, PassMoved
<1>11. ASSUME NEW g \in Goroutines, Work(g) PROVE PassInv'
  <2>1. Active(g) /\ UNCHANGED <<attempted, passes, status, errors>>
    BY <1>11 DEF Work, Active, Others, history
  <2>2. PICK t \in Tasks : t = task[g]
    BY <2>1, ActiveTask
  <2>3. t.left = 0
    BY <1>11, <2>1, <2>2 DEF TimeInv, Dated, Work
  <2>4. PICK s : /\ Become(g, s)
                 /\ \/ s = Backfill(t)
                    \/ s = [t EXCEPT !.pc = "dates", !.left = 0]
                    \/ s = [t EXCEPT !.pc = "done"]
    BY <1>11, <2>2 DEF Work
  <2>5. ~(s.left >= 1) \/ Tried(s) = {}
    <3>1. CASE s = Backfill(t)
      BY <2>3, <3>1, BackfillFresh
    <3>2. CASE s = [t EXCEPT !.pc = "dates", !.left = 0] \/ s = [t EXCEPT !.pc = "done"]
      <4>1. s.left = 0
        BY <2>3, <3>2 DEF Tasks
      <4> QED
        BY <4>1
    <3> QED
      BY <2>4, <3>1, <3>2
  <2> QED
    BY <2>1, <2>4, <2>5, PassMoved
<1>12. ASSUME NEW g \in Goroutines, RunDate(g) PROVE PassInv'
  <2>1. Active(g) /\ UNCHANGED <<passes, status>> /\ attempted \subseteq attempted'
    BY <1>12 DEF RunDate, Active, Others
  <2>2. PICK t \in Tasks : t = task[g] /\ t.pc = "dates" /\ t.left \in 0..7 /\ t.now \in Nat
    BY <1>12, <2>1, ActiveTask DEF RunDate, TimeInv, Dated, Tasks, Days
  <2>3. PICK s : /\ Become(g, s)
                 /\ \/ t.left <= 1 /\ s = [t EXCEPT !.pc = "done"]
                    \/ ~(t.left <= 1) /\ s = [t EXCEPT !.left = t.left - 1]
    BY <1>12, <2>2 DEF RunDate
  <2>4. task'[g] = s /\ \A h \in Goroutines \ {g} : task'[h] = task[h]
    BY <2>3 DEF Become, TypeOK
  <2>5. s.now = t.now /\ s.ctx = t.ctx
    BY <2>2, <2>3 DEF Tasks
  <2>6. errors' = 0 => errors = 0
    BY <1>12 DEF RunDate, TypeOK
  <2>7. PassCoversWeek'
    BY <2>1 DEF PassInv, PassCoversWeek
  <2>8. ASSUME s.left >= 1, errors' = 0, Alive(g)' PROVE Tried(s) \subseteq attempted'
    <3>1. Alive(g) /\ errors = 0
      BY <2>1, <2>2, <2>4, <2>5, <2>6, <2>8 DEF Alive
    <3>2. attempted' = attempted \cup {t.now - t.left}
      BY <1>12, <2>2, <2>8, <3>1 DEF RunDate, DueDate, TypeOK
    <3>3. t.left >= 1
      BY <2>2, <2>3, <2>8 DEF Tasks
    <3>4. Tried(t) \subseteq attempted
      BY <2>2, <3>1, <3>3 DEF PassInv
    <3>5. CASE t.left <= 1
      <4>1. s.pc = "done" /\ t.left = 1
        BY <2>2, <2>3, <3>3, <3>5 DEF Tasks
      <4>2. Tried(s) = {t.now - k : k \in 1..7}
        BY <2>5, <4>1 DEF Tried
      <4>3. Tried(t) = {t.now - k : k \in 2..7}
        BY <2>2, <4>1 DEF Tried
      <4>4. \A k \in 1..7 : k = 1 \/ k \in 2..7
        OBVIOUS
      <4> QED
        BY <2>2, <3>2, <3>4, <4>1, <4>2, <4>3, <4>4
    <3>6. CASE ~(t.left <= 1)
      <4>1. s.pc = "dates" /\ s.left = t.left - 1
        BY <2>2, <2>3, <3>6 DEF Tasks
      <4>2. Tried(s) = {t.now - k : k \in (t.left)..7}
        BY <2>2, <2>5, <4>1 DEF Tried
      <4>3. Tried(t) = {t.now - k : k \in (t.left + 1)..7}
        BY <2>2 DEF Tried
      <4>4. \A k \in (t.left)..7 : k = t.left \/ k \in (t.left + 1)..7
        BY <2>2
      <4> QED
        BY <2>2, <3>2, <3>4, <4>2, <4>3, <4>4
    <3> QED
      BY <3>5, <3>6
  <2>9. ASSUME NEW h \in Goroutines, h # g, task'[h].pc \in {"dates", "done"},
               task'[h].left >= 1, errors' = 0, Alive(h)'
        PROVE  Tried(task'[h]) \subseteq attempted'
    <3>1. task'[h] = task[h]
      BY <2>4, <2>9
    <3>2. Alive(h)
      BY <2>1, <2>9, <3>1 DEF Alive
    <3> QED
      BY <2>1, <2>6, <2>9, <3>1, <3>2 DEF PassInv
  <2> QED
    BY <2>4, <2>7, <2>8, <2>9 DEF PassInv, Tried
<1>13. ASSUME NEW g \in Goroutines, Done(g) PROVE PassInv'
  <2>1. Active(g) /\ UNCHANGED <<attempted, status, errors>>
    BY <1>13 DEF Done, Active, Others
  <2>2. PICK t \in Tasks : t = task[g] /\ t.pc = "done" /\ t.now \in Nat
    BY <1>13, <2>1, ActiveTask DEF Done, Tasks, Days
  <2>3. PassCoversWeek'
    <3>1. CASE t.left = 1 /\ Alive(g) /\ errors = 0
      <4>1. Tried(t) \subseteq attempted
        BY <2>2, <3>1 DEF PassInv
      <4>2. Tried(t) = {t.now - k : k \in 1..7}
        BY <2>2 DEF Tried
      <4>3. ASSUME NEW d \in (t.now - 7)..(t.now - 1) PROVE d \in attempted
        <5>1. t.now - d \in 1..7 /\ d = t.now - (t.now - d)
          BY <2>2, <4>3
        <5> QED
          BY <4>1, <4>2, <5>1
      <4>4. passes' \subseteq passes \cup {t.now}
        BY <1>13, <2>2 DEF Done
      <4> QED
        BY <2>1, <4>3, <4>4 DEF PassInv, PassCoversWeek
    <3>2. CASE ~(t.left = 1 /\ Alive(g) /\ errors = 0)
      BY <1>13, <2>1, <2>2, <3>2 DEF Done, PassInv, PassCoversWeek
    <3> QED
      BY <3>1, <3>2
  <2>4. /\ task'[g].pc \notin {"dates", "done"}
        /\ \A h \in Goroutines \ {g} : task'[h] = task[h]
    BY <1>13 DEF Done, Become, Finished, Wait, Off, TypeOK
  <2>5. ASSUME NEW h \in Goroutines, task'[h].pc \in {"dates", "done"},
               task'[h].left >= 1, errors = 0, Alive(h)'
        PROVE  Tried(task'[h]) \subseteq attempted
    <3>1. task'[h] = task[h]
      BY <2>4, <2>5
    <3>2. Alive(h)
      BY <2>1, <2>5, <3>1 DEF Alive
    <3> QED
      BY <2>5, <3>1, <3>2 DEF PassInv
  <2> QED
    BY <2>1, <2>3, <2>5 DEF PassInv, Tried
<1> QED
  BY <1>2, <1>3, <1>4, <1>5, <1>6, <1>7, <1>9, <1>10, <1>11, <1>12, <1>13
  DEF Next, Process, Goroutine, Crash, StopReturns

\* A backfill pass that no failing statement and no Stop disturbed leaves no
\* date of the preceding week unattempted, whatever weekday it runs on and
\* whatever other passes and processes do (runDCABackfill).
THEOREM PassesCoverWeek == Spec => []PassCoversWeek
<1>1. Init => TimeInv /\ PassInv
  BY DEF Init, TimeInv, PassInv, PassCoversWeek, Active, Off
<1>2. TypeOK /\ TimeInv /\ PassInv /\ [Next]_vars => TimeInv' /\ PassInv'
  BY TimeStep, PassStep
<1>3. PassInv => PassCoversWeek
  BY DEF PassInv
<1> QED
  BY <1>1, <1>2, <1>3, TypeCorrect, PTL DEF Spec
=============================================================================
