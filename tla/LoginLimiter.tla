--------------------------- MODULE LoginLimiter ---------------------------
(***************************************************************************)
(* The in-memory limiter of login and password attempts (auth.Limiter).    *)
(* A key that fails MaxFails times within FailWindow is locked, longer on   *)
(* each trip; a global window caps failures of all keys; per-key state is   *)
(* collected by an amortised sweep.  Every method holds one mutex, so each  *)
(* is one step, and a request makes several of them with its password       *)
(* check in between: module Sessions.                                       *)
(***************************************************************************)
EXTENDS Integers, Sequences

CONSTANTS
    Keys,           \* "login:" and "password:" with an address
    MaxFails, FailWindow,
    Lockout,        \* the first lock
    MaxLockout,     \* the longest
    MaxStrikes,     \* where the trip counter stops
    StrikeDecay,    \* idle time after which trips are forgotten
    GlobalPerHour, Hour,
    PruneInterval,
    None            \* no entry

ASSUME LimiterAssumption ==
    /\ {MaxFails, FailWindow, Lockout, MaxStrikes, GlobalPerHour, Hour,
        PruneInterval} \subseteq Nat \ {0}
    /\ MaxLockout \in Nat /\ Lockout <= MaxLockout
    /\ StrikeDecay \in Nat /\ MaxLockout < StrikeDecay
    /\ None \notin Nat

VARIABLES
    clock,
    fails,        \* times of the failures being counted, by key
    lockedUntil,
    lockStrikes,  \* trips without a success, 0 for no entry
    lastFailure,
    globalFails,
    lastPrune,
    trip          \* history: each key's last lock and failure since a success

limiter == <<fails, lockedUntil, lockStrikes, lastFailure, globalFails,
             lastPrune, trip>>

NoTrip == [lock |-> 0, failed |-> 0]

LimiterInit ==
    /\ fails = [k \in Keys |-> <<>>]
    /\ lockedUntil = [k \in Keys |-> None]
    /\ lockStrikes = [k \in Keys |-> 0]
    /\ lastFailure = [k \in Keys |-> None]
    /\ globalFails = <<>>
    /\ lastPrune = None
    /\ trip = [k \in Keys |-> NoTrip]

-----------------------------------------------------------------------------

\* prune: a loop that keeps the times inside the window.
Recent(times, window) ==
    LET kept[i \in 0..Len(times)] ==
          IF i = 0 THEN <<>>
          ELSE IF times[i] > clock - window THEN Append(kept[i - 1], times[i])
          ELSE kept[i - 1]
    IN  kept[Len(times)]

\* Doubled per trip, saturating.
escalatedLockout(strikes) ==
    LET d[i \in 1..strikes] ==
          IF i = 1 THEN Lockout
          ELSE IF d[i - 1] >= MaxLockout \div 2 THEN MaxLockout
          ELSE 2 * d[i - 1]
    IN d[strikes]

\* Mutant of Idle: trips are forgotten as soon as the lock has lapsed.
IdleUnlocked(f, u, l, k) == l[k] # None /\ u[k] = None /\ f[k] = <<>>

\* A key that is neither locked nor counting and has not failed for long.
Idle(f, u, l, k) ==
    /\ l[k] # None /\ u[k] = None /\ f[k] = <<>>
    /\ clock - l[k] >= StrikeDecay

\* pruneStaleLocked on the maps as the caller has left them.
PruneStale(f, u, s, l) ==
    LET u2 == [k \in Keys |-> IF u[k] # None /\ clock >= u[k] THEN None ELSE u[k]]
        f2 == [k \in Keys |-> Recent(f[k], FailWindow)]
    IN  IF lastPrune # None /\ clock - lastPrune < PruneInterval
        THEN [fails |-> f, until |-> u, strikes |-> s, last |-> l, at |-> lastPrune]
        ELSE [fails |-> f2, until |-> u2,
              strikes |-> [k \in Keys |-> IF Idle(f2, u2, l, k) THEN 0 ELSE s[k]],
              last |-> [k \in Keys |-> IF Idle(f2, u2, l, k) THEN None ELSE l[k]],
              at |-> clock]

\* The limiter becomes p, but for the failures counted.
Becomes(p) ==
    /\ lockedUntil' = p.until /\ lockStrikes' = p.strikes
    /\ lastFailure' = p.last /\ lastPrune' = p.at

-----------------------------------------------------------------------------
(* The methods                                                             *)

Locked(key) == lockedUntil[key] # None /\ clock < lockedUntil[key]

\* Mutant of Allow: the global window is not consulted.
AllowPerKey(key, ok) ==
    IF Locked(key) THEN ~ok /\ UNCHANGED limiter
    ELSE LET p == PruneStale(fails, [lockedUntil EXCEPT ![key] = None],
                             lockStrikes, lastFailure)
         IN
         /\ ok
         /\ globalFails' = Recent(globalFails, Hour)
         /\ fails' = [p.fails EXCEPT ![key] = Recent(@, FailWindow)]
         /\ Becomes(p) /\ UNCHANGED trip

\* Whether an attempt may go on.  Failures that reached the limit under a
\* lock that has expired begin a new window.
Allow(key, ok) ==
    IF Locked(key) THEN ~ok /\ UNCHANGED limiter
    ELSE LET p == PruneStale(fails, [lockedUntil EXCEPT ![key] = None],
                             lockStrikes, lastFailure)
             kept == Recent(p.fails[key], FailWindow)
         IN
         /\ globalFails' = Recent(globalFails, Hour)
         /\ ok = (Len(globalFails') < GlobalPerHour)
         /\ fails' = IF ok THEN [p.fails EXCEPT ![key] =
                                   IF Len(kept) >= MaxFails THEN <<>> ELSE kept]
                     ELSE p.fails
         /\ Becomes(p) /\ UNCHANGED trip

\* Mutant of Cleared: a trip keeps its count.
ClearedCounts(key) == [fails EXCEPT ![key] = Append(@, clock)]

\* delete(l.fails, key)
Cleared(key) == [fails EXCEPT ![key] = <<>>]

Failure(key) ==
    LET counted == Append(Recent(fails[key], FailWindow), clock)
        tripped == Len(counted) >= MaxFails
        strikes == IF lockStrikes[key] < MaxStrikes THEN lockStrikes[key] + 1
                   ELSE lockStrikes[key]
        lock == escalatedLockout(strikes)
        failed == [lastFailure EXCEPT ![key] = clock]
        p == IF tripped
             THEN PruneStale(Cleared(key),
                             [lockedUntil EXCEPT ![key] = clock + lock],
                             [lockStrikes EXCEPT ![key] = strikes], failed)
             ELSE PruneStale([fails EXCEPT ![key] = counted], lockedUntil,
                             lockStrikes, failed)
    IN
    /\ globalFails' = Append(Recent(globalFails, Hour), clock)
    /\ fails' = p.fails /\ Becomes(p)
    /\ trip' = [trip EXCEPT ![key] =
          [lock |-> IF tripped THEN lock
                    ELSE IF clock - @.failed >= StrikeDecay THEN 0 ELSE @.lock,
           failed |-> clock]]

\* Mutant of Success: the trips stay.
SuccessKeepsStrikes(key) ==
    /\ fails' = Cleared(key)
    /\ lockedUntil' = [lockedUntil EXCEPT ![key] = None]
    /\ lastFailure' = [lastFailure EXCEPT ![key] = None]
    /\ trip' = [trip EXCEPT ![key] = NoTrip]
    /\ UNCHANGED <<lockStrikes, globalFails, lastPrune>>

Success(key) ==
    /\ fails' = Cleared(key)
    /\ lockedUntil' = [lockedUntil EXCEPT ![key] = None]
    /\ lockStrikes' = [lockStrikes EXCEPT ![key] = 0]
    /\ lastFailure' = [lastFailure EXCEPT ![key] = None]
    /\ trip' = [trip EXCEPT ![key] = NoTrip]
    /\ UNCHANGED <<globalFails, lastPrune>>

-----------------------------------------------------------------------------
(* Properties                                                              *)

Times == Nat \cup {None}

\* The maps have their types, and a window never holds a full count.
LimiterTypeOK ==
    /\ clock \in Nat
    /\ fails \in [Keys -> Seq(Nat)]
    /\ \A k \in Keys : Len(fails[k]) < MaxFails
    /\ lockedUntil \in [Keys -> Times]
    /\ lockStrikes \in [Keys -> 0..MaxStrikes]
    /\ lastFailure \in [Keys -> Times]
    /\ globalFails \in Seq(Nat)
    /\ lastPrune \in Times
    /\ trip \in [Keys -> [lock : Nat, failed : Nat]]

\* "The maps cannot grow without bound": whatever is kept of a key is found
\* by the sweep.  Trips without a last failure would never be collected.
StrikesCollectable ==
    \A k \in Keys : lockStrikes[k] > 0 => lastFailure[k] # None

\* "Each consecutive lockout trip multiplies the duration by two, capped":
\* the next trip doubles the last lock, unless a login succeeded or the key
\* was silent for StrikeDecay, and no sweep in between makes it shorter.
EscalationCarries ==
    [][\A k \in Keys :
          /\ lockStrikes'[k] > lockStrikes[k]
          /\ trip[k].lock # 0 /\ clock - trip[k].failed < StrikeDecay
          => \/ trip'[k].lock = 2 * trip[k].lock
             \/ trip'[k].lock = MaxLockout]_<<trip, lockStrikes>>

=============================================================================
