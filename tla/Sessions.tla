----------------------------- MODULE Sessions -----------------------------
(***************************************************************************)
(* Login sessions of the single user: setup, login, authenticated          *)
(* requests with sliding renewal, logout, revocation and password change,  *)
(* statement by statement for concurrent requests, behind LoginLimiter.    *)
(*                                                                         *)
(* A session is a row keyed by the hash of its token; a token is random,   *)
(* so ids are numbered in the order of their rows.  A cookie holds any id  *)
(* that was issued, or none (0).  A stored hash stands for its password.   *)
(* The auth_events rows the handlers append, best effort, are read by no   *)
(* operation and are left out.                                             *)
(***************************************************************************)
EXTENDS LoginLimiter, FiniteSets

CONSTANTS
    Callers,      \* concurrent requests
    Passwords,    \* that pass validatePassword
    EnvPassword,  \* FUND_AUTH_PASSWORD_HASH, or None
    TTL, MaxAge,
    MaxId,        \* bound on sessions
    MaxChanges,   \* bound on password changes
    MaxRequests,  \* bound on requests
    MaxClock      \* bound on time

Ids == 1..MaxId

ASSUME SessionsAssumption ==
    /\ EnvPassword \in Passwords \cup {None} /\ None \notin Passwords
    /\ {"login", "password"} \subseteq Keys
    /\ TTL \in Nat \ {0} /\ MaxAge \in Nat /\ TTL <= MaxAge
    /\ {MaxId, MaxChanges, MaxRequests, MaxClock} \subseteq Nat
    /\ IsFiniteSet(Callers)

VARIABLES
    creds,     \* the passwords auth_credentials has held; the last is the row
    sessions,  \* auth_sessions, by id
    nextId,
    call,      \* what each request is in the middle of
    requests,  \* counter of the bound
    gone,      \* history: sessions that were revoked
    excused    \* history: sessions a password change was not able to end

tables == <<creds, sessions, nextId>>
history == <<gone, excused>>
vars == <<clock, limiter, tables, call, requests, history>>

NoCall == [pc |-> "idle"]

-----------------------------------------------------------------------------
(* Statements                                                              *)

EnvManaged == EnvPassword # None

Version == Len(creds)
Cred == IF EnvManaged THEN EnvPassword
        ELSE IF creds = <<>> THEN None ELSE creds[Version]

Min2(a, b) == IF a < b THEN a ELSE b

\* Ends a session with a DELETE that names it.
Revoked(S) ==
    /\ sessions' = [i \in Ids |-> IF i \in S THEN None ELSE sessions[i]]
    /\ gone' = gone \cup {i \in S \cap Ids : sessions[i] # None}

Goto(c, label) == call' = [call EXCEPT ![c].pc = label]
Finish(c) == call' = [call EXCEPT ![c] = NoCall]

\* A new request, with the session of its cookie.
Request(c, label, kind, sid, pw, new) ==
    /\ requests < MaxRequests /\ requests' = requests + 1
    /\ call' = [call EXCEPT ![c] =
          [pc |-> label, kind |-> kind, sid |-> sid, pw |-> pw, new |-> new,
           at |-> 0, ver |-> 0]]

-----------------------------------------------------------------------------
(* Setup and login                                                         *)

\* Setup revokes the session of its cookie first, whatever comes of it.
SetupStart(c, sid, pw) ==
    /\ call[c] = NoCall
    /\ Request(c, "revoke", "setup", sid, pw, pw)
    /\ UNCHANGED <<clock, limiter, tables, history>>

\* Mutant of InsertCredentialIfAbsent: the answer is not looked at.
InsertCredentialAnyway(c) ==
    /\ call[c].pc = "insert"
    /\ creds' = IF creds = <<>> THEN <<call[c].pw>> ELSE creds
    /\ call' = [call EXCEPT ![c].pc = "create", ![c].ver = Len(creds')]
    /\ UNCHANGED <<clock, limiter, sessions, nextId, requests, history>>

InsertCredentialIfAbsent(c) ==
    /\ call[c].pc = "insert"
    /\ \/ /\ creds = <<>>
          /\ creds' = <<call[c].pw>>
          /\ call' = [call EXCEPT ![c].pc = "create", ![c].ver = 1]
       \/ /\ creds # <<>>
          /\ Finish(c) /\ UNCHANGED creds
    /\ UNCHANGED <<clock, limiter, sessions, nextId, requests, history>>

LoginStart(c, sid, pw) ==
    /\ call[c] = NoCall
    /\ \/ /\ Allow("login", TRUE)
          /\ Request(c, "verify", "login", sid, pw, pw)
       \/ /\ Allow("login", FALSE)
          /\ UNCHANGED <<call, requests>>
    /\ UNCHANGED <<clock, tables, history>>

\* The hash is read and compared.  A failure is counted then: what happens
\* between the two touches either the table or the limiter, not both.
LoginVerify(c) ==
    /\ call[c].pc = "verify"
    /\ \/ /\ call[c].pw = Cred
          /\ call' = [call EXCEPT ![c].pc = "create", ![c].ver = Version]
          /\ UNCHANGED limiter
       \/ /\ call[c].pw # Cred
          /\ Failure("login") /\ Finish(c)
    /\ UNCHANGED <<clock, tables, requests, history>>

\* newSession, and for a login the limiter's Success.  A login whose
\* password was changed since it was compared opens its session all the same.
CreateSession(c) ==
    LET k == call[c] IN
    /\ k.pc = "create" /\ nextId <= MaxId
    /\ sessions' = [sessions EXCEPT ![nextId] =
          [created |-> clock, expires |-> clock + TTL, seen |-> clock,
           ver |-> k.ver, pw |-> k.pw]]
    /\ nextId' = nextId + 1
    /\ excused' = IF k.ver < Version THEN excused \cup {nextId} ELSE excused
    /\ IF k.kind = "login" THEN Success("login") /\ Goto(c, "revoke")
       ELSE Finish(c) /\ UNCHANGED limiter
    /\ UNCHANGED <<clock, creds, requests, gone>>

\* revokeRequestSession, best effort.
RevokeOwn(c) ==
    /\ call[c].pc = "revoke"
    /\ Revoked({call[c].sid}) \/ UNCHANGED <<sessions, gone>>
    /\ IF call[c].kind = "setup" /\ ~EnvManaged THEN Goto(c, "insert")
       ELSE Finish(c)
    /\ UNCHANGED <<clock, limiter, creds, nextId, requests, excused>>

-----------------------------------------------------------------------------
(* Authenticated requests                                                  *)

\* Where a request goes on once it is let in, if it touches what is modelled.
Handlers == [logout |-> "revoke", password |-> "limit", revoke |-> "target"]

LetIn(c, k) ==
    call' = [call EXCEPT ![c] =
       IF k.kind \in DOMAIN Handlers THEN [k EXCEPT !.pc = Handlers[k.kind]]
       ELSE NoCall]

\* Mutant of Renewed: the absolute cap is left out.
RenewedUncapped(row, now) == now + TTL

Renewed(row, now) == Min2(now + TTL, row.created + MaxAge)

\* Authenticate: the row is read, and renewed past half its life where that
\* moves its expiry.
Authenticate(c, kind, sid, pw, new) ==
    LET row == sessions[sid]
        renew == /\ clock > row.seen + TTL \div 2
                 /\ Renewed(row, clock) > row.expires
        k == [pc |-> "touch", kind |-> kind, sid |-> sid, pw |-> pw, new |-> new,
              at |-> clock, ver |-> Renewed(row, clock)]
    IN
    /\ call[c] = NoCall
    /\ sid < nextId /\ row # None /\ row.expires > clock
    /\ requests < MaxRequests /\ requests' = requests + 1
    /\ IF renew THEN call' = [call EXCEPT ![c] = k]
       ELSE LetIn(c, [k EXCEPT !.at = 0, !.ver = 0])
    /\ UNCHANGED <<clock, limiter, tables, history>>

\* Mutant of TouchSession: an upsert.
TouchSessionUpsert(c) ==
    LET k == call[c] IN
    /\ k.pc = "touch"
    /\ sessions' = [sessions EXCEPT ![k.sid] =
          IF @ = None THEN [created |-> k.at, expires |-> k.at + TTL,
                            seen |-> k.at, ver |-> Version, pw |-> Cred]
          ELSE [@ EXCEPT !.seen = k.at, !.expires = k.ver]]
    /\ LetIn(c, [k EXCEPT !.at = 0, !.ver = 0])
    /\ UNCHANGED <<clock, limiter, creds, nextId, requests, history>>

\* UPDATE ... WHERE id = ?, with the times the request computed.
TouchSession(c) ==
    LET k == call[c] IN
    /\ k.pc = "touch"
    /\ IF sessions[k.sid] = None THEN UNCHANGED sessions
       ELSE sessions' = [sessions EXCEPT ![k.sid].seen = k.at,
                                         ![k.sid].expires = k.ver]
    /\ LetIn(c, [k EXCEPT !.at = 0, !.ver = 0])
    /\ UNCHANGED <<clock, limiter, creds, nextId, requests, history>>

\* RevokeByIDPrefix of any session, the caller's own included.
RevokeByIDPrefix(c, target) ==
    /\ call[c].pc = "target"
    /\ Revoked({target}) /\ Finish(c)
    /\ UNCHANGED <<clock, limiter, creds, nextId, requests, excused>>

PasswordStart(c) ==
    /\ call[c].pc = "limit"
    /\ \/ Allow("password", TRUE) /\ Goto(c, "compare")
       \/ Allow("password", FALSE) /\ Finish(c)
    /\ UNCHANGED <<clock, tables, requests, history>>

\* ChangePassword up to the new hash.  A password kept in the environment
\* is not changed here.
PasswordVerify(c) ==
    LET k == call[c] IN
    /\ k.pc = "compare"
    /\ IF EnvManaged \/ creds = <<>> THEN Finish(c) /\ UNCHANGED limiter
       ELSE \/ k.pw # Cred /\ Failure("password") /\ Finish(c)
            \/ k.pw = Cred /\ Goto(c, "update") /\ UNCHANGED limiter
    /\ UNCHANGED <<clock, tables, requests, history>>

UpdateCredentialHash(c) ==
    /\ call[c].pc = "update" /\ Version <= MaxChanges
    /\ creds' = Append(creds, call[c].new)
    /\ Goto(c, "others")
    /\ UNCHANGED <<clock, limiter, sessions, nextId, requests, history>>

\* Mutant of DeleteOtherSessions: WHERE id = ? for id != ?.
DeleteOwnSession(c) ==
    LET k == call[c] IN
    /\ k.pc = "others"
    /\ Revoked({k.sid})
    /\ excused' = {k.sid}
    /\ Success("password") /\ Finish(c)
    /\ UNCHANGED <<clock, creds, nextId, requests>>

\* Every session but the one of the cookie ends.
DeleteOtherSessions(c) ==
    LET k == call[c] IN
    /\ k.pc = "others"
    /\ Revoked(Ids \ {k.sid})
    /\ excused' = {k.sid}
    /\ Success("password") /\ Finish(c)
    /\ UNCHANGED <<clock, creds, nextId, requests>>

\* What a password change leaves when it ends between its statements.
LeftOver(C) ==
    IF \E c \in C : call[c].pc = "others" THEN {i \in Ids : sessions[i] # None}
    ELSE {}

\* A statement fails, the request is cancelled, or its header or body is
\* refused.
Abort(c) ==
    /\ call[c] # NoCall /\ Finish(c)
    /\ excused' = excused \cup LeftOver({c})
    /\ UNCHANGED <<clock, limiter, tables, requests, gone>>

\* The process ends and starts again: the limiter is new, the tables are not.
Restart ==
    /\ call' = [c \in Callers |-> NoCall]
    /\ fails' = [k \in Keys |-> <<>>]
    /\ lockedUntil' = [k \in Keys |-> None]
    /\ lockStrikes' = [k \in Keys |-> 0]
    /\ lastFailure' = [k \in Keys |-> None]
    /\ globalFails' = <<>> /\ lastPrune' = None
    /\ trip' = [k \in Keys |-> NoTrip]
    /\ excused' = excused \cup LeftOver(Callers)
    /\ UNCHANGED <<clock, tables, requests, gone>>

-----------------------------------------------------------------------------

\* The daily sweep.
DeleteExpiredSessions ==
    /\ sessions' = [i \in Ids |->
          IF sessions[i] # None /\ sessions[i].expires < clock THEN None
          ELSE sessions[i]]
    /\ UNCHANGED <<clock, limiter, creds, nextId, call, requests, history>>

Tick ==
    /\ clock < MaxClock /\ clock' = clock + 1
    /\ UNCHANGED <<limiter, tables, call, requests, history>>

Init ==
    /\ clock = 0 /\ LimiterInit
    /\ creds = <<>> /\ sessions = [i \in Ids |-> None] /\ nextId = 1
    /\ call = [c \in Callers |-> NoCall] /\ requests = 0
    /\ gone = {} /\ excused = {}

Start(c) ==
    \/ \E sid \in 0..(nextId - 1), pw \in Passwords :
          SetupStart(c, sid, pw) \/ LoginStart(c, sid, pw)
    \/ \E sid \in 1..(nextId - 1) :
          \/ \E kind \in {"get", "logout", "revoke"} :
                Authenticate(c, kind, sid, None, None)
          \/ \E pw, new \in Passwords : Authenticate(c, "password", sid, pw, new)

Step(c) ==
    \/ InsertCredentialIfAbsent(c) \/ LoginVerify(c) \/ CreateSession(c)
    \/ RevokeOwn(c) \/ TouchSession(c)
    \/ \E target \in Ids : RevokeByIDPrefix(c, target)
    \/ PasswordStart(c) \/ PasswordVerify(c) \/ UpdateCredentialHash(c)
    \/ DeleteOtherSessions(c) \/ Abort(c)

Next ==
    \/ Tick \/ DeleteExpiredSessions \/ Restart
    \/ \E c \in Callers : Start(c) \/ Step(c)

Spec == Init /\ [][Next]_vars

-----------------------------------------------------------------------------
(* Properties                                                              *)

Rows == [created : Nat, expires : Nat, seen : Nat, ver : Nat, pw : Passwords]
Calls ==
    [pc : {"revoke", "insert", "verify", "create", "touch", "target", "limit",
           "compare", "update", "others"},
     kind : {"setup", "login", "get", "logout", "revoke", "password"},
     sid : Ids \cup {0}, pw : Passwords \cup {None},
     new : Passwords \cup {None}, at : Nat, ver : Nat]

TableTypeOK ==
    /\ creds \in Seq(Passwords)
    /\ sessions \in [Ids -> Rows \cup {None}] /\ nextId \in 1..(MaxId + 1)
    /\ call \in [Callers -> Calls \cup {NoCall}]
    /\ requests \in Nat
    /\ gone \subseteq Ids /\ excused \subseteq Ids

\* Tables, requests and the limiter have their types.
TypeOK == LimiterTypeOK /\ TableTypeOK

\* "Past half the TTL the session is touched forward, capped at
\* created+MaxAge": whatever touches race, the stored expiry is what sliding
\* from the stored last use gives, and the absolute age holds.
ExpiryIsSliding ==
    \A i \in Ids : sessions[i] # None =>
        LET row == sessions[i] IN
        row.expires = Min2(row.seen + TTL, row.created + MaxAge)

\* A revoked session stays revoked: no renewal, login or request that was
\* under way when it was deleted brings its row back.
RevokedStaysOut == \A i \in gone : sessions[i] = None

\* "Concurrent setups yield exactly one winner", and no session without the
\* password: each was opened by a request that had presented the password
\* that was stored when it was compared.
SessionsWereEarned ==
    \A i \in Ids : sessions[i] # None =>
        sessions[i].pw = IF EnvManaged THEN EnvPassword ELSE creds[sessions[i].ver]

\* "Revokes every other session (the current session survives)": a session
\* opened with an earlier password is the one that made the change, was
\* opened by a login that overlapped it, was left by a change that failed
\* after storing its hash, or is about to be deleted.
OldSessionsHaveCause ==
    \A i \in Ids :
        sessions[i] # None /\ sessions[i].ver < Version
        => i \in excused \/ \E c \in Callers : call[c].pc = "others"

\* The global window bounds failures up to the requests in flight: each was
\* let in while the window had room.
GlobalBound ==
    Len(globalFails) <= GlobalPerHour + Cardinality(Callers) - 1

=============================================================================
