-------------------------- MODULE SessionsProofs --------------------------
(***************************************************************************)
(* What holds of Sessions, and of the LoginLimiter it extends, for any     *)
(* number of requests, sessions, keys, passwords and password changes, for *)
(* every TTL up to the absolute age and for any limits of the limiter.     *)
(***************************************************************************)
EXTENDS Sessions, FiniteSetTheorems, WellFoundedInduction, TLAPS

-----------------------------------------------------------------------------
(* Types                                                                   *)

Guarded == {"get", "logout", "revoke", "password"}

\* A request in progress, when the next session will be n: a label belongs
\* to its kind, a password was presented where one is asked for, and an
\* authenticated request names a session that was opened.
CallOK(k, n) ==
    /\ k \in Calls
    /\ k.kind \in {"setup", "login", "password"}
          => k.pw \in Passwords /\ k.new \in Passwords
    /\ k.kind \in Guarded => k.sid \in 1..(n - 1)
    /\ k.pc \in {"insert", "verify", "create"} => k.kind \in {"setup", "login"}
    /\ k.pc \in {"limit", "compare", "update", "others"} => k.kind = "password"
    /\ k.pc \in {"touch", "target"} => k.kind \in Guarded

\* The inductive part of TableTypeOK: in addition, ids are handed out in
\* order, so that the row of a session that was deleted is never written by
\* another login.
Base ==
    /\ clock \in Nat
    /\ creds \in Seq(Passwords)
    /\ sessions \in [Ids -> Rows \cup {None}] /\ nextId \in 1..(MaxId + 1)
    /\ requests \in Nat
    /\ \A i \in Ids : i >= nextId => sessions[i] = None
    /\ gone \subseteq 1..(nextId - 1) /\ excused \subseteq Ids
    /\ call \in [Callers -> Calls \cup {NoCall}]
    /\ \A c \in Callers : call[c] = NoCall \/ CallOK(call[c], nextId)

\* A request between two statements is well formed.
LEMMA Busy ==
    ASSUME Base, NEW c \in Callers, call[c].pc # "idle"
    PROVE  CallOK(call[c], nextId)
BY DEF Base, NoCall

\* Moving one request on keeps all of them well formed.
LEMMA Moved ==
    ASSUME Base, NEW c \in Callers, NEW k, NEW n \in Nat, nextId <= n,
           k = NoCall \/ CallOK(k, n),
           call' = [call EXCEPT ![c] = k]
    PROVE  /\ call' \in [Callers -> Calls \cup {NoCall}]
           /\ \A d \in Callers : call'[d] = NoCall \/ CallOK(call'[d], n)
<1>1. call' \in [Callers -> Calls \cup {NoCall}]
    BY DEF Base, CallOK
<1>2. ASSUME NEW d \in Callers
      PROVE  call'[d] = NoCall \/ CallOK(call'[d], n)
  <2>1. CASE d = c
      BY <2>1 DEF Base
  <2>2. CASE d # c
    <3>1. call'[d] = call[d]
        BY <2>2 DEF Base
    <3>2. CASE CallOK(call[d], nextId)
      <4>1. call[d].sid \in 1..(nextId - 1) => call[d].sid \in 1..(n - 1)
          BY DEF Base
      <4> QED
          BY <3>1, <3>2, <4>1 DEF CallOK
    <3> QED
        BY <3>1, <3>2 DEF Base
  <2> QED
      BY <2>1, <2>2
<1> QED
    BY <1>1, <1>2

\* A request that changes its label to one of its kind stays well formed.
LEMMA Relabelled ==
    ASSUME NEW k, NEW n \in Nat, CallOK(k, n),
           NEW l \in {"revoke", "insert", "create", "compare", "update", "others"},
           l \in {"insert", "create"} => k.kind \in {"setup", "login"},
           l \in {"compare", "update", "others"} => k.kind = "password",
           NEW v \in Nat
    PROVE  /\ CallOK([k EXCEPT !.pc = l], n)
           /\ CallOK([k EXCEPT !.pc = l, !.ver = v], n)
BY DEF CallOK, Calls, Guarded

\* A request that the session guard lets in stays well formed.
LEMMA LetInWellFormed ==
    ASSUME Base, NEW c \in Callers, NEW k, CallOK(k, nextId), k.kind \in Guarded,
           LetIn(c, k)
    PROVE  /\ call' \in [Callers -> Calls \cup {NoCall}]
           /\ \A d \in Callers : call'[d] = NoCall \/ CallOK(call'[d], nextId)
<1> DEFINE v == IF k.kind \in DOMAIN Handlers
                THEN [k EXCEPT !.pc = Handlers[k.kind]] ELSE NoCall
<1>1. /\ DOMAIN Handlers = {"logout", "password", "revoke"}
      /\ Handlers["logout"] = "revoke" /\ Handlers["password"] = "limit"
      /\ Handlers["revoke"] = "target"
    BY DEF Handlers
<1>2. v = NoCall \/ CallOK(v, nextId)
  <2>1. CASE k.kind \notin DOMAIN Handlers
      BY <2>1
  <2>2. CASE k.kind = "logout"
      BY <1>1, <2>2 DEF CallOK, Calls, Guarded
  <2>3. CASE k.kind = "password"
      BY <1>1, <2>3 DEF CallOK, Calls, Guarded
  <2>4. CASE k.kind = "revoke"
      BY <1>1, <2>4 DEF CallOK, Calls, Guarded
  <2> QED
      BY <1>1, <2>1, <2>2, <2>3, <2>4
<1>3. call' = [call EXCEPT ![c] = v]
    BY DEF LetIn
<1>4. nextId \in Nat /\ nextId <= nextId
    BY DEF Base
<1> HIDE DEF v
<1> QED
    BY <1>2, <1>3, <1>4, Moved, Zenon


\* What a step leaves of Base when it does not touch the rows.
LEMMA BaseKept ==
    ASSUME Base, UNCHANGED <<sessions, nextId, gone>>,
           clock' \in Nat, creds' \in Seq(Passwords), requests' \in Nat,
           excused' \subseteq Ids,
           call' \in [Callers -> Calls \cup {NoCall}],
           \A d \in Callers : call'[d] = NoCall \/ CallOK(call'[d], nextId)
    PROVE  Base'
BY DEF Base, CallOK, Calls, Rows, Ids, NoCall, Guarded

\* The variables that most steps leave alone.
Typed ==
    /\ clock \in Nat /\ creds \in Seq(Passwords) /\ requests \in Nat
    /\ excused \subseteq Ids

\* A request that goes on without touching the rows.
LEMMA BaseMoved ==
    ASSUME Base, UNCHANGED <<sessions, nextId, gone>>, Typed',
           NEW c \in Callers, NEW k, k = NoCall \/ CallOK(k, nextId),
           call' = [call EXCEPT ![c] = k]
    PROVE  Base'
<1>1. nextId \in Nat /\ nextId <= nextId
    BY DEF Base
<1>2. /\ call' \in [Callers -> Calls \cup {NoCall}]
      /\ \A d \in Callers : call'[d] = NoCall \/ CallOK(call'[d], nextId)
    BY <1>1, Moved, Zenon
<1> QED
    BY <1>2, BaseKept DEF Typed

\* A session ends: a deletion, the sweep.
LEMMA BaseDeleted ==
    ASSUME Base, UNCHANGED <<nextId>>, Typed',
           NEW S, gone' \subseteq gone \cup {i \in Ids : sessions[i] # None},
           sessions' = [i \in Ids |-> IF i \in S THEN None ELSE sessions[i]],
           call' \in [Callers -> Calls \cup {NoCall}],
           \A d \in Callers : call'[d] = NoCall \/ CallOK(call'[d], nextId)
    PROVE  Base'
<1>1. nextId \in 1..(MaxId + 1) /\ MaxId \in Nat
    BY SessionsAssumption DEF Base
<1>2. sessions' \in [Ids -> Rows \cup {None}]
    BY DEF Base
<1>3. \A i \in Ids : i >= nextId => sessions'[i] = None
    BY DEF Base
<1>4. gone' \subseteq 1..(nextId - 1)
    BY <1>1 DEF Base, Ids
<1>5. \A d \in Callers : call'[d] = NoCall \/ CallOK(call'[d], nextId')
    BY Zenon
<1> QED
    BY <1>1, <1>2, <1>3, <1>4, <1>5 DEF Base, Typed

\* Every step keeps Base.
LEMMA BaseStep ==
    ASSUME Base, [Next]_vars
    PROVE  Base'
<1>t. Typed /\ MaxId \in Nat /\ nextId \in Nat
    BY SessionsAssumption DEF Base, Typed
<1>1. ASSUME NEW c \in Callers, NEW sid \in 0..(nextId - 1), NEW pw \in Passwords,
             SetupStart(c, sid, pw) \/ LoginStart(c, sid, pw)
      PROVE  Base'
  <2>a. UNCHANGED <<sessions, nextId, gone, clock, creds, excused>>
      BY <1>1 DEF SetupStart, LoginStart, tables, history
  <2>r. requests' = requests \/ requests' = requests + 1
      BY <1>1 DEF SetupStart, LoginStart, Request
  <2>1. UNCHANGED <<sessions, nextId, gone>> /\ Typed'
      BY <1>t, <2>a, <2>r DEF Typed
  <2>2. CASE UNCHANGED call
    <3>1. call' \in [Callers -> Calls \cup {NoCall}]
        BY <2>2 DEF Base
    <3>2. \A d \in Callers : call'[d] = NoCall \/ CallOK(call'[d], nextId)
        BY <2>2, Zenon DEF Base
    <3> QED
        BY <2>1, <3>1, <3>2, BaseKept DEF Typed
  <2>3. ASSUME NEW l \in {"revoke", "verify"}, NEW kind \in {"setup", "login"},
               Request(c, l, kind, sid, pw, pw)
        PROVE  Base'
    <3> DEFINE k == [pc |-> l, kind |-> kind, sid |-> sid, pw |-> pw,
                     new |-> pw, at |-> 0, ver |-> 0]
    <3>1. sid \in Ids \cup {0}
        BY <1>t DEF Base, Ids
    <3>2. CallOK(k, nextId)
        BY <3>1 DEF CallOK, Calls, Guarded
    <3>3. call' = [call EXCEPT ![c] = k]
        BY <2>3 DEF Request
    <3> HIDE DEF k
    <3> QED
        BY <2>1, <3>2, <3>3, BaseMoved, Zenon
  <2> QED
      BY <1>1, <2>2, <2>3 DEF SetupStart, LoginStart
<1>2. ASSUME NEW c \in Callers, NEW sid \in 1..(nextId - 1), NEW kind \in Guarded,
             NEW pw \in Passwords \cup {None}, NEW new \in Passwords \cup {None},
             kind = "password" => pw \in Passwords /\ new \in Passwords,
             Authenticate(c, kind, sid, pw, new)
      PROVE  Base'
  <2> DEFINE k == [pc |-> "touch", kind |-> kind, sid |-> sid, pw |-> pw,
                   new |-> new, at |-> clock, ver |-> Renewed(sessions[sid], clock)]
             k0 == [k EXCEPT !.at = 0, !.ver = 0]
  <2>a. /\ UNCHANGED <<sessions, nextId, gone, clock, creds, excused>>
        /\ requests' = requests + 1
      BY <1>2 DEF Authenticate, tables, history
  <2>1. UNCHANGED <<sessions, nextId, gone>> /\ Typed'
      BY <1>t, <2>a DEF Typed
  <2>2. sid \in Ids /\ sessions[sid] \in Rows
      BY <1>2, <1>t DEF Authenticate, Base, Ids
  <2>3. Renewed(sessions[sid], clock) \in Nat
    <3>1. sessions[sid].created \in Nat /\ clock \in Nat
        BY <2>2, <1>t DEF Rows, Typed
    <3>2. TTL \in Nat /\ MaxAge \in Nat
        BY SessionsAssumption
    <3>3. clock + TTL \in Nat /\ sessions[sid].created + MaxAge \in Nat
        BY <3>1, <3>2
    <3> QED
        BY <3>3 DEF Renewed, Min2
  <2>4. CallOK(k, nextId) /\ CallOK(k0, nextId)
      BY <2>2, <2>3, <1>2, <1>t DEF CallOK, Calls, Guarded, Typed
  <2>5. CASE call' = [call EXCEPT ![c] = k]
    <3> HIDE DEF k
    <3> QED
        BY <2>1, <2>4, <2>5, BaseMoved, Zenon
  <2>6. CASE LetIn(c, k0)
    <3>1. k0.kind \in Guarded
        BY <1>2
    <3> HIDE DEF k0
    <3>2. /\ call' \in [Callers -> Calls \cup {NoCall}]
          /\ \A d \in Callers : call'[d] = NoCall \/ CallOK(call'[d], nextId)
        BY <2>4, <2>6, <3>1, LetInWellFormed, Zenon
    <3> QED
        BY <2>1, <3>2, BaseKept DEF Typed
  <2>7. call' = [call EXCEPT ![c] = k] \/ LetIn(c, k0)
      BY <1>2 DEF Authenticate
  <2> QED
      BY <2>5, <2>6, <2>7

<1>3. ASSUME NEW c \in Callers,
             \/ InsertCredentialIfAbsent(c) \/ LoginVerify(c) \/ PasswordStart(c)
             \/ PasswordVerify(c) \/ UpdateCredentialHash(c) \/ Abort(c)
      PROVE  Base'
  <2>b. CallOK(call[c], nextId)
    <3>1. CASE Abort(c)
        BY <3>1, Zenon DEF Abort, Base
    <3> QED
        BY <1>3, <3>1, Busy DEF InsertCredentialIfAbsent, LoginVerify,
           PasswordStart, PasswordVerify, UpdateCredentialHash
  <2>k. call[c] \in Calls /\ call[c].pw \in Passwords \cup {None}
        /\ call[c].new \in Passwords \cup {None}
      BY <2>b DEF CallOK, Calls
  <2>1. Typed'
    <3>1. CASE InsertCredentialIfAbsent(c)
      <4>1. call[c].pw \in Passwords
          BY <2>b, <3>1 DEF CallOK, InsertCredentialIfAbsent
      <4>2. creds' = creds \/ creds' = <<call[c].pw>>
          BY <3>1 DEF InsertCredentialIfAbsent
      <4>3. <<call[c].pw>> \in Seq(Passwords)
          BY <4>1
      <4>4. UNCHANGED <<clock, requests, excused>>
          BY <3>1 DEF InsertCredentialIfAbsent, history
      <4> QED
          BY <1>t, <4>2, <4>3, <4>4 DEF Typed
    <3>2. CASE UpdateCredentialHash(c)
      <4>1. call[c].new \in Passwords
          BY <2>b, <3>2 DEF CallOK, UpdateCredentialHash
      <4> QED
          BY <1>t, <3>2, <4>1 DEF UpdateCredentialHash, Typed, history
    <3>3. CASE Abort(c)
        BY <1>t, <3>3 DEF Abort, LeftOver, Typed, tables
    <3> QED
        BY <1>t, <1>3, <3>1, <3>2, <3>3 DEF LoginVerify, PasswordStart,
           PasswordVerify, Typed, tables, history
  <2>2. UNCHANGED <<sessions, nextId, gone>>
      BY <1>3 DEF InsertCredentialIfAbsent, LoginVerify, PasswordStart,
         PasswordVerify, UpdateCredentialHash, Abort, tables, history
  <2>3. CASE Finish(c)
      BY <2>1, <2>2, <2>3, BaseMoved, Zenon DEF Finish
  <2>4. ASSUME NEW l \in {"create", "compare", "update", "others"},
               l = "create" => call[c].kind \in {"setup", "login"},
               l # "create" => call[c].kind = "password",
               \/ call' = [call EXCEPT ![c] = [call[c] EXCEPT !.pc = l]]
               \/ \E v \in Nat :
                    call' = [call EXCEPT ![c] =
                               [call[c] EXCEPT !.pc = l, !.ver = v]]
        PROVE  Base'
    <3>1. PICK v \in Nat :
             \/ call' = [call EXCEPT ![c] = [call[c] EXCEPT !.pc = l]]
             \/ call' = [call EXCEPT ![c] = [call[c] EXCEPT !.pc = l, !.ver = v]]
        BY <2>4
    <3>2. /\ CallOK([call[c] EXCEPT !.pc = l], nextId)
          /\ CallOK([call[c] EXCEPT !.pc = l, !.ver = v], nextId)
        BY <1>t, <2>b, <2>4, Relabelled
    <3> QED
        BY <2>1, <2>2, <3>1, <3>2, BaseMoved, Zenon
  <2>5. Version \in Nat
      BY DEF Base, Version
  <2>6. CASE InsertCredentialIfAbsent(c)
    <3>1. call[c].kind \in {"setup", "login"}
        BY <2>b, <2>6 DEF CallOK, InsertCredentialIfAbsent
    <3>2. \/ Finish(c)
          \/ call' = [call EXCEPT ![c] = [call[c] EXCEPT !.pc = "create", !.ver = 1]]
        BY <2>6 DEF InsertCredentialIfAbsent, Base
    <3> QED
        BY <2>3, <2>4, <3>1, <3>2
  <2>7. CASE LoginVerify(c)
    <3>1. call[c].kind \in {"setup", "login"}
        BY <2>b, <2>7 DEF CallOK, LoginVerify
    <3>2. \/ Finish(c)
          \/ call' = [call EXCEPT ![c] =
                        [call[c] EXCEPT !.pc = "create", !.ver = Version]]
        BY <2>7 DEF LoginVerify, Base
    <3> QED
        BY <2>3, <2>4, <2>5, <3>1, <3>2
  <2>8. CASE PasswordStart(c) \/ PasswordVerify(c) \/ UpdateCredentialHash(c)
    <3>1. call[c].kind = "password"
        BY <2>b, <2>8 DEF CallOK, PasswordStart, PasswordVerify,
           UpdateCredentialHash
    <3>2. \/ Finish(c)
          \/ \E l \in {"compare", "update", "others"} :
                call' = [call EXCEPT ![c] = [call[c] EXCEPT !.pc = l]]
        BY <2>8 DEF PasswordStart, PasswordVerify, UpdateCredentialHash, Goto, Base
    <3> QED
        BY <2>3, <2>4, <3>1, <3>2
  <2> QED
      BY <1>3, <2>3, <2>6, <2>7, <2>8 DEF Abort
<1>4. ASSUME NEW c \in Callers, CreateSession(c)
      PROVE  Base'
  <2> DEFINE row == [created |-> clock, expires |-> clock + TTL, seen |-> clock,
                     ver |-> call[c].ver, pw |-> call[c].pw]
  <2>1. CallOK(call[c], nextId) /\ call[c].pc = "create"
      BY <1>4, Busy DEF CreateSession
  <2>2. row \in Rows
      BY <1>t, <2>1, SessionsAssumption DEF CallOK, Calls, Rows, Typed
  <2>3. nextId \in Ids /\ nextId' = nextId + 1 /\ gone' = gone
        /\ sessions' = [sessions EXCEPT ![nextId] = row]
      BY <1>4, <1>t DEF CreateSession, Base, Ids
  <2>4. Typed'
      BY <1>4, <1>t, <2>3 DEF CreateSession, Typed
  <2>5. PICK k : /\ k = NoCall \/ CallOK(k, nextId)
                 /\ call' = [call EXCEPT ![c] = k]
    <3>1. CallOK([call[c] EXCEPT !.pc = "revoke"], nextId)
        BY <1>t, <2>1, Relabelled
    <3>2. call' = [call EXCEPT ![c] = [call[c] EXCEPT !.pc = "revoke"]]
          \/ call' = [call EXCEPT ![c] = NoCall]
        BY <1>4 DEF CreateSession, Goto, Finish, Base
    <3> QED
        BY <3>1, <3>2, Zenon
  <2>6. k = NoCall \/ CallOK(k, nextId + 1)
    <3>1. k.sid \in 1..(nextId - 1) => k.sid \in 1..(nextId + 1 - 1)
        BY <1>t
    <3>2. CASE CallOK(k, nextId)
        BY <1>t, <3>1, <3>2 DEF CallOK
    <3> QED
        BY <2>5, <3>2
  <2>7. /\ call' \in [Callers -> Calls \cup {NoCall}]
        /\ \A d \in Callers : call'[d] = NoCall \/ CallOK(call'[d], nextId + 1)
    <3>1. nextId + 1 \in Nat /\ nextId <= nextId + 1
        BY <1>t
    <3> QED
        BY <2>5, <2>6, <3>1, Moved, Zenon
  <2>8. \A d \in Callers : call'[d] = NoCall \/ CallOK(call'[d], nextId')
      BY <2>3, <2>7, Zenon
  <2>9. /\ sessions' \in [Ids -> Rows \cup {None}]
        /\ nextId' \in 1..(MaxId + 1)
        /\ \A i \in Ids : i >= nextId' => sessions'[i] = None
        /\ gone' \subseteq 1..(nextId' - 1)
    <3> HIDE DEF row
    <3> QED
        BY <1>t, <2>2, <2>3 DEF Base, Ids
  <2> QED
      BY <2>4, <2>7, <2>8, <2>9 DEF Base, Typed
<1>5. ASSUME NEW c \in Callers, NEW target,
             RevokeOwn(c) \/ RevokeByIDPrefix(c, target) \/ DeleteOtherSessions(c)
      PROVE  Base'
  <2>1. CallOK(call[c], nextId)
      BY <1>5, Busy DEF RevokeOwn, RevokeByIDPrefix, DeleteOtherSessions
  <2>2. nextId' = nextId
      BY <1>5 DEF RevokeOwn, RevokeByIDPrefix, DeleteOtherSessions
  <2>3. Typed'
    <3>1. CASE DeleteOtherSessions(c)
      <4>1. call[c].sid \in Ids
          BY <1>t, <2>1, <3>1 DEF DeleteOtherSessions, CallOK, Guarded, Base, Ids
      <4> QED
          BY <1>t, <3>1, <4>1 DEF DeleteOtherSessions, Typed
    <3> QED
        BY <1>t, <1>5, <3>1 DEF RevokeOwn, RevokeByIDPrefix, Typed
  <2>4. PICK k : /\ k = NoCall \/ CallOK(k, nextId)
                 /\ call' = [call EXCEPT ![c] = k]
    <3>1. call[c].pc = "revoke" /\ call[c].kind = "setup"
          => CallOK([call[c] EXCEPT !.pc = "insert"], nextId)
        BY <1>t, <2>1, Relabelled
    <3>2. \/ call' = [call EXCEPT ![c] = NoCall]
          \/ /\ call[c].pc = "revoke" /\ call[c].kind = "setup"
             /\ call' = [call EXCEPT ![c] = [call[c] EXCEPT !.pc = "insert"]]
        BY <1>5 DEF RevokeOwn, RevokeByIDPrefix, DeleteOtherSessions, Goto, Finish,
           Base
    <3> QED
        BY <3>1, <3>2, Zenon
  <2>5. /\ call' \in [Callers -> Calls \cup {NoCall}]
        /\ \A d \in Callers : call'[d] = NoCall \/ CallOK(call'[d], nextId)
    <3>1. nextId <= nextId
        BY <1>t
    <3> QED
        BY <1>t, <2>4, <3>1, Moved, Zenon
  <2>6. CASE UNCHANGED <<sessions, gone>>
      BY <2>2, <2>3, <2>5, <2>6, BaseKept DEF Typed
  <2>7. ASSUME NEW S, Revoked(S)
        PROVE  Base'
    <3>1. /\ gone' \subseteq gone \cup {i \in Ids : sessions[i] # None}
          /\ sessions' = [i \in Ids |-> IF i \in S THEN None ELSE sessions[i]]
        BY <2>7 DEF Revoked
    <3> QED
        BY <2>2, <2>3, <2>5, <3>1, BaseDeleted
  <2> QED
      BY <1>5, <2>6, <2>7 DEF RevokeOwn, RevokeByIDPrefix, DeleteOtherSessions
<1>6. ASSUME NEW c \in Callers, TouchSession(c)
      PROVE  Base'
  <2> DEFINE k0 == [call[c] EXCEPT !.at = 0, !.ver = 0]
  <2>1. CallOK(call[c], nextId) /\ call[c].pc = "touch"
      BY <1>6, Busy DEF TouchSession
  <2>2. CallOK(k0, nextId) /\ k0.kind \in Guarded
      BY <2>1 DEF CallOK, Calls
  <2>3. LetIn(c, k0)
      BY <1>6 DEF TouchSession
  <2>4. /\ call' \in [Callers -> Calls \cup {NoCall}]
        /\ \A d \in Callers : call'[d] = NoCall \/ CallOK(call'[d], nextId)
    <3> HIDE DEF k0
    <3> QED
        BY <2>2, <2>3, LetInWellFormed, Zenon
  <2>5. Typed' /\ nextId' = nextId /\ gone' = gone
      BY <1>6, <1>t DEF TouchSession, Typed, history
  <2>6. CASE UNCHANGED sessions
      BY <2>4, <2>5, <2>6, BaseKept DEF Typed
  <2>7. CASE sessions[call[c].sid] # None
             /\ sessions' = [sessions EXCEPT ![call[c].sid].seen = call[c].at,
                                             ![call[c].sid].expires = call[c].ver]
    <3>1. /\ call[c].sid \in Ids /\ call[c].sid < nextId
          /\ call[c].at \in Nat /\ call[c].ver \in Nat
        BY <1>t, <2>1 DEF CallOK, Calls, Base, Ids
    <3>2. sessions[call[c].sid] \in Rows
        BY <2>7, <3>1 DEF Base
    <3>3. sessions' = [sessions EXCEPT ![call[c].sid] =
                         [sessions[call[c].sid] EXCEPT !.seen = call[c].at,
                                                       !.expires = call[c].ver]]
        BY <2>7, <3>1 DEF Base
    <3>4. [sessions[call[c].sid] EXCEPT !.seen = call[c].at,
                                        !.expires = call[c].ver] \in Rows
        BY <3>1, <3>2 DEF Rows
    <3>5. /\ sessions' \in [Ids -> Rows \cup {None}]
          /\ \A i \in Ids : i >= nextId => sessions'[i] = None
        BY <1>t, <3>1, <3>3, <3>4 DEF Base, Ids
    <3>6. \A d \in Callers : call'[d] = NoCall \/ CallOK(call'[d], nextId')
        BY <2>4, <2>5, Zenon
    <3> QED
        BY <2>4, <2>5, <3>5, <3>6 DEF Base, Typed
  <2> QED
      BY <1>6, <2>6, <2>7 DEF TouchSession
<1>7. CASE Tick \/ DeleteExpiredSessions \/ Restart \/ UNCHANGED vars
  <2>1. Typed' /\ nextId' = nextId /\ gone' = gone
      BY <1>7, <1>t DEF Tick, DeleteExpiredSessions, Restart, LeftOver, Typed, vars,
         tables, history
  <2>2. /\ call' \in [Callers -> Calls \cup {NoCall}]
        /\ \A d \in Callers : call'[d] = NoCall \/ CallOK(call'[d], nextId)
    <3>1. CASE call' = call
      <4>1. call' \in [Callers -> Calls \cup {NoCall}]
          BY <3>1 DEF Base
      <4>2. \A d \in Callers : call'[d] = NoCall \/ CallOK(call'[d], nextId)
          BY <3>1, Zenon DEF Base
      <4> QED
          BY <4>1, <4>2
    <3>2. CASE Restart
        BY <3>2 DEF Restart
    <3> QED
        BY <1>7, <3>1, <3>2 DEF Tick, DeleteExpiredSessions, vars
  <2>3. CASE DeleteExpiredSessions
    <3> DEFINE S == {i \in Ids : sessions[i] # None /\ sessions[i].expires < clock}
    <3>1. sessions' = [i \in Ids |-> IF i \in S THEN None ELSE sessions[i]]
        BY <2>3 DEF DeleteExpiredSessions
    <3> HIDE DEF S
    <3> QED
        BY <2>1, <2>2, <3>1, BaseDeleted
  <2>4. CASE UNCHANGED sessions
      BY <2>1, <2>2, <2>4, BaseKept DEF Typed
  <2> QED
      BY <1>7, <2>3, <2>4 DEF Tick, Restart, vars, tables
<1> QED
  <2>1. ASSUME NEW c \in Callers, Start(c)
        PROVE  Base'
      BY <1>1, <1>2, <2>1 DEF Start, Guarded
  <2>2. ASSUME NEW c \in Callers, Step(c)
        PROVE  Base'
    <3>1. CASE \/ \E target \in Ids : RevokeByIDPrefix(c, target)
               \/ RevokeOwn(c) \/ DeleteOtherSessions(c)
        BY <1>5, <3>1
    <3> QED
        BY <1>3, <1>4, <1>6, <2>2, <3>1 DEF Step
  <2> QED
      BY <1>7, <2>1, <2>2 DEF Next

\* Base holds at the start.
LEMMA BaseInit ==
    ASSUME Init
    PROVE  Base
BY SessionsAssumption DEF Init, Base, Ids

-----------------------------------------------------------------------------
(* What a step does to the rows                                            *)

\* Rows are left alone or removed.
Deletes ==
    /\ nextId' = nextId
    /\ \A i \in Ids : sessions'[i] \in {None, sessions[i]}
    /\ \A i \in gone' : i \in gone \/ sessions'[i] = None

\* Only CreateSession and TouchSession write a row.
LEMMA RowSteps ==
    ASSUME Base, [Next]_vars
    PROVE  Deletes \/ \E c \in Callers : CreateSession(c) \/ TouchSession(c)
<1>1. ASSUME UNCHANGED <<sessions, nextId, gone>>
      PROVE  Deletes
    BY <1>1 DEF Deletes
<1>2. ASSUME NEW c \in Callers, Start(c)
      PROVE  Deletes
    BY <1>1, <1>2 DEF Start, SetupStart, LoginStart, Authenticate, tables, history
<1>3. ASSUME NEW S, Revoked(S), nextId' = nextId
      PROVE  Deletes
    BY <1>3 DEF Revoked, Deletes, Base
<1>4. ASSUME NEW c \in Callers, Step(c), ~CreateSession(c), ~TouchSession(c)
      PROVE  Deletes
  <2>1. CASE \/ InsertCredentialIfAbsent(c) \/ LoginVerify(c) \/ PasswordStart(c)
             \/ PasswordVerify(c) \/ UpdateCredentialHash(c) \/ Abort(c)
      BY <1>1, <2>1 DEF InsertCredentialIfAbsent, LoginVerify, PasswordStart,
         PasswordVerify, UpdateCredentialHash, Abort, tables, history
  <2>2. CASE RevokeOwn(c)
      BY <1>1, <1>3, <2>2 DEF RevokeOwn
  <2>3. ASSUME NEW target \in Ids, RevokeByIDPrefix(c, target)
        PROVE  Deletes
      BY <1>3, <2>3 DEF RevokeByIDPrefix
  <2>4. CASE DeleteOtherSessions(c)
      BY <1>3, <2>4 DEF DeleteOtherSessions
  <2> QED
      BY <1>4, <2>1, <2>2, <2>3, <2>4 DEF Step
<1>5. CASE DeleteExpiredSessions
    BY <1>5 DEF DeleteExpiredSessions, Deletes, history
<1>6. CASE Tick \/ Restart \/ UNCHANGED vars
    BY <1>1, <1>6 DEF Tick, Restart, vars, tables, history
<1> QED
    BY <1>2, <1>4, <1>5, <1>6 DEF Next

\* The row of a new session, and the others as they were.
LEMMA CreateEffect ==
    ASSUME Base, NEW c \in Callers, CreateSession(c)
    PROVE  /\ nextId \in Ids /\ gone' = gone /\ sessions[nextId] = None
           /\ sessions'[nextId] = [created |-> clock, expires |-> clock + TTL,
                                   seen |-> clock, ver |-> call[c].ver,
                                   pw |-> call[c].pw]
           /\ \A i \in Ids : i # nextId => sessions'[i] = sessions[i]
<1>1. nextId \in Ids
    BY SessionsAssumption DEF CreateSession, Base, Ids
<1> QED
    BY <1>1 DEF CreateSession, Base

\* A touch writes two columns of a row that is there.
LEMMA TouchEffect ==
    ASSUME Base, NEW c \in Callers, TouchSession(c)
    PROVE  /\ gone' = gone /\ nextId' = nextId /\ call[c].sid \in Ids
           /\ \A i \in Ids : i # call[c].sid \/ sessions[i] = None
                                => sessions'[i] = sessions[i]
           /\ sessions[call[c].sid] # None =>
                /\ sessions'[call[c].sid].created = sessions[call[c].sid].created
                /\ sessions'[call[c].sid].ver = sessions[call[c].sid].ver
                /\ sessions'[call[c].sid].pw = sessions[call[c].sid].pw
                /\ sessions'[call[c].sid].seen = call[c].at
                /\ sessions'[call[c].sid].expires = call[c].ver
<1>1. CallOK(call[c], nextId) /\ call[c].pc = "touch"
    BY Busy DEF TouchSession
<1>2. call[c].sid \in Ids
    BY <1>1, SessionsAssumption DEF CallOK, Base, Ids
<1>3. gone' = gone /\ nextId' = nextId
    BY DEF TouchSession, history
<1>4. CASE sessions[call[c].sid] = None
    BY <1>2, <1>3, <1>4 DEF TouchSession
<1>5. CASE sessions[call[c].sid] # None
  <2>1. sessions[call[c].sid] \in Rows
      BY <1>2, <1>5 DEF Base
  <2>2. sessions' = [sessions EXCEPT ![call[c].sid] =
                       [sessions[call[c].sid] EXCEPT !.seen = call[c].at,
                                                     !.expires = call[c].ver]]
      BY <1>2, <1>5 DEF TouchSession, Base
  <2>3. sessions'[call[c].sid] = [sessions[call[c].sid] EXCEPT
                                    !.seen = call[c].at, !.expires = call[c].ver]
      BY <1>2, <2>2 DEF Base
  <2>4. \A i \in Ids : i # call[c].sid => sessions'[i] = sessions[i]
      BY <2>2 DEF Base
  <2> QED
      BY <1>2, <1>3, <1>5, <2>1, <2>3, <2>4 DEF Rows
<1> QED
    BY <1>4, <1>5

-----------------------------------------------------------------------------
(* Revocation                                                              *)

\* The guard of a login session is its row: once a logout, a revocation, a
\* password change or a new login has deleted the row, no request in flight
\* writes it again.
THEOREM RevokedNeverReturns == Spec => []RevokedStaysOut
<1>1. Init => Base /\ RevokedStaysOut
    BY BaseInit DEF Init, RevokedStaysOut
<1>2. ASSUME Base, RevokedStaysOut, [Next]_vars
      PROVE  Base' /\ RevokedStaysOut'
  <2>1. Base'
      BY <1>2, BaseStep
  <2>2. gone \subseteq Ids
      BY <1>2, SessionsAssumption DEF Base, Ids
  <2>4. CASE Deletes
    <3>1. ASSUME NEW i \in gone'
          PROVE  sessions'[i] = None
      <4>1. CASE i \in gone
        <5>1. sessions[i] = None /\ i \in Ids
            BY <1>2, <2>2, <4>1 DEF RevokedStaysOut
        <5> QED
            BY <2>4, <5>1 DEF Deletes
      <4> QED
          BY <2>4, <3>1, <4>1 DEF Deletes
    <3> QED
        BY <2>1, <3>1 DEF RevokedStaysOut
  <2>5. ASSUME NEW c \in Callers, CreateSession(c)
        PROVE  RevokedStaysOut'
    <3>1. nextId \in Nat /\ gone \subseteq 1..(nextId - 1)
        BY <1>2 DEF Base
    <3>2. nextId \notin gone
        BY <3>1
    <3>3. /\ gone' = gone
          /\ \A i \in Ids : i # nextId => sessions'[i] = sessions[i]
        BY <1>2, <2>5, CreateEffect
    <3> QED
        BY <1>2, <2>2, <3>2, <3>3 DEF RevokedStaysOut
  <2>6. ASSUME NEW c \in Callers, TouchSession(c)
        PROVE  RevokedStaysOut'
      BY <1>2, <2>2, <2>6, TouchEffect DEF RevokedStaysOut
  <2> QED
      BY <1>2, <2>1, <2>4, <2>5, <2>6, RowSteps
<1> QED
    BY <1>1, <1>2, PTL DEF Spec

-----------------------------------------------------------------------------
(* What a step does to the requests                                        *)

\* Labels that carry nothing the invariants below speak of.
Plain == {"idle", "revoke", "verify", "limit", "target", "compare", "update"}

\* A request about to touch has just read its row.
ReadsRow(d) ==
    /\ call'[d].pc = "touch"
    /\ call'[d].sid \in Ids /\ call'[d].at = clock
    /\ sessions[call'[d].sid] \in Rows /\ sessions' = sessions
    /\ call'[d].ver = Renewed(sessions[call'[d].sid], clock)

\* A request about to open a session has just presented the password.
Presents(d) ==
    /\ call'[d].pc = "create" /\ call'[d].pw = call[d].pw
    /\ call[d].pw \in Passwords
    /\ \/ /\ call[d].pc = "insert" /\ creds = <<>> /\ creds' = <<call[d].pw>>
          /\ call'[d].ver = 1
       \/ /\ call[d].pw = Cred /\ creds' = creds
          /\ call'[d].ver = Version

\* How one step moves a request.
LEMMA CallSteps ==
    ASSUME Base, [Next]_vars, NEW d \in Callers
    PROVE  \/ call'[d] = call[d] \/ call'[d].pc \in Plain
           \/ ReadsRow(d) \/ Presents(d)
           \/ call'[d].pc = "insert" /\ ~EnvManaged
           \/ UpdateCredentialHash(d) /\ call'[d].pc = "others"
<1> SUFFICES ASSUME call'[d] # call[d], call'[d].pc \notin Plain
             PROVE  \/ ReadsRow(d) \/ Presents(d)
                    \/ call'[d].pc = "insert" /\ ~EnvManaged
                    \/ UpdateCredentialHash(d) /\ call'[d].pc = "others"
    OBVIOUS
<1>1. ASSUME NEW c \in Callers, NEW k, call' = [call EXCEPT ![c] = k]
      PROVE  c = d /\ call'[d] = k
    BY <1>1 DEF Base
<1>2. ASSUME NEW c \in Callers, NEW k, k.kind \in Guarded, LetIn(c, k), k \in Calls
      PROVE  FALSE
  <2>1. /\ DOMAIN Handlers = {"logout", "password", "revoke"}
        /\ Handlers["logout"] = "revoke" /\ Handlers["password"] = "limit"
        /\ Handlers["revoke"] = "target"
      BY DEF Handlers
  <2>2. PICK v : /\ call' = [call EXCEPT ![c] = v]
                 /\ v = NoCall \/ v.pc \in {"revoke", "limit", "target"}
    <3>1. ASSUME NEW l
          PROVE  [k EXCEPT !.pc = l].pc = l
        BY <1>2 DEF Calls
    <3>2. k.kind \in DOMAIN Handlers
          => Handlers[k.kind] \in {"revoke", "limit", "target"}
        BY <2>1
    <3> QED
        BY <1>2, <3>1, <3>2 DEF LetIn
  <2>3. call'[d] = v
      BY <1>1, <2>2
  <2> QED
      BY <2>2, <2>3 DEF NoCall, Plain
<1>3. ASSUME NEW c \in Callers, NEW sid \in 0..(nextId - 1), NEW pw \in Passwords,
             SetupStart(c, sid, pw) \/ LoginStart(c, sid, pw)
      PROVE  FALSE
  <2>1. \/ call' = call
        \/ \E l \in {"revoke", "verify"}, kind \in {"setup", "login"} :
              call' = [call EXCEPT ![c] =
                 [pc |-> l, kind |-> kind, sid |-> sid, pw |-> pw, new |-> pw,
                  at |-> 0, ver |-> 0]]
      BY <1>3 DEF SetupStart, LoginStart, Request
  <2>2. ASSUME NEW l \in {"revoke", "verify"}, NEW kind,
               call' = [call EXCEPT ![c] =
                  [pc |-> l, kind |-> kind, sid |-> sid, pw |-> pw, new |-> pw,
                   at |-> 0, ver |-> 0]]
        PROVE  FALSE
    <3>1. call'[d].pc = l
        BY <1>1, <2>2
    <3> QED
        BY <3>1 DEF Plain
  <2> QED
      BY <2>1, <2>2
<1>4. ASSUME NEW c \in Callers, NEW sid \in 1..(nextId - 1), NEW kind \in Guarded,
             NEW pw \in Passwords \cup {None}, NEW new \in Passwords \cup {None},
             Authenticate(c, kind, sid, pw, new)
      PROVE  ReadsRow(d)
  <2> DEFINE k == [pc |-> "touch", kind |-> kind, sid |-> sid, pw |-> pw,
                   new |-> new, at |-> clock, ver |-> Renewed(sessions[sid], clock)]
             k0 == [k EXCEPT !.at = 0, !.ver = 0]
  <2>1. sid \in Ids /\ sessions[sid] \in Rows /\ sessions' = sessions
    <3>1. sid \in Ids
        BY <1>4, SessionsAssumption DEF Base, Ids
    <3>2. sessions[sid] # None /\ sessions' = sessions
        BY <1>4 DEF Authenticate, tables
    <3> QED
        BY <3>1, <3>2 DEF Base
  <2>2. CASE call' = [call EXCEPT ![c] = k]
      BY <1>1, <2>1, <2>2 DEF ReadsRow
  <2>3. CASE LetIn(c, k0)
    <3>2. k0.kind \in Guarded /\ k0 \in Calls
        BY <2>1 DEF Calls, Guarded
    <3> HIDE DEF k0
    <3> QED
        BY <1>2, <2>3, <3>2
  <2> QED
      BY <1>4, <2>2, <2>3 DEF Authenticate
<1>5. ASSUME NEW c \in Callers, Step(c)
      PROVE  \/ Presents(d)
             \/ call'[d].pc = "insert" /\ ~EnvManaged
             \/ UpdateCredentialHash(d) /\ call'[d].pc = "others"
  <2>1. ASSUME NEW k, call' = [call EXCEPT ![c] = k], k.pc \in Plain
        PROVE  FALSE
      BY <1>1, <2>1
  <2>2. ASSUME Finish(c)
        PROVE  FALSE
      BY <2>1, <2>2 DEF Finish, NoCall, Plain
  <2>3. ASSUME call[c] \in Calls, NEW l \in Plain,
               call' = [call EXCEPT ![c] = [call[c] EXCEPT !.pc = l]]
        PROVE  FALSE
    <3>1. [call[c] EXCEPT !.pc = l].pc = l
        BY <2>3 DEF Calls
    <3> QED
        BY <2>1, <2>3, <3>1
  <2>4. CASE Abort(c)
      BY <2>2, <2>4 DEF Abort
  <2>5. CASE ~Abort(c)
    <3>1. call[c].pc # "idle"
        BY <1>5, <2>5 DEF Step, InsertCredentialIfAbsent, LoginVerify,
           CreateSession, RevokeOwn, RevokeByIDPrefix, PasswordStart, TouchSession,
           PasswordVerify, UpdateCredentialHash, DeleteOtherSessions
    <3>2. CallOK(call[c], nextId) /\ call[c] \in Calls
        BY <3>1, Busy DEF CallOK
    <3>3. CASE TouchSession(c)
      <4> DEFINE k0 == [call[c] EXCEPT !.at = 0, !.ver = 0]
      <4>1. k0 \in Calls /\ k0.kind = call[c].kind
          BY <3>2 DEF Calls
      <4>2. call[c].kind \in Guarded
          BY <3>2, <3>3 DEF TouchSession, CallOK
      <4>3. LetIn(c, k0)
          BY <3>3 DEF TouchSession
      <4> HIDE DEF k0
      <4> QED
          BY <1>2, <4>1, <4>2, <4>3
    <3>4. CASE UpdateCredentialHash(c)
      <4>1. call' = [call EXCEPT ![c] = [call[c] EXCEPT !.pc = "others"]]
          BY <3>4 DEF UpdateCredentialHash, Goto, Base
      <4>2. [call[c] EXCEPT !.pc = "others"].pc = "others"
          BY <3>2 DEF Calls
      <4> QED
          BY <1>1, <3>4, <4>1, <4>2
    <3>5. CASE InsertCredentialIfAbsent(c)
      <4>1. CASE Finish(c)
          BY <2>2, <4>1
      <4>2. CASE creds = <<>> /\ creds' = <<call[c].pw>>
                 /\ call' = [call EXCEPT ![c] =
                               [call[c] EXCEPT !.pc = "create", !.ver = 1]]
        <5>1. LET k == [call[c] EXCEPT !.pc = "create", !.ver = 1]
              IN  k.pc = "create" /\ k.pw = call[c].pw /\ k.ver = 1
            BY <3>2 DEF Calls
        <5>2. call[c].pw \in Passwords /\ call[c].pc = "insert"
            BY <3>2, <3>5 DEF InsertCredentialIfAbsent, CallOK
        <5>3. d = c /\ call'[d] = [call[c] EXCEPT !.pc = "create", !.ver = 1]
            BY <1>1, <4>2
        <5> QED
            BY <4>2, <5>1, <5>2, <5>3 DEF Presents
      <4>3. \/ Finish(c)
            \/ /\ creds = <<>> /\ creds' = <<call[c].pw>>
               /\ call' = [call EXCEPT ![c] =
                             [call[c] EXCEPT !.pc = "create", !.ver = 1]]
          BY <3>5 DEF InsertCredentialIfAbsent, Base
      <4> QED
          BY <4>1, <4>2, <4>3
    <3>6. CASE LoginVerify(c)
      <4>1. CASE Finish(c)
          BY <2>2, <4>1
      <4>2. CASE call[c].pw = Cred
                 /\ call' = [call EXCEPT ![c] =
                               [call[c] EXCEPT !.pc = "create", !.ver = Version]]
        <5>1. LET k == [call[c] EXCEPT !.pc = "create", !.ver = Version]
              IN  k.pc = "create" /\ k.pw = call[c].pw /\ k.ver = Version
            BY <3>2 DEF Calls
        <5>2. call[c].pw \in Passwords /\ creds' = creds
            BY <3>2, <3>6 DEF LoginVerify, CallOK, tables
        <5>3. d = c /\ call'[d] = [call[c] EXCEPT !.pc = "create", !.ver = Version]
            BY <1>1, <4>2
        <5> QED
            BY <4>2, <5>1, <5>2, <5>3 DEF Presents
      <4>3. \/ Finish(c)
            \/ /\ call[c].pw = Cred
               /\ call' = [call EXCEPT ![c] =
                             [call[c] EXCEPT !.pc = "create", !.ver = Version]]
          BY <3>6 DEF LoginVerify, Base
      <4> QED
          BY <4>1, <4>2, <4>3
    <3>7. CASE \/ CreateSession(c) \/ RevokeOwn(c) \/ PasswordStart(c)
               \/ PasswordVerify(c) \/ DeleteOtherSessions(c)
               \/ \E target \in Ids : RevokeByIDPrefix(c, target)
      <4>1. \/ Finish(c)
            \/ \E l \in {"revoke", "compare", "update"} :
                  call' = [call EXCEPT ![c] = [call[c] EXCEPT !.pc = l]]
            \/ /\ ~EnvManaged
               /\ call' = [call EXCEPT ![c] = [call[c] EXCEPT !.pc = "insert"]]
          BY <3>7 DEF CreateSession, RevokeOwn, RevokeByIDPrefix, PasswordStart,
             PasswordVerify, DeleteOtherSessions, Goto, Base
      <4>2. ASSUME call' = [call EXCEPT ![c] = [call[c] EXCEPT !.pc = "insert"]]
            PROVE  call'[d].pc = "insert"
        <5>1. [call[c] EXCEPT !.pc = "insert"].pc = "insert"
            BY <3>2 DEF Calls
        <5> QED
            BY <1>1, <4>2, <5>1
      <4> QED
          BY <2>2, <2>3, <3>2, <4>1, <4>2 DEF Plain
    <3> QED
        BY <1>5, <2>5, <3>3, <3>4, <3>5, <3>6, <3>7 DEF Step
  <2> QED
      BY <2>4, <2>5
<1>6. CASE Tick \/ DeleteExpiredSessions \/ Restart \/ UNCHANGED vars
    BY <1>6 DEF Tick, DeleteExpiredSessions, Restart, vars, NoCall, Plain
<1> QED
  <2>1. ASSUME NEW c \in Callers, Start(c)
        PROVE  ReadsRow(d)
      BY <1>3, <1>4, <2>1 DEF Start, Guarded
  <2> QED
      BY <1>5, <1>6, <2>1 DEF Next

-----------------------------------------------------------------------------
(* Sliding expiry                                                          *)

Slid(row) == row.expires = Min2(row.seen + TTL, row.created + MaxAge)

\* ExpiryIsSliding is not inductive: a touch in flight writes what it
\* computed earlier, and that must fit the row it will find.
SlidingInv ==
    /\ \A i \in Ids : sessions[i] # None => Slid(sessions[i])
    /\ \A c \in Callers :
          call[c].pc = "touch" /\ sessions[call[c].sid] # None
          => call[c].ver = Min2(call[c].at + TTL,
                                sessions[call[c].sid].created + MaxAge)

\* Every step keeps SlidingInv.
LEMMA SlidingStep ==
    ASSUME Base, SlidingInv, [Next]_vars
    PROVE  SlidingInv'
<1>1. ASSUME NEW i \in Ids, sessions'[i] # None
      PROVE  Slid(sessions'[i])
  <2>1. CASE Deletes
      BY <1>1, <2>1 DEF Deletes, SlidingInv
  <2>2. ASSUME NEW c \in Callers, CreateSession(c)
        PROVE  Slid(sessions'[i])
    <3>1. CASE i = nextId
      <4>1. /\ sessions'[i].expires = clock + TTL
            /\ sessions'[i].seen = clock /\ sessions'[i].created = clock
        <5>1. sessions'[nextId] = [created |-> clock, expires |-> clock + TTL,
                                   seen |-> clock, ver |-> call[c].ver,
                                   pw |-> call[c].pw]
            BY <2>2, CreateEffect, Zenon
        <5> QED
            BY <3>1, <5>1
      <4>2. clock \in Nat /\ TTL \in Nat /\ MaxAge \in Nat /\ TTL <= MaxAge
          BY SessionsAssumption DEF Base
      <4>3. clock + TTL = Min2(clock + TTL, clock + MaxAge)
          BY <4>2 DEF Min2
      <4> QED
          BY <4>1, <4>3 DEF Slid
    <3>2. CASE i # nextId
      <4>1. sessions'[i] = sessions[i]
          BY <2>2, <3>2, CreateEffect
      <4> QED
          BY <1>1, <4>1 DEF SlidingInv
    <3> QED
        BY <3>1, <3>2
  <2>3. ASSUME NEW c \in Callers, TouchSession(c)
        PROVE  Slid(sessions'[i])
    <3>1. CASE i # call[c].sid \/ sessions[i] = None
      <4>1. sessions'[i] = sessions[i]
          BY <2>3, <3>1, TouchEffect
      <4> QED
          BY <1>1, <4>1 DEF SlidingInv
    <3>2. CASE i = call[c].sid /\ sessions[i] # None
      <4>1. /\ sessions'[i].created = sessions[i].created
            /\ sessions'[i].seen = call[c].at
            /\ sessions'[i].expires = call[c].ver
          BY <2>3, <3>2, TouchEffect
      <4>2. call[c].ver = Min2(call[c].at + TTL, sessions[i].created + MaxAge)
          BY <2>3, <3>2 DEF SlidingInv, TouchSession
      <4> QED
          BY <4>1, <4>2 DEF Slid
    <3> QED
        BY <3>1, <3>2
  <2> QED
      BY <2>1, <2>2, <2>3, RowSteps
<1>2. ASSUME NEW d \in Callers, call'[d].pc = "touch",
             sessions'[call'[d].sid] # None
      PROVE  call'[d].ver = Min2(call'[d].at + TTL,
                                 sessions'[call'[d].sid].created + MaxAge)
  <2>1. CASE ReadsRow(d)
      BY <2>1 DEF ReadsRow, Renewed
  <2>2. CASE call'[d] = call[d]
    <3> DEFINE sid == call[d].sid
    <3>1. CallOK(call[d], nextId)
        BY <1>2, <2>2, Busy
    <3>2. sid \in Ids /\ sid # nextId
        BY <1>2, <2>2, <3>1, SessionsAssumption DEF CallOK, Base, Ids
    <3>3. sessions[sid] # None
          /\ sessions'[sid].created = sessions[sid].created
      <4>1. CASE Deletes
          BY <1>2, <2>2, <3>2, <4>1 DEF Deletes
      <4>2. ASSUME NEW c \in Callers, CreateSession(c)
            PROVE  sessions'[sid] = sessions[sid]
          BY <3>2, <4>2, CreateEffect
      <4>3. ASSUME NEW c \in Callers, TouchSession(c)
            PROVE  \/ sessions'[sid] = sessions[sid]
                   \/ /\ sessions[sid] # None
                      /\ sessions'[sid].created = sessions[sid].created
          BY <3>2, <4>3, TouchEffect
      <4> QED
          BY <1>2, <2>2, <4>1, <4>2, <4>3, RowSteps
    <3> QED
        BY <1>2, <2>2, <3>3 DEF SlidingInv
  <2>3. call'[d] = call[d] \/ ReadsRow(d)
      BY <1>2, CallSteps DEF Plain, Presents
  <2> QED
      BY <2>1, <2>2, <2>3
<1> QED
    BY <1>1, <1>2 DEF SlidingInv, Slid

\* "Past half the TTL the session is touched forward, capped at
\* created+MaxAge": for any number of racing touches, and whatever deletes or
\* opens sessions in between, a stored row is always the result of one
\* complete renewal of that row.
THEOREM ExpirySlides == Spec => []ExpiryIsSliding
<1>1. Init => Base /\ SlidingInv
    BY BaseInit DEF Init, SlidingInv, NoCall
<1>2. Base /\ SlidingInv /\ [Next]_vars => Base' /\ SlidingInv'
    BY BaseStep, SlidingStep
<1>3. SlidingInv => ExpiryIsSliding
    BY DEF SlidingInv, Slid, ExpiryIsSliding
<1> QED
    BY <1>1, <1>2, <1>3, PTL DEF Spec

-----------------------------------------------------------------------------
(* Sessions are earned                                                     *)

Earned(pw, ver) ==
    IF EnvManaged THEN pw = EnvPassword
    ELSE ver \in 1..Len(creds) /\ pw = creds[ver]

\* SessionsWereEarned with the requests that are about to open a session;
\* setup stores nothing when the environment holds the password.
EarnedInv ==
    /\ \A i \in Ids :
          sessions[i] # None => Earned(sessions[i].pw, sessions[i].ver)
    /\ \A c \in Callers :
          /\ call[c].pc = "create" => Earned(call[c].pw, call[c].ver)
          /\ call[c].pc = "insert" => ~EnvManaged

\* The stored passwords form a history: no version is rewritten.
LEMMA CredsGrow ==
    ASSUME Base, [Next]_vars
    PROVE  \/ creds' = creds
           \/ \E c \in Callers : \/ /\ call[c].pc = "insert" /\ creds = <<>>
                                    /\ creds' = <<call[c].pw>>
                                 \/ UpdateCredentialHash(c)
<1>1. ASSUME NEW c \in Callers, Start(c)
      PROVE  creds' = creds
    BY <1>1 DEF Start, SetupStart, LoginStart, Authenticate, tables
<1>2. ASSUME NEW c \in Callers, Step(c), ~UpdateCredentialHash(c)
      PROVE  creds' = creds \/ (/\ call[c].pc = "insert" /\ creds = <<>>
                               /\ creds' = <<call[c].pw>>)
    BY <1>2 DEF Step, InsertCredentialIfAbsent, LoginVerify, CreateSession,
       RevokeOwn, RevokeByIDPrefix, PasswordStart, PasswordVerify, TouchSession,
       DeleteOtherSessions, Abort, tables
<1> QED
    BY <1>1, <1>2 DEF Next, Tick, DeleteExpiredSessions, Restart, vars, tables

\* What was earned stays earned.
LEMMA EarnedKept ==
    ASSUME Base, [Next]_vars, NEW pw, NEW ver, Earned(pw, ver)
    PROVE  Earned(pw, ver)'
<1>1. CASE creds' = creds \/ EnvManaged
    BY <1>1 DEF Earned, EnvManaged
<1>2. CASE creds = <<>> /\ ~EnvManaged
    BY <1>2 DEF Earned
<1>3. ASSUME NEW c \in Callers, UpdateCredentialHash(c), ~EnvManaged
      PROVE  Earned(pw, ver)'
  <2>1. creds \in Seq(Passwords) /\ creds' = Append(creds, call[c].new)
      BY <1>3 DEF Base, UpdateCredentialHash
  <2>2. call[c].new \in Passwords
    <3>1. CallOK(call[c], nextId) /\ call[c].pc = "update"
        BY <1>3, Busy DEF UpdateCredentialHash
    <3> QED
        BY <3>1 DEF CallOK
  <2>3. ver \in 1..Len(creds) /\ pw = creds[ver]
      BY <1>3 DEF Earned
  <2>4. Len(creds') = Len(creds) + 1 /\ creds'[ver] = creds[ver]
      BY <2>1, <2>2, <2>3
  <2>5. ver \in 1..Len(creds')
    <3>1. Len(creds) \in Nat
        BY <2>1
    <3> QED
        BY <2>3, <2>4, <3>1
  <2> QED
      BY <1>3, <2>3, <2>4, <2>5 DEF Earned, EnvManaged
<1> QED
    BY <1>1, <1>2, <1>3, CredsGrow

\* Every step keeps EarnedInv.
LEMMA EarnedStep ==
    ASSUME Base, EarnedInv, [Next]_vars
    PROVE  EarnedInv'
<1>1. ASSUME NEW i \in Ids, sessions'[i] # None
      PROVE  Earned(sessions[i].pw, sessions[i].ver)'
  <2>1. PICK pw, ver : /\ sessions'[i].pw = pw /\ sessions'[i].ver = ver
                       /\ Earned(pw, ver)
    <3>1. CASE Deletes
        BY <1>1, <3>1 DEF Deletes, EarnedInv
    <3>2. ASSUME NEW c \in Callers, CreateSession(c)
          PROVE  Earned(sessions'[i].pw, sessions'[i].ver)
      <4>1. CASE i = nextId
        <5>1. sessions'[nextId] = [created |-> clock, expires |-> clock + TTL,
                                   seen |-> clock, ver |-> call[c].ver,
                                   pw |-> call[c].pw]
            BY <3>2, CreateEffect, Zenon
        <5>2. Earned(call[c].pw, call[c].ver)
            BY <3>2 DEF EarnedInv, CreateSession
        <5>3. sessions'[i].pw = call[c].pw /\ sessions'[i].ver = call[c].ver
            BY <4>1, <5>1
        <5> QED
            BY <5>2, <5>3
      <4>2. CASE i # nextId
        <5>1. sessions'[i] = sessions[i]
            BY <3>2, <4>2, CreateEffect
        <5> QED
            BY <1>1, <5>1 DEF EarnedInv
      <4> QED
          BY <4>1, <4>2
    <3>3. ASSUME NEW c \in Callers, TouchSession(c)
          PROVE  Earned(sessions'[i].pw, sessions'[i].ver)
      <4>1. \/ sessions'[i] = sessions[i]
            \/ /\ sessions[i] # None
               /\ sessions'[i].pw = sessions[i].pw
               /\ sessions'[i].ver = sessions[i].ver
          BY <3>3, TouchEffect
      <4> QED
          BY <1>1, <4>1 DEF EarnedInv
    <3> QED
        BY <3>1, <3>2, <3>3, RowSteps
  <2>2. Earned(pw, ver)'
      BY <2>1, EarnedKept
  <2> QED
      BY <2>1, <2>2
<1>2. ASSUME NEW d \in Callers, call'[d].pc = "create"
      PROVE  Earned(call[d].pw, call[d].ver)'
  <2>1. CASE call'[d] = call[d]
    <3>1. Earned(call[d].pw, call[d].ver)
        BY <1>2, <2>1 DEF EarnedInv
    <3>2. PICK pw, ver : pw = call[d].pw /\ ver = call[d].ver
        OBVIOUS
    <3>3. Earned(pw, ver)'
        BY <3>1, <3>2, EarnedKept
    <3> QED
        BY <2>1, <3>2, <3>3
  <2>2. CASE Presents(d)
    <3>1. CASE call[d].pc = "insert" /\ creds = <<>> /\ creds' = <<call[d].pw>>
               /\ call'[d].ver = 1
      <4>1. ~EnvManaged
          BY <3>1 DEF EarnedInv
      <4>2. Len(creds') = 1 /\ creds'[1] = call[d].pw
          BY <3>1
      <4> QED
          BY <2>2, <3>1, <4>1, <4>2 DEF Presents, Earned, EnvManaged
    <3>2. CASE call[d].pw = Cred /\ creds' = creds /\ call'[d].ver = Version
      <4>1. CASE EnvManaged
          BY <2>2, <3>2, <4>1 DEF Presents, Earned, EnvManaged, Cred
      <4>2. CASE ~EnvManaged
        <5>1. creds # <<>> /\ call[d].pw = creds[Version]
            BY <2>2, <3>2, <4>2, SessionsAssumption DEF Presents, Cred
        <5>2. Version \in 1..Len(creds)
            BY <5>1 DEF Version, Base
        <5> QED
            BY <2>2, <3>2, <4>2, <5>1, <5>2 DEF Presents, Earned, EnvManaged
      <4> QED
          BY <4>1, <4>2
    <3> QED
        BY <2>2, <3>1, <3>2 DEF Presents
  <2> QED
      BY <1>2, <2>1, <2>2, CallSteps DEF Plain, ReadsRow
<1>3. ASSUME NEW d \in Callers, call'[d].pc = "insert"
      PROVE  ~EnvManaged
  <2>1. CASE call'[d] = call[d]
      BY <1>3, <2>1 DEF EarnedInv
  <2> QED
      BY <1>3, <2>1, CallSteps DEF Plain, ReadsRow, Presents
<1> QED
    BY <1>1, <1>2, <1>3 DEF EarnedInv, EnvManaged

\* "Concurrent setups yield exactly one winner", and no session is opened
\* without the password that was stored when it was compared, for any number
\* of setups, logins and password changes in flight.
THEOREM EverySessionEarned == Spec => []SessionsWereEarned
<1>1. Init => Base /\ EarnedInv
    BY BaseInit DEF Init, EarnedInv, NoCall
<1>2. Base /\ EarnedInv /\ [Next]_vars => Base' /\ EarnedInv'
    BY BaseStep, EarnedStep
<1>3. EarnedInv => SessionsWereEarned
    BY DEF EarnedInv, Earned, SessionsWereEarned
<1> QED
    BY <1>1, <1>2, <1>3, PTL DEF Spec

-----------------------------------------------------------------------------
(* Password changes                                                        *)

\* A password change that is about to delete the other sessions does so or
\* leaves all of them excused.
LEMMA ChangeEnds ==
    ASSUME Base, [Next]_vars, NEW c \in Callers, call[c].pc = "others"
    PROVE  \/ call'[c] = call[c]
           \/ DeleteOtherSessions(c)
           \/ sessions' = sessions /\ creds' = creds
              /\ {i \in Ids : sessions[i] # None} \subseteq excused'
<1>1. ASSUME NEW d \in Callers, Start(d)
      PROVE  call'[c] = call[c]
  <2>1. call[d] = NoCall
      BY <1>1 DEF Start, SetupStart, LoginStart, Authenticate
  <2>2. d # c
      BY <2>1 DEF NoCall
  <2>3. ASSUME NEW sid, NEW pw, SetupStart(d, sid, pw) \/ LoginStart(d, sid, pw)
        PROVE  call'[c] = call[c]
      BY <2>2, <2>3 DEF SetupStart, LoginStart, Request, Base
  <2>4. ASSUME NEW kind, NEW sid, NEW pw, NEW new, Authenticate(d, kind, sid, pw, new)
        PROVE  call'[c] = call[c]
      BY <2>2, <2>4 DEF Authenticate, LetIn, Base
  <2> QED
      BY <1>1, <2>3, <2>4 DEF Start
<1>2. ASSUME NEW d \in Callers, Step(d), d # c
      PROVE  call'[c] = call[c]
  <2>1. \E k : call' = [call EXCEPT ![d] = k]
      BY <1>2 DEF Step, InsertCredentialIfAbsent, LoginVerify, CreateSession,
         RevokeOwn, RevokeByIDPrefix, PasswordStart, PasswordVerify, TouchSession,
         LetIn, UpdateCredentialHash, DeleteOtherSessions, Abort, Goto, Finish, Base
  <2> QED
      BY <1>2, <2>1 DEF Base
<1>3. CASE Step(c)
    BY <1>3 DEF Step, InsertCredentialIfAbsent, LoginVerify, CreateSession,
       RevokeOwn, RevokeByIDPrefix, PasswordStart, PasswordVerify, TouchSession,
       UpdateCredentialHash, Abort, LeftOver, tables
<1>4. CASE Restart
    BY <1>4 DEF Restart, LeftOver, tables
<1>5. CASE Tick \/ DeleteExpiredSessions \/ UNCHANGED vars
    BY <1>5 DEF Tick, DeleteExpiredSessions, vars
<1> QED
    BY <1>1, <1>2, <1>3, <1>4, <1>5 DEF Next

\* The excused sessions only ever lose members when a password change has
\* deleted all sessions but its own.
LEMMA ExcusedGrows ==
    ASSUME Base, [Next]_vars
    PROVE  \/ excused \subseteq excused'
           \/ \E c \in Callers : DeleteOtherSessions(c)
<1>1. ASSUME NEW c \in Callers, Start(c)
      PROVE  excused' = excused
    BY <1>1 DEF Start, SetupStart, LoginStart, Authenticate, history
<1>2. ASSUME NEW c \in Callers, Step(c), ~DeleteOtherSessions(c)
      PROVE  excused \subseteq excused'
    BY <1>2 DEF Step, InsertCredentialIfAbsent, LoginVerify, CreateSession,
       RevokeOwn, TouchSession, RevokeByIDPrefix, PasswordStart, PasswordVerify,
       UpdateCredentialHash, Abort, history
<1>3. CASE Tick \/ DeleteExpiredSessions \/ Restart \/ UNCHANGED vars
    BY <1>3 DEF Tick, DeleteExpiredSessions, Restart, vars, history
<1> QED
    BY <1>1, <1>2, <1>3 DEF Next

\* Every step keeps OldSessionsHaveCause.
LEMMA CauseStep ==
    ASSUME Base, EarnedInv, OldSessionsHaveCause, [Next]_vars
    PROVE  OldSessionsHaveCause'
<1> SUFFICES ASSUME NEW i \in Ids, sessions'[i] # None,
                    sessions'[i].ver < Len(creds'), i \notin excused'
             PROVE  \E c \in Callers : call'[c].pc = "others"
    BY DEF OldSessionsHaveCause, Version
<1>1. ASSUME NEW c \in Callers, DeleteOtherSessions(c)
      PROVE  FALSE
  <2>1. i # call[c].sid
      BY <1>1 DEF DeleteOtherSessions
  <2> QED
      BY <1>1, <2>1 DEF DeleteOtherSessions, Revoked
<1>2. i \notin excused
    BY <1>1, ExcusedGrows
<1>3. ASSUME NEW c \in Callers, UpdateCredentialHash(c)
      PROVE  call'[c].pc = "others"
  <2>1. CallOK(call[c], nextId)
      BY <1>3, Busy DEF UpdateCredentialHash
  <2> QED
      BY <1>3, <2>1 DEF UpdateCredentialHash, Goto, CallOK, Calls, Base
<1>4. ASSUME NEW c \in Callers, CreateSession(c), i = nextId
      PROVE  FALSE
  <2>1. sessions'[nextId] = [created |-> clock, expires |-> clock + TTL,
                             seen |-> clock, ver |-> call[c].ver,
                             pw |-> call[c].pw]
      BY <1>4, CreateEffect, Zenon
  <2>2. sessions'[i].ver = call[c].ver
      BY <1>4, <2>1
  <2>3. creds' = creds
      BY <1>4 DEF CreateSession
  <2> QED
      BY <1>4, <2>2, <2>3 DEF CreateSession, Version
<1>5. CASE ~\E c \in Callers : CreateSession(c) /\ i = nextId
  <2>1. sessions[i] # None /\ sessions'[i].ver = sessions[i].ver
    <3>1. CASE Deletes
        BY <3>1 DEF Deletes
    <3>2. ASSUME NEW c \in Callers, CreateSession(c)
          PROVE  sessions'[i] = sessions[i]
        BY <1>5, <3>2, CreateEffect
    <3>3. ASSUME NEW c \in Callers, TouchSession(c)
          PROVE  \/ sessions'[i] = sessions[i]
                 \/ sessions[i] # None /\ sessions'[i].ver = sessions[i].ver
        BY <3>3, TouchEffect
    <3> QED
        BY <3>1, <3>2, <3>3, RowSteps
  <2>2. CASE creds' = creds
    <3>1. PICK c \in Callers : call[c].pc = "others"
        BY <1>2, <2>1, <2>2 DEF OldSessionsHaveCause, Version
    <3>2. CASE call'[c] = call[c]
        BY <3>1, <3>2
    <3> QED
        BY <1>1, <2>1, <3>1, <3>2, ChangeEnds
  <2>3. ASSUME NEW c \in Callers, call[c].pc = "insert", creds = <<>>
        PROVE  FALSE
    <3>1. ~EnvManaged
        BY <2>3 DEF EarnedInv
    <3>2. sessions[i].ver \in 1..Len(creds)
        BY <2>1, <3>1 DEF EarnedInv, Earned
    <3> QED
        BY <2>3, <3>2
  <2> QED
      BY <1>3, <2>2, <2>3, CredsGrow
<1> QED
    BY <1>4, <1>5

\* "Revokes every other session (the current session survives)": for any
\* number of overlapping changes, a session opened under an earlier password
\* is the one that made the change, was opened by a login that overlapped
\* it, was left by a change that failed between its statements, or is about
\* to be deleted.
THEOREM OldSessionsExplained == Spec => []OldSessionsHaveCause
<1>1. Init => Base /\ EarnedInv /\ OldSessionsHaveCause
    BY BaseInit DEF Init, EarnedInv, NoCall, OldSessionsHaveCause
<1>2. Base /\ EarnedInv /\ OldSessionsHaveCause /\ [Next]_vars
      => Base' /\ EarnedInv' /\ OldSessionsHaveCause'
    BY BaseStep, EarnedStep, CauseStep
<1> QED
    BY <1>1, <1>2, PTL DEF Spec

-----------------------------------------------------------------------------
(* The limiter                                                             *)

\* StrikesCollectable with the types of the two maps.
StrikesInv ==
    /\ clock \in Nat
    /\ lockStrikes \in [Keys -> Nat] /\ lastFailure \in [Keys -> Nat \cup {None}]
    /\ StrikesCollectable

\* The sweep forgets the trips of a key together with its last failure.
LEMMA PruneKeeps ==
    ASSUME NEW f, NEW u, NEW s \in [Keys -> Nat],
           NEW l \in [Keys -> Nat \cup {None}],
           \A k \in Keys : s[k] > 0 => l[k] # None,
           Becomes(PruneStale(f, u, s, l))
    PROVE  /\ lockStrikes' \in [Keys -> Nat]
           /\ lastFailure' \in [Keys -> Nat \cup {None}]
           /\ \A k \in Keys : lockStrikes'[k] > 0 => lastFailure'[k] # None
<1>1. \/ lockStrikes' = s /\ lastFailure' = l
      \/ \E S \in SUBSET Keys :
            /\ lockStrikes' = [k \in Keys |-> IF k \in S THEN 0 ELSE s[k]]
            /\ lastFailure' = [k \in Keys |-> IF k \in S THEN None ELSE l[k]]
  <2>1. CASE lastPrune # None /\ clock - lastPrune < PruneInterval
      BY <2>1 DEF Becomes, PruneStale
  <2>2. CASE ~(lastPrune # None /\ clock - lastPrune < PruneInterval)
    <3> DEFINE u2 == [k \in Keys |-> IF u[k] # None /\ clock >= u[k] THEN None
                                     ELSE u[k]]
               f2 == [k \in Keys |-> Recent(f[k], FailWindow)]
               S == {k \in Keys : Idle(f2, u2, l, k)}
    <3>1. /\ lockStrikes' = [k \in Keys |-> IF Idle(f2, u2, l, k) THEN 0 ELSE s[k]]
          /\ lastFailure' = [k \in Keys |-> IF Idle(f2, u2, l, k) THEN None ELSE l[k]]
        BY <2>2 DEF Becomes, PruneStale
    <3> HIDE DEF u2, f2
    <3>2. /\ lockStrikes' = [k \in Keys |-> IF k \in S THEN 0 ELSE s[k]]
          /\ lastFailure' = [k \in Keys |-> IF k \in S THEN None ELSE l[k]]
        BY <3>1
    <3> HIDE DEF S
    <3>3. S \in SUBSET Keys
        BY DEF S
    <3> QED
        BY <3>2, <3>3
  <2> QED
      BY <2>1, <2>2
<1> QED
    BY <1>1

\* Every step keeps StrikesInv.
LEMMA StrikesStep ==
    ASSUME Base, Base', StrikesInv, [Next]_vars
    PROVE  StrikesInv'
<1>1. clock \in Nat /\ clock' \in Nat /\ None \notin Nat
      /\ {"login", "password"} \subseteq Keys /\ MaxStrikes \in Nat
    BY SessionsAssumption, LimiterAssumption DEF Base
<1>2. ASSUME NEW key \in Keys, NEW ok, Allow(key, ok)
      PROVE  StrikesInv'
  <2>1. CASE Locked(key)
      BY <1>1, <1>2, <2>1 DEF Allow, limiter, StrikesInv, StrikesCollectable
  <2>2. CASE ~Locked(key)
    <3> DEFINE u == [lockedUntil EXCEPT ![key] = None]
    <3>1. Becomes(PruneStale(fails, u, lockStrikes, lastFailure))
        BY <1>2, <2>2 DEF Allow
    <3> HIDE DEF u
    <3> QED
        BY <1>1, <3>1, PruneKeeps DEF StrikesInv, StrikesCollectable
  <2> QED
      BY <2>1, <2>2
<1>3. ASSUME NEW key \in Keys, Failure(key)
      PROVE  StrikesInv'
  <2> DEFINE l == [lastFailure EXCEPT ![key] = clock]
             n == IF lockStrikes[key] < MaxStrikes THEN lockStrikes[key] + 1
                  ELSE lockStrikes[key]
             s == [lockStrikes EXCEPT ![key] = n]
  <2>1. n \in Nat
      BY <1>1, <1>3 DEF StrikesInv
  <2>2. PICK t \in {s, lockStrikes} : \E f, u : Becomes(PruneStale(f, u, t, l))
    <3> DEFINE counted == Append(Recent(fails[key], FailWindow), clock)
               locked == [lockedUntil EXCEPT ![key] = clock + escalatedLockout(n)]
    <3>1. CASE Len(counted) >= MaxFails
      <4>1. Becomes(PruneStale(Cleared(key), locked, s, l))
          BY <1>3, <3>1 DEF Failure
      <4> HIDE DEF s, l, locked
      <4> QED
          BY <4>1, Zenon
    <3>2. CASE ~(Len(counted) >= MaxFails)
      <4>1. Becomes(PruneStale([fails EXCEPT ![key] = counted], lockedUntil,
                               lockStrikes, l))
          BY <1>3, <3>2 DEF Failure
      <4> HIDE DEF s, l, counted
      <4> QED
          BY <4>1, Zenon
    <3> QED
        BY <3>1, <3>2
  <2>3. /\ l \in [Keys -> Nat \cup {None}]
        /\ l[key] # None
        /\ \A k \in Keys : k # key => l[k] = lastFailure[k]
      BY <1>1, <1>3 DEF StrikesInv
  <2> HIDE DEF n
  <2>4. /\ t \in [Keys -> Nat]
        /\ \A k \in Keys : k # key => t[k] = lockStrikes[k]
      BY <2>1, <2>2 DEF StrikesInv
  <2> HIDE DEF l, s
  <2>5. \A k \in Keys : t[k] > 0 => l[k] # None
      BY <2>3, <2>4 DEF StrikesInv, StrikesCollectable
  <2> QED
      BY <1>1, <2>2, <2>3, <2>4, <2>5, PruneKeeps DEF StrikesInv, StrikesCollectable
<1>4. ASSUME NEW key \in Keys, Success(key)
      PROVE  StrikesInv'
    BY <1>1, <1>4 DEF Success, StrikesInv, StrikesCollectable
<1>5. CASE UNCHANGED <<lockStrikes, lastFailure>>
    BY <1>1, <1>5 DEF StrikesInv, StrikesCollectable
<1>6. CASE Restart
    BY <1>1, <1>6 DEF Restart, StrikesInv, StrikesCollectable
<1>7. \/ UNCHANGED <<lockStrikes, lastFailure>> \/ Restart
      \/ \E key \in Keys : \/ Failure(key) \/ Success(key)
                           \/ \E ok \in BOOLEAN : Allow(key, ok)
  <2>1. ASSUME NEW c \in Callers, Start(c)
        PROVE  \/ UNCHANGED <<lockStrikes, lastFailure>>
               \/ \E ok \in BOOLEAN : Allow("login", ok)
      BY <2>1 DEF Start, SetupStart, LoginStart, Authenticate, limiter
  <2>2. ASSUME NEW c \in Callers, Step(c)
        PROVE  \/ UNCHANGED <<lockStrikes, lastFailure>>
               \/ \E key \in {"login", "password"} :
                     \/ Failure(key) \/ Success(key)
                     \/ \E ok \in BOOLEAN : Allow(key, ok)
      BY <2>2 DEF Step, InsertCredentialIfAbsent, LoginVerify, CreateSession,
         RevokeOwn, TouchSession, RevokeByIDPrefix, PasswordStart, PasswordVerify,
         UpdateCredentialHash, DeleteOtherSessions, Abort, limiter
  <2>3. CASE Tick \/ DeleteExpiredSessions \/ UNCHANGED vars
      BY <2>3 DEF Tick, DeleteExpiredSessions, vars, limiter
  <2> QED
      BY <1>1, <2>1, <2>2, <2>3 DEF Next
<1> QED
    BY <1>2, <1>3, <1>4, <1>5, <1>6, <1>7

\* "The maps cannot grow without bound": for any thresholds and any number of
\* addresses, trips are never kept for a key the sweep does not look at.
THEOREM StrikesAreCollected == Spec => []StrikesCollectable
<1>1. Init => Base /\ StrikesInv
    BY BaseInit DEF Init, LimiterInit, StrikesInv, StrikesCollectable
<1>2. Base /\ StrikesInv /\ [Next]_vars => Base' /\ StrikesInv'
    BY BaseStep, StrikesStep
<1>3. StrikesInv => StrikesCollectable
    BY DEF StrikesInv
<1> QED
    BY <1>1, <1>2, <1>3, PTL DEF Spec

-----------------------------------------------------------------------------
(* Loops                                                                   *)

\* Two naturals are in the relation of the library when one is less.
LEMMA Before ==
    ASSUME NEW x \in Nat, NEW y \in Nat, y < x
    PROVE  <<y, x>> \in OpToRel(<, Nat)
BY DEF OpToRel

\* A set that holds 0 and the successor of each of its naturals holds them all:
\* induction, for a property that a set can express.
LEMMA AllNaturals ==
    ASSUME NEW S, 0 \in S, \A n \in Nat : n \in S => n + 1 \in S
    PROVE  \A n \in Nat : n \in S
<1> DEFINE T == {n \in Nat : n \notin S}
<1> SUFFICES ASSUME T # {} PROVE FALSE
  OBVIOUS
<1>1. PICK x \in T : \A y \in T : ~ (<<y, x>> \in OpToRel(<, Nat))
  BY NatLessThanWellFounded, WFMin
<1>2. x \in Nat /\ x # 0 /\ x - 1 \in Nat /\ x - 1 < x /\ x = (x - 1) + 1
  OBVIOUS
<1>3. x - 1 \in S
  <2>1. <<x - 1, x>> \in OpToRel(<, Nat)
    BY <1>2, Before
  <2> QED
    BY <1>1, <1>2, <2>1
<1> QED
  BY <1>2, <1>3

\* The loop of prune: what it has kept of the first i times.
Kept(times, window, F) ==
    [i \in 0..Len(times) |->
        IF i = 0 THEN <<>>
        ELSE IF times[i] > clock - window THEN Append(F[i - 1], times[i])
        ELSE F[i - 1]]

\* The loop runs to its end.
LEMMA KeptRuns ==
    ASSUME NEW times \in Seq(Nat), NEW window
    PROVE  \E F : F = Kept(times, window, F)
<1> DEFINE n == Len(times)
           Upto(F, m) == \A i \in 0..m :
               F[i] = IF i = 0 THEN <<>>
                      ELSE IF times[i] > clock - window THEN Append(F[i - 1], times[i])
                      ELSE F[i - 1]
           S == {m \in Nat : \E F : Upto(F, m)}
<1>1. 0 \in S
  <2>1. Upto([i \in {0} |-> <<>>], 0)
    OBVIOUS
  <2> QED
    BY <2>1
<1>2. ASSUME NEW m \in Nat, m \in S PROVE m + 1 \in S
  <2>1. PICK F : Upto(F, m)
    BY <1>2
  <2> DEFINE G == [i \in 0..(m + 1) |->
                      IF i <= m THEN F[i]
                      ELSE IF times[m + 1] > clock - window THEN Append(F[m], times[m + 1])
                      ELSE F[m]]
  <2>2. ASSUME NEW i \in 0..(m + 1)
        PROVE  G[i] = IF i = 0 THEN <<>>
                      ELSE IF times[i] > clock - window THEN Append(G[i - 1], times[i])
                      ELSE G[i - 1]
    <3>1. CASE i <= m
      <4>1. G[i] = F[i] /\ i \in 0..m
        BY <3>1
      <4>2. i # 0 => i - 1 \in 0..m /\ G[i - 1] = F[i - 1]
        BY <3>1
      <4> QED
        BY <2>1, <4>1, <4>2
    <3>2. CASE ~(i <= m)
      <4>1. i = m + 1 /\ i # 0 /\ i - 1 = m /\ G[m] = F[m]
        BY <3>2
      <4> QED
        BY <3>2, <4>1
    <3> QED
      BY <3>1, <3>2
  <2>3. Upto(G, m + 1)
    BY <2>2
  <2> HIDE DEF G
  <2> QED
    BY <2>3
<1>3. n \in S
  <2>1. n \in Nat /\ S \subseteq Nat
    OBVIOUS
  <2> HIDE DEF S, n
  <2> QED
    BY <1>1, <1>2, <2>1, AllNaturals
<1>4. PICK F : Upto(F, n)
  BY <1>3
<1> DEFINE H == [i \in 0..n |-> F[i]]
<1>5. ASSUME NEW i \in 0..n PROVE H[i] = Kept(times, window, H)[i]
  <2>1. i # 0 => i - 1 \in 0..n
    OBVIOUS
  <2> QED
    BY <1>4, <2>1 DEF Kept
<1>6. H = Kept(times, window, H)
  BY <1>5 DEF Kept
<1> QED
  BY <1>6

\* prune keeps times, and no more of them than there were.
LEMMA RecentType ==
    ASSUME NEW times \in Seq(Nat), NEW window
    PROVE  Recent(times, window) \in Seq(Nat) /\ Len(Recent(times, window)) <= Len(times)
<1> DEFINE n == Len(times)
           F == CHOOSE G : G = Kept(times, window, G)
           S == {m \in Nat : m <= n => F[m] \in Seq(Nat) /\ Len(F[m]) <= m}
<1>1. F = Kept(times, window, F)
  BY KeptRuns
<1>2. Recent(times, window) = F[n]
  BY DEF Recent, Kept
<1> HIDE DEF F
<1>3. 0 \in S
  BY <1>1 DEF Kept
<1>4. ASSUME NEW m \in Nat, m \in S PROVE m + 1 \in S
  <2> SUFFICES ASSUME m + 1 <= n PROVE F[m + 1] \in Seq(Nat) /\ Len(F[m + 1]) <= m + 1
    OBVIOUS
  <2>1. F[m] \in Seq(Nat) /\ Len(F[m]) <= m
    BY <1>4
  <2>2. times[m + 1] \in Nat
    OBVIOUS
  <2>3. F[m + 1] = Append(F[m], times[m + 1]) \/ F[m + 1] = F[m]
    <3>1. m + 1 \in 0..n /\ m + 1 # 0 /\ (m + 1) - 1 = m
      OBVIOUS
    <3> QED
      BY <1>1, <3>1 DEF Kept
  <2>4. /\ Append(F[m], times[m + 1]) \in Seq(Nat)
        /\ Len(Append(F[m], times[m + 1])) = Len(F[m]) + 1
    BY <2>1, <2>2
  <2>5. Len(F[m]) \in Nat
    BY <2>1
  <2>6. CASE F[m + 1] = F[m]
    BY <2>1, <2>5, <2>6
  <2>7. CASE F[m + 1] = Append(F[m], times[m + 1])
    BY <2>1, <2>4, <2>5, <2>7
  <2> QED
    BY <2>3, <2>6, <2>7
<1>5. n \in S
  <2>1. n \in Nat /\ S \subseteq Nat
    OBVIOUS
  <2> HIDE DEF S, n
  <2> QED
    BY <1>3, <1>4, <2>1, AllNaturals
<1> QED
  BY <1>2, <1>5

\* The ladder of lockouts, step by step.
Ladder(strikes, d) ==
    [i \in 1..strikes |->
        IF i = 1 THEN Lockout
        ELSE IF d[i - 1] >= MaxLockout \div 2 THEN MaxLockout
        ELSE 2 * d[i - 1]]

\* A lockout after a lockout of x.
Doubled(x) == IF x >= MaxLockout \div 2 THEN MaxLockout ELSE 2 * x

\* The ladder has its rungs.
LEMMA LadderStands ==
    ASSUME NEW strikes \in Nat PROVE \E d : d = Ladder(strikes, d)
<1> DEFINE Upto(d, m) == \A i \in 1..m : d[i] = IF i = 1 THEN Lockout ELSE Doubled(d[i - 1])
           S == {m \in Nat : \E d : Upto(d, m)}
<1>1. 0 \in S
  OBVIOUS
<1>2. ASSUME NEW m \in Nat, m \in S PROVE m + 1 \in S
  <2>1. PICK d : Upto(d, m)
    BY <1>2
  <2> DEFINE e == [i \in 1..(m + 1) |-> IF i <= m THEN d[i]
                                        ELSE IF i = 1 THEN Lockout ELSE Doubled(d[m])]
  <2>2. ASSUME NEW i \in 1..(m + 1)
        PROVE  e[i] = IF i = 1 THEN Lockout ELSE Doubled(e[i - 1])
    <3>1. CASE i <= m
      <4>1. e[i] = d[i] /\ i \in 1..m
        BY <3>1
      <4>2. i # 1 => i - 1 \in 1..m /\ e[i - 1] = d[i - 1]
        BY <3>1
      <4> QED
        BY <2>1, <4>1, <4>2
    <3>2. CASE ~(i <= m)
      <4>1. i = m + 1 /\ (i # 1 => i - 1 = m /\ m \in 1..(m + 1) /\ e[m] = d[m])
        BY <3>2
      <4> QED
        BY <3>2, <4>1
    <3> QED
      BY <3>1, <3>2
  <2>3. Upto(e, m + 1)
    BY <2>2
  <2> HIDE DEF e
  <2> QED
    BY <2>3
<1>3. strikes \in S
  <2> HIDE DEF S
  <2> QED
    BY <1>1, <1>2, AllNaturals
<1>4. PICK d : Upto(d, strikes)
  BY <1>3
<1> DEFINE e == [i \in 1..strikes |-> d[i]]
<1>5. ASSUME NEW i \in 1..strikes PROVE e[i] = Ladder(strikes, e)[i]
  <2>1. i # 1 => i - 1 \in 1..strikes
    OBVIOUS
  <2> QED
    BY <1>4, <2>1 DEF Ladder, Doubled
<1>6. e = Ladder(strikes, e)
  BY <1>5 DEF Ladder
<1> QED
  BY <1>6

\* The lockout of a trip: the first is Lockout, each next one doubles it, up
\* to MaxLockout (escalatedLockout).
LEMMA Escalates ==
    ASSUME NEW s \in Nat \ {0}
    PROVE  /\ escalatedLockout(s) \in Nat \ {0}
           /\ escalatedLockout(s + 1) = Doubled(escalatedLockout(s))
<1> USE LimiterAssumption
<1> DEFINE d == CHOOSE f : f = Ladder(s, f)
           e == CHOOSE f : f = Ladder(s + 1, f)
           S == {i \in Nat : i + 1 <= s => d[i + 1] = e[i + 1] /\ d[i + 1] \in Nat \ {0}}
<1>1. d = Ladder(s, d) /\ e = Ladder(s + 1, e)
  BY LadderStands
<1>2. escalatedLockout(s) = d[s] /\ escalatedLockout(s + 1) = e[s + 1]
  BY DEF escalatedLockout, Ladder
<1> HIDE DEF d, e
<1>3. 0 \in S
  BY <1>1 DEF Ladder
<1>4. ASSUME NEW i \in Nat, i \in S PROVE i + 1 \in S
  <2> SUFFICES ASSUME i + 2 <= s PROVE d[i + 2] = e[i + 2] /\ d[i + 2] \in Nat \ {0}
    OBVIOUS
  <2>1. d[i + 1] = e[i + 1] /\ d[i + 1] \in Nat \ {0}
    BY <1>4
  <2>2. d[i + 2] = Doubled(d[i + 1]) /\ e[i + 2] = Doubled(e[i + 1])
    <3>1. i + 2 \in 1..s /\ i + 2 \in 1..(s + 1) /\ i + 2 # 1 /\ (i + 2) - 1 = i + 1
      OBVIOUS
    <3> QED
      BY <1>1, <3>1 DEF Ladder, Doubled
  <2> QED
    BY <2>1, <2>2 DEF Doubled
<1>5. s - 1 \in S
  <2> HIDE DEF S
  <2> QED
    BY <1>3, <1>4, AllNaturals
<1>6. d[s] = e[s] /\ d[s] \in Nat \ {0}
  BY <1>5
<1>7. e[s + 1] = Doubled(e[s])
  <2>1. s + 1 \in 1..(s + 1) /\ s + 1 # 1 /\ (s + 1) - 1 = s
    OBVIOUS
  <2> QED
    BY <1>1, <2>1 DEF Ladder, Doubled
<1> QED
  BY <1>2, <1>6, <1>7

-----------------------------------------------------------------------------
(* The limiter: types, the global window, escalation                       *)

\* The lock of a key's last trip is the one its counter stands for, as long
\* as the trip is remembered.
TripInv ==
    \A k \in Keys :
        /\ trip[k].lock # 0 /\ clock - trip[k].failed < StrikeDecay
        => /\ lockStrikes[k] >= 1 /\ lastFailure[k] = trip[k].failed
           /\ trip[k].lock = escalatedLockout(lockStrikes[k])

\* Requests that were let in and have not been checked yet.
InFlight(calls) == {c \in Callers : calls[c].pc \in {"verify", "compare"}}

\* GlobalBound is not inductive: the window has room for every request that
\* was let in, whatever order they fail in.
WindowInv ==
    Len(globalFails) + Cardinality(InFlight(call)) <= GlobalPerHour - 1 + Cardinality(Callers)

\* A sweep looks at the last failure, escalation at the trip.
LEMMA StillRemembered ==
    ASSUME NEW c \in Nat, NEW f \in Nat, c - f < StrikeDecay, NEW l, l = f
    PROVE  ~(c - l >= StrikeDecay)
  BY LimiterAssumption

\* What a sweep leaves of the maps: a key keeps its trips or has not failed
\* for long.
Swept(p, s, l) ==
    /\ p.fails \in [Keys -> Seq(Nat)] /\ \A k \in Keys : Len(p.fails[k]) < MaxFails
    /\ p.until \in [Keys -> Times] /\ p.strikes \in [Keys -> 0..MaxStrikes]
    /\ p.last \in [Keys -> Times] /\ p.at \in Times
    /\ \A k \in Keys :
          \/ p.strikes[k] = s[k] /\ p.last[k] = l[k]
          \/ /\ p.strikes[k] = 0 /\ p.last[k] = None
             /\ l[k] # None /\ clock - l[k] >= StrikeDecay

\* A step of the limiter: what a sweep, or no sweep, makes of the maps.
LEMMA SweepType ==
    ASSUME clock \in Nat, lastPrune \in Times,
           NEW f \in [Keys -> Seq(Nat)], \A k \in Keys : Len(f[k]) < MaxFails,
           NEW u \in [Keys -> Times], NEW s \in [Keys -> 0..MaxStrikes],
           NEW l \in [Keys -> Times],
           NEW p, p = PruneStale(f, u, s, l)
    PROVE  Swept(p, s, l)
<1> USE LimiterAssumption
<1>1. CASE lastPrune # None /\ clock - lastPrune < PruneInterval
  BY <1>1 DEF PruneStale, Swept
<1>2. CASE ~(lastPrune # None /\ clock - lastPrune < PruneInterval)
  <2> DEFINE u2 == [k \in Keys |-> IF u[k] # None /\ clock >= u[k] THEN None ELSE u[k]]
             f2 == [k \in Keys |-> Recent(f[k], FailWindow)]
             s2 == [k \in Keys |-> IF Idle(f2, u2, l, k) THEN 0 ELSE s[k]]
             l2 == [k \in Keys |-> IF Idle(f2, u2, l, k) THEN None ELSE l[k]]
  <2>1. p = [fails |-> f2, until |-> u2, strikes |-> s2, last |-> l2, at |-> clock]
    BY <1>2 DEF PruneStale
  <2>2. \A k \in Keys : Recent(f[k], FailWindow) \in Seq(Nat) /\ Len(Recent(f[k], FailWindow)) < MaxFails
    <3>1. ASSUME NEW k \in Keys PROVE Recent(f[k], FailWindow) \in Seq(Nat) /\ Len(Recent(f[k], FailWindow)) < MaxFails
      <4>1. /\ Recent(f[k], FailWindow) \in Seq(Nat)
            /\ Len(Recent(f[k], FailWindow)) <= Len(f[k])
        BY RecentType
      <4>2. Len(f[k]) < MaxFails /\ Len(f[k]) \in Nat /\ Len(Recent(f[k], FailWindow)) \in Nat
        BY <4>1
      <4> QED
        BY <4>1, <4>2
    <3> QED
      BY <3>1
  <2>3. f2 \in [Keys -> Seq(Nat)] /\ \A k \in Keys : Len(f2[k]) < MaxFails
    BY <2>2
  <2>4. u2 \in [Keys -> Times]
    BY DEF Times
  <2>5. ASSUME NEW k \in Keys, Idle(f2, u2, l, k) PROVE l[k] # None /\ clock - l[k] >= StrikeDecay
    BY <2>5 DEF Idle
  <2> HIDE DEF f2, u2
  <2>6. s2 \in [Keys -> 0..MaxStrikes] /\ l2 \in [Keys -> Times]
    BY DEF Times
  <2>7. \A k \in Keys : \/ s2[k] = s[k] /\ l2[k] = l[k]
                        \/ /\ s2[k] = 0 /\ l2[k] = None
                           /\ l[k] # None /\ clock - l[k] >= StrikeDecay
    BY <2>5
  <2> HIDE DEF s2, l2
  <2> QED
    BY <2>1, <2>3, <2>4, <2>6, <2>7 DEF Times, Swept
<1> QED
  BY <1>1, <1>2

\* Escalation, as a property of one step.
Carries ==
    \A k \in Keys :
        /\ lockStrikes'[k] > lockStrikes[k]
        /\ trip[k].lock # 0 /\ clock - trip[k].failed < StrikeDecay
        => trip'[k].lock = 2 * trip[k].lock \/ trip'[k].lock = MaxLockout

\* Allow counts nothing, and lets in only while the window has room.
LEMMA AllowStep ==
    ASSUME LimiterTypeOK, TripInv, NEW key \in Keys, NEW ok \in BOOLEAN, Allow(key, ok),
           UNCHANGED clock
    PROVE  /\ LimiterTypeOK' /\ TripInv' /\ Carries
           /\ Len(globalFails') <= Len(globalFails)
           /\ ok => Len(globalFails') <= GlobalPerHour - 1
<1> USE LimiterAssumption
<1>1. CASE Locked(key)
  <2>1. UNCHANGED limiter /\ ~ok
    BY <1>1 DEF Allow
  <2>2. LimiterTypeOK' /\ TripInv'
    BY <2>1 DEF limiter, LimiterTypeOK, TripInv, Times
  <2>3. Carries
    BY <2>1 DEF limiter, LimiterTypeOK, Carries
  <2>4. Len(globalFails') <= Len(globalFails)
    BY <2>1 DEF limiter, LimiterTypeOK
  <2> QED
    BY <2>1, <2>2, <2>3, <2>4
<1>2. CASE ~Locked(key)
  <2> DEFINE u == [lockedUntil EXCEPT ![key] = None]
  <2>1. PICK p : p = PruneStale(fails, u, lockStrikes, lastFailure)
    OBVIOUS
  <2>2. /\ u \in [Keys -> Times] /\ clock \in Nat /\ lastPrune \in Times
        /\ fails \in [Keys -> Seq(Nat)] /\ \A k \in Keys : Len(fails[k]) < MaxFails
        /\ lockStrikes \in [Keys -> 0..MaxStrikes] /\ lastFailure \in [Keys -> Times]
        /\ globalFails \in Seq(Nat) /\ trip \in [Keys -> [lock : Nat, failed : Nat]]
    BY DEF LimiterTypeOK, Times
  <2>3. /\ globalFails' = Recent(globalFails, Hour) /\ UNCHANGED trip /\ Becomes(p)
        /\ ok = (Len(globalFails') < GlobalPerHour)
        /\ LET kept == Recent(p.fails[key], FailWindow)
           IN  fails' = IF ok THEN [p.fails EXCEPT ![key] = IF Len(kept) >= MaxFails THEN <<>> ELSE kept]
                        ELSE p.fails
    BY <1>2, <2>1 DEF Allow
  <2> HIDE DEF u
  <2>4. Swept(p, lockStrikes, lastFailure)
    BY <2>1, <2>2, SweepType
  <2>5. /\ globalFails' \in Seq(Nat) /\ Len(globalFails') <= Len(globalFails)
    BY <2>2, <2>3, RecentType
  <2>6. ok => Len(globalFails') <= GlobalPerHour - 1
    <3>1. ok => Len(globalFails') < GlobalPerHour
      BY <2>3
    <3>2. Len(globalFails') \in Nat /\ GlobalPerHour \in Nat
      BY <2>5
    <3> QED
      BY <3>1, <3>2
  <2>7. fails' \in [Keys -> Seq(Nat)] /\ \A k \in Keys : Len(fails'[k]) < MaxFails
    <3> DEFINE kept == Recent(p.fails[key], FailWindow)
               new == IF Len(kept) >= MaxFails THEN <<>> ELSE kept
    <3>1. kept \in Seq(Nat)
      BY <2>4, RecentType DEF Swept
    <3>2. new \in Seq(Nat) /\ Len(new) < MaxFails
      BY <3>1
    <3>3. fails' = IF ok THEN [p.fails EXCEPT ![key] = new] ELSE p.fails
      BY <2>3
    <3> HIDE DEF new
    <3> QED
      BY <2>4, <3>2, <3>3 DEF Swept
  <2>8. LimiterTypeOK'
    BY <2>2, <2>3, <2>4, <2>5, <2>7 DEF LimiterTypeOK, Becomes, Times, Swept
  <2>9. ASSUME NEW k \in Keys
        PROVE  \/ lockStrikes'[k] = lockStrikes[k] /\ lastFailure'[k] = lastFailure[k]
               \/ /\ lockStrikes'[k] = 0
                  /\ lastFailure[k] # None /\ clock - lastFailure[k] >= StrikeDecay
    BY <2>3, <2>4 DEF Becomes, Swept
  <2>10. TripInv'
    <3> SUFFICES ASSUME NEW k \in Keys, trip[k].lock # 0, clock - trip[k].failed < StrikeDecay
                 PROVE  /\ lockStrikes'[k] >= 1 /\ lastFailure'[k] = trip[k].failed
                        /\ trip[k].lock = escalatedLockout(lockStrikes'[k])
      BY <2>3 DEF TripInv
    <3>1. /\ lockStrikes[k] >= 1 /\ lastFailure[k] = trip[k].failed
          /\ trip[k].lock = escalatedLockout(lockStrikes[k])
      BY DEF TripInv
    <3>2. trip[k].failed \in Nat
      BY <2>2
    <3>3. ~(clock - lastFailure[k] >= StrikeDecay)
      BY <2>2, <3>1, <3>2, StillRemembered
    <3> QED
      BY <2>9, <3>1, <3>3
  <2>11. Carries
    <3>1. ASSUME NEW k \in Keys PROVE ~(lockStrikes'[k] > lockStrikes[k])
      <4>1. lockStrikes[k] \in Nat
        BY <2>2
      <4> QED
        BY <2>9, <4>1
    <3> QED
      BY <3>1 DEF Carries
  <2> QED
    BY <2>5, <2>6, <2>8, <2>10, <2>11
<1> QED
  BY <1>1, <1>2

\* Failure counts one failure; a trip takes the next lock of the ladder.
LEMMA FailureStep ==
    ASSUME LimiterTypeOK, TripInv, NEW key \in Keys, Failure(key), UNCHANGED clock
    PROVE  /\ LimiterTypeOK' /\ TripInv' /\ Carries
           /\ Len(globalFails') <= Len(globalFails) + 1
<1> USE LimiterAssumption
<1> DEFINE counted == Append(Recent(fails[key], FailWindow), clock)
           tripped == Len(counted) >= MaxFails
           strikes == IF lockStrikes[key] < MaxStrikes THEN lockStrikes[key] + 1
                      ELSE lockStrikes[key]
           lock == escalatedLockout(strikes)
           f == IF tripped THEN Cleared(key) ELSE [fails EXCEPT ![key] = counted]
           u == IF tripped THEN [lockedUntil EXCEPT ![key] = clock + lock] ELSE lockedUntil
           s == IF tripped THEN [lockStrikes EXCEPT ![key] = strikes] ELSE lockStrikes
           l == [lastFailure EXCEPT ![key] = clock]
           held == IF tripped THEN lock
                   ELSE IF clock - trip[key].failed >= StrikeDecay THEN 0 ELSE trip[key].lock
<1>1. /\ clock \in Nat /\ lastPrune \in Times /\ lockedUntil \in [Keys -> Times]
      /\ fails \in [Keys -> Seq(Nat)] /\ \A k \in Keys : Len(fails[k]) < MaxFails
      /\ lockStrikes \in [Keys -> 0..MaxStrikes] /\ lastFailure \in [Keys -> Times]
      /\ globalFails \in Seq(Nat) /\ trip \in [Keys -> [lock : Nat, failed : Nat]]
  BY DEF LimiterTypeOK, Times
<1>2. strikes \in 1..MaxStrikes
  <2>1. lockStrikes[key] \in 0..MaxStrikes /\ MaxStrikes \in Nat \ {0}
    BY <1>1
  <2> QED
    BY <2>1
<1>3. lock \in Nat \ {0}
  BY <1>2, Escalates
<1>4. counted \in Seq(Nat)
  <2>1. fails[key] \in Seq(Nat)
    BY <1>1
  <2>2. Recent(fails[key], FailWindow) \in Seq(Nat)
    BY <2>1, RecentType
  <2> QED
    BY <1>1, <2>2
<1>5. PICK p : p = PruneStale(f, u, s, l)
  OBVIOUS
<1>6. /\ globalFails' = Append(Recent(globalFails, Hour), clock)
      /\ fails' = p.fails /\ Becomes(p)
      /\ trip' = [trip EXCEPT ![key] = [lock |-> held, failed |-> clock]]
  <2>1. /\ globalFails' = Append(Recent(globalFails, Hour), clock)
        /\ trip' = [trip EXCEPT ![key] = [lock |-> held, failed |-> clock]]
    BY DEF Failure
  <2>2. CASE tripped
    BY <1>5, <2>1, <2>2 DEF Failure
  <2>3. CASE ~tripped
    BY <1>5, <2>1, <2>3 DEF Failure
  <2> QED
    BY <2>2, <2>3
<1>7. /\ f \in [Keys -> Seq(Nat)] /\ \A k \in Keys : Len(f[k]) < MaxFails
  <2>1. CASE tripped
    <3>1. f = [fails EXCEPT ![key] = <<>>]
      BY <2>1 DEF Cleared
    <3>2. <<>> \in Seq(Nat) /\ Len(<<>>) < MaxFails
      OBVIOUS
    <3> HIDE DEF f
    <3> QED
      BY <1>1, <3>1, <3>2
  <2>2. CASE ~tripped
    <3>1. Len(counted) < MaxFails
      BY <1>4, <2>2
    <3> HIDE DEF counted
    <3> QED
      BY <1>1, <1>4, <2>2, <3>1
  <2> QED
    BY <2>1, <2>2
<1> HIDE DEF counted, lock
<1>8. u \in [Keys -> Times] /\ s \in [Keys -> 0..MaxStrikes] /\ l \in [Keys -> Times]
  <2>1. clock \in Times /\ clock + lock \in Times
    <3>1. clock \in Nat /\ clock + lock \in Nat
      BY <1>1, <1>3
    <3> QED
      BY <3>1 DEF Times
  <2>2. u \in [Keys -> Times]
    BY <1>1, <2>1
  <2>3. s \in [Keys -> 0..MaxStrikes]
    <3>1. strikes \in 0..MaxStrikes
      BY <1>2
    <3> HIDE DEF strikes
    <3> QED
      BY <1>1, <3>1
  <2>4. l \in [Keys -> Times]
    BY <1>1, <2>1
  <2> QED
    BY <2>2, <2>3, <2>4
<1>9. /\ l[key] = clock /\ s[key] = (IF tripped THEN strikes ELSE lockStrikes[key])
      /\ \A k \in Keys \ {key} : l[k] = lastFailure[k] /\ s[k] = lockStrikes[k]
  BY <1>1
<1>10. held \in Nat
  BY <1>1, <1>3
<1> HIDE DEF f, u, s, l, tripped, strikes
<1>11. Swept(p, s, l)
  BY <1>1, <1>5, <1>7, <1>8, SweepType
<1>12. p.strikes[key] = s[key] /\ p.last[key] = clock
  <2>1. clock - clock = 0 /\ ~(0 >= StrikeDecay)
    BY <1>1
  <2> QED
    BY <1>9, <1>11, <2>1 DEF Swept
<1>13. globalFails' \in Seq(Nat) /\ Len(globalFails') <= Len(globalFails) + 1
  <2>1. /\ Recent(globalFails, Hour) \in Seq(Nat)
        /\ Len(Recent(globalFails, Hour)) <= Len(globalFails)
    BY <1>1, RecentType
  <2> QED
    BY <1>1, <1>6, <2>1
<1>14. /\ trip'[key] = [lock |-> held, failed |-> clock]
       /\ \A k \in Keys \ {key} : trip'[k] = trip[k]
       /\ trip' \in [Keys -> [lock : Nat, failed : Nat]]
  <2> HIDE DEF held
  <2> QED
    BY <1>1, <1>6, <1>10
<1>15. LimiterTypeOK'
  BY <1>1, <1>6, <1>11, <1>13, <1>14 DEF LimiterTypeOK, Becomes, Times, Swept
<1>16. TripInv'
  <2>1. ASSUME NEW k \in Keys, k # key, trip[k].lock # 0, clock - trip[k].failed < StrikeDecay
        PROVE  /\ lockStrikes'[k] >= 1 /\ lastFailure'[k] = trip[k].failed
               /\ trip[k].lock = escalatedLockout(lockStrikes'[k])
    <3>1. /\ lockStrikes[k] >= 1 /\ lastFailure[k] = trip[k].failed
          /\ trip[k].lock = escalatedLockout(lockStrikes[k])
      BY <2>1 DEF TripInv
    <3>2. p.strikes[k] = lockStrikes[k] /\ p.last[k] = lastFailure[k]
      <4>1. trip[k].failed \in Nat
        BY <1>1
      <4>2. ~(clock - lastFailure[k] >= StrikeDecay)
        BY <1>1, <2>1, <3>1, <4>1, StillRemembered
      <4> QED
        BY <1>9, <1>11, <2>1, <4>2 DEF Swept
    <3> QED
      BY <1>6, <3>1, <3>2 DEF Becomes
  <2>2. ASSUME held # 0
        PROVE  /\ lockStrikes'[key] >= 1 /\ lastFailure'[key] = clock
               /\ held = escalatedLockout(lockStrikes'[key])
    <3>1. lockStrikes'[key] = s[key] /\ lastFailure'[key] = clock
      BY <1>6, <1>12 DEF Becomes
    <3>2. CASE tripped
      <4>1. s[key] = strikes /\ held = lock
        BY <1>9, <3>2
      <4> QED
        BY <1>2, <3>1, <4>1 DEF lock
    <3>3. CASE ~tripped
      <4>1. s[key] = lockStrikes[key] /\ held = trip[key].lock
            /\ clock - trip[key].failed < StrikeDecay
        <5>1. /\ held = trip[key].lock /\ ~(clock - trip[key].failed >= StrikeDecay)
              /\ clock \in Nat /\ trip[key].failed \in Nat
          BY <1>1, <2>2, <3>3
        <5> QED
          BY <1>9, <3>3, <5>1
      <4> QED
        BY <2>2, <3>1, <4>1 DEF TripInv
    <3> QED
      BY <3>2, <3>3
  <2> HIDE DEF held
  <2> QED
    BY <1>14, <2>1, <2>2 DEF TripInv
<1>17. Carries
  <2> SUFFICES ASSUME NEW k \in Keys, lockStrikes'[k] > lockStrikes[k],
                      trip[k].lock # 0, clock - trip[k].failed < StrikeDecay
               PROVE  trip'[k].lock = 2 * trip[k].lock \/ trip'[k].lock = MaxLockout
    BY DEF Carries
  <2>1. lockStrikes'[k] = p.strikes[k]
    BY <1>6 DEF Becomes
  <2>2. k = key /\ tripped /\ s[key] = strikes
    <3>1. lockStrikes[k] \in Nat
      BY <1>1
    <3>2. p.strikes[k] = s[k]
      BY <1>11, <2>1, <3>1 DEF Swept
    <3>3. s[k] > lockStrikes[k]
      BY <2>1, <3>2
    <3> QED
      BY <1>9, <3>1, <3>3
  <2>3. strikes = lockStrikes[key] + 1 /\ lockStrikes[key] >= 1
        /\ trip[key].lock = escalatedLockout(lockStrikes[key])
    <3>1. lockStrikes[key] \in Nat
      BY <1>1
    <3>2. lockStrikes[key] < strikes /\ strikes \in {lockStrikes[key], lockStrikes[key] + 1}
      BY <1>12, <2>1, <2>2, <3>1 DEF strikes
    <3>3. lockStrikes[key] >= 1 /\ trip[key].lock = escalatedLockout(lockStrikes[key])
      BY <2>2 DEF TripInv
    <3> QED
      BY <3>1, <3>2, <3>3
  <2>4. lock = Doubled(trip[key].lock)
    <3>1. lockStrikes[key] \in Nat \ {0}
      BY <1>1, <2>3
    <3> QED
      BY <2>3, <3>1, Escalates DEF lock
  <2>5. trip'[key].lock = lock
    BY <1>14, <2>2
  <2> QED
    BY <2>2, <2>4, <2>5 DEF Doubled
<1> QED
  BY <1>13, <1>15, <1>16, <1>17

\* Success forgets the key.
LEMMA SuccessStep ==
    ASSUME LimiterTypeOK, TripInv, NEW key \in Keys, Success(key), UNCHANGED clock
    PROVE  LimiterTypeOK' /\ TripInv' /\ Carries /\ globalFails' = globalFails
<1> USE LimiterAssumption
<1>1. /\ fails' = [fails EXCEPT ![key] = <<>>] /\ lockedUntil' = [lockedUntil EXCEPT ![key] = None]
      /\ lockStrikes' = [lockStrikes EXCEPT ![key] = 0]
      /\ lastFailure' = [lastFailure EXCEPT ![key] = None]
      /\ trip' = [trip EXCEPT ![key] = NoTrip] /\ UNCHANGED <<globalFails, lastPrune>>
  BY DEF Success, Cleared
<1>2. NoTrip \in [lock : Nat, failed : Nat] /\ NoTrip.lock = 0
  BY DEF NoTrip
<1>3. LimiterTypeOK'
  <2>1. fails' \in [Keys -> Seq(Nat)] /\ \A k \in Keys : Len(fails'[k]) < MaxFails
    <3>1. <<>> \in Seq(Nat) /\ Len(<<>>) < MaxFails
      OBVIOUS
    <3> QED
      BY <1>1, <3>1 DEF LimiterTypeOK
  <2>2. lockedUntil' \in [Keys -> Times] /\ lastFailure' \in [Keys -> Times]
    BY <1>1 DEF LimiterTypeOK, Times
  <2>3. lockStrikes' \in [Keys -> 0..MaxStrikes]
    BY <1>1 DEF LimiterTypeOK
  <2>4. trip' \in [Keys -> [lock : Nat, failed : Nat]]
    BY <1>1, <1>2 DEF LimiterTypeOK
  <2> QED
    BY <1>1, <2>1, <2>2, <2>3, <2>4 DEF LimiterTypeOK
<1>4. TripInv'
  BY <1>1, <1>2 DEF LimiterTypeOK, TripInv, Times
<1>5. Carries
  <2>1. ASSUME NEW k \in Keys PROVE ~(lockStrikes'[k] > lockStrikes[k])
    <3>1. lockStrikes[k] \in Nat
      BY DEF LimiterTypeOK
    <3>2. lockStrikes'[k] = lockStrikes[k] \/ lockStrikes'[k] = 0
      BY <1>1 DEF LimiterTypeOK
    <3> QED
      BY <3>1, <3>2
  <2> QED
    BY <2>1 DEF Carries
<1> QED
  BY <1>1, <1>3, <1>4, <1>5

\* A request that moves to another label is not in flight.
LEMMA Lands ==
    ASSUME Base, NEW c \in Callers, NEW k, k.pc \notin {"verify", "compare"},
           call' = [call EXCEPT ![c] = k]
    PROVE  InFlight(call') \subseteq InFlight(call) \ {c}
BY DEF InFlight, Base

\* What a step does to the limiter and to the requests in flight.
LEMMA LimiterSteps ==
    ASSUME Base, [Next]_vars
    PROVE  \/ Restart
           \/ /\ UNCHANGED limiter /\ clock' \in {clock, clock + 1}
              /\ InFlight(call') \subseteq InFlight(call)
           \/ /\ UNCHANGED clock /\ InFlight(call') \subseteq InFlight(call)
              /\ \E key \in Keys : Success(key) \/ Allow(key, FALSE)
           \/ UNCHANGED clock /\ \E key \in Keys : Allow(key, TRUE)
           \/ /\ UNCHANGED clock /\ \E key \in Keys : Failure(key)
              /\ \E c \in InFlight(call) :
                    InFlight(call') \subseteq InFlight(call) \ {c}
<1>1. "login" \in Keys /\ "password" \in Keys
    BY SessionsAssumption
<1>2. ASSUME NEW c \in Callers,
             Finish(c) \/ \E k : /\ k.pc \notin {"verify", "compare"}
                                 /\ call' = [call EXCEPT ![c] = k]
      PROVE  InFlight(call') \subseteq InFlight(call) \ {c}
  <2>1. NoCall.pc \notin {"verify", "compare"}
      BY DEF NoCall
  <2> QED
      BY <1>2, <2>1, Lands, Zenon DEF Finish
<1>3. ASSUME NEW c \in Callers, NEW k \in Calls, LetIn(c, k),
             k.kind \in Guarded
      PROVE  InFlight(call') \subseteq InFlight(call)
  <2>1. /\ DOMAIN Handlers = {"logout", "password", "revoke"}
        /\ Handlers["logout"] = "revoke" /\ Handlers["password"] = "limit"
        /\ Handlers["revoke"] = "target"
      BY DEF Handlers
  <2>2. PICK v : /\ v = NoCall \/ v.pc \in {"revoke", "limit", "target"}
                 /\ call' = [call EXCEPT ![c] = v]
    <3>1. ASSUME NEW l PROVE [k EXCEPT !.pc = l].pc = l
        BY <1>3 DEF Calls
    <3>2. k.kind \in DOMAIN Handlers
          => Handlers[k.kind] \in {"revoke", "limit", "target"}
        BY <2>1
    <3> QED
        BY <1>3, <3>1, <3>2 DEF LetIn
  <2>3. v.pc \notin {"verify", "compare"}
      BY <2>2 DEF NoCall
  <2> QED
      BY <2>2, <2>3, Lands
<1>4. ASSUME NEW c \in Callers, NEW l, l \notin {"verify", "compare"},
             call[c] \in Calls, Goto(c, l)
      PROVE  InFlight(call') \subseteq InFlight(call)
  <2>1. call' = [call EXCEPT ![c] = [call[c] EXCEPT !.pc = l]]
        /\ [call[c] EXCEPT !.pc = l].pc = l
      BY <1>4 DEF Goto, Base, Calls
  <2> QED
      BY <1>2, <1>4, <2>1, Zenon
<1>5. ASSUME NEW c \in Callers, NEW sid \in 0..(nextId - 1), NEW pw \in Passwords,
             SetupStart(c, sid, pw)
      PROVE  InFlight(call') \subseteq InFlight(call)
  <2> DEFINE k == [pc |-> "revoke", kind |-> "setup", sid |-> sid, pw |-> pw,
                   new |-> pw, at |-> 0, ver |-> 0]
  <2>1. k.pc \notin {"verify", "compare"} /\ call' = [call EXCEPT ![c] = k]
      BY <1>5 DEF SetupStart, Request
  <2> HIDE DEF k
  <2> QED
      BY <1>2, <2>1, Zenon
<1>6. ASSUME NEW c \in Callers, NEW sid \in 1..(nextId - 1), NEW kind \in Guarded,
             NEW pw \in Passwords \cup {None}, NEW new \in Passwords \cup {None},
             Authenticate(c, kind, sid, pw, new)
      PROVE  InFlight(call') \subseteq InFlight(call)
  <2> DEFINE k == [pc |-> "touch", kind |-> kind, sid |-> sid, pw |-> pw,
                   new |-> new, at |-> clock, ver |-> Renewed(sessions[sid], clock)]
             k0 == [k EXCEPT !.at = 0, !.ver = 0]
  <2>1. call' = [call EXCEPT ![c] = k] \/ LetIn(c, k0)
      BY <1>6 DEF Authenticate
  <2>2. CASE call' = [call EXCEPT ![c] = k]
    <3>1. k.pc \notin {"verify", "compare"}
        OBVIOUS
    <3> HIDE DEF k
    <3> QED
        BY <1>2, <2>2, <3>1, Zenon
  <2>3. CASE LetIn(c, k0)
    <3>1. sid \in Ids \cup {0} /\ clock \in Nat
      <4>1. nextId \in 1..(MaxId + 1) /\ MaxId \in Nat
          BY SessionsAssumption DEF Base
      <4> QED
          BY <4>1 DEF Base, Ids
    <3>2. k0 \in Calls /\ k0.kind \in Guarded
        BY <3>1 DEF Calls, Guarded
    <3> HIDE DEF k0
    <3> QED
        BY <1>3, <2>3, <3>2
  <2> QED
      BY <2>1, <2>2, <2>3
<1>7. ASSUME NEW c \in Callers, TouchSession(c)
      PROVE  InFlight(call') \subseteq InFlight(call)
  <2> DEFINE k0 == [call[c] EXCEPT !.at = 0, !.ver = 0]
  <2>1. CallOK(call[c], nextId) /\ call[c].pc = "touch"
      BY <1>7, Busy DEF TouchSession
  <2>2. k0 \in Calls /\ k0.kind \in Guarded /\ LetIn(c, k0)
      BY <1>7, <2>1 DEF TouchSession, CallOK, Calls
  <2> HIDE DEF k0
  <2> QED
      BY <1>3, <2>2
<1>8. ASSUME NEW c \in Callers, Start(c)
      PROVE  \/ /\ UNCHANGED limiter /\ clock' \in {clock, clock + 1}
                /\ InFlight(call') \subseteq InFlight(call)
             \/ /\ UNCHANGED clock /\ InFlight(call') \subseteq InFlight(call)
                /\ Allow("login", FALSE)
             \/ UNCHANGED clock /\ Allow("login", TRUE)
  <2>1. ASSUME NEW sid \in 0..(nextId - 1), NEW pw \in Passwords, SetupStart(c, sid, pw)
        PROVE  UNCHANGED <<limiter, clock>> /\ InFlight(call') \subseteq InFlight(call)
      BY <1>5, <2>1 DEF SetupStart
  <2>2. ASSUME NEW sid \in 0..(nextId - 1), NEW pw \in Passwords, LoginStart(c, sid, pw)
        PROVE  \/ /\ UNCHANGED clock /\ InFlight(call') \subseteq InFlight(call)
                  /\ Allow("login", FALSE)
               \/ UNCHANGED clock /\ Allow("login", TRUE)
      BY <2>2 DEF LoginStart
  <2>3. ASSUME NEW sid \in 1..(nextId - 1), NEW kind \in Guarded,
               NEW pw \in Passwords \cup {None}, NEW new \in Passwords \cup {None},
               Authenticate(c, kind, sid, pw, new)
        PROVE  UNCHANGED <<limiter, clock>> /\ InFlight(call') \subseteq InFlight(call)
      BY <1>6, <2>3 DEF Authenticate
  <2>4. \/ \E sid \in 0..(nextId - 1), pw \in Passwords :
              SetupStart(c, sid, pw) \/ LoginStart(c, sid, pw)
        \/ \E sid \in 1..(nextId - 1), kind \in Guarded,
              pw \in Passwords \cup {None}, new \in Passwords \cup {None} :
              Authenticate(c, kind, sid, pw, new)
      BY <1>8 DEF Start, Guarded
  <2> QED
      BY <2>1, <2>2, <2>3, <2>4
<1>9. ASSUME NEW c \in Callers, call[c] # NoCall
      PROVE  call[c] \in Calls
    BY <1>9 DEF Base
<1>10. ASSUME NEW c \in Callers, InsertCredentialIfAbsent(c)
       PROVE  InFlight(call') \subseteq InFlight(call)
  <2>1. \/ Finish(c)
        \/ \E k : /\ k.pc \notin {"verify", "compare"}
                  /\ call' = [call EXCEPT ![c] = k]
    <3>1. call[c] \in Calls
        BY <1>9, <1>10 DEF InsertCredentialIfAbsent, NoCall
    <3>2. [call[c] EXCEPT !.pc = "create", !.ver = 1].pc = "create"
        BY <3>1 DEF Calls
    <3>3. \/ Finish(c)
          \/ call' = [call EXCEPT ![c] = [call[c] EXCEPT !.pc = "create", !.ver = 1]]
        BY <1>10 DEF InsertCredentialIfAbsent, Base
    <3> QED
        BY <3>2, <3>3
  <2> QED
      BY <1>2, <2>1
<1>11. ASSUME NEW c \in Callers, LoginVerify(c)
       PROVE  \/ UNCHANGED limiter /\ InFlight(call') \subseteq InFlight(call)
              \/ /\ Failure("login") /\ c \in InFlight(call)
                 /\ InFlight(call') \subseteq InFlight(call) \ {c}
  <2>1. CASE call[c].pw = Cred
    <3>1. call[c] \in Calls
        BY <1>9, <1>11 DEF LoginVerify, NoCall
    <3>2. [call[c] EXCEPT !.pc = "create", !.ver = Version].pc = "create"
        BY <3>1 DEF Calls
    <3>3. UNCHANGED limiter
          /\ call' = [call EXCEPT ![c] =
                        [call[c] EXCEPT !.pc = "create", !.ver = Version]]
        BY <1>11, <2>1 DEF LoginVerify, Base
    <3>4. InFlight(call') \subseteq InFlight(call) \ {c}
        BY <1>2, <3>2, <3>3
    <3> QED
        BY <3>3, <3>4
  <2>2. CASE call[c].pw # Cred
      BY <1>2, <1>11, <2>2 DEF LoginVerify, InFlight
  <2> QED
      BY <2>1, <2>2
<1>12. ASSUME NEW c \in Callers, PasswordVerify(c)
       PROVE  \/ UNCHANGED limiter /\ InFlight(call') \subseteq InFlight(call)
              \/ /\ Failure("password") /\ c \in InFlight(call)
                 /\ InFlight(call') \subseteq InFlight(call) \ {c}
  <2>1. CASE UNCHANGED limiter /\ Finish(c)
      BY <1>2, <2>1
  <2>2. CASE UNCHANGED limiter /\ Goto(c, "update")
      BY <1>4, <1>9, <1>12, <2>2 DEF PasswordVerify, NoCall
  <2>3. CASE Failure("password") /\ Finish(c)
      BY <1>2, <1>12, <2>3 DEF PasswordVerify, InFlight
  <2> QED
      BY <1>12, <2>1, <2>2, <2>3 DEF PasswordVerify
<1>13. ASSUME NEW c \in Callers, CreateSession(c)
       PROVE  /\ InFlight(call') \subseteq InFlight(call)
              /\ UNCHANGED limiter \/ Success("login")
  <2>1. call[c] \in Calls
      BY <1>9, <1>13 DEF CreateSession, NoCall
  <2>2. /\ Finish(c) \/ Goto(c, "revoke")
        /\ UNCHANGED limiter \/ Success("login")
      BY <1>13 DEF CreateSession
  <2> QED
      BY <1>2, <1>4, <2>1, <2>2
<1>14. ASSUME NEW c \in Callers, RevokeOwn(c) \/ UpdateCredentialHash(c)
       PROVE  UNCHANGED limiter /\ InFlight(call') \subseteq InFlight(call)
  <2>1. call[c] \in Calls
      BY <1>9, <1>14 DEF RevokeOwn, UpdateCredentialHash, NoCall
  <2>2. UNCHANGED limiter /\ (Finish(c) \/ Goto(c, "insert") \/ Goto(c, "others"))
      BY <1>14 DEF RevokeOwn, UpdateCredentialHash
  <2> QED
      BY <1>2, <1>4, <2>1, <2>2
<1>15. ASSUME NEW c \in Callers, PasswordStart(c)
       PROVE  \/ Allow("password", TRUE)
              \/ Allow("password", FALSE) /\ InFlight(call') \subseteq InFlight(call)
    BY <1>2, <1>15 DEF PasswordStart
<1>16. ASSUME NEW c \in Callers, Step(c)
       PROVE  \/ UNCHANGED limiter /\ InFlight(call') \subseteq InFlight(call)
              \/ /\ InFlight(call') \subseteq InFlight(call)
                 /\ \E key \in Keys : Success(key) \/ Allow(key, FALSE)
              \/ Allow("password", TRUE)
              \/ /\ \E key \in Keys : Failure(key)
                 /\ \E d \in InFlight(call) :
                       InFlight(call') \subseteq InFlight(call) \ {d}
  <2>1. CASE DeleteOtherSessions(c)
      BY <1>1, <1>2, <2>1 DEF DeleteOtherSessions
  <2>2. CASE Abort(c) \/ \E target \in Ids : RevokeByIDPrefix(c, target)
      BY <1>2, <2>2 DEF Abort, RevokeByIDPrefix
  <2>3. CASE TouchSession(c)
      BY <1>7, <2>3 DEF TouchSession
  <2>4. CASE InsertCredentialIfAbsent(c)
      BY <1>10, <2>4 DEF InsertCredentialIfAbsent
  <2> QED
      BY <1>1, <1>11, <1>12, <1>13, <1>14, <1>15, <1>16, <2>1, <2>2, <2>3, <2>4
         DEF Step
<1>17. ASSUME NEW c \in Callers, Step(c)
       PROVE  UNCHANGED clock
    BY <1>17 DEF Step, InsertCredentialIfAbsent, LoginVerify, CreateSession,
       RevokeOwn, TouchSession, RevokeByIDPrefix, PasswordStart, PasswordVerify,
       UpdateCredentialHash, DeleteOtherSessions, Abort
<1>18. CASE Tick \/ DeleteExpiredSessions \/ UNCHANGED vars
    BY <1>18 DEF Tick, DeleteExpiredSessions, vars
<1> QED
    BY <1>1, <1>8, <1>16, <1>17, <1>18 DEF Next

\* Failures and requests in flight that together become no more fit the window.
LEMMA RoomKept ==
    ASSUME LimiterAssumption, NEW a \in Nat, NEW b \in Nat, NEW c \in Nat, NEW d \in Nat,
           NEW n \in Nat, a + b <= GlobalPerHour - 1 + n, c + d <= a + b
    PROVE  c + d <= GlobalPerHour - 1 + n
BY DEF LimiterAssumption

\* A failure takes the place of the request it ends.
LEMMA PlaceTaken ==
    ASSUME NEW a \in Nat, NEW b \in Nat, NEW c \in Nat, NEW d \in Nat, c <= a + 1, d <= b - 1
    PROVE  c + d <= a + b
OBVIOUS

\* Every step keeps the types of the limiter, TripInv and WindowInv, and
\* carries the escalation on.
LEMMA LimiterStep ==
    ASSUME Base, LimiterTypeOK, TripInv, WindowInv, [Next]_vars
    PROVE  LimiterTypeOK' /\ TripInv' /\ WindowInv' /\ Carries
<1> USE LimiterAssumption
<1>1. /\ IsFiniteSet(Callers) /\ Cardinality(Callers) \in Nat
      /\ Len(globalFails) \in Nat /\ clock \in Nat
    BY SessionsAssumption, FS_CardinalityType DEF LimiterTypeOK
<1>2. ASSUME NEW calls
      PROVE  /\ IsFiniteSet(InFlight(calls)) /\ Cardinality(InFlight(calls)) \in Nat
             /\ Cardinality(InFlight(calls)) <= Cardinality(Callers)
  <2>1. InFlight(calls) \subseteq Callers
      BY DEF InFlight
  <2> QED
      BY <1>1, <2>1, FS_Subset, FS_CardinalityType
<1>3. ASSUME LimiterTypeOK', Len(globalFails') <= Len(globalFails),
             InFlight(call') \subseteq InFlight(call)
      PROVE  WindowInv'
  <2>1. Cardinality(InFlight(call')) <= Cardinality(InFlight(call))
      BY <1>2, <1>3, FS_Subset
  <2>2. Len(globalFails') \in Nat /\ Cardinality(InFlight(call')) \in Nat
      BY <1>2, <1>3 DEF LimiterTypeOK
  <2>3. Len(globalFails') + Cardinality(InFlight(call'))
            <= Len(globalFails) + Cardinality(InFlight(call))
      BY <1>1, <1>2, <1>3, <2>1, <2>2
  <2> QED
      BY <1>1, <1>2, <2>2, <2>3, RoomKept DEF WindowInv
<1>4. CASE Restart
  <2>1. LimiterTypeOK' /\ TripInv' /\ Carries
    <3>1. /\ clock' = clock /\ trip' = [k \in Keys |-> NoTrip]
          /\ lockStrikes' = [k \in Keys |-> 0]
        BY <1>4 DEF Restart
    <3>2. NoTrip \in [lock : Nat, failed : Nat] /\ NoTrip.lock = 0
        BY DEF NoTrip
    <3>3. LimiterTypeOK'
        BY <1>1, <1>4, <3>1, <3>2 DEF Restart, LimiterTypeOK, Times
    <3>4. TripInv'
        BY <3>1, <3>2 DEF TripInv
    <3>5. Carries
        BY <3>1 DEF Carries, LimiterTypeOK
    <3> QED
        BY <3>3, <3>4, <3>5
  <2>2. Len(globalFails') <= Len(globalFails)
      BY <1>1, <1>4 DEF Restart
  <2>3. InFlight(call') \subseteq InFlight(call)
      BY <1>4 DEF Restart, InFlight, NoCall
  <2> QED
      BY <1>3, <2>1, <2>2, <2>3
<1>5. CASE /\ UNCHANGED limiter /\ clock' \in {clock, clock + 1}
           /\ InFlight(call') \subseteq InFlight(call)
  <2>1. LimiterTypeOK'
      BY <1>1, <1>5 DEF limiter, LimiterTypeOK, Times
  <2>2. TripInv'
    <3> SUFFICES ASSUME NEW k \in Keys, trip[k].lock # 0,
                        clock' - trip[k].failed < StrikeDecay
                 PROVE  /\ lockStrikes[k] >= 1 /\ lastFailure[k] = trip[k].failed
                        /\ trip[k].lock = escalatedLockout(lockStrikes[k])
        BY <1>5 DEF limiter, TripInv
    <3>1. trip[k].failed \in Nat
        BY DEF LimiterTypeOK
    <3>2. clock - trip[k].failed < StrikeDecay
      <4>1. clock' \in Int /\ clock \in Int /\ clock <= clock' /\ StrikeDecay \in Int
          BY <1>1, <1>5
      <4> QED
          BY <3>1, <4>1
    <3> QED
        BY <3>2 DEF TripInv
  <2>3. Carries
      BY <1>5 DEF limiter, Carries, LimiterTypeOK
  <2>4. Len(globalFails') <= Len(globalFails)
      BY <1>1, <1>5 DEF limiter
  <2> QED
      BY <1>3, <1>5, <2>1, <2>2, <2>3, <2>4
<1>6. ASSUME NEW key \in Keys, Success(key) \/ Allow(key, FALSE), UNCHANGED clock,
             InFlight(call') \subseteq InFlight(call)
      PROVE  LimiterTypeOK' /\ TripInv' /\ WindowInv' /\ Carries
  <2>1. /\ LimiterTypeOK' /\ TripInv' /\ Carries
        /\ Len(globalFails') <= Len(globalFails)
    <3>1. CASE Success(key)
        BY <1>1, <1>6, <3>1, SuccessStep
    <3>2. CASE Allow(key, FALSE)
        BY <1>6, <3>2, AllowStep
    <3> QED
        BY <1>6, <3>1, <3>2
  <2> QED
      BY <1>3, <1>6, <2>1
<1>7. ASSUME NEW key \in Keys, Allow(key, TRUE), UNCHANGED clock
      PROVE  LimiterTypeOK' /\ TripInv' /\ WindowInv' /\ Carries
  <2>1. /\ LimiterTypeOK' /\ TripInv' /\ Carries
        /\ Len(globalFails') <= GlobalPerHour - 1
      BY <1>7, AllowStep
  <2>2. Len(globalFails') \in Nat
      BY <2>1 DEF LimiterTypeOK
  <2>3. WindowInv'
    <3>1. Cardinality(InFlight(call')) \in Nat /\ Cardinality(InFlight(call')) <= Cardinality(Callers)
        BY <1>2
    <3>2. GlobalPerHour \in Nat
        OBVIOUS
    <3> QED
        BY <1>1, <2>1, <2>2, <3>1, <3>2 DEF WindowInv
  <2> QED
      BY <2>1, <2>3
<1>8. ASSUME NEW key \in Keys, Failure(key), UNCHANGED clock,
             NEW c \in InFlight(call),
             InFlight(call') \subseteq InFlight(call) \ {c}
      PROVE  LimiterTypeOK' /\ TripInv' /\ WindowInv' /\ Carries
  <2>1. /\ LimiterTypeOK' /\ TripInv' /\ Carries
        /\ Len(globalFails') <= Len(globalFails) + 1
      BY <1>8, FailureStep
  <2>2. Len(globalFails') \in Nat
      BY <2>1 DEF LimiterTypeOK
  <2>3. Cardinality(InFlight(call')) <= Cardinality(InFlight(call)) - 1
    <3>1. /\ IsFiniteSet(InFlight(call) \ {c})
          /\ Cardinality(InFlight(call) \ {c}) = Cardinality(InFlight(call)) - 1
        BY <1>2, <1>8, FS_RemoveElement
    <3> QED
        BY <1>8, <3>1, FS_Subset
  <2>4. Len(globalFails') + Cardinality(InFlight(call'))
            <= Len(globalFails) + Cardinality(InFlight(call))
    <3>1. Cardinality(InFlight(call)) \in Nat /\ Cardinality(InFlight(call')) \in Nat
        BY <1>2
    <3> QED
        BY <1>1, <2>1, <2>2, <2>3, <3>1, PlaceTaken
  <2>5. WindowInv'
    <3>1. Cardinality(InFlight(call)) \in Nat /\ Cardinality(InFlight(call')) \in Nat
        BY <1>2
    <3> QED
        BY <1>1, <2>2, <2>4, <3>1, RoomKept DEF WindowInv
  <2> QED
      BY <2>1, <2>5
<1> QED
    BY <1>4, <1>5, <1>6, <1>7, <1>8, LimiterSteps

\* The three hold at the start.
LEMMA LimiterStart ==
    ASSUME Init
    PROVE  LimiterTypeOK /\ TripInv /\ WindowInv
<1> USE LimiterAssumption
<1>1. NoTrip \in [lock : Nat, failed : Nat] /\ NoTrip.lock = 0
    BY DEF NoTrip
<1>2. LimiterTypeOK
    BY <1>1 DEF Init, LimiterInit, LimiterTypeOK, Times
<1>3. TripInv
    BY <1>1 DEF Init, LimiterInit, TripInv
<1>4. InFlight(call) = {} /\ globalFails = <<>>
    BY DEF Init, LimiterInit, InFlight, NoCall
<1>5. Cardinality(InFlight(call)) = 0 /\ Len(globalFails) = 0
    BY <1>4, FS_EmptySet
<1>6. Cardinality(Callers) \in Nat
    BY SessionsAssumption, FS_CardinalityType
<1>7. WindowInv
    BY <1>5, <1>6 DEF WindowInv
<1> QED
    BY <1>2, <1>3, <1>7

\* What every reachable state has.
LEMMA LimiterHolds ==
    Spec => [](Base /\ LimiterTypeOK /\ TripInv /\ WindowInv)
<1>1. Init => Base /\ LimiterTypeOK /\ TripInv /\ WindowInv
    BY BaseInit, LimiterStart
<1>2. /\ Base /\ LimiterTypeOK /\ TripInv /\ WindowInv /\ [Next]_vars
      => Base' /\ LimiterTypeOK' /\ TripInv' /\ WindowInv'
    BY BaseStep, LimiterStep
<1> QED
    BY <1>1, <1>2, PTL DEF Spec

\* The tables, the requests and the maps of the limiter keep their types; a
\* window never holds MaxFails failures of one key (Failure clears it), which
\* is what lets Allow count from an empty window once a lock has lapsed.
THEOREM SessionsTypeCorrect == Spec => []TypeOK
<1>1. Base /\ LimiterTypeOK => TypeOK
  <2>1. ASSUME Base PROVE gone \subseteq Ids
    <3>1. nextId \in 1..(MaxId + 1) /\ MaxId \in Nat
        BY <2>1, SessionsAssumption DEF Base
    <3> QED
        BY <2>1, <3>1 DEF Base, Ids
  <2> QED
      BY <2>1 DEF Base, TypeOK, TableTypeOK
<1> QED
    BY <1>1, LimiterHolds, PTL

\* The global window (globalPerHour in Allow and Failure): whatever requests
\* are let in together and whatever order their password checks fail in, the
\* failures it holds exceed the limit by less than the requests in flight.
THEOREM WindowAlwaysBounded == Spec => []GlobalBound
<1>1. Base /\ LimiterTypeOK /\ WindowInv => GlobalBound
  <2> SUFFICES ASSUME Base, LimiterTypeOK, WindowInv PROVE GlobalBound
      OBVIOUS
  <2>1. InFlight(call) \subseteq Callers
      BY DEF InFlight
  <2>2. Cardinality(InFlight(call)) \in Nat /\ Cardinality(Callers) \in Nat
      BY <2>1, SessionsAssumption, FS_Subset, FS_CardinalityType
  <2>3. Len(globalFails) \in Nat /\ GlobalPerHour \in Nat
      BY LimiterAssumption DEF LimiterTypeOK
  <2> QED
      BY <2>2, <2>3 DEF WindowInv, GlobalBound
<1> QED
    BY <1>1, LimiterHolds, PTL

\* "Each consecutive lockout trip multiplies the duration by two, capped": no
\* sweep, expired lock or other key's traffic between two trips makes the
\* second lock less than double the first.
THEOREM EscalationAlwaysCarries == Spec => EscalationCarries
<1>1. Base /\ LimiterTypeOK /\ TripInv /\ WindowInv /\ [Next]_vars
      => [\A k \in Keys :
            /\ lockStrikes'[k] > lockStrikes[k]
            /\ trip[k].lock # 0 /\ clock - trip[k].failed < StrikeDecay
            => \/ trip'[k].lock = 2 * trip[k].lock
               \/ trip'[k].lock = MaxLockout]_<<trip, lockStrikes>>
    BY LimiterStep DEF Carries
<1> QED
    BY <1>1, LimiterHolds, PTL DEF Spec, EscalationCarries
=============================================================================
