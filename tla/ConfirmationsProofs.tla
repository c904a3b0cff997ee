------------------------ MODULE ConfirmationsProofs ------------------------
(***************************************************************************)
(* What holds of Confirmations for every registry, any number of callers   *)
(* and any lifetimes: the types, the refinement of WriteGate and the       *)
(* audit trail of every write.                                             *)
(***************************************************************************)
EXTENDS Confirmations, TLAPS

-----------------------------------------------------------------------------
(* Types                                                                   *)

\* The part of TypeOK about the requests.
CallsOK(f) ==
    /\ f \in [Callers -> Claims \cup Prepares \cup {Idle}]
    /\ \A d \in Callers : f[d].pc \in {"verify", "mark", "audit"}
                             => f[d].id \in Ids

\* A request that goes on to another label, ends or is refused keeps the
\* type of its locals.
LEMMA MoveType ==
    ASSUME TypeOK, NEW c \in Callers, call[c] \in Claims,
           NEW label \in {"mark", "audit", "run", "record"},
           label \in {"mark", "audit"} => call[c].id \in Ids,
           \/ Become(c, label) \/ Outcome(c)
           \/ call' = [call EXCEPT ![c] = Idle]
    PROVE  CallsOK(call')
<1>1. PICK l \in {label, "record"} :
         \/ call' = [call EXCEPT ![c] = [call[c] EXCEPT !.pc = l]]
         \/ call' = [call EXCEPT ![c] = Idle]
    BY DEF Become, Outcome
<1>2. [call[c] EXCEPT !.pc = l] \in Claims
    BY DEF Claims
<1>3. /\ [call[c] EXCEPT !.pc = l].pc = l
      /\ [call[c] EXCEPT !.pc = l].id = call[c].id
    BY DEF Claims
<1>4. CASE call' = [call EXCEPT ![c] = [call[c] EXCEPT !.pc = l]]
  <2>1. call' \in [Callers -> Claims \cup Prepares \cup {Idle}]
      BY <1>2, <1>4 DEF TypeOK
  <2> QED
      BY <1>3, <1>4, <2>1 DEF TypeOK, CallsOK
<1>5. CASE call' = [call EXCEPT ![c] = Idle]
    BY <1>5 DEF TypeOK, CallsOK, Idle
<1> QED
    BY <1>1, <1>4, <1>5

\* A request that has left "prepared" is a claim.
LEMMA ClaimType ==
    ASSUME TypeOK, NEW c \in Callers,
           call[c].pc \in {"verify", "mark", "audit", "run", "record"}
    PROVE  call[c] \in Claims
<1>1. call[c] \in Claims \cup Prepares \cup {Idle}
    BY DEF TypeOK
<1> QED
    BY <1>1 DEF Prepares, Idle

\* One that has not is a prepare.
LEMMA PrepareType ==
    ASSUME TypeOK, NEW c \in Callers, call[c].pc = "prepared"
    PROVE  call[c] \in Prepares
<1>1. call[c] \in Claims \cup Prepares \cup {Idle}
    BY DEF TypeOK
<1> QED
    BY <1>1 DEF Claims, Idle

\* Every step keeps the type invariant.
LEMMA TypeStep == TypeOK /\ [Next]_vars => TypeOK'
<1> SUFFICES ASSUME TypeOK, [Next]_vars PROVE TypeOK'
    OBVIOUS
<1> USE ConfirmationsAssumption
<1>1. ASSUME NEW c \in Callers, NEW tool \in Tools, NEW enforce \in BOOLEAN,
             NEW payload \in Hashes, Prepare(c, tool, payload, enforce)
      PROVE TypeOK'
  <2>1. nextId \in Ids
      BY <1>1 DEF Prepare, TypeOK, Ids
  <2>2. confs' \in [Ids -> Rows \cup {None}]
      BY <1>1, <2>1 DEF Prepare, TypeOK, Rows
  <2>3. call' \in [Callers -> Claims \cup Prepares \cup {Idle}]
      BY <1>1, <2>1 DEF Prepare, TypeOK, Prepares
  <2>4. \A d \in Callers : call'[d].pc \in {"verify", "mark", "audit"}
                              => call'[d].id \in Ids
      BY <1>1, <2>1 DEF Prepare, TypeOK, Prepares
  <2>5. grants' \in [Ids -> Writes \cup {None}]
      BY <1>1, <2>1 DEF Prepare, TypeOK, Writes
  <2>6. nextId' \in 1..(MaxId + 1)
      BY <1>1, <2>1 DEF Prepare, Ids
  <2> QED
      BY <1>1, <2>2, <2>3, <2>4, <2>5, <2>6 DEF Prepare, TypeOK
<1>2. ASSUME NEW c \in Callers, PrepareAudit(c)
      PROVE TypeOK'
  <2>1. call[c] \in Prepares
      BY <1>2, PrepareType DEF PrepareAudit
  <2>2. CallsOK(call')
      BY <1>2 DEF PrepareAudit, TypeOK, CallsOK, Idle
  <2>3. Event("attempt", call[c].tool, call[c].id)
          \in [kind : {"attempt", "claimed", "execution"},
               tool : Tools, id : Ids \cup {0}, at : Nat]
      BY <2>1 DEF Event, Prepares, TypeOK
  <2>4. call[c].id \in Ids
      BY <2>1 DEF Prepares
  <2> QED
      BY <1>2, <2>2, <2>3, <2>4 DEF PrepareAudit, TypeOK, CallsOK, history
<1>3. ASSUME NEW c \in Callers, NEW tool \in Tools, NEW enforce \in BOOLEAN,
             NEW id \in Ids \cup {0}, NEW token \in known \cup {0},
             NEW role \in Roles, NEW payload \in Payloads,
             CallTool(c, tool, role, enforce, id, token, payload)
      PROVE TypeOK'
  <2>0. 0 \notin Ids /\ token \in Ids \cup {0}
      BY DEF Ids, TypeOK
  <2>1. ASSUME NEW label \in {"verify", "run", "record"}, label = "verify" => id # 0,
               call' = [call EXCEPT ![c] =
                  Requested(label, "mcp", tool, role, id, token, payload)]
        PROVE  CallsOK(call')
    <3>1. Requested(label, "mcp", tool, role, id, token, payload) \in Claims
        BY <2>0 DEF Requested, Claims, Hashes
    <3> QED
        BY <2>0, <2>1, <3>1 DEF TypeOK, CallsOK, Requested
  <2>2. CallsOK(call')
    <3>1. CASE UNCHANGED call
        BY <3>1 DEF TypeOK, CallsOK
    <3> QED
        BY <1>3, <2>1, <3>1 DEF CallTool
  <2> QED
      BY <1>3, <2>2 DEF CallTool, TypeOK, CallsOK, history
<1>4. ASSUME NEW c \in Callers, NEW tool \in Tools, NEW enforce \in BOOLEAN,
             NEW id \in Ids, NEW token \in known \cup {0}, NEW payload \in Hashes,
             Consume(c, tool, enforce, id, token, payload)
      PROVE TypeOK'
  <2>1. Requested("verify", "http", tool, "operator", id, token, payload) \in Claims
      BY DEF Requested, Claims, TypeOK, Roles
  <2> QED
      BY <1>4, <2>1 DEF Consume, TypeOK, history, Requested
<1>5. ASSUME NEW c \in Callers, Verify(c) \/ StatementFails(c)
      PROVE TypeOK'
  <2>1. call[c] \in Claims /\ call[c].id \in Ids
      BY <1>5, ClaimType DEF Verify, StatementFails, TypeOK
  <2>2. CallsOK(call')
      BY <1>5, <2>1, MoveType DEF Verify, StatementFails
  <2> QED
      BY <1>5, <2>2 DEF Verify, StatementFails, TypeOK, CallsOK, history
<1>6. ASSUME NEW c \in Callers, MarkUsed(c)
      PROVE TypeOK'
  <2>1. call[c] \in Claims /\ call[c].id \in Ids
      BY <1>6, ClaimType DEF MarkUsed, TypeOK
  <2>2. CallsOK(call')
      BY <1>6, <2>1, MoveType DEF MarkUsed
  <2>3. confs' \in [Ids -> Rows \cup {None}]
    <3>1. CASE Open(call[c].id)
      <4>1. confs[call[c].id] \in Rows
          BY <2>1, <3>1 DEF Open, TypeOK
      <4>2. [confs[call[c].id] EXCEPT !.used = TRUE] \in Rows
          BY <4>1 DEF Rows
      <4> QED
          BY <1>6, <2>1, <3>1, <4>2 DEF MarkUsed, TypeOK
    <3>2. CASE ~Open(call[c].id)
        BY <1>6, <3>2 DEF MarkUsed, TypeOK
    <3> QED
        BY <3>1, <3>2
  <2> QED
      BY <1>6, <2>1, <2>2, <2>3 DEF MarkUsed, TypeOK, CallsOK
<1>7. ASSUME NEW c \in Callers, ClaimAudit(c)
      PROVE TypeOK'
  <2>1. call[c] \in Claims
      BY <1>7, ClaimType DEF ClaimAudit
  <2>2. CallsOK(call')
      BY <1>7, <2>1, MoveType DEF ClaimAudit
  <2> QED
      BY <1>7, <2>1, <2>2 DEF ClaimAudit, TypeOK, CallsOK, history, Event, Claims
<1>8. ASSUME NEW c \in Callers, Run(c)
      PROVE TypeOK'
  <2>1. call[c] \in Claims
      BY <1>8, ClaimType DEF Run
  <2>2. CallsOK(call')
      BY <1>8, <2>1, MoveType DEF Run
  <2>3. <<call[c].tool, call[c].payload>> \in Writes
      BY <2>1 DEF Claims, Writes
  <2>4. runs' \in [Ids -> Seq(Writes)]
    <3>1. \A i \in Ids : Append(runs[i], <<call[c].tool, call[c].payload>>)
                           \in Seq(Writes)
        BY <2>3 DEF TypeOK
    <3>2. CASE UNCHANGED runs
        BY <3>2 DEF TypeOK
    <3>3. CASE runs' = [runs EXCEPT ![call[c].id] =
                           Append(@, <<call[c].tool, call[c].payload>>)]
        BY <3>1, <3>3 DEF TypeOK
    <3> QED
        BY <1>8, <3>2, <3>3 DEF Run
  <2>5. bare' \subseteq Tools \X Roles
      BY <1>8, <2>1 DEF Run, TypeOK, Claims
  <2> QED
      BY <1>8, <2>2, <2>4, <2>5 DEF Run, TypeOK, CallsOK
<1>9. ASSUME NEW c \in Callers, Record(c)
      PROVE TypeOK'
  <2>1. call[c] \in Claims
      BY <1>9, ClaimType DEF Record
  <2>2. CallsOK(call')
      BY <1>9, <2>1, MoveType DEF Record
  <2> QED
      BY <1>9, <2>1, <2>2 DEF Record, TypeOK, CallsOK, history, Event, Claims
<1>10. ASSUME NEW c \in Callers, Abort(c)
       PROVE TypeOK'
    BY <1>10 DEF Abort, TypeOK, history, Idle
<1>11. CASE Tick
    BY <1>11 DEF Tick, TypeOK, history
<1>12. CASE SweepConfirmations
    BY <1>12 DEF SweepConfirmations, TypeOK, history
<1>13. CASE SweepAudit
    BY <1>13 DEF SweepAudit, TypeOK, history
<1>14. CASE UNCHANGED vars
    BY <1>14 DEF vars, TypeOK, history
<1>15. ASSUME NEW c \in Callers, Request(c)
       PROVE TypeOK'
    BY <1>1, <1>3, <1>4, <1>15 DEF Request
<1>16. ASSUME NEW c \in Callers, Step(c)
       PROVE TypeOK'
    BY <1>2, <1>5, <1>6, <1>7, <1>8, <1>9, <1>10, <1>16 DEF Step
<1> QED
    BY <1>11, <1>12, <1>13, <1>14, <1>15, <1>16 DEF Next

\* The state keeps its type: for every registry and any number of requests.
THEOREM TypeCorrect == Spec => []TypeOK
<1>1. Init => TypeOK
    BY ConfirmationsAssumption DEF Init, TypeOK, Idle, Ids
<1> QED
    BY <1>1, TypeStep, PTL DEF Spec

-----------------------------------------------------------------------------
(* The refinement                                                          *)

Write(c) == <<call[c].tool, call[c].payload>>

\* A stored row is what its id was prepared for; while it can be marked its
\* id is not spent, and nothing has run under an id that is not.
RowInv(i) ==
    /\ confs[i] # None => <<confs[i].tool, confs[i].payload>> = grants[i]
    /\ Open(i) => i \notin spent
    /\ i \notin spent => runs[i] = <<>>
    /\ i >= nextId => grants[i] = None /\ i \notin spent

\* Between its MarkUsed and the end of its tool a request owns its id.
Claimed(c) == call[c].pc \in {"audit", "run"} /\ call[c].id # 0

\* What a request has verified, and what it owns.
CallInv(c) ==
    /\ call[c].pc = "mark" => grants[call[c].id] = Write(c)
    /\ Claimed(c) => /\ call[c].id \in spent
                     /\ runs[call[c].id] = <<>>
                     /\ grants[call[c].id] = Write(c)
    /\ \A d \in Callers \ {c} :
          Claimed(c) /\ Claimed(d) => call[c].id # call[d].id

GateInv == (\A i \in Ids : RowInv(i)) /\ (\A c \in Callers : CallInv(c))

\* A step of one request that neither verifies, claims nor runs anything.
LEMMA AsideKeeps ==
    ASSUME TypeOK, GateInv, UNCHANGED <<confs, nextId, grants, spent, runs>>,
           NEW c \in Callers,
           \A d \in Callers \ {c} : call'[d] = call[d],
           call'[c].pc # "mark", ~Claimed(c)'
    PROVE  GateInv'
<1>1. \A i \in Ids : RowInv(i)'
    BY DEF GateInv, RowInv, Open
<1>2. ASSUME NEW d \in Callers PROVE CallInv(d)'
    BY DEF GateInv, CallInv, Claimed, Write
<1> QED
    BY <1>1, <1>2 DEF GateInv

\* A request that is refused, ends or is recorded is such a step.
LEMMA LeavesAside ==
    ASSUME TypeOK, NEW c \in Callers, call[c] \in Claims,
           Outcome(c) \/ call' = [call EXCEPT ![c] = Idle]
    PROVE  /\ \A d \in Callers \ {c} : call'[d] = call[d]
           /\ call'[c].pc \in {"record", "idle"}
BY DEF TypeOK, Outcome, Become, Claims, Idle

\* A request moves to another label and keeps everything else.
LEMMA BecomeMoves ==
    ASSUME TypeOK, NEW c \in Callers, call[c] \in Claims, NEW label,
           Become(c, label)
    PROVE  /\ \A d \in Callers \ {c} : call'[d] = call[d]
           /\ call'[c].pc = label
           /\ call'[c].id = call[c].id
           /\ call'[c].tool = call[c].tool
           /\ call'[c].payload = call[c].payload
           /\ call'[c].kind = call[c].kind
           /\ call'[c].token = call[c].token
BY DEF TypeOK, Become, Claims

\* Every step keeps the invariant and is a step of the gate, or none.
LEMMA GateStep ==
    TypeOK /\ GateInv /\ [Next]_vars => GateInv' /\ [Gate!Next]_(Gate!vars)
<1> SUFFICES ASSUME TypeOK, GateInv, [Next]_vars
             PROVE  GateInv' /\ [Gate!Next]_(Gate!vars)
    OBVIOUS
<1> USE ConfirmationsAssumption
<1>0. ASSUME UNCHANGED <<grants, spent, runs>> PROVE [Gate!Next]_(Gate!vars)
    BY <1>0 DEF Gate!vars
<1>1. ASSUME NEW c \in Callers, NEW tool \in Tools, NEW enforce \in BOOLEAN,
             NEW payload \in Hashes, Prepare(c, tool, payload, enforce)
      PROVE GateInv' /\ [Gate!Next]_(Gate!vars)
  <2>1. nextId \in Ids /\ nextId' = nextId + 1 /\ nextId \in Nat
      BY <1>1 DEF Prepare, TypeOK, Ids
  <2>2. grants[nextId] = None /\ nextId \notin spent
      BY <2>1 DEF GateInv, RowInv
  <2>3. \A i \in Ids : RowInv(i)'
    <3> SUFFICES ASSUME NEW i \in Ids PROVE RowInv(i)'
        OBVIOUS
    <3>1. CASE i = nextId
        BY <1>1, <2>1, <2>2, <3>1 DEF Prepare, GateInv, RowInv, Open, TypeOK
    <3>2. CASE i # nextId
        BY <1>1, <2>1, <3>2 DEF Prepare, GateInv, RowInv, Open, TypeOK, Ids
    <3> QED
        BY <3>1, <3>2
  <2>4. /\ call'[c].pc = "prepared"
        /\ \A d \in Callers \ {c} : call'[d] = call[d]
      BY <1>1 DEF Prepare, TypeOK
  <2>5. ASSUME NEW d \in Callers PROVE CallInv(d)'
    <3>1. CASE d = c
        BY <2>4, <3>1 DEF CallInv, Claimed
    <3>2. CASE d # c
      <4>1. call'[d] = call[d] /\ CallInv(d)
          BY <2>4, <3>2 DEF GateInv
      <4>2. call[d].pc \in {"mark", "audit", "run"} => Write(d) \in Writes
          BY ClaimType DEF Claims, Writes, Write
      <4>3. (call[d].pc = "mark" \/ Claimed(d)) => grants'[call[d].id] = Write(d)
          BY <1>1, <2>1, <2>2, <4>1, <4>2
             DEF Prepare, CallInv, Claimed, TypeOK
      <4> QED
          BY <1>1, <2>4, <4>1, <4>3 DEF Prepare, CallInv, Claimed, Write
    <3> QED
        BY <3>1, <3>2
  <2>6. <<tool, payload>> \in Writes
      BY DEF Writes
  <2>7. Gate!Approve(nextId, <<tool, payload>>)
      BY <1>1, <2>2 DEF Prepare, Gate!Approve
  <2> QED
      BY <2>1, <2>3, <2>5, <2>6, <2>7 DEF GateInv, Gate!Next
<1>2. ASSUME NEW c \in Callers, PrepareAudit(c)
      PROVE GateInv' /\ [Gate!Next]_(Gate!vars)
  <2>1. /\ call'[c].pc = "idle"
        /\ \A d \in Callers \ {c} : call'[d] = call[d]
      BY <1>2 DEF PrepareAudit, TypeOK, Idle
  <2> QED
      BY <1>0, <1>2, <2>1, AsideKeeps DEF PrepareAudit, history, Claimed
<1>3. ASSUME NEW c \in Callers, NEW tool \in Tools, NEW enforce \in BOOLEAN,
             NEW id \in Ids \cup {0}, NEW token \in known \cup {0},
             NEW role \in Roles, NEW payload \in Payloads,
             CallTool(c, tool, role, enforce, id, token, payload)
      PROVE GateInv' /\ [Gate!Next]_(Gate!vars)
  <2>1. /\ \A d \in Callers \ {c} : call'[d] = call[d]
        /\ call'[c].pc # "mark" /\ ~Claimed(c)'
      BY <1>3 DEF CallTool, TypeOK, Claimed, Requested, Idle
  <2> QED
      BY <1>0, <1>3, <2>1, AsideKeeps DEF CallTool, history
<1>4. ASSUME NEW c \in Callers, NEW tool \in Tools, NEW enforce \in BOOLEAN,
             NEW id \in Ids, NEW token \in known \cup {0}, NEW payload \in Hashes,
             Consume(c, tool, enforce, id, token, payload)
      PROVE GateInv' /\ [Gate!Next]_(Gate!vars)
  <2>1. /\ \A d \in Callers \ {c} : call'[d] = call[d]
        /\ call'[c].pc = "verify"
      BY <1>4 DEF Consume, TypeOK, Requested
  <2> QED
      BY <1>0, <1>4, <2>1, AsideKeeps DEF Consume, history, Claimed
<1>5. ASSUME NEW c \in Callers,
             \/ Verify(c) /\ ~Valid(confs[call[c].id], call[c])
             \/ StatementFails(c) \/ Record(c)
      PROVE GateInv' /\ [Gate!Next]_(Gate!vars)
  <2>1. call[c] \in Claims
      BY <1>5, ClaimType DEF Verify, StatementFails, Record
  <2>2. /\ \A d \in Callers \ {c} : call'[d] = call[d]
        /\ call'[c].pc \in {"record", "idle"}
      BY <1>5, <2>1, LeavesAside DEF Verify, StatementFails, Record
  <2> QED
      BY <1>0, <1>5, <2>2, AsideKeeps
         DEF Verify, StatementFails, Record, history, Claimed
<1>6. ASSUME NEW c \in Callers, Verify(c), Valid(confs[call[c].id], call[c])
      PROVE GateInv' /\ [Gate!Next]_(Gate!vars)
  <2>1. call[c] \in Claims /\ call[c].id \in Ids
      BY <1>6, ClaimType DEF Verify, TypeOK
  <2>2. grants[call[c].id] = Write(c)
      BY <1>6, <2>1 DEF Valid, GateInv, RowInv, Write
  <2>3. /\ \A d \in Callers \ {c} : call'[d] = call[d]
        /\ call'[c].pc = "mark" /\ call'[c].id = call[c].id
        /\ call'[c].tool = call[c].tool /\ call'[c].payload = call[c].payload
      BY <1>6, <2>1, BecomeMoves DEF Verify
  <2>4. UNCHANGED <<confs, nextId, grants, spent, runs>>
      BY <1>6 DEF Verify, history
  <2>5. \A i \in Ids : RowInv(i)'
      BY <2>4 DEF GateInv, RowInv, Open
  <2>6. ASSUME NEW d \in Callers PROVE CallInv(d)'
    <3>1. CASE d = c
        BY <2>2, <2>3, <2>4, <3>1 DEF CallInv, Claimed, Write
    <3>2. CASE d # c
      <4>1. call'[d] = call[d] /\ CallInv(d)
          BY <2>3, <3>2 DEF GateInv
      <4>2. \A e \in Callers : Claimed(e)' => Claimed(e) /\ call'[e] = call[e]
          BY <2>3 DEF Claimed
      <4> QED
          BY <2>4, <4>1, <4>2 DEF CallInv, Claimed, Write
    <3> QED
        BY <3>1, <3>2
  <2> QED
      BY <1>0, <2>4, <2>5, <2>6 DEF GateInv
<1>7. ASSUME NEW c \in Callers, MarkUsed(c), ~Open(call[c].id)
      PROVE GateInv' /\ [Gate!Next]_(Gate!vars)
  <2>1. call[c] \in Claims
      BY <1>7, ClaimType DEF MarkUsed
  <2>2. /\ \A d \in Callers \ {c} : call'[d] = call[d]
        /\ call'[c].pc \in {"record", "idle"}
      BY <1>7, <2>1, LeavesAside DEF MarkUsed
  <2> QED
      BY <1>0, <1>7, <2>2, AsideKeeps DEF MarkUsed, Claimed
<1>8. ASSUME NEW c \in Callers, MarkUsed(c), Open(call[c].id)
      PROVE GateInv' /\ [Gate!Next]_(Gate!vars)
  <2> DEFINE i == call[c].id
  <2>1. call[c] \in Claims /\ i \in Ids /\ call[c].pc = "mark"
      BY <1>8, ClaimType DEF MarkUsed, TypeOK
  <2>2. i \notin spent /\ runs[i] = <<>> /\ grants[i] = Write(c)
      BY <1>8, <2>1 DEF GateInv, RowInv, CallInv
  <2>3. grants[i] # None
      BY <2>1, <2>2 DEF Write, Claims, Writes
  <2>4. /\ spent' = spent \cup {i} /\ UNCHANGED <<nextId, grants, runs>>
        /\ confs' = [confs EXCEPT ![i].used = TRUE]
      BY <1>8 DEF MarkUsed
  <2>5. /\ \A d \in Callers \ {c} : call'[d] = call[d]
        /\ call'[c].pc \in {"audit", "record", "idle"}
        /\ call'[c].pc = "audit" =>
              /\ call'[c].id = i /\ call'[c].tool = call[c].tool
              /\ call'[c].payload = call[c].payload
    <3>1. CASE Become(c, "audit")
        BY <2>1, <3>1, BecomeMoves
    <3>2. CASE Outcome(c)
        BY <2>1, <3>2, LeavesAside
    <3> QED
        BY <1>8, <3>1, <3>2 DEF MarkUsed
  <2>6. ASSUME NEW j \in Ids PROVE RowInv(j)'
    <3>1. CASE j = i
      <4>1. confs[i] \in Rows
          BY <1>8, <2>1 DEF Open, TypeOK
      <4>2. /\ confs'[i].used = TRUE /\ confs'[i].tool = confs[i].tool
            /\ confs'[i].payload = confs[i].payload
          BY <2>1, <2>4, <4>1 DEF TypeOK, Rows
      <4>3. <<confs[i].tool, confs[i].payload>> = grants[i] /\ i < nextId
          BY <1>8, <2>1, <2>3 DEF GateInv, RowInv, Open, TypeOK, Ids
      <4> QED
          BY <2>1, <2>4, <3>1, <4>2, <4>3 DEF RowInv, Open, Ids, TypeOK
    <3>2. CASE j # i
      <4>1. confs'[j] = confs[j]
          BY <2>1, <2>4, <3>2 DEF TypeOK
      <4> QED
          BY <2>4, <3>2, <4>1 DEF GateInv, RowInv, Open
    <3> QED
        BY <3>1, <3>2
  <2>7. ASSUME NEW d \in Callers, d # c, Claimed(d) PROVE call[d].id # i
      BY <2>2, <2>7 DEF GateInv, CallInv
  <2>8. ASSUME NEW d \in Callers PROVE CallInv(d)'
    <3>1. CASE d = c
        BY <2>1, <2>2, <2>4, <2>5, <2>7, <3>1 DEF CallInv, Claimed, Write
    <3>2. CASE d # c
      <4>1. call'[d] = call[d] /\ CallInv(d)
          BY <2>5, <3>2 DEF GateInv
      <4>2. Claimed(d)' <=> Claimed(d)
          BY <4>1 DEF Claimed
      <4>3. ASSUME NEW e \in Callers \ {d}, Claimed(d), Claimed(e)'
            PROVE  call[d].id # call'[e].id
        <5>1. CASE e = c
            BY <2>5, <2>7, <3>2, <4>3, <5>1 DEF Claimed
        <5>2. CASE e # c
            BY <2>5, <4>1, <4>3, <5>2 DEF CallInv, Claimed
        <5> QED
            BY <5>1, <5>2
      <4> QED
          BY <2>4, <4>1, <4>2, <4>3 DEF CallInv, Write
    <3> QED
        BY <3>1, <3>2
  <2>9. Gate!Spend(i)
      BY <2>2, <2>3, <2>4 DEF Gate!Spend
  <2> QED
      BY <2>1, <2>6, <2>8, <2>9 DEF GateInv, Gate!Next
<1>9. ASSUME NEW c \in Callers, ClaimAudit(c)
      PROVE GateInv' /\ [Gate!Next]_(Gate!vars)
  <2>1. call[c] \in Claims /\ call[c].id \in Ids /\ call[c].pc = "audit"
      BY <1>9, ClaimType DEF ClaimAudit, TypeOK
  <2>2. UNCHANGED <<confs, nextId, grants, spent, runs>>
      BY <1>9 DEF ClaimAudit, history
  <2>3. CASE Outcome(c)
    <3>1. /\ \A d \in Callers \ {c} : call'[d] = call[d]
          /\ call'[c].pc \in {"record", "idle"}
        BY <2>1, <2>3, LeavesAside
    <3> QED
        BY <1>0, <2>2, <3>1, AsideKeeps DEF Claimed
  <2>4. CASE Become(c, "run")
    <3>1. /\ \A d \in Callers \ {c} : call'[d] = call[d]
          /\ call'[c].pc = "run" /\ call'[c].id = call[c].id
          /\ call'[c].tool = call[c].tool /\ call'[c].payload = call[c].payload
        BY <2>1, <2>4, BecomeMoves
    <3>2. \A d \in Callers : /\ Claimed(d)' <=> Claimed(d)
                             /\ call'[d].id = call[d].id
                             /\ Write(d)' = Write(d)
                             /\ call'[d].pc = "mark" <=> call[d].pc = "mark"
      <4> SUFFICES ASSUME NEW d \in Callers
                   PROVE  /\ Claimed(d)' <=> Claimed(d)
                          /\ call'[d].id = call[d].id
                          /\ Write(d)' = Write(d)
                          /\ call'[d].pc = "mark" <=> call[d].pc = "mark"
          OBVIOUS
      <4>1. CASE d = c
          BY <2>1, <3>1, <4>1 DEF Claimed, Write
      <4>2. CASE d # c
          BY <3>1, <4>2 DEF Claimed, Write
      <4> QED
          BY <4>1, <4>2
    <3>3. \A d \in Callers : CallInv(d)'
        BY <2>2, <3>2 DEF GateInv, CallInv
    <3>4. \A i \in Ids : RowInv(i)'
        BY <2>2 DEF GateInv, RowInv, Open
    <3> QED
        BY <1>0, <2>2, <3>3, <3>4 DEF GateInv
  <2> QED
      BY <1>9, <2>3, <2>4 DEF ClaimAudit
<1>10. ASSUME NEW c \in Callers, Run(c)
       PROVE GateInv' /\ [Gate!Next]_(Gate!vars)
  <2>1. call[c] \in Claims /\ call[c].pc = "run"
      BY <1>10, ClaimType DEF Run
  <2>2. /\ \A d \in Callers \ {c} : call'[d] = call[d]
        /\ call'[c].pc \in {"record", "idle"}
      BY <1>10, <2>1, LeavesAside DEF Run
  <2>3. UNCHANGED <<confs, nextId, grants, spent>>
      BY <1>10 DEF Run
  <2>4. CASE UNCHANGED runs
      BY <1>0, <2>2, <2>3, <2>4, AsideKeeps DEF Claimed
  <2>5. CASE call[c].id # 0
             /\ runs' = [runs EXCEPT ![call[c].id] = Append(@, Write(c))]
    <3> DEFINE i == call[c].id
    <3>1. i \in Ids /\ Claimed(c)
        BY <2>1, <2>5 DEF Claims, Claimed
    <3>2. i \in spent /\ runs[i] = <<>> /\ grants[i] = Write(c)
        BY <3>1 DEF GateInv, CallInv
    <3>3. Append(<<>>, Write(c)) = <<Write(c)>>
        BY DEF Write
    <3>4. runs' = [runs EXCEPT ![i] = <<grants[i]>>]
        BY <2>5, <3>1, <3>2, <3>3 DEF TypeOK
    <3>5. Gate!Run(i)
        BY <2>3, <3>2, <3>4 DEF Gate!Run
    <3>6. \A j \in Ids : RowInv(j)'
        BY <2>3, <3>2, <3>4 DEF GateInv, RowInv, Open, TypeOK
    <3>7. ASSUME NEW d \in Callers PROVE CallInv(d)'
      <4>1. CASE d = c
          BY <2>2, <4>1 DEF CallInv, Claimed
      <4>2. CASE d # c
        <5>1. call'[d] = call[d] /\ CallInv(d)
            BY <2>2, <4>2 DEF GateInv
        <5>2. Claimed(d) => call[d].id # i /\ runs'[call[d].id] = runs[call[d].id]
            BY <3>1, <3>4, <4>2, <5>1 DEF CallInv, TypeOK
        <5>3. \A e \in Callers : Claimed(e)' => Claimed(e) /\ call'[e] = call[e]
            BY <2>2 DEF Claimed
        <5> QED
            BY <2>3, <5>1, <5>2, <5>3 DEF CallInv, Claimed, Write
      <4> QED
          BY <4>1, <4>2
    <3> QED
        BY <3>1, <3>5, <3>6, <3>7 DEF GateInv, Gate!Next
  <2> QED
      BY <1>10, <2>4, <2>5 DEF Run, Write
<1>11. ASSUME NEW c \in Callers, Abort(c)
       PROVE GateInv' /\ [Gate!Next]_(Gate!vars)
  <2>1. /\ call'[c].pc = "idle"
        /\ \A d \in Callers \ {c} : call'[d] = call[d]
      BY <1>11 DEF Abort, TypeOK, Idle
  <2> QED
      BY <1>0, <1>11, <2>1, AsideKeeps DEF Abort, history, Claimed
<1>12. CASE SweepConfirmations
  <2>1. UNCHANGED <<nextId, grants, spent, runs, call>>
      BY <1>12 DEF SweepConfirmations, history
  <2>2. \A i \in Ids : confs'[i] = confs[i] \/ confs'[i] = None
      BY <1>12 DEF SweepConfirmations
  <2>3. \A i \in Ids : RowInv(i)'
      BY <2>1, <2>2 DEF GateInv, RowInv, Open
  <2>4. \A c \in Callers : CallInv(c)'
      BY <2>1 DEF GateInv, CallInv, Claimed, Write
  <2> QED
      BY <1>0, <2>1, <2>3, <2>4 DEF GateInv
<1>13. CASE Tick \/ SweepAudit \/ UNCHANGED vars
  <2>1. UNCHANGED <<confs, nextId, grants, spent, runs, call>>
      BY <1>13 DEF Tick, SweepAudit, vars, history
  <2>2. \A i \in Ids : RowInv(i)'
      BY <2>1 DEF GateInv, RowInv, Open
  <2>3. \A c \in Callers : CallInv(c)'
      BY <2>1 DEF GateInv, CallInv, Claimed, Write
  <2> QED
      BY <1>0, <2>1, <2>2, <2>3 DEF GateInv
<1>14. ASSUME NEW c \in Callers, Request(c)
       PROVE GateInv' /\ [Gate!Next]_(Gate!vars)
    BY <1>1, <1>3, <1>4, <1>14 DEF Request
<1>15. ASSUME NEW c \in Callers, Step(c)
       PROVE GateInv' /\ [Gate!Next]_(Gate!vars)
    BY <1>2, <1>5, <1>6, <1>7, <1>8, <1>9, <1>10, <1>11, <1>15 DEF Step
<1> QED
    BY <1>12, <1>13, <1>14, <1>15 DEF Next

\* The confirmation boundary implements the write gate: an approval is spent
\* once, by one claimer, and what runs under it is the tool and payload it
\* was prepared for, once (ClaimConfirmation, callTool).
THEOREM ImplementsGate == Spec => GateSpec
<1>1. Init => GateInv /\ Gate!Init
    BY ConfirmationsAssumption
       DEF Init, GateInv, RowInv, CallInv, Claimed, Open, Idle, Gate!Init
<1> QED
    BY <1>1, TypeCorrect, GateStep, PTL DEF Spec, GateSpec, Gate!Spec

-----------------------------------------------------------------------------
(* The audit trail                                                         *)

\* The audit table has an event of this kind for id i, or no longer reaches
\* back to when the confirmation was prepared.
Trail(i, kind) ==
    \/ \E e \in audit : /\ e.kind = kind /\ e.id = i /\ e.tool = grants[i][1]
                        /\ confs[i] # None => e.at >= confs[i].expires - TTL
    \/ confs[i] = None
    \/ confs[i].expires - TTL < clock - AuditRetention

\* Tokens of requests were handed out, and a request about to run has its
\* claim audited.
CallTrail(c) ==
    /\ call[c].pc = "prepared" => /\ call[c].id < nextId
                                  /\ grants[call[c].id][1] = call[c].tool
    /\ call[c].pc \in {"verify", "mark", "audit", "run"}
          => call[c].token \in known \cup {0}
    /\ call[c].pc \in {"mark", "audit", "run"} /\ call[c].id # 0
          => call[c].token = call[c].id /\ call[c].id < nextId
    /\ call[c].pc = "run" /\ call[c].id # 0
          => Trail(call[c].id, "claimed")

\* Rows are not from the future, and tokens were handed out after their
\* attempt was audited.
TrailInv ==
    /\ \A i \in Ids : confs[i] # None => confs[i].expires - TTL <= clock
    /\ \A i \in known : i < nextId /\ Trail(i, "attempt")
    /\ \A c \in Callers : CallTrail(c)

\* What no step does: go back in time, reuse an id, forget a token or change
\* what an id was prepared for; and which actions write which table.
LEMMA Frame ==
    ASSUME TypeOK, [Next]_vars
    PROVE  /\ nextId' >= nextId /\ known \subseteq known'
           /\ \A i \in Ids : i < nextId => grants'[i] = grants[i]
           /\ audit \subseteq audit' \/ SweepAudit
           /\ known' = known \/ \E c \in Callers : PrepareAudit(c)
           /\ runs' = runs \/ \E c \in Callers : Run(c)
           /\ \/ UNCHANGED <<confs, clock>>
              \/ \E c \in Callers, tool \in Tools, enforce \in BOOLEAN,
                    payload \in Hashes : Prepare(c, tool, payload, enforce)
              \/ \E c \in Callers : MarkUsed(c)
              \/ SweepConfirmations \/ Tick
<1> DEFINE Framed ==
           /\ nextId' >= nextId /\ known \subseteq known'
           /\ \A i \in Ids : i < nextId => grants'[i] = grants[i]
           /\ audit \subseteq audit' \/ SweepAudit
           /\ known' = known \/ \E c \in Callers : PrepareAudit(c)
           /\ runs' = runs \/ \E c \in Callers : Run(c)
           /\ \/ UNCHANGED <<confs, clock>>
              \/ \E c \in Callers, tool \in Tools, enforce \in BOOLEAN,
                    payload \in Hashes : Prepare(c, tool, payload, enforce)
              \/ \E c \in Callers : MarkUsed(c)
              \/ SweepConfirmations \/ Tick
<1>0. nextId \in Int
    BY ConfirmationsAssumption DEF TypeOK
<1>1. ASSUME UNCHANGED <<nextId, known, grants, audit, runs, confs, clock>>
      PROVE  Framed
    BY <1>0, <1>1
<1>2. ASSUME NEW c \in Callers, NEW tool \in Tools, NEW enforce \in BOOLEAN,
             NEW payload \in Hashes, Prepare(c, tool, payload, enforce)
      PROVE  Framed
  <2>1. nextId' = nextId + 1 /\ UNCHANGED <<known, audit, runs>>
      BY <1>2 DEF Prepare
  <2>2. ASSUME NEW i \in Ids, i < nextId PROVE grants'[i] = grants[i]
    <3>1. i # nextId
        BY <1>0, <2>2 DEF Ids
    <3> QED
        BY <1>2, <3>1 DEF Prepare, TypeOK
  <2> QED
      BY <1>0, <1>2, <2>1, <2>2
<1>3. ASSUME NEW c \in Callers, PrepareAudit(c) PROVE Framed
  <2>1. /\ UNCHANGED <<nextId, grants, runs, confs, clock>>
        /\ audit \subseteq audit' /\ known \subseteq known'
      BY <1>3 DEF PrepareAudit, history
  <2> QED
      BY <1>0, <1>3, <2>1
<1>4. ASSUME NEW c \in Callers, MarkUsed(c) PROVE Framed
  <2>1. UNCHANGED <<nextId, grants, runs, clock, audit, known>>
      BY <1>4 DEF MarkUsed
  <2> QED
      BY <1>0, <1>4, <2>1
<1>5. ASSUME NEW c \in Callers, ClaimAudit(c) \/ Record(c) PROVE Framed
  <2>1. UNCHANGED <<nextId, grants, runs, confs, clock, known>> /\ audit \subseteq audit'
      BY <1>5 DEF ClaimAudit, Record, history
  <2> QED
      BY <1>0, <2>1
<1>6. ASSUME NEW c \in Callers, Run(c) PROVE Framed
  <2>1. UNCHANGED <<nextId, grants, confs, clock, known, audit>>
      BY <1>6 DEF Run
  <2> QED
      BY <1>0, <1>6, <2>1
<1>7. ASSUME SweepConfirmations \/ Tick PROVE Framed
  <2>1. UNCHANGED <<nextId, grants, runs, known, audit>>
      BY <1>7 DEF SweepConfirmations, Tick, history
  <2> QED
      BY <1>0, <1>7, <2>1
<1>8. ASSUME SweepAudit PROVE Framed
  <2>1. UNCHANGED <<nextId, grants, runs, known, confs, clock>>
      BY <1>8 DEF SweepAudit, history
  <2> QED
      BY <1>0, <1>8, <2>1
<1>9. ASSUME NEW c \in Callers, Verify(c) \/ StatementFails(c) \/ Abort(c)
      PROVE  Framed
  <2>1. UNCHANGED <<nextId, known, grants, audit, runs, confs, clock>>
      BY <1>9 DEF Verify, StatementFails, Abort, history
  <2> QED
      BY <1>1, <2>1
<1>10. ASSUME NEW c \in Callers, NEW tool \in Tools, NEW role, NEW enforce,
              NEW id, NEW token, NEW payload,
              \/ CallTool(c, tool, role, enforce, id, token, payload)
              \/ Consume(c, tool, enforce, id, token, payload)
       PROVE  Framed
  <2>1. UNCHANGED <<nextId, known, grants, audit, runs, confs, clock>>
      BY <1>10 DEF CallTool, Consume, history
  <2> QED
      BY <1>1, <2>1
<1>11. ASSUME UNCHANGED vars PROVE Framed
    BY <1>1, <1>11 DEF vars, history
<1>12. ASSUME NEW c \in Callers, Request(c) PROVE Framed
    BY <1>2, <1>10, <1>12 DEF Request
<1>13. ASSUME NEW c \in Callers, Step(c) PROVE Framed
    BY <1>3, <1>4, <1>5, <1>6, <1>9, <1>13 DEF Step
<1>14. Framed
    BY <1>7, <1>8, <1>11, <1>12, <1>13 DEF Next
<1> QED
    BY <1>14

\* A trail stays, as long as its row is not replaced.
LEMMA TrailStays ==
    ASSUME TypeOK, NEW i \in Ids, NEW kind, Trail(i, kind),
           [Next]_vars, TypeOK', i < nextId
    PROVE  Trail(i, kind)'
<1> USE ConfirmationsAssumption
<1> DEFINE Kept ==
        /\ grants'[i] = grants[i]
        /\ confs'[i] = None \/ (confs[i] # None /\ confs'[i] # None
                                  /\ confs'[i].expires = confs[i].expires)
        /\ clock' >= clock
<1>1. Kept
  <2>0. grants'[i] = grants[i]
      BY Frame
  <2>1. CASE UNCHANGED <<confs, clock>>
      BY <2>0, <2>1 DEF TypeOK
  <2>2. ASSUME NEW c \in Callers, NEW tool \in Tools, NEW enforce \in BOOLEAN,
               NEW payload \in Hashes, Prepare(c, tool, payload, enforce)
        PROVE Kept
      BY <2>2 DEF Prepare, TypeOK, Ids
  <2>3. CASE SweepConfirmations \/ Tick
      BY <2>3 DEF SweepConfirmations, Tick, TypeOK, history
  <2>4. ASSUME NEW c \in Callers, MarkUsed(c)
        PROVE Kept
    <3>1. CASE UNCHANGED confs
        BY <2>4, <3>1 DEF MarkUsed, TypeOK
    <3>2. CASE Open(call[c].id) /\ confs' = [confs EXCEPT ![call[c].id].used = TRUE]
      <4>1. call[c].id \in Ids /\ confs[call[c].id] \in Rows
          BY <2>4, <3>2 DEF MarkUsed, TypeOK, Open
      <4>2. confs'[call[c].id] = [confs[call[c].id] EXCEPT !.used = TRUE]
          BY <3>2, <4>1 DEF TypeOK
      <4>3. confs'[call[c].id].expires = confs[call[c].id].expires
          BY <4>1, <4>2 DEF Rows
      <4>4. confs'[call[c].id].used = TRUE
          BY <4>1, <4>2 DEF Rows
      <4>5. CASE i = call[c].id
          BY <2>4, <3>2, <4>2, <4>3, <4>5 DEF MarkUsed, Open, TypeOK
      <4>6. CASE i # call[c].id
          BY <2>4, <3>2, <4>1, <4>6 DEF MarkUsed, TypeOK
      <4> QED
          BY <4>5, <4>6
    <3> QED
        BY <2>4, <3>1, <3>2 DEF MarkUsed
  <2> QED
      BY <2>1, <2>2, <2>3, <2>4, Frame
<1>2. \A e \in audit :
         e \in audit' \/ (e.at < clock - AuditRetention /\ clock' = clock)
  <2>1. CASE SweepAudit
      BY <2>1 DEF SweepAudit, TypeOK
  <2> QED
      BY <2>1, Frame
<1>3. CASE confs'[i] = None
    BY <1>3 DEF Trail
<1>4. CASE confs'[i] # None
  <2>1. /\ confs[i] # None /\ confs'[i].expires = confs[i].expires
        /\ confs[i].expires \in Nat /\ clock \in Nat /\ clock' \in Nat
    <3>1. confs[i] \in Rows
        BY <1>1, <1>4 DEF TypeOK
    <3> QED
        BY <1>1, <1>4, <3>1 DEF TypeOK, Rows
  <2>2. CASE confs[i].expires - TTL < clock - AuditRetention
      BY <1>1, <2>1, <2>2 DEF Trail
  <2>3. ASSUME NEW e \in audit, e.kind = kind, e.id = i, e.tool = grants[i][1],
               e.at >= confs[i].expires - TTL
        PROVE  Trail(i, kind)'
    <3>1. e.at \in Nat
        BY DEF TypeOK
    <3>2. CASE e \in audit'
        BY <1>1, <2>1, <2>3, <3>2 DEF Trail
    <3>3. CASE e.at < clock - AuditRetention /\ clock' = clock
        BY <2>1, <2>3, <3>1, <3>3 DEF Trail
    <3> QED
        BY <1>2, <3>2, <3>3
  <2> QED
      BY <2>1, <2>2, <2>3 DEF Trail
<1> QED
    BY <1>3, <1>4

\* Every step keeps the trail, and a run finds it complete.
LEMMA TrailStep ==
    ASSUME TypeOK, TypeOK', GateInv, TrailInv, [Next]_vars
    PROVE  TrailInv'
<1> USE ConfirmationsAssumption
<1>1. ASSUME NEW i \in Ids, confs'[i] # None
      PROVE  confs'[i].expires - TTL <= clock'
  <2>1. CASE UNCHANGED <<confs, clock>>
      BY <1>1, <2>1 DEF TrailInv
  <2>2. ASSUME NEW c \in Callers, NEW tool \in Tools, NEW enforce \in BOOLEAN,
               NEW payload \in Hashes, Prepare(c, tool, payload, enforce)
        PROVE  confs'[i].expires - TTL <= clock'
    <3>1. CASE i = nextId
        BY <2>2, <3>1 DEF Prepare, TypeOK
    <3>2. CASE i # nextId
        BY <1>1, <2>2, <3>2 DEF Prepare, TypeOK, TrailInv
    <3> QED
        BY <3>1, <3>2
  <2>3. ASSUME NEW c \in Callers, MarkUsed(c)
        PROVE  confs'[i].expires - TTL <= clock'
    <3>1. CASE UNCHANGED confs
        BY <1>1, <2>3, <3>1 DEF MarkUsed, TrailInv
    <3>2. CASE Open(call[c].id) /\ confs' = [confs EXCEPT ![call[c].id].used = TRUE]
      <4>1. call[c].id \in Ids /\ confs[call[c].id] \in Rows
          BY <2>3, <3>2 DEF MarkUsed, TypeOK, Open
      <4>2. confs'[call[c].id].expires = confs[call[c].id].expires
          BY <3>2, <4>1 DEF TypeOK, Rows
      <4>3. confs[i] # None /\ confs'[i].expires = confs[i].expires
          BY <1>1, <3>2, <4>1, <4>2 DEF TypeOK, Open
      <4> QED
          BY <2>3, <4>3 DEF MarkUsed, TrailInv
    <3> QED
        BY <2>3, <3>1, <3>2 DEF MarkUsed
  <2>4. CASE SweepConfirmations
      BY <1>1, <2>4 DEF SweepConfirmations, TrailInv
  <2>5. CASE Tick
    <3>1. confs[i] \in Rows /\ confs'[i] = confs[i]
        BY <1>1, <2>5 DEF Tick, TypeOK
    <3> QED
        BY <2>5, <1>1, <3>1 DEF Tick, TrailInv, TypeOK, Rows
  <2> QED
      BY <2>1, <2>2, <2>3, <2>4, <2>5, Frame
<1>2. nextId' >= nextId /\ known \subseteq known'
    BY Frame
<1>3. ASSUME NEW i \in known' PROVE i < nextId' /\ Trail(i, "attempt")'
  <2>1. CASE i \in known
    <3>1. i \in Ids /\ i < nextId /\ Trail(i, "attempt")
        BY <2>1 DEF TrailInv, TypeOK
    <3>2. Trail(i, "attempt")'
        BY <3>1, TrailStays
    <3> QED
        BY <1>2, <3>1, <3>2 DEF TypeOK, Ids
  <2>2. CASE i \notin known
    <3>1. PICK c \in Callers : PrepareAudit(c)
        BY <2>2, Frame
    <3>2. i = call[c].id /\ call[c].pc = "prepared" /\ CallTrail(c) /\ i \in Ids
        BY <2>2, <3>1 DEF PrepareAudit, TrailInv, TypeOK
    <3>3. /\ i < nextId /\ grants[i][1] = call[c].tool
          /\ UNCHANGED <<grants, confs, nextId, clock>>
        BY <3>1, <3>2 DEF CallTrail, PrepareAudit, history
    <3>4. Event("attempt", call[c].tool, i) \in audit'
        BY <3>1, <3>2 DEF PrepareAudit
    <3>5. confs[i] # None => clock >= confs[i].expires - TTL
        BY <3>2 DEF TrailInv, TypeOK, Rows
    <3>6. Trail(i, "attempt")'
        BY <3>3, <3>4, <3>5 DEF Trail, Event
    <3> QED
        BY <3>3, <3>6
  <2> QED
      BY <2>1, <2>2
<1>4. ASSUME NEW c \in Callers PROVE CallTrail(c)'
  <2>0. CallTrail(c)
      BY DEF TrailInv
  <2>1. CASE call'[c].pc \in {"idle", "record"}
      BY <2>1 DEF CallTrail
  <2>2. CASE call'[c] = call[c]
    <3>1. ASSUME call[c].pc = "prepared"
          PROVE  grants'[call[c].id] = grants[call[c].id]
      <4>1. call[c] \in Prepares
          BY <3>1, PrepareType
      <4>2. call[c].id \in Ids /\ call[c].id < nextId
          BY <2>0, <3>1, <4>1 DEF CallTrail, Prepares
      <4> QED
          BY <4>2, Frame
    <3>2. ASSUME NEW i, i = call[c].id, call[c].pc = "run", i # 0
          PROVE  Trail(i, "claimed")'
      <4>1. i \in Ids /\ i < nextId /\ Trail(i, "claimed")
          BY <2>0, <3>2, ClaimType DEF CallTrail, Claims
      <4> QED
          BY <4>1, TrailStays
    <3>3. ASSUME call[c].id < nextId,
                 call[c].pc \in {"prepared", "mark", "audit", "run"}
          PROVE  call[c].id < nextId'
      <4>1. call[c].id \in Nat
          BY <3>3 DEF TypeOK, Claims, Prepares, Idle, Ids
      <4> QED
          BY <1>2, <3>3, <4>1 DEF TypeOK
    <3>4. call'[c].pc = "run" /\ call'[c].id # 0
             => (Trail(call[c].id, "claimed"))'
        BY <2>2, <3>2 DEF Trail
    <3>5. call'[c].pc = "prepared"
             => call'[c].id < nextId' /\ grants'[call'[c].id][1] = call'[c].tool
        BY <2>0, <2>2, <3>1, <3>3 DEF CallTrail
    <3>6. call'[c].pc \in {"verify", "mark", "audit", "run"}
             => call'[c].token \in known' \cup {0}
        BY <1>2, <2>0, <2>2 DEF CallTrail
    <3>7. call'[c].pc \in {"mark", "audit", "run"} /\ call'[c].id # 0
             => call'[c].token = call'[c].id /\ call'[c].id < nextId'
        BY <2>0, <2>2, <3>3 DEF CallTrail
    <3> QED
        BY <3>4, <3>5, <3>6, <3>7 DEF CallTrail
  <2>3. CASE call'[c] # call[c] /\ call'[c].pc \notin {"idle", "record"}
    <3>1. ASSUME NEW tool \in Tools, NEW enforce \in BOOLEAN,
                 NEW payload \in Hashes, Prepare(c, tool, payload, enforce)
          PROVE CallTrail(c)'
        BY <3>1 DEF Prepare, CallTrail, TypeOK, Ids
    <3>2. ASSUME NEW tool \in Tools, NEW enforce \in BOOLEAN,
                 NEW id \in Ids \cup {0}, NEW token \in known \cup {0},
                 NEW role \in Roles, NEW payload \in Payloads,
                 CallTool(c, tool, role, enforce, id, token, payload)
          PROVE CallTrail(c)'
        BY <3>2, <2>3 DEF CallTool, CallTrail, TypeOK, Requested
    <3>3. ASSUME NEW tool \in Tools, NEW enforce \in BOOLEAN,
                 NEW id \in Ids, NEW token \in known \cup {0},
                 NEW payload \in Hashes,
                 Consume(c, tool, enforce, id, token, payload)
          PROVE CallTrail(c)'
        BY <3>3 DEF Consume, CallTrail, TypeOK, Requested
    <3>4. CASE Verify(c)
      <4>1. call[c] \in Claims /\ call[c].id \in Ids
          BY <3>4, ClaimType DEF Verify, TypeOK
      <4>2. Valid(confs[call[c].id], call[c]) /\ Become(c, "mark")
          BY <2>3, <3>4, <4>1, LeavesAside DEF Verify
      <4>3. /\ call'[c].pc = "mark" /\ call'[c].id = call[c].id
            /\ call'[c].token = call[c].token
          BY <4>1, <4>2, BecomeMoves
      <4>4. call[c].id < nextId
        <5>1. grants[call[c].id] # None
          <6>1. confs[call[c].id] \in Rows
              BY <4>1, <4>2 DEF Valid, TypeOK
          <6>2. <<confs[call[c].id].tool, confs[call[c].id].payload>> \in Writes
              BY <6>1 DEF Rows, Writes
          <6> QED
              BY <4>1, <4>2, <6>2 DEF Valid, GateInv, RowInv
        <5> QED
          BY <4>1, <5>1 DEF GateInv, RowInv, TypeOK, Ids
      <4> QED
          BY <2>0, <3>4, <4>2, <4>3, <4>4 DEF Verify, Valid, CallTrail
    <3>5. CASE MarkUsed(c)
      <4>1. call[c] \in Claims /\ call[c].id \in Ids
          BY <3>5, ClaimType DEF MarkUsed, TypeOK
      <4>2. Become(c, "audit")
          BY <2>3, <3>5, <4>1, LeavesAside DEF MarkUsed
      <4>3. /\ call'[c].pc = "audit" /\ call'[c].id = call[c].id
            /\ call'[c].token = call[c].token
          BY <4>1, <4>2, BecomeMoves
      <4> QED
          BY <2>0, <3>5, <4>3 DEF MarkUsed, CallTrail
    <3>6. CASE ClaimAudit(c)
      <4>1. call[c] \in Claims /\ call[c].id \in Ids /\ call[c].pc = "audit"
          BY <3>6, ClaimType DEF ClaimAudit, TypeOK
      <4>2. Become(c, "run")
          BY <2>3, <3>6, <4>1, LeavesAside DEF ClaimAudit
      <4>3. /\ call'[c].pc = "run" /\ call'[c].id = call[c].id
            /\ call'[c].token = call[c].token
          BY <4>1, <4>2, BecomeMoves
      <4>4. /\ Event("claimed", call[c].tool, call[c].id) \in audit'
            /\ UNCHANGED <<grants, confs, nextId, clock, known>>
          BY <3>6 DEF ClaimAudit, history
      <4>5. grants[call[c].id][1] = call[c].tool
        <5>1. Claimed(c)
            BY <4>1 DEF Claimed, Ids
        <5>2. grants[call[c].id] = Write(c)
            BY <5>1 DEF GateInv, CallInv
        <5> QED
            BY <5>2 DEF Write
      <4>6. confs[call[c].id] # None => clock >= confs[call[c].id].expires - TTL
          BY <4>1 DEF TrailInv, TypeOK, Rows
      <4>7. ASSUME NEW i, i = call[c].id PROVE Trail(i, "claimed")'
          BY <4>4, <4>5, <4>6, <4>7 DEF Trail, Event
      <4>8. (Trail(call[c].id, "claimed"))'
          BY <4>3, <4>7 DEF Trail
      <4>9. /\ call'[c].token \in known' \cup {0}
            /\ call'[c].token = call'[c].id /\ call'[c].id < nextId'
        <5>1. call[c].id # 0
            BY <4>1 DEF Ids
        <5> QED
            BY <2>0, <4>1, <4>3, <4>4, <5>1 DEF CallTrail
      <4> QED
          BY <4>3, <4>8, <4>9 DEF CallTrail
    <3>7. ASSUME NEW d \in Callers,
                 \/ PrepareAudit(d) \/ Run(d) \/ Record(d)
                 \/ StatementFails(d) \/ Abort(d)
          PROVE  FALSE
      <4>1. call[d].pc = "prepared" \/ Abort(d) \/ call[d] \in Claims
          BY <3>7, ClaimType DEF PrepareAudit, Run, Record, StatementFails
      <4>2. \A e \in Callers \ {d} : call'[e] = call[e]
          BY <3>7, <4>1, LeavesAside
             DEF PrepareAudit, Run, Record, StatementFails, Abort, TypeOK, Idle
      <4>3. call'[d].pc \in {"idle", "record"}
          BY <3>7, <4>1, LeavesAside
             DEF PrepareAudit, Run, Record, StatementFails, Abort, TypeOK, Idle
      <4> QED
          BY <2>3, <4>2, <4>3
    <3>8. ASSUME NEW d \in Callers \ {c}, Request(d)
          PROVE  call'[c] = call[c]
        BY <3>8 DEF Request, Prepare, CallTool, Consume, TypeOK
    <3>9. ASSUME NEW d \in Callers \ {c}, Verify(d) \/ MarkUsed(d) \/ ClaimAudit(d)
          PROVE  call'[c] = call[c]
      <4>1. call[d] \in Claims
          BY <3>9, ClaimType DEF Verify, MarkUsed, ClaimAudit
      <4>2. \/ Outcome(d) \/ Become(d, "mark") \/ Become(d, "audit")
            \/ Become(d, "run")
          BY <3>9 DEF Verify, MarkUsed, ClaimAudit
      <4> QED
          BY <4>1, <4>2, LeavesAside, BecomeMoves
    <3>10. CASE Request(c)
        BY <3>1, <3>2, <3>3, <3>10 DEF Request
    <3>11. ASSUME NEW d \in Callers, Step(d) PROVE CallTrail(c)'
        BY <2>3, <3>4, <3>5, <3>6, <3>7, <3>9, <3>11 DEF Step
    <3>12. ASSUME UNCHANGED call PROVE FALSE
        BY <2>3, <3>12
    <3> QED
        BY <2>3, <3>8, <3>10, <3>11, <3>12
           DEF Next, Tick, SweepConfirmations, SweepAudit, vars
  <2> QED
      BY <2>1, <2>2, <2>3
<1> QED
    BY <1>1, <1>3, <1>4 DEF TrailInv

\* When a gated tool runs, its attempt and its claim are in the audit table,
\* as far as the tables reach back (PrepareConfirmation and ClaimConfirmation
\* audit before they hand out the token and before the tool runs).
THEOREM WritesAreAudited == Spec => RunsAreAudited
<1>1. Init => TrailInv
    BY DEF Init, TrailInv, CallTrail, Idle
<1>2. TypeOK /\ GateInv /\ TrailInv /\ [Next]_vars
        => [\A i \in Ids : runs'[i] # runs[i] =>
              \A kind \in {"attempt", "claimed"} :
                 \/ \E e \in audit : e.kind = kind /\ e.id = i /\ e.tool = grants[i][1]
                 \/ confs[i] = None
                 \/ confs[i].expires - TTL < clock - AuditRetention]_vars
  <2> SUFFICES ASSUME TypeOK, TrailInv, Next, NEW i \in Ids, runs'[i] # runs[i],
                      NEW kind \in {"attempt", "claimed"}
               PROVE  Trail(i, kind)
      BY DEF Trail, vars, history
  <2>1. PICK c \in Callers : Run(c)
      BY Frame
  <2>2. call[c].pc = "run" /\ call[c].id = i /\ i # 0
      BY <2>1, ClaimType DEF Run, TypeOK, Claims
  <2>3. i \in known
      BY <2>2 DEF TrailInv, CallTrail
  <2> QED
      BY <2>2, <2>3 DEF TrailInv, CallTrail
<1>3. TypeOK /\ GateInv /\ TrailInv /\ [Next]_vars /\ TypeOK' => TrailInv'
    BY TrailStep
<1>4. Init => GateInv
    BY ConfirmationsAssumption
       DEF Init, GateInv, RowInv, CallInv, Claimed, Open, Idle
<1> QED
    BY <1>1, <1>2, <1>3, <1>4, TypeCorrect, GateStep, PTL DEF Spec, RunsAreAudited

-----------------------------------------------------------------------------
(* No write around the confirmation                                        *)

\* A request that is about to run a tool without a confirmation.
Unconfirmed(c) == call[c].pc = "run" /\ call[c].id = 0

\* Such a request was let through because its tool needs none and its role
\* reaches the tool's scope.
BypassInv ==
    /\ NoBypass
    /\ \A c \in Callers : Unconfirmed(c) =>
          /\ ~Gated(call[c].tool)
          /\ RoleAllowsScope(call[c].role, Registry[call[c].tool].scope)

\* Only tools/call makes a request that runs without a confirmation: a claim
\* reaches "run" under its id.
LEMMA BypassStep == TypeOK /\ BypassInv /\ [Next]_vars => BypassInv'
<1> SUFFICES ASSUME TypeOK, BypassInv, [Next]_vars PROVE BypassInv'
    OBVIOUS
<1>1. NoBypass'
  <2>1. CASE bare' = bare
      BY <2>1 DEF BypassInv, NoBypass
  <2>2. CASE bare' # bare
    <3>1. ASSUME NEW d \in Callers, Request(d) PROVE bare' = bare
        BY <3>1 DEF Request, Prepare, CallTool, Consume, history
    <3>2. ASSUME NEW d \in Callers, Step(d), ~Run(d) PROVE bare' = bare
        BY <3>2 DEF Step, PrepareAudit, Verify, MarkUsed, ClaimAudit, Record,
                    StatementFails, Abort, history
    <3>3. PICK c \in Callers : Run(c)
        BY <2>2, <3>1, <3>2 DEF Next, Tick, SweepConfirmations, SweepAudit, vars, history
    <3>4. /\ call[c].pc = "run" /\ call[c].id = 0
          /\ bare' = bare \cup {<<call[c].tool, call[c].role>>}
        BY <2>2, <3>3 DEF Run
    <3> QED
        BY <3>4 DEF BypassInv, NoBypass, Unconfirmed
  <2> QED
      BY <2>1, <2>2
<1>2. ASSUME NEW c \in Callers, Unconfirmed(c)'
      PROVE  /\ ~Gated(call'[c].tool)
             /\ RoleAllowsScope(call'[c].role, Registry[call'[c].tool].scope)
  <2>1. CASE call'[c] = call[c]
      BY <1>2, <2>1 DEF BypassInv, Unconfirmed
  <2>2. CASE call'[c] # call[c]
    <3>0. call \in [Callers -> Claims \cup Prepares \cup {Idle}]
        BY DEF TypeOK
    <3>1. ASSUME NEW d \in Callers, Step(d) PROVE FALSE
      <4>1. CASE PrepareAudit(d) \/ Record(d) \/ Abort(d)
        <5>1. call'[d] = Idle /\ (c # d => call'[c] = call[c])
            BY <3>0, <4>1, ClaimType
               DEF PrepareAudit, Record, Abort
        <5> QED
            BY <1>2, <2>2, <5>1 DEF Unconfirmed, Idle
      <4>2. CASE Verify(d) \/ MarkUsed(d) \/ Run(d) \/ StatementFails(d)
        <5>1. call[d] \in Claims
            BY <4>2, ClaimType DEF Verify, MarkUsed, Run, StatementFails
        <5>2. Outcome(d) \/ Become(d, "mark") \/ Become(d, "audit")
            BY <4>2 DEF Verify, MarkUsed, Run, StatementFails
        <5>3. (c # d => call'[c] = call[c]) /\ call'[d].pc # "run"
            BY <5>1, <5>2, LeavesAside, BecomeMoves
        <5> QED
            BY <1>2, <2>2, <5>3 DEF Unconfirmed
      <4>3. CASE ClaimAudit(d)
        <5>1. call[d] \in Claims /\ call[d].id \in Ids
            BY <4>3, ClaimType DEF ClaimAudit, TypeOK
        <5>2. Outcome(d) \/ Become(d, "run")
            BY <4>3 DEF ClaimAudit
        <5>3. /\ c # d => call'[c] = call[c]
              /\ call'[d].pc = "run" => call'[d].id = call[d].id
            BY <5>1, <5>2, LeavesAside, BecomeMoves
        <5> QED
            BY <1>2, <2>2, <5>1, <5>3 DEF Unconfirmed, Ids
      <4> QED
          BY <3>1, <4>1, <4>2, <4>3 DEF Step
    <3>2. ASSUME NEW d \in Callers, Request(d), d # c PROVE FALSE
        BY <2>2, <3>0, <3>2 DEF Request, Prepare, CallTool, Consume
    <3>3. CASE Request(c)
      <4>1. PICK tool \in Tools, enforce \in BOOLEAN :
              \/ \E payload \in Hashes : Prepare(c, tool, payload, enforce)
              \/ \E id \in Ids \cup {0}, token \in known \cup {0}, role \in Roles,
                    payload \in Payloads :
                       CallTool(c, tool, role, enforce, id, token, payload)
              \/ \E id \in Ids, token \in known \cup {0}, payload \in Hashes :
                    Consume(c, tool, enforce, id, token, payload)
          BY <3>3 DEF Request
      <4>2. ASSUME NEW payload \in Hashes, Prepare(c, tool, payload, enforce) PROVE FALSE
          BY <1>2, <3>0, <4>2 DEF Prepare, Unconfirmed
      <4>3. ASSUME NEW id \in Ids, NEW token, NEW payload \in Hashes,
                   Consume(c, tool, enforce, id, token, payload)
            PROVE FALSE
          BY <1>2, <3>0, <4>3 DEF Consume, Requested, Unconfirmed
      <4>4. ASSUME NEW id \in Ids \cup {0}, NEW token, NEW role \in Roles,
                   NEW payload \in Payloads,
                   CallTool(c, tool, role, enforce, id, token, payload)
            PROVE  /\ ~Gated(call'[c].tool)
                   /\ RoleAllowsScope(call'[c].role, Registry[call'[c].tool].scope)
          BY <1>2, <2>2, <3>0, <4>4 DEF CallTool, Requested, Unconfirmed, Allowed
      <4> QED
          BY <4>1, <4>2, <4>3, <4>4
    <3>4. call' # call
        BY <2>2
    <3> QED
        BY <3>1, <3>2, <3>3, <3>4
           DEF Next, Tick, SweepConfirmations, SweepAudit, vars
  <2> QED
      BY <2>1, <2>2
<1> QED
    BY <1>1, <1>2 DEF BypassInv, Unconfirmed

\* Without a confirmation only tools that need none ever run, and only for
\* roles their scope admits (CallTool, Authorize).
THEOREM NeverBypassed == Spec => []NoBypass
<1>1. Init => BypassInv
    BY DEF Init, BypassInv, NoBypass, Unconfirmed, Idle
<1>2. BypassInv => NoBypass
    BY DEF BypassInv
<1> QED
    BY <1>1, <1>2, TypeCorrect, BypassStep, PTL DEF Spec

=============================================================================
