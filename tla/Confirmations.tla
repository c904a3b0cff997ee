--------------------------- MODULE Confirmations ---------------------------
(***************************************************************************)
(* Agent writes behind a one-time confirmation.                            *)
(*                                                                         *)
(* A client prepares a confirmation for a tool and a payload, over HTTP or *)
(* with the MCP tool prepare_confirmation, and gets an id and a token.     *)
(* tools/call of a gated tool presents them: ClaimConfirmation verifies    *)
(* the stored record, marks it used with a compare-and-set, audits the     *)
(* claim, and only then does the tool run.  The HTTP consume route claims  *)
(* without running anything.  Callers repeat and overlap, statements fail, *)
(* requests are cancelled and the process may end between any two          *)
(* statements; the daily sweep deletes old rows.                           *)
(*                                                                         *)
(* A token is random and its hash is unique, so the id it was issued with  *)
(* stands for it, and 0 for a token that was never issued; a payload       *)
(* stands for its hash.  A prepare request may leave the payload out       *)
(* (Null), which no tools/call can match: there it is always an object.    *)
(***************************************************************************)
EXTENDS Integers, Sequences

CONSTANTS
    Callers,         \* concurrent requests
    Tools,           \* tools of the registry
    Registry,        \* their permission, scope, review and audit policy
    Payloads,        \* argument objects
    Null,            \* the payload of a request without one
    None,            \* no row
    TTL,             \* token lifetime, the same for all tools
    Retention,       \* a confirmation is swept this long after it expired
    AuditRetention,  \* an audit event this long after it was written
    MaxId,           \* bound on confirmations prepared
    MaxCalls,        \* bound on claims
    MaxClock         \* bound on time

Roles == {"viewer", "analyst", "maintainer", "operator"}
Scopes == {"read", "maintenance", "external_context", "write", "disabled"}
Permissions == {"allowed", "requires_confirmation", "disabled"}

Ids == 1..MaxId
Hashes == Payloads \cup {Null}
Writes == Tools \X Hashes

ASSUME ConfirmationsAssumption ==
    /\ Registry \in [Tools -> [permission : Permissions, scope : Scopes,
                               review : BOOLEAN, record : BOOLEAN]]
    /\ TTL \in Nat \ {0} /\ Retention \in Nat /\ AuditRetention \in Nat
    /\ MaxId \in Nat /\ MaxCalls \in Nat /\ MaxClock \in Nat
    /\ Null \notin Payloads
    /\ None \notin Writes

VARIABLES
    clock,
    confs,    \* agent_confirmations, by id
    nextId,   \* its AUTOINCREMENT
    audit,    \* rows of agent_audit_events
    known,    \* ids whose token was returned to a client
    call,     \* what each request is in the middle of
    calls,    \* counter of the bound
    grants,   \* history: what each id was prepared for
    spent,    \* history: ids that were marked used
    runs,     \* history: what ran under each id
    bare      \* history: <<tool, role>> that ran without a confirmation

history == <<grants, spent, runs, bare>>
vars == <<clock, confs, nextId, audit, known, call, calls, history>>

Idle == [pc |-> "idle"]

-----------------------------------------------------------------------------
(* The registry                                                            *)

RoleScopes ==
    [viewer     |-> {"read"},
     analyst    |-> {"read", "external_context"},
     maintainer |-> {"read", "maintenance", "external_context"},
     operator   |-> {"read", "maintenance", "external_context", "write"}]

RoleAllowsScope(role, scope) == scope \in RoleScopes[role]

Gated(tool) == Registry[tool].permission = "requires_confirmation"

\* Mutant of Allowed: the role is not consulted.
AllowedAnyRole(tool, role, enforce) ==
    /\ Registry[tool].permission # "disabled"
    /\ Registry[tool].scope # "disabled"
    /\ ~(enforce /\ Registry[tool].review)

\* Authorize, but for the confirmation: every other reason to deny.
Allowed(tool, role, enforce) ==
    /\ Registry[tool].permission # "disabled"
    /\ Registry[tool].scope # "disabled"
    /\ ~(enforce /\ Registry[tool].review)
    /\ RoleAllowsScope(role, Registry[tool].scope)

-----------------------------------------------------------------------------
(* Prepare                                                                 *)

\* A row of the audit table.  It names the tool; the id of the confirmation
\* it belongs to is history, the row does not hold it.
Event(kind, tool, id) == [kind |-> kind, tool |-> tool, id |-> id, at |-> clock]

\* PrepareConfirmation up to Save.  Both routes ask as an operator: the MCP
\* route is a tool of scope write, which no other role may call.
Prepare(c, tool, payload, enforce) ==
    /\ call[c] = Idle
    /\ Allowed(tool, "operator", enforce) /\ Gated(tool)
    /\ nextId <= MaxId
    /\ confs' = [confs EXCEPT ![nextId] =
          [tool |-> tool, payload |-> payload, expires |-> clock + TTL,
           used |-> FALSE]]
    /\ grants' = [grants EXCEPT ![nextId] = <<tool, payload>>]
    /\ nextId' = nextId + 1
    /\ call' = [call EXCEPT ![c] = [pc |-> "prepared", id |-> nextId,
                                    tool |-> tool]]
    /\ UNCHANGED <<clock, audit, known, calls, spent, runs, bare>>

\* The attempt is audited, then the token goes to the client.
PrepareAudit(c) ==
    /\ call[c].pc = "prepared"
    /\ audit' = audit \cup {Event("attempt", call[c].tool, call[c].id)}
    /\ known' = known \cup {call[c].id}
    /\ call' = [call EXCEPT ![c] = Idle]
    /\ UNCHANGED <<clock, confs, nextId, calls, history>>

-----------------------------------------------------------------------------
(* Claim and run                                                           *)

Become(c, label) == call' = [call EXCEPT ![c].pc = label]

\* After a claim was refused or a tool has returned: tools/call records the
\* outcome where the tool's audit policy says so, the HTTP route replies.
Outcome(c) ==
    IF call[c].kind = "mcp" /\ Registry[call[c].tool].record
    THEN Become(c, "record")
    ELSE call' = [call EXCEPT ![c] = Idle]

Requested(label, kind, tool, role, id, token, payload) ==
    [pc |-> label, kind |-> kind, tool |-> tool, role |-> role, id |-> id,
     token |-> token, payload |-> payload]

\* Mutant of CallTool: the check of confirmation_id is missing.
CallToolNoId(c, tool, role, enforce, id, token, payload) ==
    LET ok == Allowed(tool, role, enforce)
        Go(label) == call' = [call EXCEPT ![c] =
              Requested(label, "mcp", tool, role, id, token, payload)]
    IN
    /\ call[c] = Idle
    /\ calls < MaxCalls /\ calls' = calls + 1
    /\ ~Gated(tool) => id = 0
    /\ \/ ok /\ Gated(tool) /\ Go("verify")
       \/ ok /\ ~Gated(tool) /\ Go("run")
    /\ UNCHANGED <<clock, confs, nextId, audit, known, history>>

\* tools/call: refused (id 0 is a gated call without a confirmation), sent
\* to the claim, or run at once.
CallTool(c, tool, role, enforce, id, token, payload) ==
    LET ok == Allowed(tool, role, enforce)
        Go(label) == call' = [call EXCEPT ![c] =
              Requested(label, "mcp", tool, role, id, token, payload)]
    IN
    /\ call[c] = Idle
    /\ calls < MaxCalls /\ calls' = calls + 1
    /\ ~Gated(tool) => id = 0
    /\ \/ /\ ~ok \/ (Gated(tool) /\ id = 0)
          /\ IF Registry[tool].record THEN Go("record") ELSE UNCHANGED call
       \/ ok /\ Gated(tool) /\ id # 0 /\ Go("verify")
       \/ ok /\ ~Gated(tool) /\ Go("run")
    /\ UNCHANGED <<clock, confs, nextId, audit, known, history>>

\* POST /api/agent/confirmations/{id}/consume.
Consume(c, tool, enforce, id, token, payload) ==
    /\ call[c] = Idle
    /\ calls < MaxCalls /\ calls' = calls + 1
    /\ Allowed(tool, "operator", enforce) /\ Gated(tool)
    /\ call' = [call EXCEPT ![c] =
          Requested("verify", "http", tool, "operator", id, token, payload)]
    /\ UNCHANGED <<clock, confs, nextId, audit, known, history>>

\* Get and Verify.
Valid(row, k) ==
    /\ row # None
    /\ row.tool = k.tool /\ row.payload = k.payload
    /\ k.token = k.id
    /\ ~row.used /\ clock < row.expires

Verify(c) ==
    /\ call[c].pc = "verify"
    /\ IF Valid(confs[call[c].id], call[c]) THEN Become(c, "mark")
       ELSE Outcome(c)
    /\ UNCHANGED <<clock, confs, nextId, audit, known, calls, history>>

\* Whether the row is there and not used.
Open(i) == confs[i] # None /\ ~confs[i].used

\* Mutant of MarkUsed: UPDATE ... WHERE id = ?, without used_at IS NULL.
MarkUsedAnyway(c) ==
    LET k == call[c] IN
    /\ k.pc = "mark" /\ confs[k.id] # None
    /\ confs' = [confs EXCEPT ![k.id].used = TRUE]
    /\ spent' = spent \cup {k.id}
    /\ Become(c, "audit")
    /\ UNCHANGED <<clock, nextId, audit, known, calls, grants, runs, bare>>

\* UPDATE ... SET used_at WHERE id = ? AND used_at IS NULL; an update that
\* matches no row lost the race.  The answer to an update that matched may
\* still be lost, which burns the confirmation.
MarkUsed(c) ==
    LET k == call[c] IN
    /\ k.pc = "mark"
    /\ \/ /\ Open(k.id)
          /\ confs' = [confs EXCEPT ![k.id].used = TRUE]
          /\ spent' = spent \cup {k.id}
          /\ Become(c, "audit") \/ Outcome(c)
       \/ /\ ~Open(k.id)
          /\ Outcome(c)
          /\ UNCHANGED <<confs, spent>>
    /\ UNCHANGED <<clock, nextId, audit, known, calls, grants, runs, bare>>

\* The claim is audited, and the HTTP route is done.
ClaimAudit(c) ==
    /\ call[c].pc = "audit"
    /\ audit' = audit \cup {Event("claimed", call[c].tool, call[c].id)}
    /\ IF call[c].kind = "mcp" THEN Become(c, "run") ELSE Outcome(c)
    /\ UNCHANGED <<clock, confs, nextId, known, calls, history>>

\* The tool writes, and may still return an error; or it fails before.
Run(c) ==
    LET k == call[c] IN
    /\ k.pc = "run"
    /\ \/ /\ k.id # 0
          /\ runs' = [runs EXCEPT ![k.id] = Append(@, <<k.tool, k.payload>>)]
          /\ UNCHANGED bare
       \/ /\ k.id = 0
          /\ bare' = bare \cup {<<k.tool, k.role>>}
          /\ UNCHANGED runs
       \/ UNCHANGED <<runs, bare>>
    /\ Outcome(c)
    /\ UNCHANGED <<clock, confs, nextId, audit, known, calls, grants, spent>>

\* RecordExecution, best effort.
Record(c) ==
    /\ call[c].pc = "record"
    /\ \/ audit' = audit \cup {Event("execution", call[c].tool, call[c].id)}
       \/ UNCHANGED audit
    /\ call' = [call EXCEPT ![c] = Idle]
    /\ UNCHANGED <<clock, confs, nextId, known, calls, history>>

\* Mutant of StatementFails: a failed audit of the claim is ignored.
StatementFailsRuns(c) ==
    /\ call[c].pc \in {"verify", "mark", "audit"}
    /\ IF call[c].pc = "audit" /\ call[c].kind = "mcp" THEN Become(c, "run")
       ELSE Outcome(c)
    /\ UNCHANGED <<clock, confs, nextId, audit, known, calls, history>>

\* A statement of the claim fails: the call is denied, burned or not.
StatementFails(c) ==
    /\ call[c].pc \in {"verify", "mark", "audit"}
    /\ Outcome(c)
    /\ UNCHANGED <<clock, confs, nextId, audit, known, calls, history>>

\* The request is cancelled, the process ends, or a prepare fails.
Abort(c) ==
    /\ call[c] # Idle
    /\ call' = [call EXCEPT ![c] = Idle]
    /\ UNCHANGED <<clock, confs, nextId, audit, known, calls, history>>

-----------------------------------------------------------------------------
(* Time and the daily sweep                                                *)

Tick ==
    /\ clock < MaxClock /\ clock' = clock + 1
    /\ UNCHANGED <<confs, nextId, audit, known, call, calls, history>>

SweepConfirmations ==
    /\ confs' = [i \in Ids |->
          IF confs[i] # None /\ confs[i].expires < clock - Retention
          THEN None ELSE confs[i]]
    /\ UNCHANGED <<clock, nextId, audit, known, call, calls, history>>

SweepAudit ==
    /\ audit' = {e \in audit : e.at >= clock - AuditRetention}
    /\ UNCHANGED <<clock, confs, nextId, known, call, calls, history>>

-----------------------------------------------------------------------------

Init ==
    /\ clock = 0
    /\ confs = [i \in Ids |-> None] /\ nextId = 1
    /\ audit = {} /\ known = {}
    /\ call = [c \in Callers |-> Idle]
    /\ calls = 0
    /\ grants = [i \in Ids |-> None]
    /\ spent = {}
    /\ runs = [i \in Ids |-> <<>>]
    /\ bare = {}

\* A client presents any id with any token it was given, or a wrong one.
Request(c) ==
    \E tool \in Tools, enforce \in BOOLEAN :
        \/ \E payload \in Hashes : Prepare(c, tool, payload, enforce)
        \/ \E id \in Ids \cup {0}, token \in known \cup {0}, role \in Roles,
              payload \in Payloads :
                 CallTool(c, tool, role, enforce, id, token, payload)
        \/ \E id \in Ids, token \in known \cup {0}, payload \in Hashes :
              Consume(c, tool, enforce, id, token, payload)

Step(c) ==
    \/ PrepareAudit(c) \/ Verify(c) \/ MarkUsed(c) \/ ClaimAudit(c)
    \/ Run(c) \/ Record(c) \/ StatementFails(c) \/ Abort(c)

Next ==
    \/ Tick \/ SweepConfirmations \/ SweepAudit
    \/ \E c \in Callers : Request(c) \/ Step(c)

Spec == Init /\ [][Next]_vars

-----------------------------------------------------------------------------
(* Properties                                                              *)

Rows == [tool : Tools, payload : Hashes, expires : Nat, used : BOOLEAN]
Prepares == [pc : {"prepared"}, id : Ids, tool : Tools]
Claims ==
    [pc : {"verify", "mark", "audit", "run", "record"}, kind : {"mcp", "http"},
     tool : Tools, role : Roles, id : Ids \cup {0}, token : Ids \cup {0},
     payload : Hashes]

\* Tables and requests have their types; a request that claims has an id.
TypeOK ==
    /\ clock \in Nat
    /\ confs \in [Ids -> Rows \cup {None}] /\ nextId \in 1..(MaxId + 1)
    /\ audit \subseteq [kind : {"attempt", "claimed", "execution"},
                        tool : Tools, id : Ids \cup {0}, at : Nat]
    /\ known \subseteq Ids
    /\ call \in [Callers -> Claims \cup Prepares \cup {Idle}]
    /\ \A c \in Callers : call[c].pc \in {"verify", "mark", "audit"}
                             => call[c].id \in Ids
    /\ calls \in Nat
    /\ grants \in [Ids -> Writes \cup {None}]
    /\ spent \subseteq Ids
    /\ runs \in [Ids -> Seq(Writes)]
    /\ bare \subseteq Tools \X Roles

\* "Concurrent tools/call with the same confirmation_id+token: exactly one
\* claimer wins", and what runs is the tool and payload it was prepared for:
\* the boundary implements the write gate.
Gate == INSTANCE WriteGate WITH approved <- grants, used <- spent, ran <- runs
GateSpec == Gate!Spec

\* No write without its trail: when a gated tool runs, the attempt that
\* prepared it and the claim that authorised it are both in the audit table,
\* as far as both tables reach back ("Audit failure after mark still leaves
\* token burned").
RunsAreAudited ==
    [][\A i \in Ids : runs'[i] # runs[i] =>
          \A kind \in {"attempt", "claimed"} :
             \/ \E e \in audit : e.kind = kind /\ e.id = i /\ e.tool = grants[i][1]
             \/ confs[i] = None
             \/ confs[i].expires - TTL < clock - AuditRetention]_vars

\* Without a confirmation only tools that need none run, and only for roles
\* the scope admits ("Bare confirmed=true is not accepted").
NoBypass ==
    \A x \in bare : ~Gated(x[1]) /\ RoleAllowsScope(x[2], Registry[x[1]].scope)

=============================================================================
