----------------------------- MODULE WriteGate -----------------------------
(***************************************************************************)
(* What the confirmation boundary of the agent tools promises, whatever    *)
(* the number of callers: a write is approved for one tool and payload,    *)
(* the approval is used at most once, and what then runs is what was      *)
(* approved, once.  Module Confirmations implements this.                  *)
(***************************************************************************)
EXTENDS Integers, Sequences

CONSTANTS
    Ids,     \* approvals
    Writes,  \* what can be approved: a tool and its payload
    None     \* not approved yet

VARIABLES
    approved,  \* what each approval allows
    used,   \* approvals that were used up
    ran     \* what ran under each approval

vars == <<approved, used, ran>>

Init ==
    /\ approved = [i \in Ids |-> None]
    /\ used = {}
    /\ ran = [i \in Ids |-> <<>>]

Approve(i, w) ==
    /\ approved[i] = None
    /\ approved' = [approved EXCEPT ![i] = w]
    /\ UNCHANGED <<used, ran>>

Spend(i) ==
    /\ approved[i] # None /\ i \notin used
    /\ used' = used \cup {i}
    /\ UNCHANGED <<approved, ran>>

Run(i) ==
    /\ i \in used /\ ran[i] = <<>>
    /\ ran' = [ran EXCEPT ![i] = <<approved[i]>>]
    /\ UNCHANGED <<approved, used>>

Next == \E i \in Ids : (\E w \in Writes : Approve(i, w)) \/ Spend(i) \/ Run(i)

Spec == Init /\ [][Next]_vars

=============================================================================
