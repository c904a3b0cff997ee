-------------------------- MODULE MCConfirmations --------------------------
(* Instances of Confirmations for TLC. *)
EXTENDS Confirmations, TLC

Symmetry == Permutations(Callers)

Tool(permission, scope, review, record) ==
    [permission |-> permission, scope |-> scope, review |-> review,
     record |-> record]

\* A gated write, a gated maintenance tool whose policy awaits review, a
\* report anybody but a viewer may read and a disabled boundary tool.
MCRegistry ==
    [add_fund   |-> Tool("requires_confirmation", "write", FALSE, TRUE),
     crawl_nav  |-> Tool("requires_confirmation", "maintenance", TRUE, TRUE),
     get_report |-> Tool("allowed", "external_context", FALSE, FALSE),
     transfer   |-> Tool("disabled", "disabled", FALSE, FALSE)]
MCTools == DOMAIN MCRegistry
=============================================================================
