---------------------------- MODULE MCDecisionLog ----------------------------
(***************************************************************************)
(* Instances of DecisionLog for TLC: the coalescing window is two ticks    *)
(* and the hour three, so that each ends within MaxTime.                   *)
(***************************************************************************)
EXTENDS DecisionLog

\* What one kind of traffic does to the table does not depend on another,
\* but for the two budgets' trips and for the connection they share.
MCMixes == {{"acl_check", "acl_reject"}, {"acl_check", "auto_reject"},
            {"submit", "auto_reject"}}
=============================================================================
