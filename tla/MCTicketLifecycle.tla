-------------------------- MODULE MCTicketLifecycle --------------------------
(* TicketLifecycle over the bootstrapped helpdesk workflow. *)
EXTENDS TicketRefinement, HelpdeskWorkflow, TLC

ASSUME HelpdeskIsWellShaped == WellShaped

Symmetry == Permutations(Procs) \cup Permutations(Techs)
=============================================================================
