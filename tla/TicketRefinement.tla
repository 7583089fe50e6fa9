-------------------------- MODULE TicketRefinement --------------------------
(***************************************************************************)
(* TicketLifecycle implements TicketContract: the mapping from rows of the *)
(* database to what the helpdesk promises.                                 *)
(***************************************************************************)
EXTENDS TicketLifecycle

Phase == [s \in States \cup {None} |->
            IF s = None THEN "none"
            ELSE IF s \in Final THEN "closed"
            ELSE IF s \in Approval THEN "validation"
            ELSE IF s \in Pause THEN "waiting" ELSE "open"]

\* A ticket starts, and starts again, in a phase where somebody works on it.
ASSUME InitialAssumption == Initial \in Working

PhaseMoves == {<<Phase[e[1]], Phase[e[2]]>> : e \in Edges}

Sla == [c \in ClockStatus |-> CASE c = "active" -> "running"
                                [] c = "paused" -> "stopped"
                                [] OTHER        -> c]

Contract == INSTANCE TicketContract WITH
  Limit    <- MaxReopen,
  Routes   <- PhaseMoves,
  phase    <- [t \in Tickets |-> Phase[st[t]]],
  reopened <- reprocess,
  sla      <- [t \in Tickets |-> Sla[clock[t].status]],
  disputed <- overwritten

\* Statement by statement, with handlers and sweeps interleaved and any of them
\* failing half way, the code keeps the contract.
ImplementsContract == Contract!Spec
=============================================================================
