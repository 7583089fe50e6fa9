--------------------------- MODULE TicketContract ---------------------------
(***************************************************************************)
(* What the helpdesk promises about a ticket, whichever handlers, sweeps   *)
(* and failures act on it: the phases it goes through, how often it comes  *)
(* back, and that the verdict on its SLA stands.                           *)
(*                                                                         *)
(* A ticket in disputed was written by somebody who acted on an old read.  *)
(* Its phase is then no longer promised; the limit on reopenings and the   *)
(* verdict still are.                                                      *)
(***************************************************************************)
EXTENDS Naturals

CONSTANTS
  Tickets,
  Limit,     \* how often a ticket may be reopened
  Routes     \* pairs of phases that the workflow connects

VARIABLES phase, reopened, sla, disputed

vars == <<phase, reopened, sla, disputed>>

Phases == {"none", "open", "waiting", "validation", "closed"}
Verdicts == {"met", "breached"}

\* A clock starts, stops and restarts, and ends with a verdict.
ClockSteps == {<<"none", "running">>, <<"running", "stopped">>, <<"stopped", "running">>}
                \cup ({"running", "stopped"} \X Verdicts)

Init ==
  /\ phase = [t \in Tickets |-> "none"]
  /\ reopened = [t \in Tickets |-> 0]
  /\ sla = [t \in Tickets |-> "none"]
  /\ disputed = {}

ClockRuns(t) == sla'[t] = sla[t] \/ <<sla[t], sla'[t]>> \in ClockSteps

Opens(t) == phase[t] = "none" /\ phase'[t] = "open" /\ UNCHANGED reopened[t] /\ ClockRuns(t)

Proceeds(t) ==
  /\ phase'[t] = phase[t] \/ <<phase[t], phase'[t]>> \in Routes
  /\ UNCHANGED reopened[t]
  /\ ClockRuns(t)

\* Every return to work is counted; one from closed may void the verdict.
Reopens(t) ==
  /\ phase[t] \in {"validation", "closed"} /\ phase'[t] = "open"
  /\ reopened'[t] = reopened[t] + 1 /\ reopened'[t] <= Limit
  /\ \/ ClockRuns(t)
     \/ phase[t] = "closed" /\ sla[t] \in Verdicts /\ sla'[t] = "running"

\* A write on an old read.  The SLA and the limit are kept all the same.
Errs(t) ==
  /\ t \in disputed' /\ phase'[t] \in Phases
  /\ reopened'[t] \in 0 .. Limit
  /\ ClockRuns(t)

\* One statement may touch many tickets, each in its own way.
Next ==
  /\ \A t \in Tickets : Opens(t) \/ Proceeds(t) \/ Reopens(t) \/ Errs(t)
  /\ disputed \subseteq disputed'

Spec == Init /\ [][Next]_vars
=============================================================================
