--------------------------- MODULE HelpdeskWorkflow ---------------------------
(***************************************************************************)
(* The workflow that bootstrapping a helpdesk module writes into           *)
(* tickets.states and tickets.transitions.  A workflow is data of the      *)
(* program: TicketLifecycle takes any as a parameter, and the model        *)
(* checking modules give it this one.                                      *)
(***************************************************************************)

WfStates   == {"abierto", "en_proceso", "en_espera", "resuelto", "rechazado", "cerrado"}
WfInitial  == "abierto"
WfPause    == {"en_espera"}
WfApproval == {"resuelto"}
WfFinal    == {"rechazado", "cerrado"}

\* Pairs <<from_state, to_state>>.  Every transition lists roles that may
\* execute it and none lists an empty set, so each is available to someone.
WfEdges == { <<"abierto",    "en_proceso">>,   \* Tomar ticket
             <<"en_proceso", "en_espera">>,    \* Solicitar informacion
             <<"en_espera",  "en_proceso">>,   \* Reanudar
             <<"en_proceso", "resuelto">>,     \* Marcar resuelto
             <<"resuelto",   "cerrado">>,      \* Cerrar
             <<"resuelto",   "en_proceso">>,   \* Reabrir
             <<"en_proceso", "rechazado">> }   \* Rechazar
=============================================================================
