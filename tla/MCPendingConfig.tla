------------------------- MODULE MCPendingConfig -------------------------
(* Instances of PendingConfig: the two forms that stage changes. *)
EXTENDS PendingConfig, TLC
CONSTANTS company, priorities, l1, l2
TwoForms == {company, priorities}
TwoLines == {l1, l2}
==========================================================================
