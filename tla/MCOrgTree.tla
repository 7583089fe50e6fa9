----------------------------- MODULE MCOrgTree -----------------------------
(* A small instance of OrgTree: one node below another when the calls begin *)
EXTENDS OrgTree, TLC

CONSTANTS n1, n2, n3

OneBelow == (n1 :> None) @@ (n2 :> n1)
=============================================================================
