------------------------------ MODULE MCTrash ------------------------------
(* Small instances of Trash: u1 has a ticket assignment, r1 is a request of *)
(* u2, and the asset a1 was assigned.                                       *)
EXTENDS Trash, TLC

CONSTANTS u1, u2, r1, a1

Kinds == [i \in Items |-> CASE i \in {u1, u2} -> "users"
                            [] i = r1 -> "requests" [] i = a1 -> "assets"]
RequestRefers == [i \in Items |-> IF i = r1 THEN Items \cap {u2} ELSE {}]
=============================================================================
