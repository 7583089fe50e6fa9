----------------------------- MODULE MCCustody -----------------------------
(* Small instances of Custody: users and calls are interchangeable.         *)
EXTENDS Custody, TLC

Symmetry == Permutations(Users) \cup Permutations(Slots)
=============================================================================
