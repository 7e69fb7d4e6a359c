------------------------------ MODULE MCOutbox ------------------------------
(* Small instances of Outbox for TLC.                                      *)
EXTENDS Outbox, TLC

Symmetry == Permutations(Workers) \cup Permutations(Recipients)
=============================================================================
