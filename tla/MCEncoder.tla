------------------------------ MODULE MCEncoder ------------------------------
(* Encoder with three fields: two that share a name, and one whose name is in *)
(* the static table.  F4 is F2 with a value that makes it fill a table of 4.  *)
EXTENDS Encoder, TLC

F1 == [name |-> 1, val |-> 1, nsize |-> 2, vsize |-> 0, static |-> "none"]
F2 == [name |-> 1, val |-> 2, nsize |-> 2, vsize |-> 1, static |-> "none"]
F3 == [name |-> 2, val |-> 1, nsize |-> 2, vsize |-> 0, static |-> "name"]
F4 == [name |-> 1, val |-> 2, nsize |-> 2, vsize |-> 2, static |-> "none"]

MCFields == {F1, F3, F4}
MCTwoFields == {F1, F2}
StreamSymmetry == Permutations(Streams)
=============================================================================
