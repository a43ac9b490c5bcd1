------------------------------ MODULE MCSession ------------------------------
(* Session for TLC.  Streams are interchangeable.                             *)
EXTENDS Session, TLC

HblockSymmetry == Permutations(Hblocks)
=============================================================================
