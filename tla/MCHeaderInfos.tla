---------------------------- MODULE MCHeaderInfos ----------------------------
(* HeaderInfos for TLC: the configurations give the constants.  Streams are   *)
(* interchangeable, so states that differ by a renaming of them are merged    *)
(* in the runs that check no liveness property.                               *)
EXTENDS HeaderInfos, TLC

StreamSymmetry == Permutations(Streams)
=============================================================================
