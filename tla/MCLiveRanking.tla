--------------------------- MODULE MCLiveRanking ---------------------------
(* A finite instance of LiveRanking for TLC: three users, of whom any may  *)
(* be there at first, and a cache of two events.                           *)
EXTENDS LiveRanking, TLC

Symmetry == Permutations(User)
============================================================================
