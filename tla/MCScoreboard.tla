---------------------------- MODULE MCScoreboard ----------------------------
(* Finite instances of Scoreboard for TLC.                                 *)
EXTENDS Scoreboard

Once(kinds) == [k \in Disturbance |-> IF k \in kinds THEN 1 ELSE 0]

Disturbances ==
  {Once({"token", "proxyCrash"}), Once({"scoringCrash", "lostCall"}),
   Once({"failedPut", "activate"}), Once({"rescore"}), Once({"rejudge"})}
=============================================================================
