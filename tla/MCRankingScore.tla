--------------------------- MODULE MCRankingScore ---------------------------
(* A finite instance of RankingScore for TLC: three submissions with the   *)
(* score subchanges 1, 2 and 5, and the tokens 3 and 4 of the first two;   *)
(* that of the first has the time of the second submission.  The last two  *)
(* submissions have the same time.                                         *)
EXTENDS RankingScore

CONSTANTS s1, s2, s3

Submissions == {s1, s2, s3}
Times == (s1 :> 1) @@ (s2 :> 2) @@ (s3 :> 2)
SubmissionOf == <<s1, s2, s1, s2, s3>>
ChangeTime == <<1, 2, 2, 3, 3>>
Scored(x, y) == [score |-> x + y, extra |-> <<x, y>>, token |-> FALSE]
Token == {[score |-> NoScore, extra |-> <<>>, token |-> TRUE]}
NotScored == [score |-> NoScore, extra |-> <<>>, token |-> FALSE]
Contents ==
  <<{Scored(0, 1), Scored(1, 0), Scored(0, 2)}, {Scored(1, 0), Scored(0, 0), NotScored},
    Token, Token, {Scored(0, 0), Scored(0, 1)}>>

(* A submission and the token of another.                                  *)
TruncatingInstance == {s1, 4}
=============================================================================
