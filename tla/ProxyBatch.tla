----------------------------- MODULE ProxyBatch -----------------------------
(***************************************************************************)
(* What the executor of ProxyService sends to a ranking, one PUT request   *)
(* for each kind of data of a batch, and what the ranking makes of it.     *)
(*                                                                         *)
(* The four kinds of basic data (contests, tasks, teams, users) are one    *)
(* here.  The ranking refuses a request with an entity whose references it *)
(* does not know (Store.merge_list).                                       *)
(***************************************************************************)
VARIABLES
  batch,    \* what the executor has popped and not sent yet
  ranking,  \* what the ranking has
  failed    \* some request to the ranking failed

NoSubchange == [c \in {} |-> 0]
Nothing == [basic |-> FALSE, submissions |-> {}, subchanges |-> NoSubchange]
Basic == [Nothing EXCEPT !.basic = TRUE]

(* dict.update, of each kind.                                              *)
Merged(x, y) ==
  [basic |-> x.basic \/ y.basic,
   submissions |-> x.submissions \cup y.submissions,
   subchanges |->
     [c \in DOMAIN x.subchanges \cup DOMAIN y.subchanges |->
        IF c \in DOMAIN y.subchanges THEN y.subchanges[c] ELSE x.subchanges[c]]]

(* The kind of data the next PUT sends, and the batch once it is sent; the *)
(* mutant sends them in the opposite order.                                *)
NextBackwards ==
  CASE DOMAIN batch.subchanges # {} ->
         [Nothing EXCEPT !.subchanges = batch.subchanges]
    [] DOMAIN batch.subchanges = {} /\ batch.submissions # {} ->
         [Nothing EXCEPT !.submissions = batch.submissions]
    [] OTHER -> [Nothing EXCEPT !.basic = batch.basic]

NextData ==
  CASE batch.basic -> Basic
    [] ~batch.basic /\ batch.submissions # {} ->
         [Nothing EXCEPT !.submissions = batch.submissions]
    [] OTHER -> [Nothing EXCEPT !.subchanges = batch.subchanges]

Rest(data) ==
  [basic |-> batch.basic /\ ~data.basic,
   submissions |-> batch.submissions \ data.submissions,
   subchanges |-> IF DOMAIN data.subchanges = {}
                 THEN batch.subchanges ELSE NoSubchange]

(* Entity.consistent, of all entities of a request.                        *)
Consistent(data) ==
  /\ data.submissions # {} => ranking.basic
  /\ \A c \in DOMAIN data.subchanges : c[2] \in ranking.submissions

(* The executor keeps the kinds of data apart and in order, initialize     *)
(* comes first: as long as no request fails the ranking refuses none.      *)
NothingRefused == ~failed /\ batch # Nothing => Consistent(NextData)
=============================================================================
