----------------------------- MODULE Scoreboard -----------------------------
(***************************************************************************)
(* From a judged submission to the public ranking: ScoringService and      *)
(* ProxyService with the database they share, the ranking, and the three   *)
(* programs that call them.  EvaluationService announces that a result is  *)
(* judged or judges it again, ContestWebServer plays tokens, AdminWeb-     *)
(* Server makes a dataset the active one or asks for a rescoring.          *)
(***************************************************************************)
EXTENDS Naturals, ProxyBatch

CONSTANTS
  Submission, Dataset, Autojudged, NoOperation,
  MaxRight,    \* bound on how often another score becomes right
  Faults       \* budgets of disturbances: how many of each kind may happen

Disturbance == {"rejudge", "rescore", "activate", "token", "scoringCrash",
                "proxyCrash", "lostCall", "failedPut"}

ASSUME ScoreboardAssumption ==
  /\ Autojudged \subseteq Dataset
  /\ NoOperation \notin Submission \X Dataset
  /\ MaxRight \in Nat \ {0}
  /\ Faults \subseteq [Disturbance -> Nat]

VARIABLES
  judged, right, score, active, tokened,
  scoringQueue, current, phase, computed,
  scoredCalls, tokenedCalls, updatedCall,
  handlers, queue, sent,
  faults       \* disturbances that may still happen

SS == INSTANCE ScoringService WITH queue <- scoringQueue
PS == INSTANCE ProxyService

scoringVars == <<scoringQueue, current, phase, computed>>
callVars == <<scoredCalls, tokenedCalls, updatedCall>>
proxyVars == <<handlers, queue, batch, sent, ranking>>
resultVars == <<judged, right, score, active>>
vars == <<resultVars, tokened, scoringVars, callVars, proxyVars, faults,
          failed>>

Operation == SS!Operation

TypeOK ==
  /\ SS!TypeOK
  /\ PS!TypeOK
  /\ faults \in [Disturbance -> Nat]
  /\ failed \in BOOLEAN

Fault(kind) ==
  /\ faults[kind] > 0
  /\ faults' = [faults EXCEPT ![kind] = @ - 1]

(* A call reaches the other service, or the fault is that it does not.     *)
Reaches(reached) == IF reached THEN UNCHANGED faults ELSE Fault("lostCall")

Init ==
  /\ SS!Init
  /\ PS!Init
  /\ faults \in Faults

-----------------------------------------------------------------------------
(* EvaluationService writes the last result and calls new_evaluation.      *)
Judge(op) ==
  /\ ~judged[op]
  /\ judged' = [judged EXCEPT ![op] = TRUE]
  /\ \E reached \in BOOLEAN :
       /\ Reaches(reached)
       /\ IF reached THEN SS!NewEvaluation(op) ELSE UNCHANGED scoringQueue
  /\ UNCHANGED <<right, score, active, tokened, current, phase, computed,
                 callVars, proxyVars, failed>>

(* EvaluationService.invalidate_submission at level "evaluation".          *)
Rejudge(op) ==
  /\ judged[op]
  /\ right[op] < MaxRight
  /\ Fault("rejudge")
  /\ judged' = [judged EXCEPT ![op] = FALSE]
  /\ score' = [score EXCEPT ![op] = 0]
  /\ right' = [right EXCEPT ![op] = @ + 1]
  /\ UNCHANGED <<active, tokened, scoringVars, callVars, proxyVars, failed>>

(* AdminWebServer has the results of a dataset scored again.               *)
Rescore(d) ==
  /\ \A s \in Submission : right[<<s, d>>] < MaxRight
  /\ Fault("rescore")
  /\ SS!InvalidateSubmission(Submission \X {d})
  /\ UNCHANGED <<tokened, tokenedCalls, updatedCall, proxyVars, failed>>

(* AdminWebServer makes d the active dataset and calls dataset_updated.    *)
Activate(d) ==
  /\ d # active
  /\ Fault("activate")
  /\ active' = d
  /\ updatedCall' = TRUE
  /\ UNCHANGED <<judged, right, score, tokened, scoringVars, scoredCalls,
                 tokenedCalls, proxyVars, failed>>

(* ContestWebServer accepts a token and calls submission_tokened.          *)
PlayToken(s) ==
  /\ s \notin tokened
  /\ tokened' = tokened \cup {s}
  /\ Fault("token")
  /\ tokenedCalls' = tokenedCalls \cup {s}
  /\ UNCHANGED <<resultVars, scoringVars, scoredCalls, updatedCall, proxyVars, failed>>

-----------------------------------------------------------------------------
ScoringStep ==
  /\ \/ SS!Sweep
     \/ SS!Pop
     \/ SS!Compute
     \/ SS!Commit
  /\ UNCHANGED <<tokened, tokenedCalls, updatedCall, proxyVars, faults, failed>>

ScoringNotifies ==
  /\ \E reached \in BOOLEAN : SS!Notify(reached) /\ Reaches(reached)
  /\ UNCHANGED <<tokened, tokenedCalls, updatedCall, proxyVars, failed>>

ScoringCrash ==
  /\ Fault("scoringCrash")
  /\ SS!Restart
  /\ UNCHANGED <<tokened, tokenedCalls, updatedCall, proxyVars, failed>>

ProxyStep ==
  /\ \/ \E s \in Submission : PS!SubmissionScored(s)
     \/ \E s \in Submission : PS!SubmissionTokened(s)
     \/ PS!DatasetUpdated
     \/ \E s \in Submission : PS!Sweep(s)
     \/ PS!Enqueue
     \/ PS!PopBatch
     \/ PS!Put
     \/ PS!PutRefused
  /\ UNCHANGED <<resultVars, tokened, scoringVars, faults, failed>>

PutFails ==
  /\ Fault("failedPut")
  /\ PS!PutFails
  /\ UNCHANGED <<resultVars, tokened, scoringVars>>

ProxyCrash ==
  /\ Fault("proxyCrash")
  /\ PS!Restart
  /\ UNCHANGED <<resultVars, tokened, scoringVars, failed>>

Next ==
  \/ \E op \in Operation : Judge(op)
  \/ \E op \in Operation : Rejudge(op)
  \/ \E d \in Dataset : Rescore(d)
  \/ \E d \in Dataset : Activate(d)
  \/ \E s \in Submission : PlayToken(s)
  \/ ScoringStep
  \/ ScoringNotifies
  \/ ScoringCrash
  \/ ProxyStep
  \/ PutFails
  \/ ProxyCrash

Spec == Init /\ [][Next]_vars

(* Greenlets that are ready run, the sweepers are timers, and every result *)
(* is judged in the end (EventuallySettled of EvaluationService).  Nobody  *)
(* has to disturb.                                                         *)
NotifyReaches ==
  /\ SS!Notify(TRUE)
  /\ UNCHANGED <<tokened, tokenedCalls, updatedCall, proxyVars, faults, failed>>

ScoringOwn(A) ==
  A /\ UNCHANGED <<tokened, tokenedCalls, updatedCall, proxyVars, faults, failed>>
ProxyOwn(A) ==
  A /\ UNCHANGED <<resultVars, tokened, scoringVars, faults, failed>>

Fairness ==
  /\ \A op \in Operation : WF_vars(Judge(op))
  /\ WF_vars(ScoringOwn(SS!Sweep)) /\ WF_vars(ScoringOwn(SS!Pop))
  /\ WF_vars(ScoringOwn(SS!Compute)) /\ WF_vars(ScoringOwn(SS!Commit))
  /\ WF_vars(NotifyReaches)
  /\ \A s \in Submission :
       /\ WF_vars(ProxyOwn(PS!SubmissionScored(s)))
       /\ WF_vars(ProxyOwn(PS!SubmissionTokened(s)))
       /\ WF_vars(ProxyOwn(PS!Sweep(s)))
  /\ WF_vars(ProxyOwn(PS!DatasetUpdated))
  /\ WF_vars(ProxyOwn(PS!Enqueue)) /\ WF_vars(ProxyOwn(PS!PopBatch))
  /\ WF_vars(ProxyOwn(PS!Put)) /\ WF_vars(ProxyOwn(PS!PutRefused))

FairSpec == Spec /\ Fairness

-----------------------------------------------------------------------------
(* ProxyService maintains the information held by rankings up to date: in  *)
(* the end the ranking has the score of every submission on the active     *)
(* dataset, and its token.                                                 *)
UpToDate(s) ==
  /\ score[<<s, active>>] # 0
  /\ <<"score", s>> \in DOMAIN ranking.subchanges
  /\ ranking.subchanges[<<"score", s>>] = score[<<s, active>>]
  /\ s \in tokened => <<"token", s>> \in DOMAIN ranking.subchanges

(* It does whatever process dies and whatever call is lost, when no score  *)
(* is replaced by another one and no request fails.                        *)
Calm == \A k \in {"rejudge", "rescore", "activate", "failedPut"} : faults[k] = 0
CatchesUpWhenCalm == Calm => \A s \in Submission : <>[]UpToDate(s)
=============================================================================
