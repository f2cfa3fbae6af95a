---------------------------- MODULE ProxyService ----------------------------
(***************************************************************************)
(* ProxyService (service/ProxyService.py): what it sends to one ranking.   *)
(* Notifications and the sweeper read the database and put operations in   *)
(* the queue; the executor takes all that is queued, merges it by kind and *)
(* key, and sends one PUT request per kind.  A merged queue is the same as *)
(* the sequence of its entries, so the queue is kept merged.               *)
(*                                                                         *)
(* What is sent, and what the ranking makes of it, is in ProxyBatch.  All  *)
(* submissions are official, of participations that are not hidden, and    *)
(* have a result on every dataset.                                         *)
(***************************************************************************)
EXTENDS Naturals, ProxyBatch

CONSTANTS Submission, Dataset

VARIABLES
  score,        \* score[<<s, d>>]: 0, or the score of s on d
  active,       \* the active dataset of the task
  tokened,      \* the submissions with a token
  scoredCalls,  \* submission_scored calls under way
  tokenedCalls, \* submission_tokened calls under way
  updatedCall,  \* a dataset_updated call is under way
  handlers,     \* what handlers have read and are about to enqueue
  queue,        \* the queue of the executor, merged
  sent          \* scores_sent_to_rankings and tokens_sent_to_rankings

callVars == <<scoredCalls, tokenedCalls, updatedCall>>
proxyVars == <<handlers, queue, batch, sent, ranking>>

Kind == {"score", "token"}
Subchange == Kind \X Submission

(* Data for the ranking: basic data, submissions, and subchanges, with the *)
(* score each shows (0 without one) or 1 for a token.                      *)
Data == [basic: BOOLEAN, submissions: SUBSET Submission,
         subchanges: UNION {[keys -> Nat] : keys \in SUBSET Subchange}]

TypeOK ==
  /\ tokened \in SUBSET Submission
  /\ scoredCalls \in SUBSET Submission /\ tokenedCalls \in SUBSET Submission
  /\ updatedCall \in BOOLEAN
  /\ handlers \subseteq [change: Subchange, value: Nat]
  /\ \A x \in {queue, batch, ranking} :
       /\ x.basic \in BOOLEAN
       /\ x.submissions \subseteq Submission
       /\ DOMAIN x.subchanges \subseteq Subchange
       /\ \A c \in DOMAIN x.subchanges : x.subchanges[c] \in Nat
  /\ sent \subseteq Subchange

(* ProxyService starts: initialize enqueues the basic data.                *)
Init ==
  /\ handlers = {} /\ queue = Basic /\ batch = Nothing /\ sent = {}
  /\ tokened = {}
  /\ scoredCalls = {} /\ tokenedCalls = {} /\ updatedCall = FALSE
  /\ ranking = Nothing /\ failed = FALSE

-----------------------------------------------------------------------------
(* What operations_for_score and operations_for_token read.                *)
ScoreOf(s) == [change |-> <<"score", s>>, value |-> score[<<s, active>>]]
TokenOf(s) == [change |-> <<"token", s>>, value |-> 1]

(* submission_scored and submission_tokened, up to their enqueue.          *)
SubmissionScored(s) ==
  /\ s \in scoredCalls
  /\ scoredCalls' = scoredCalls \ {s}
  /\ handlers' = handlers \cup {ScoreOf(s)}
  /\ UNCHANGED <<tokenedCalls, updatedCall, queue, batch, sent, ranking>>

SubmissionTokened(s) ==
  /\ s \in tokenedCalls
  /\ tokenedCalls' = tokenedCalls \ {s}
  /\ handlers' = handlers \cup {TokenOf(s)}
  /\ UNCHANGED <<scoredCalls, updatedCall, queue, batch, sent, ranking>>

(* dataset_updated: the basic data again, and the scores there are.        *)
DatasetUpdated ==
  /\ updatedCall
  /\ updatedCall' = FALSE
  /\ queue' = Merged(queue, Basic)
  /\ handlers' = handlers \cup
       {ScoreOf(s) : s \in {x \in Submission : score[<<x, active>>] # 0}}
  /\ UNCHANGED <<scoredCalls, tokenedCalls, batch, sent, ranking>>

(* _missing_operations, for one submission.  The mutant marks a submission *)
(* before it knows that it is scored.                                      *)
SweepMarkingAll(s) ==
  /\ handlers' = handlers \cup
       {h \in {ScoreOf(s), TokenOf(s)} :
          /\ h.change \notin sent
          /\ IF h.change[1] = "score" THEN h.value # 0 ELSE s \in tokened}
  /\ sent' = sent \cup {<<"score", s>>}
  /\ UNCHANGED <<callVars, queue, batch, ranking>>

Sweep(s) ==
  /\ handlers' = handlers \cup
       {h \in {ScoreOf(s), TokenOf(s)} :
          /\ h.change \notin sent
          /\ IF h.change[1] = "score" THEN h.value # 0 ELSE s \in tokened}
  /\ handlers' # handlers
  /\ UNCHANGED <<callVars, queue, batch, sent, ranking>>

(* operations_for_score or operations_for_token returns and its operations *)
(* are enqueued.                                                           *)
Enqueue ==
  \E h \in handlers :
    /\ handlers' = handlers \ {h}
    /\ queue' = Merged(queue, [basic |-> FALSE, submissions |-> {h.change[2]},
                               subchanges |-> [c \in {h.change} |-> h.value]])
    /\ sent' = sent \cup {h.change}
    /\ UNCHANGED <<callVars, batch, ranking>>

-----------------------------------------------------------------------------
(* execute pops all there is in the queue.                                 *)
PopBatch ==
  /\ batch = Nothing
  /\ queue # Nothing
  /\ batch' = queue
  /\ queue' = Nothing
  /\ UNCHANGED <<callVars, handlers, sent, ranking>>

(* safe_put_data succeeds.                                                 *)
Put ==
  /\ batch # Nothing
  /\ Consistent(NextData)
  /\ ranking' = Merged(ranking, NextData)
  /\ batch' = Rest(NextData)
  /\ UNCHANGED <<callVars, handlers, queue, sent>>

(* safe_put_data raises: the ranking answers 400.  What is left of the     *)
(* batch is forgotten.                                                     *)
PutRefused ==
  /\ batch # Nothing
  /\ ~Consistent(NextData)
  /\ batch' = Nothing
  /\ UNCHANGED <<callVars, handlers, queue, sent, ranking>>

(* safe_put_data raises: no answer came, whether or not the request did.   *)
PutFails ==
  /\ batch # Nothing
  /\ ranking' \in {ranking} \cup
       (IF Consistent(NextData) THEN {Merged(ranking, NextData)} ELSE {})
  /\ batch' = Nothing
  /\ failed' = TRUE
  /\ UNCHANGED <<callVars, handlers, queue, sent>>

(* ProxyService dies, with the calls it had not served, and is started     *)
(* again.                                                                  *)
Restart ==
  /\ handlers' = {} /\ queue' = Basic /\ batch' = Nothing /\ sent' = {}
  /\ scoredCalls' = {} /\ tokenedCalls' = {} /\ updatedCall' = FALSE
  /\ UNCHANGED ranking
=============================================================================
