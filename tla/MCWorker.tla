------------------------------ MODULE MCWorker -----------------------------
(* Instance of Worker: two requests, a shard with two boxes, and jobs that *)
(* need three.                                                             *)
EXTENDS Worker

(* No status, three of them, and two that come together.                   *)
MCLog(status, wall, oom, time) == [status |-> status, wall |-> wall, oom |-> oom, time |-> time]
MCLogs ==
  {MCLog({}, FALSE, FALSE, 1), MCLog({}, FALSE, FALSE, 2), MCLog({"RE"}, FALSE, FALSE, 1),
   MCLog({"SG"}, FALSE, TRUE, 1), MCLog({"TO"}, TRUE, FALSE, 1),
   MCLog({"XX", "SG"}, FALSE, FALSE, 1)}

MCBatch ==
  [type |-> "Batch", kind |-> "evaluate", configured |-> TRUE, files |-> "sources",
   commands |-> 1, users |-> 1, checker |-> "present", only_execution |-> FALSE,
   keep_sandbox |-> FALSE]
MCCompile == [MCBatch EXCEPT !.kind = "compile", !.commands = 2]
MCMixed == [MCBatch EXCEPT !.type = "BatchAndOutput"]
MCCommunication == [MCBatch EXCEPT !.type = "Communication", !.checker = "none"]
MCOutput == [MCBatch EXCEPT !.type = "OutputOnly", !.files = "output"]

MCGroups ==
  {<<MCCompile, [MCCompile EXCEPT !.configured = FALSE]>>,
   <<[MCBatch EXCEPT !.keep_sandbox = TRUE, !.commands = 2]>>,
   <<[MCBatch EXCEPT !.checker = "missing"]>>,
   <<MCMixed, [MCMixed EXCEPT !.files = "output"]>>,
   <<[MCMixed EXCEPT !.files = "none"], [MCMixed EXCEPT !.kind = "compile", !.files = "output"]>>,
   <<[MCOutput EXCEPT !.checker = "none"]>>,
   <<[MCBatch EXCEPT !.type = "TwoSteps"]>>,
   <<[MCCommunication EXCEPT !.users = 2]>>,
   <<[MCCommunication EXCEPT !.commands = 2, !.only_execution = TRUE]>>}
=============================================================================
