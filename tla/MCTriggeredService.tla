------------------------- MODULE MCTriggeredService ------------------------
(* Instance of TriggeredService for TLC.  Deep: one sweep finds six         *)
(* operations, enough for a heap where the last entry belongs above the    *)
(* place of a removed one.  Wide: two operations and all the faults.       *)
EXTENDS TriggeredService, TLC

Budget(kinds) == [k \in FaultKinds |-> IF k \in kinds THEN 1 ELSE 0]

\* Two subtrees in different orders, falling, and equal priorities where the
\* times decide.
Orders ==
  {<< <<1, 1>>, <<3, 1>>, <<2, 1>>, <<3, 1>>, <<3, 2>>, <<2, 2>> >>,
   << <<3, 2>>, <<3, 1>>, <<2, 2>>, <<2, 1>>, <<1, 2>>, <<1, 1>> >>,
   << <<2, 1>>, <<2, 2>>, <<2, 1>>, <<2, 2>>, <<2, 2>>, <<2, 1>> >>}

Deep ==
  [executors : {1}, request : Orders, needed : {Operation},
   faults : {Budget({"dequeue", "priority"})}]
Wide ==
  [executors : {2}, request : {<< <<2, 1>>, <<1, 2>> >>}, needed : {{1}},
   faults : {Budget({"lost", "notified", "dequeue"}), Budget({"failure", "ask"}),
             Budget({"sweep", "ask"}), Budget({"notified", "restart"}), Budget({"priority", "lost"})}]
DeepAndWide == Deep \cup Wide
=============================================================================
