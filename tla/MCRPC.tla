------------------------------- MODULE MCRPC -------------------------------
(* Instance of RPC for TLC: which messages are too large for something,    *)
(* and what breaks.                                                        *)
EXTENDS RPC

CONSTANTS c1, c2

Budget(n, kinds) == [k \in FaultKinds |-> IF k \in kinds THEN n ELSE 0]
Scenario(large, oversize, fault) == [large |-> large, oversize |-> oversize, faults |-> fault]

Mixed ==
  {Scenario({}, {}, Budget(2, {"break"})), Scenario({}, {}, Budget(1, {"crash", "disconnect"})),
   Scenario({c1}, {}, Budget(1, {"break", "crash"})),
   Scenario({c1}, {c2}, Budget(1, {"break", "disconnect"}))}
=============================================================================
