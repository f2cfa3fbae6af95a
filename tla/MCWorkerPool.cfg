CONSTANTS
  Worker = {w1, w2}
  Operation = {o1, o2, o3}
  NoWorker = NoWorker
SPECIFICATION Spec
SYMMETRY Symmetry
INVARIANT ReverseInSync
INVARIANT IgnoreMarksBelongToBatch
INVARIANT NoLostWakeup
