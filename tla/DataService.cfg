\* Three concurrent callers, two receivers; three nodes force the allocator to
\* reuse freed ones when one caller makes a second call; SeqMod 2 makes the ZDP
\* counter wrap within a run.
SPECIFICATION FairSpec
CONSTANTS
  c1 = c1
  c2 = c2
  c3 = c3
  Callers <- ThreeCallers
  Rcvrs = {r1, r2}
  Nodes = {n1, n2, n3}
  SeqMod = 2
  MaxCalls = 3
  MaxCopies = 1
ACTION_CONSTRAINT FirstIdleCalls
INVARIANTS
  RegistryExact
  NoLostWakeup
PROPERTIES
  PromiseSpec
  EveryRequestReturns
\* Callers stop at MaxCalls, and a crashed process does nothing more.
CHECK_DEADLOCK FALSE
