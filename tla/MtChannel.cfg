\* Three calls: a late response of the first meets the second's turn and the
\* second's late response the third's, or the second comes in beside the first
\* and the third finds what they left; two commands so that some do not match.
SPECIFICATION FairSpec
CONSTANTS
  c1 = c1
  c2 = c2
  c3 = c3
  k1 = k1
  Calls <- ThreeCalls
  Cmds = {k1, k2}
  None = None
CONSTRAINTS
  CallsInTurn
  CrowdOfTwo
  FirstDeserts
INVARIANTS
  TurnsCounted
  FramesExact
  ResultTrue
  NoLostSignal
PROPERTIES
  PromiseSpec
  EveryCallReturns
\* Every call returns and nothing is left to do.
CHECK_DEADLOCK FALSE
