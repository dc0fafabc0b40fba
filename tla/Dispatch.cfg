\* Two frames of any kind, at any time of the start-up.
SPECIFICATION FairSpec
CONSTANTS
  Frames = {f1, f2}
  Main = Main
  Polls = 1
INVARIANTS
  EachOnce
  WalkedWhole
PROPERTIES
  LogsWritten
  StartsUp
\* The process may end, and a frame need not come.
CHECK_DEADLOCK FALSE
