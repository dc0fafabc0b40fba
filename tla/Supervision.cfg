\* Two processes at a time; two faults, so that a coordinator that fell silent
\* may come back; pings back off for four looks, as in the code.
SPECIFICATION FairSpec
CONSTANTS
  Procs = {p1, p2}
  Inodes = {i1, i2}
  None = None
  Counts = 3
  BootLooks = 1
  PingLimit = 1
  Backoff = 4
  MaxFaults = 2
CONSTRAINT NeverTwice
INVARIANTS
  PidFileTrue
  SilenceBounded
PROPERTIES
  CountingSpared
  Recovers
