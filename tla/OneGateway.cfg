\* The instance of Supervision.cfg with a third process.
SPECIFICATION Spec
CONSTANTS
  Procs = {p1, p2, p3}
  Inodes = {i1, i2, i3}
  None = None
  Counts = 3
  BootLooks = 1
  PingLimit = 1
  Backoff = 4
  MaxFaults = 1
INVARIANT OneGateway
