\* Two devices, two announcements at a time and a leave.
SPECIFICATION Spec
CONSTANTS
  Ieees = {i1, i2}
  Nwks = {n1, n2}
  Low <- LowBits
  Objs = {o1, o2}
  Annces = {t1, t2}
  Leaver = Leaver
  Nobody = Nobody
  Bad = Bad
  MaxEvents = 3
SYMMETRY Symmetry
INVARIANTS
  SavedKept
  LeftGone
  OneObjectEach
  
CHECK_DEADLOCK FALSE
