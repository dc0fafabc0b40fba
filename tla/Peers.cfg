\* Two devices, three applications for two endpoints; one use of every conversion.
SPECIFICATION MCSpec
CONSTANTS
  HighFirst = TRUE
  Junk = 165
  AsduLens <- MCAsduLens
  Described <- MCDescribed
  Ints <- MCInts
  a1 = a1
  a2 = a2
  a3 = a3
  Apps = {a1, a2, a3}
  AskedId <- MCAskedId
  AppDesc <- MCAppDesc
  LastId = 2
  SpareId = 4
  Strays = {2}
  Devs = {1, 2}
  Addrs = {258, 772}
  DevDescs <- MCDevDescs
  Archives <- MCArchives
  Library <- MCLibrary
  Objs = {o1, o2, o3}
  None = None
SYMMETRY Symmetric
INVARIANTS
  FrameHeard
  AnswerTrue
  DescriptorKept
  AppHears
  ShownTrue
\* A conversion is the last step of its behaviour.
CHECK_DEADLOCK FALSE
