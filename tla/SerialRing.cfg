\* Three frames and a byte of noise in bursts of 6 or 9 bytes; a ring of 8, so
\* that it wraps, fills up and is overrun; two assemblers.
SPECIFICATION FairSpec
CONSTANTS
  f1 = f1
  f2 = f2
  f3 = f3
  Noise = Noise
  Frames = {f1, f2, f3}
  Stream <- Noisy
  Bursts = {6, 9}
  Size = 8
  SOF = 254
  Threads = {t1, t2}
  Main = Main
  Free = Free
INVARIANTS
  RingExact
  FramesOnce
PROPERTY EveryFrameDelivered
\* The line falls silent.
CHECK_DEADLOCK FALSE
