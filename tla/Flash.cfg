\* Three chunks, the first two alike; commands may fail, but not for ever.
SPECIFICATION AnsweredFlash
CONSTANTS
  Last = 3
  d1 = d1
  d2 = d2
  Data = {d1, d2}
  Bad = Bad
  Image <- Alike
INVARIANT AcceptedGood
PROPERTY Ends
\* The program ends.
CHECK_DEADLOCK FALSE
