\* Both threads, every request.
SPECIFICATION FairSpec
CONSTANTS
  Mixes <- MCMixes
  MaxFds = 1
INVARIANTS
  AnswerOwn
  NoTwins
  RegistryTrue
PROPERTIES
  EveryoneAnswered
\* The process may end.
CHECK_DEADLOCK FALSE
