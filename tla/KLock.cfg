\* Five threads: two shared owners, one that asks, one exclusive, one more.
SPECIFICATION FairSpec
CONSTANTS
  Threads = {t1, t2, t3, t4, t5}
  Nobody = Nobody
PROPERTIES
  PromiseSpec
  SharedGranted
