CONSTANTS
  Threads = {t1, t2, t3}
  Generations = {1, 2}
  Own = 1
SPECIFICATION FairSpec
INVARIANTS LeaseExclusive
PROPERTIES ForegroundFirst InvalidateDrains
