\* Two workers, a limit of two errors and more tasks than may be started when
\* nothing succeeds: both workers may hold a result when the limit is reached.
CONSTANTS
  Workers = {w1, w2}
  T = 6
  M = 2
SPECIFICATION FairSpec
\* Run ends by design; Terminates rules out that it stops early.
CHECK_DEADLOCK FALSE
INVARIANTS IInv ResultHonest TaskLimit
PROPERTIES RefinesPromise Terminates
