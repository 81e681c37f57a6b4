\* Two goroutines; one key and one list item more than the larger capacity, and
\* NewCache(0), whose every Set panics and must not leave the mutex locked.
CONSTANTS
  Procs = {p1, p2}
  Keys = {k1, k2, k3}
  Values = {v1, v2}
  Item = {i1, i2, i3}
  Capacities = {0, 2}
  NoValue = NoValue
  Nil = Nil
SPECIFICATION FairSpec
\* All goroutines may have ended in a panic.
CHECK_DEADLOCK FALSE
INVARIANTS Inv CacheIsRecencyPrefix
PROPERTIES RefinesLRU CallsReturn
