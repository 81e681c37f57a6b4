\* Two callers, an id of the storage's own and another: every overlap of a
\* writer with a writer, with a listing and with a second call of AddEvent.
CONSTANTS
  Proc = {p1, p2}
  Id = {own, other}
  GetID = own
  Title = {a}
  None = None
SPECIFICATION StorageSpec
\* The process may have ended in a fatal error or a panic.
CHECK_DEADLOCK FALSE
INVARIANTS Inv ListIsRegular ConflictHasCause
PROPERTY EveryCallReturns
