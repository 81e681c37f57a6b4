CONSTANTS
  Proc = {p1, p2}
  Id = {own, other}
  GetID = own
  Title = {a}
  None = None
SPECIFICATION StorageSpec
\* The process may have ended in a fatal error or a panic.
CHECK_DEADLOCK FALSE
PROPERTY AddKeepsEvents
