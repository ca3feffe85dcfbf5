SPECIFICATION Spec
CONSTANTS
  e1 = e1
  e2 = e2
  s1 = s1
  s2 = s2
  backup = backup
  limit = limit
  Entries = {e1, e2}
  Serials = {s1, s2}
  NoSerial = NoSerial
  Keys = {backup, limit}
  Numbers = {limit}
  Optional = {backup}
  Legacy = e1
  MaxEvents = 3
CHECK_DEADLOCK FALSE
SYMMETRY MCSymmetry
INVARIANTS
  UniqueSerials
  OldestKept
