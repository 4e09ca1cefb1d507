SPECIFICATION Spec
CONSTANTS
  p1 = p1
  p2 = p2
  Processes = {p1, p2}
  Commands <- MCCommands
  Squatted <- MCSquatted
  Clock = 99
  MaxId = 3
  MaxForeign = 1
  Absent = Absent
  None = None
INVARIANTS
  TypeOK
  LineIsItsOwn
  LoadsWhatPlays
PROPERTIES
  LineIsTheFile
CHECK_DEADLOCK FALSE
