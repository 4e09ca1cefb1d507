SPECIFICATION Spec
CONSTANTS
  Slots = {s1}
  root = root
  nobody = nobody
  bob = bob
  carl = carl
  Users = {root, nobody, bob, carl}
  techs = techs
  crew = crew
  Groups = {techs, crew}
  BuiltIns = {"Privileged", "Owner"}
  q1 = q1
  Queues = {q1}
  Names = {"root", "Nobody", "bob", "techs", "Privileged"}
  RightNames = {"SuperUser", "AdminQueue"}
  Start <- MCStart
  GroupDisabled = FALSE
  MaxFlips = 1
  MaxWrites = 3
  Absent = Absent
  None = None
INVARIANT RootStaysEnabled
CHECK_DEADLOCK FALSE
