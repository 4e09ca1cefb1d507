SPECIFICATION Spec
CONSTANTS
  Slots = {s1, s2}
  root = root
  nobody = nobody
  ann = ann
  rae = rae
  Users = {root, nobody, ann, rae}
  techs = techs
  Groups = {techs}
  BuiltIns = {"Privileged", "Owner", "Requestor"}
  q1 = q1
  q2 = q2
  Queues = {q1, q2}
  RightNames = {"SuperUser", "ShowTicket", "CreateTicket", "ModifyTicket", "OwnTicket", "SeeQueue", "AdminQueue", "AdminCustomField", "ModifyCustomField"}
  People <- MCPeople
  Tickets = {1, 2}
  Boxes <- MCBoxes
  Says <- MCSays
  RESULT_LIMIT = 1
  GLANCE_LIMIT = 1
  f1 = f1
  f2 = f2
  Fields = {f1, f2}
  FieldNames = {"rack", "long"}
  LongNames = {"long"}
  Values = {"a", "b"}
  Typed <- MCTyped
  Cleaned <- MCCleaned
  Grantable <- MCGrantable
  Start <- MCStart
  Today = 2
  MaxFlips = 1
  MaxWrites = 3
  Absent = Absent
  None = None
SYMMETRY MCSymmetry
INVARIANTS
  TypeOK
  HistoryAgrees
  SearchIsThePage
  HomeShowsWhatOpens
PROPERTIES
  ValuesSurvive
  SavesAreExact
CHECK_DEADLOCK FALSE
