SPECIFICATION Spec
CONSTANTS
  ann = ann
  long = long
  q1 = q1
  q2 = q2
  q3 = q3
  Letters <- MCLetters
  Addresses = {ann, long}
  Long = {long}
  Cut = Cut
  Queues = {q1, q2, q3}
  QueueNames = {"support", "sales", "shop"}
  Tags = {"Help", "C#"}
  Plain = {"Help", "py-rt"}
  SiteName = "py-rt"
  Foreign = "RT"
  Grants <- MCGrants
  StartUsers <- MCUsers
  QueueForms <- MCQueueForms
  UserForms <- MCUserForms
  StartQueues <- MCQueues
  MaxDeliveries = 2
  MaxEdits = 1
  None = None
INVARIANT RefusalLeavesNothing
CHECK_DEADLOCK FALSE
