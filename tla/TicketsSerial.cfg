SPECIFICATION Spec
CONSTANTS
  Workers = {w1}
  Tickets = {t1}
  staff = staff
  customer = customer
  Actors = {staff, customer}
  Fields = {"owner"}
  Values = {"low", "high"}
  Fresh <- MCFresh
  Offers <- MCOffers
  Held <- MCHeld
  Mailable = {customer}
  FormStatuses = {"open", "stalled", "resolved", "rejected"}
  MaxRows = 5
  SameSecond = TRUE
  MayCrash = TRUE
  MailMayFail = TRUE
  Absent = Absent
  NoWork = NoWork
INVARIANTS
  ResolvedDateMatches
  StatusRowsChain
  LastUpdatedByIsNewest
PROPERTIES
  KeepsLifecycle
