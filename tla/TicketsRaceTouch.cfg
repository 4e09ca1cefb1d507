SPECIFICATION Spec
CONSTANTS
  Workers = {w1, w2}
  Tickets = {t1}
  staff = staff
  customer = customer
  Actors = {staff, customer}
  Fields = {"owner"}
  Values = {"low", "high"}
  Fresh <- MCFresh
  Offers <- MCOffers
  Held <- MCHeld
  Mailable = {customer}
  FormStatuses = {"open", "resolved", "rejected"}
  MaxRows = 3
  SameSecond = FALSE
  MayCrash = TRUE
  MailMayFail = FALSE
  Absent = Absent
  NoWork = NoWork
SYMMETRY MCSymmetry
PROPERTY EveryRowTouches
