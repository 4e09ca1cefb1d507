SPECIFICATION FairSpec
CONSTANTS
  Workers = {w1, w2}
  Tickets = {t1}
  staff = staff
  customer = customer
  Actors = {staff, customer}
  Fields = {"owner"}
  Values = {"low", "high"}
  Fresh <- MCFresh
  Offers <- MCOffers
  Held <- MCHeld
  Mailable = {customer}
  FormStatuses = {"open", "resolved"}
  MaxRows = 2
  SameSecond = FALSE
  MayCrash = FALSE
  MailMayFail = FALSE
  Absent = Absent
  NoWork = NoWork
PROPERTIES
  Answered
  ReplyIsMailed
  MovesAppearLast
