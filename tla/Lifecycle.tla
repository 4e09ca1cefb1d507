------------------------------ MODULE Lifecycle ------------------------------
(***************************************************************************)
(* The ticket lifecycle of src/pyrt/tickets/lifecycle.py, a pure module:   *)
(* which status may follow which, and what a move does to the two dates a  *)
(* ticket row carries.  A date is a natural number read off the clock of   *)
(* the module that uses these operators; NoDate is the column's NULL.      *)
(***************************************************************************)
EXTENDS Naturals

STATUSES == {"new", "open", "stalled", "resolved", "rejected", "deleted"}

Active == {"new", "open", "stalled"}

NoDate == 0

\* The table says: an active ticket goes anywhere but back to "new", an
\* inactive one is only ever reopened.
TRANSITIONS ==
  [s \in STATUSES |-> IF s \in Active THEN STATUSES \ {"new", s} ELSE {"open"}]

transitions(status) == IF status \in STATUSES THEN TRANSITIONS[status] ELSE {}

\* The Status select of the two pages, "" being no status at all.
choices(status) == IF status = "" THEN {} ELSE {status} \cup transitions(status)

may_change(old, new) == new \in transitions(old)

\* A slip this code could make: the POST trusts whatever known status came in.
refusesUnknownOnly(old, new) == new \notin STATUSES

\* refusal() answers with a message; only whether there is one matters here.
refuses(old, new) ==
  \/ new \notin STATUSES
  \/ new # old /\ ~may_change(old, new)

StartedAfter(old, new, started, now) ==
  IF old = "new" /\ new # old /\ started = NoDate THEN now ELSE started

ResolvedNotCleared(old, new, resolved, now) ==
  IF new # old /\ new = "resolved" THEN now ELSE resolved

ResolvedNeverSet(old, new, resolved, now) ==
  IF new # old /\ old = "resolved" THEN NoDate ELSE resolved

ResolvedAfter(old, new, resolved, now) ==
  IF new = old THEN resolved
  ELSE IF new = "resolved" THEN now
  ELSE IF old = "resolved" THEN NoDate
  ELSE resolved

\* A move by apply_status that forgets the first-leave date.
apply_status_unstarted(row, new, now) ==
  [row EXCEPT !.col["status"] = new,
              !.resolved = ResolvedAfter(row.col["status"], new, @, now)]

\* apply_status moves a row the caller has already had refusal() pass.
apply_status(row, new, now) ==
  [row EXCEPT !.col["status"] = new,
              !.started  = StartedAfter(row.col["status"], new, @, now),
              !.resolved = ResolvedAfter(row.col["status"], new, @, now)]
==============================================================================
