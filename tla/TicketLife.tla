------------------------------ MODULE TicketLife ------------------------------
(***************************************************************************)
(* What lifecycle.py promises of a ticket, one committed move at a time:   *)
(* only the table's moves, `started` set on the first leave from "new",    *)
(* `resolved` there exactly from entering "resolved" to leaving it.        *)
(***************************************************************************)
EXTENDS Lifecycle

CONSTANTS Tickets, Absent

VARIABLES
  status,   \* [Tickets -> STATUSES \cup {Absent}]
  started,  \* has the ticket a started date
  resolved  \* has it a resolved date

lifeVars == <<status, started, resolved>>

Init ==
  /\ status = [t \in Tickets |-> Absent]
  /\ started = [t \in Tickets |-> FALSE]
  /\ resolved = [t \in Tickets |-> FALSE]

\* A ticket may be created "open" or "stalled": it then never leaves "new".
Born(t) ==
  /\ status[t] = Absent
  /\ \E s \in Active : status' = [status EXCEPT ![t] = s]
  /\ UNCHANGED <<started, resolved>>

Move(t) ==
  /\ status[t] # Absent
  /\ \E s \in transitions(status[t]) :
       /\ status' = [status EXCEPT ![t] = s]
       /\ started' = [started EXCEPT ![t] = @ \/ status[t] = "new"]
       /\ resolved' = [resolved EXCEPT ![t] = (s = "resolved")]

Next == \E t \in Tickets : Born(t) \/ Move(t)

Spec == Init /\ [][Next]_lifeVars
==============================================================================
