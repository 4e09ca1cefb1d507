------------------------------ MODULE AuditTrail ------------------------------
(***************************************************************************)
(* What transactions.py promises (lines 1-11): every write to a ticket is  *)
(* a row, the rows of one request appear together, and a column changes    *)
(* only to the value a row of that same write gives it.  A column's row is *)
(* newer than the rows the column had before.                              *)
(***************************************************************************)
EXTENDS Naturals

CONSTANTS Tickets, Columns, Absent

VARIABLES
  value,  \* [Tickets -> [Columns -> values] \cup {Absent}]
  trail   \* the transaction rows

trailVars == <<value, trail>>

Init == value = [t \in Tickets |-> Absent] /\ trail = {}

About(rows, c) == {r \in rows : r.field = c}

\* `rows` are written on ticket t.
Recorded(t, rows) ==
  /\ rows # {}
  /\ trail' = trail \cup rows
  /\ \A r \in rows : r.ticket = t /\ \A b \in trail : b.id # r.id

Create(t) ==
  /\ value[t] = Absent
  /\ value'[t] # Absent
  /\ value' = [value EXCEPT ![t] = value'[t]]
  /\ Recorded(t, trail' \ trail)
  /\ \A r \in trail' \ trail : r.type = "Create"

Write(t) ==
  LET rows == trail' \ trail IN
  /\ value[t] # Absent
  /\ Recorded(t, rows)
  /\ \A c \in Columns : \A r \in About(rows, c), b \in About(trail, c) :
       b.ticket = t => b.id < r.id
  /\ \A c \in Columns : \A r, s \in About(rows, c) : r = s
  /\ value' = [value EXCEPT ![t] =
       [c \in Columns |-> IF About(rows, c) = {} THEN value[t][c]
                          ELSE (CHOOSE r \in About(rows, c) : TRUE).new]]

Next == \E t \in Tickets : Create(t) \/ Write(t)

Spec == Init /\ [][Next]_trailVars
==============================================================================
