---------------------------- MODULE TicketsProofs ----------------------------
(***************************************************************************)
(* Proofs about Tickets, for every number of workers, tickets, users and   *)
(* columns: the inductive invariant RaceInv, the three properties of the   *)
(* committed tables it holds, and the implementation of AuditTrail.        *)
(***************************************************************************)
EXTENDS Tickets, TLAPS

(* The lifecycle operators *)

\* No move of the table leads back to "new" (lifecycle.py:32).
LEMMA NoMoveToNew ==
  ASSUME NEW old, NEW new, ~refuses(old, new)
  PROVE  new \in STATUSES /\ (new # old => new # "new")
BY DEF refuses, may_change, transitions, TRANSITIONS, STATUSES, Active

\* The columns a status move leaves alone, and the ones it sets
\* (lifecycle.py:93).
LEMMA ApplyStatus ==
  ASSUME NEW row \in TicketRow, NEW new \in STATUSES, NEW now \in Nat
  PROVE  LET is == apply_status(row, new, now) IN
         /\ is \in TicketRow
         /\ is.col["status"] = new
         /\ is.resolved = ResolvedAfter(row.col["status"], new, row.resolved, now)
         /\ is.started = StartedAfter(row.col["status"], new, row.started, now)
         /\ row.started # NoDate => is.started # NoDate
<1>1. ResolvedAfter(row.col["status"], new, row.resolved, now) \in Nat
  BY DEF ResolvedAfter, TicketRow, NoDate
<1>2. /\ StartedAfter(row.col["status"], new, row.started, now) \in Nat
      /\ row.started # NoDate
           => StartedAfter(row.col["status"], new, row.started, now) # NoDate
  BY DEF StartedAfter, TicketRow, NoDate
<1>3. "status" \in Columns /\ new \in ColumnValues
  BY DEF Columns, ColumnValues
<1>. QED  BY <1>1, <1>2, <1>3 DEF apply_status, TicketRow

\* A session whose row comes out of apply_status has decided soundly: it does
\* not go back to "new", and a resolve writes a date the snapshot did not have.
LEMMA DecidedSoundly ==
  ASSUME NEW s \in Session, ~s.born, NEW now \in Nat \ {0},
         s.snap.resolved < now,
         \/ s.mine.col["status"] = s.snap.col["status"]
         \/ ~refuses(s.snap.col["status"], s.mine.col["status"]),
         s.mine.resolved = ResolvedAfter(s.snap.col["status"], s.mine.col["status"],
                                         s.snap.resolved, now),
         s.snap.started # NoDate => s.mine.started # NoDate
  PROVE  SessionOK(s) /\ s.mine.resolved <= now
<1>1. s.snap.resolved \in Nat
  BY DEF Session, TicketRow
<1>. QED  BY <1>1, NoMoveToNew DEF SessionOK, ResolvedAfter, NoDate

(* What a session has recorded and has still to record *)

\* Recording one change moves it from one set to the other.
LEMMA RecordOne ==
  ASSUME NEW s, NEW todo, NEW done, NEW c \in todo, NEW r,
         r.field = c.field, r.new = c.new, r.type = c.type,
         Recorded(s, todo, done)
  PROVE  Recorded(s, todo \ {c}, done \cup {r})
<1>1. \A x \in todo : x.field = c.field => x = c
  BY DEF Recorded
<1>2. \A x \in (todo \ {c}) \cup (done \cup {r}) :
        /\ x.field \in Columns => /\ x.new = s.mine.col[x.field]
                                 /\ s.mine.col[x.field] # s.snap.col[x.field]
        /\ x.type = "Correspond" => s.mine.col["status"] # "new"
        /\ s.born => x.type = "Create" /\ x.field = "message"
  <2>. SUFFICES ASSUME NEW x \in (todo \cup done) \cup {r}
                PROVE  /\ x.field \in Columns => /\ x.new = s.mine.col[x.field]
                                                /\ s.mine.col[x.field] # s.snap.col[x.field]
                       /\ x.type = "Correspond" => s.mine.col["status"] # "new"
                       /\ s.born => x.type = "Create" /\ x.field = "message"
    OBVIOUS
  <2>1. CASE x \in todo \cup done
    BY <2>1 DEF Recorded
  <2>2. CASE x = r
    BY <2>2 DEF Recorded
  <2>. QED  BY <2>1, <2>2
<1>3. \A x, y \in todo \ {c} : x.field = y.field => x = y
  BY DEF Recorded
<1>4. \A x, y \in done \cup {r} : x.field = y.field => x = y
  BY DEF Recorded
<1>5. \A x \in todo \ {c}, y \in done \cup {r} : x.field # y.field
  BY <1>1 DEF Recorded
<1>6. \A d \in Columns : s.mine.col[d] # s.snap.col[d]
        => \E x \in (todo \ {c}) \cup (done \cup {r}) : x.field = d
  BY DEF Recorded
<1>. QED  BY <1>2, <1>3, <1>4, <1>5, <1>6 DEF Recorded

(* The steps of a session that leave the tables alone *)

\* The message row is about no column.
LEMMA MessageIsNoColumn == "message" \notin Columns
BY ConstantsOK DEF Columns, BasicsFields

\* A row is inserted: its id is fresh, its column was the session's to record,
\* and if it is about a column the session holds the exclusive lock.
LEMMA InsertRowKeeps ==
  ASSUME RaceInv, NEW w \in Workers, InsertRow(w)
  PROVE  RaceInv'
<1>. DEFINE s == work[w]
<1>1. PICK c \in left[w] :
        /\ c.field \in Columns => xlock[w]
        /\ left' = [left EXCEPT ![w] = @ \ {c}]
        /\ pend' = [pend EXCEPT ![w] = @ \cup
             {[id |-> nextId, ticket |-> s.ticket, creator |-> s.actor,
               type |-> c.type, field |-> c.field, old |-> c.old, new |-> c.new]}]
  BY MessageIsNoColumn DEF InsertRow, MayInsert, NextIsColumn
<1>. DEFINE r == [id |-> nextId, ticket |-> s.ticket, creator |-> s.actor,
                  type |-> c.type, field |-> c.field, old |-> c.old, new |-> c.new]
<1>2. /\ pc[w] = "insert"
      /\ nextId' = nextId + 1
      /\ pc' = [pc EXCEPT ![w] = "check"]
      /\ UNCHANGED <<tickets, log, mail, work, xlock, hooks>>
  BY DEF InsertRow
<1>3. TypeOK /\ s \in Session /\ c \in Change /\ InTransaction(w)
  BY <1>2 DEF RaceInv, ControlOK, TypeOK, InTransaction
<1>4. r \in Row
  BY <1>3 DEF TypeOK, Change, Row, Session
<1>5. TypeOK'
  BY <1>1, <1>2, <1>3, <1>4 DEF TypeOK, Phases
<1>6. \A v \in Workers : InTransaction(v)' <=> InTransaction(v)
  BY <1>2, <1>3 DEF InTransaction, TypeOK
<1>7. \A v \in Workers : v # w => left'[v] = left[v] /\ pend'[v] = pend[v] /\ pc'[v] = pc[v]
  BY <1>1, <1>2, <1>3 DEF TypeOK
<1>8. left'[w] = left[w] \ {c} /\ pend'[w] = pend[w] \cup {r} /\ pc'[w] = "check"
  BY <1>1, <1>2, <1>3 DEF TypeOK
<1>9. ControlOK'
  BY <1>2, <1>3, <1>6, <1>7, <1>8 DEF RaceInv, ControlOK, SessionOK
<1>10. TargetOK'
  BY <1>2, <1>6 DEF RaceInv, TargetOK
<1>11. LocksOK'
  BY <1>2, <1>3, <1>6, <1>7, <1>8 DEF RaceInv, LocksOK, Shared
<1>12. ChangesOK'
  <2>. SUFFICES ASSUME NEW v \in Workers, InTransaction(v)
                PROVE  Recorded(work[v], left'[v], pend'[v])
    BY <1>2, <1>6 DEF ChangesOK
  <2>1. Recorded(work[v], left[v], pend[v])
    BY <1>3 DEF RaceInv, ChangesOK
  <2>2. CASE v # w
    BY <1>7, <2>1, <2>2
  <2>3. CASE v = w
    <3>1. r.field = c.field /\ r.new = c.new /\ r.type = c.type
      OBVIOUS
    <3>2. Recorded(s, left[w], pend[w])
      BY <2>1, <2>3
    <3>. HIDE DEF r, s
    <3>3. Recorded(s, left[w] \ {c}, pend[w] \cup {r})
      BY <3>1, <3>2, RecordOne
    <3>. QED  BY <1>8, <2>3, <3>3 DEF s
  <2>. QED  BY <2>2, <2>3
<1>13. RowsOK'
  BY <1>1, <1>2, <1>3, <1>6, <1>7, <1>8 DEF RaceInv, RowsOK, TypeOK, Row
<1>14. DatesOK'
  <2>1. nextId \in Nat /\ nextId' \in Nat
    BY <1>5, <1>3 DEF TypeOK
  <2>2. \A t \in Tickets : tickets[t] # Absent => tickets[t].resolved \in Nat
    BY <1>3 DEF TypeOK, TicketRow
  <2>3. \A v \in Workers : InTransaction(v) => work[v].mine.resolved \in Nat
    BY DEF RaceInv, ControlOK, Session, TicketRow
  <2>4. DatesOK
    BY DEF RaceInv
  <2>. QED  BY <1>2, <1>6, <1>7, <2>1, <2>2, <2>3, <2>4 DEF DatesOK
<1>15. NewestRowIsValue' /\ ResolvedHasDate' /\ RepliedIsNotNew'
  BY <1>2 DEF RaceInv, NewestRowIsValue, ResolvedHasDate, RepliedIsNotNew
<1>. QED
  BY <1>5, <1>9, <1>10, <1>11, <1>12, <1>13, <1>14, <1>15 DEF RaceInv

\* A session that only moves on: past the foreign key when nobody holds the
\* exclusive lock, or with that lock in hand when nobody else is on the row.
LEMMA MovingOnKeeps ==
  ASSUME RaceInv, NEW w \in Workers, InTransaction(w),
         NEW next \in {"insert", "touch", "commit"}, NEW lock \in BOOLEAN,
         pc' = [pc EXCEPT ![w] = next],
         xlock' = [xlock EXCEPT ![w] = lock],
         next = "commit" => left[w] = {},
         next # "insert" => pend[w] # {},
         pc[w] = "check" => NoneExclusive(w),
         xlock[w] => lock,
         lock /\ ~xlock[w] => NoneExclusive(w) /\ NoneShared(w),
         UNCHANGED <<tickets, log, nextId, mail, work, left, pend, hooks>>
  PROVE  RaceInv'
<1>1. TypeOK /\ work[w] \in Session
  BY DEF RaceInv, ControlOK
<1>2. TypeOK'
  BY <1>1 DEF TypeOK, Phases
<1>3. \A v \in Workers : InTransaction(v)' <=> InTransaction(v)
  BY <1>1 DEF InTransaction, TypeOK
<1>4. \A v \in Workers : v # w => xlock'[v] = xlock[v] /\ pc'[v] = pc[v]
  BY <1>1 DEF TypeOK
<1>5. xlock'[w] = lock /\ pc'[w] = next
  BY <1>1 DEF TypeOK
<1>6. ControlOK'
  BY <1>1, <1>3, <1>4, <1>5 DEF RaceInv, ControlOK, SessionOK
<1>7. TargetOK'
  BY <1>3, <1>4, <1>5 DEF RaceInv, TargetOK
<1>8. LocksOK'
  <2>. SUFFICES ASSUME NEW u \in Workers, NEW v \in Workers, u # v,
                       InTransaction(u), InTransaction(v),
                       work[u].ticket = work[v].ticket, xlock'[v]
                PROVE  ~xlock'[u] /\ ~Shared(u)'
    BY <1>3 DEF LocksOK
  <2>1. xlock[v] => ~xlock[u] /\ ~Shared(u)
    BY DEF RaceInv, LocksOK
  <2>2. xlock[u] => ~xlock[v] /\ ~Shared(v)
    BY DEF RaceInv, LocksOK
  <2>3. CASE v = w
    <3>1. u \in Rivals(w)
      BY <2>3 DEF Rivals
    <3>. QED  BY <1>4, <1>5, <2>1, <2>3, <3>1 DEF NoneExclusive, NoneShared, Shared
  <2>4. CASE u = w
    <3>1. v \in Rivals(w)
      BY <2>4 DEF Rivals
    <3>. QED  BY <1>4, <1>5, <2>1, <2>4, <3>1 DEF NoneExclusive, NoneShared, Shared
  <2>5. CASE u # w /\ v # w
    BY <1>4, <2>1, <2>5 DEF Shared
  <2>. QED  BY <2>3, <2>4, <2>5
<1>9. ChangesOK'
  BY <1>3 DEF RaceInv, ChangesOK
<1>10. RowsOK'
  BY <1>3, <1>4, <1>5 DEF RaceInv, RowsOK
<1>11. DatesOK'
  BY <1>3 DEF RaceInv, DatesOK
<1>12. NewestRowIsValue' /\ ResolvedHasDate' /\ RepliedIsNotNew'
  BY DEF RaceInv, NewestRowIsValue, ResolvedHasDate, RepliedIsNotNew
<1>. QED
  BY <1>2, <1>6, <1>7, <1>8, <1>9, <1>10, <1>11, <1>12 DEF RaceInv

\* The UPDATE that precedes the INSERT.
LEMMA UpdateFirstKeeps ==
  ASSUME RaceInv, NEW w \in Workers, UpdateFirst(w)
  PROVE  RaceInv'
<1>1. pc[w] = "insert" /\ InTransaction(w) /\ pc \in [Workers -> Phases]
  BY DEF UpdateFirst, InTransaction, RaceInv, TypeOK
<1>2. pc' = [pc EXCEPT ![w] = "insert"]
  BY <1>1 DEF UpdateFirst
<1>. QED  BY <1>1, <1>2, MovingOnKeeps DEF UpdateFirst

\* The foreign key is checked.
LEMMA CheckParentKeeps ==
  ASSUME RaceInv, NEW w \in Workers, CheckParent(w)
  PROVE  RaceInv'
<1>1. InTransaction(w) /\ pend[w] # {}
  BY DEF CheckParent, InTransaction, RaceInv, ControlOK
<1>2. xlock \in [Workers -> BOOLEAN]
  BY DEF RaceInv, TypeOK
<1>3. xlock' = [xlock EXCEPT ![w] = xlock[w]] /\ xlock[w] \in BOOLEAN
  BY <1>2 DEF CheckParent
<1>. QED  BY <1>1, <1>3, MovingOnKeeps DEF CheckParent

\* The touch, with its UPDATE.
LEMMA TouchUpdateKeeps ==
  ASSUME RaceInv, NEW w \in Workers, TouchUpdate(w)
  PROVE  RaceInv'
<1>. DEFINE next == IF left[w] = {} THEN "commit" ELSE "insert"
<1>1. InTransaction(w) /\ pend[w] # {}
  BY DEF TouchUpdate, InTransaction, RaceInv, ControlOK
<1>2. pc' = [pc EXCEPT ![w] = next]
  BY DEF TouchUpdate, AfterTouch
<1>. QED  BY <1>1, <1>2, MovingOnKeeps DEF TouchUpdate

\* The touch that writes nothing: the session has only its message row yet.
LEMMA TouchUnchangedKeeps ==
  ASSUME RaceInv, NEW w \in Workers, TouchUnchanged(w)
  PROVE  RaceInv'
<1>. DEFINE next == IF left[w] = {} THEN "commit" ELSE "insert"
<1>1. InTransaction(w) /\ pend[w] # {}
  BY DEF TouchUnchanged, InTransaction, RaceInv, ControlOK
<1>2. pc' = [pc EXCEPT ![w] = next]
  BY DEF TouchUnchanged, AfterTouch
<1>3. xlock \in [Workers -> BOOLEAN]
  BY DEF RaceInv, TypeOK
<1>4. xlock' = [xlock EXCEPT ![w] = xlock[w]] /\ xlock[w] \in BOOLEAN
  BY <1>3 DEF TouchUnchanged
<1>. QED  BY <1>1, <1>2, <1>4, MovingOnKeeps DEF TouchUnchanged

(* The steps outside a transaction, and the ends of one *)

\* A worker that refuses, fires a hook or answers touches no table.
LEMMA OutsideKeeps ==
  ASSUME RaceInv, NEW w \in Workers, ~InTransaction(w),
         NEW next \in {"idle", "fire", "answer"},
         pc' = [pc EXCEPT ![w] = next],
         mail' \subseteq Mail,
         hooks' \in [Workers -> SUBSET Row],
         UNCHANGED <<tickets, log, nextId, work, left, pend, xlock>>
  PROVE  RaceInv'
<1>1. TypeOK
  BY DEF RaceInv
<1>2. TypeOK'
  BY <1>1 DEF TypeOK, Phases
<1>3. \A v \in Workers : InTransaction(v)' <=> InTransaction(v)
  BY <1>1 DEF InTransaction, TypeOK
<1>4. pc'[w] = next /\ \A v \in Workers \ {w} : pc'[v] = pc[v]
  BY <1>1 DEF TypeOK
<1>5. ControlOK'
  BY <1>3, <1>4 DEF RaceInv, ControlOK, SessionOK
<1>6. TargetOK' /\ LocksOK' /\ ChangesOK' /\ DatesOK'
  BY <1>3, <1>4 DEF RaceInv, TargetOK, LocksOK, Shared, ChangesOK, DatesOK
<1>7. RowsOK'
  BY <1>4 DEF RaceInv, RowsOK, ControlOK
<1>8. NewestRowIsValue' /\ ResolvedHasDate' /\ RepliedIsNotNew'
  BY DEF RaceInv, NewestRowIsValue, ResolvedHasDate, RepliedIsNotNew
<1>. QED  BY <1>2, <1>5, <1>6, <1>7, <1>8 DEF RaceInv

\* What Released leaves of the workers.
LEMMA ReleasedWorkers ==
  ASSUME TypeOK, NEW w \in Workers, NEW next \in {"idle", "fire", "answer"},
         Released(w, next)
  PROVE  /\ pc' \in [Workers -> Phases]
         /\ work' \in [Workers -> Session \cup {NoWork}]
         /\ left' \in [Workers -> SUBSET Change]
         /\ pend' \in [Workers -> SUBSET Row]
         /\ xlock' \in [Workers -> BOOLEAN]
         /\ ~InTransaction(w)' /\ left'[w] = {} /\ pend'[w] = {} /\ ~xlock'[w]
         /\ pc'[w] = next
         /\ \A v \in Workers \ {w} :
              /\ InTransaction(v)' <=> InTransaction(v)
              /\ pc'[v] = pc[v] /\ work'[v] = work[v] /\ left'[v] = left[v]
              /\ pend'[v] = pend[v] /\ xlock'[v] = xlock[v]
BY DEF Released, TypeOK, InTransaction, Phases

\* The parts of the invariant that are about one worker, or about two, survive
\* the end of a session, whatever it leaves in the tables.
LEMMA ReleasedKeeps ==
  ASSUME RaceInv, NEW w \in Workers, NEW next \in {"idle", "fire", "answer"},
         Released(w, next)
  PROVE  ControlOK' /\ LocksOK' /\ ChangesOK'
<1>1. TypeOK
  BY DEF RaceInv
<1>2. ControlOK'
  BY <1>1, ReleasedWorkers DEF RaceInv, ControlOK, SessionOK
<1>3. LocksOK'
  BY <1>1, ReleasedWorkers DEF RaceInv, LocksOK, Shared
<1>4. ChangesOK'
  BY <1>1, ReleasedWorkers DEF RaceInv, ChangesOK
<1>. QED  BY <1>2, <1>3, <1>4

\* A rollback, of a deadlock's victim or of a worker that dies.
LEMMA RollbackKeeps ==
  ASSUME RaceInv, NEW w \in Workers, NEW next \in {"idle", "answer"},
         Released(w, next),
         hooks' \in [Workers -> SUBSET Row],
         UNCHANGED <<tickets, log, nextId, mail>>
  PROVE  RaceInv'
<1>1. TypeOK
  BY DEF RaceInv
<1>2. TypeOK'
  BY <1>1, ReleasedWorkers DEF TypeOK
<1>3. ControlOK' /\ LocksOK' /\ ChangesOK'
  BY ReleasedKeeps
<1>4. TargetOK'
  <2>. SUFFICES ASSUME NEW v \in Workers, InTransaction(v)'
                PROVE  LET s == work[v] IN
                       /\ s.born => tickets[s.ticket] = Absent /\ xlock'[v]
                       /\ ~s.born =>
                            /\ tickets[s.ticket] # Absent
                            /\ s.snap.col["status"] # "new"
                                 => tickets[s.ticket].col["status"] # "new"
    BY <1>1, ReleasedWorkers DEF TargetOK
  <2>1. v # w /\ InTransaction(v) /\ xlock'[v] = xlock[v]
    BY <1>1, ReleasedWorkers
  <2>. QED  BY <2>1 DEF RaceInv, TargetOK
<1>5. RowsOK'
  BY <1>1, ReleasedWorkers DEF RaceInv, RowsOK
<1>6. DatesOK'
  BY <1>1, ReleasedWorkers DEF RaceInv, DatesOK
<1>7. NewestRowIsValue' /\ ResolvedHasDate' /\ RepliedIsNotNew'
  BY DEF RaceInv, NewestRowIsValue, ResolvedHasDate, RepliedIsNotNew
<1>. QED  BY <1>2, <1>3, <1>4, <1>5, <1>6, <1>7 DEF RaceInv

(* The commit *)

\* What a session's UPDATEs leave in a column: its own value where it moved
\* the column, and what is in the table elsewhere.
LEMMA MergeColumns ==
  ASSUME NEW row \in TicketRow, NEW snap \in TicketRow, NEW mine \in TicketRow
  PROVE  LET new == Merge(row, snap, mine) IN
         /\ new \in TicketRow
         /\ \A c \in Columns :
              /\ mine.col[c] # snap.col[c] => new.col[c] = mine.col[c]
              /\ mine.col[c] = snap.col[c] => new.col[c] = row.col[c]
         /\ mine.resolved # snap.resolved => new.resolved = mine.resolved
         /\ mine.resolved = snap.resolved => new.resolved = row.resolved
         /\ (snap.started # NoDate => mine.started # NoDate) /\ row.started # NoDate
              => new.started # NoDate
<1>1. \A c \in Columns : Written(row.col[c], snap.col[c], mine.col[c]) \in ColumnValues
  BY DEF TicketRow, Written
<1>2. /\ Written(row.started, snap.started, mine.started) \in Nat
      /\ Written(row.resolved, snap.resolved, mine.resolved) \in Nat
      /\ Written(row.lastBy, snap.lastBy, mine.lastBy) \in Actors
  BY DEF TicketRow, Written
<1>. QED  BY <1>1, <1>2 DEF Merge, Written, TicketRow

\* What a commit does to the two tables.
LEMMA CommitWrites ==
  ASSUME RaceInv, NEW w \in Workers, Commit(w)
  PROVE  LET s == work[w]
             t == work[w].ticket
             n == tickets'[work[w].ticket] IN
         /\ s \in Session /\ SessionOK(s) /\ t \in Tickets
         /\ n \in TicketRow /\ n # Absent
         /\ tickets' = [tickets EXCEPT ![t] = n]
         /\ s.born => tickets[t] = Absent /\ n = s.mine
         /\ ~s.born =>
              /\ tickets[t] \in TicketRow
              /\ s.snap.col["status"] # "new" => tickets[t].col["status"] # "new"
              /\ n = Merge(tickets[t], s.snap, s.mine)
              /\ \A c \in Columns :
                   /\ s.mine.col[c] # s.snap.col[c] => n.col[c] = s.mine.col[c]
                   /\ s.mine.col[c] = s.snap.col[c] => n.col[c] = tickets[t].col[c]
              /\ s.mine.resolved # s.snap.resolved => n.resolved = s.mine.resolved
              /\ s.mine.resolved = s.snap.resolved => n.resolved = tickets[t].resolved
              /\ tickets[t].started # NoDate => n.started # NoDate
         /\ log' = log \cup pend[w] /\ pend[w] # {}
         /\ Recorded(s, {}, pend[w])
         /\ \A a \in pend[w] : a.ticket = t /\ a.id < nextId /\ \A b \in log : b.id # a.id
<1>. DEFINE s == work[w]
            t == work[w].ticket
            n == IF s.born THEN s.mine ELSE Merge(tickets[t], s.snap, s.mine)
<1>1. /\ pc[w] = "commit" /\ InTransaction(w)
      /\ tickets' = [tickets EXCEPT ![t] = n]
      /\ log' = log \cup pend[w]
  BY DEF Commit, InTransaction
<1>2. TypeOK /\ s \in Session /\ SessionOK(s) /\ t \in Tickets
  BY <1>1 DEF RaceInv, ControlOK, Session
<1>3. left[w] = {} /\ pend[w] # {} /\ Recorded(s, {}, pend[w])
  BY <1>1 DEF RaceInv, ControlOK, ChangesOK
<1>4. /\ s.born => tickets[t] = Absent
      /\ ~s.born => /\ tickets[t] \in TicketRow
                    /\ s.snap.col["status"] # "new" => tickets[t].col["status"] # "new"
  BY <1>1, <1>2 DEF RaceInv, TargetOK, TypeOK
<1>5. s.mine \in TicketRow /\ s.snap \in TicketRow
  BY <1>2 DEF Session
<1>6. /\ n \in TicketRow
      /\ ~s.born => /\ \A c \in Columns :
                         /\ s.mine.col[c] # s.snap.col[c] => n.col[c] = s.mine.col[c]
                         /\ s.mine.col[c] = s.snap.col[c] => n.col[c] = tickets[t].col[c]
                    /\ s.mine.resolved # s.snap.resolved => n.resolved = s.mine.resolved
                    /\ s.mine.resolved = s.snap.resolved => n.resolved = tickets[t].resolved
                    /\ tickets[t].started # NoDate => n.started # NoDate
  <2>1. CASE s.born
    BY <1>5, <2>1
  <2>2. CASE ~s.born
    BY <1>2, <1>4, <1>5, <2>2, MergeColumns DEF SessionOK
  <2>. QED  BY <2>1, <2>2
<1>7. tickets'[t] = n /\ n # Absent
  BY <1>1, <1>2, <1>6, AbsentIsNoRow DEF TypeOK
<1>8. \A a \in pend[w] : a.ticket = t /\ a.id < nextId /\ \A b \in log : b.id # a.id
  BY DEF RaceInv, RowsOK
<1>9. s.born => n = s.mine
  OBVIOUS
<1>10. ~s.born => n = Merge(tickets[t], s.snap, s.mine)
  OBVIOUS
<1>. HIDE DEF n
<1>. QED  BY <1>1, <1>2, <1>3, <1>4, <1>6, <1>7, <1>8, <1>9, <1>10

\* A commit: the invariant's argument.  A session that moved a column holds
\* the exclusive lock, so no rival commits a row of the ticket before it, and
\* its own row is newer than the committed ones.
LEMMA CommitKeeps ==
  ASSUME RaceInv, NEW w \in Workers, Commit(w)
  PROVE  RaceInv'
<1>. DEFINE s == work[w]
            t == work[w].ticket
            n == tickets'[t]
            next == IF Announced(pend[w]) = {} THEN "answer" ELSE "fire"
<1>1. /\ pc[w] = "commit" /\ InTransaction(w)
      /\ tickets' = [tickets EXCEPT ![t] = n]
      /\ log' = log \cup pend[w]
      /\ hooks' = [hooks EXCEPT ![w] = Announced(pend[w])]
      /\ Released(w, next) /\ next \in {"idle", "fire", "answer"}
      /\ UNCHANGED <<nextId, mail>>
  BY CommitWrites DEF Commit, InTransaction
<1>2. TypeOK /\ s \in Session /\ SessionOK(s) /\ t \in Tickets
  BY CommitWrites DEF RaceInv
<1>3. pend[w] # {} /\ Recorded(s, {}, pend[w])
  BY CommitWrites
<1>4. /\ s.born => tickets[t] = Absent /\ xlock[w] /\ n = s.mine
      /\ ~s.born => /\ tickets[t] \in TicketRow
                    /\ s.snap.col["status"] # "new" => tickets[t].col["status"] # "new"
  BY <1>1, CommitWrites DEF RaceInv, TargetOK
<1>6. /\ n \in TicketRow
      /\ ~s.born => /\ \A c \in Columns :
                         /\ s.mine.col[c] # s.snap.col[c] => n.col[c] = s.mine.col[c]
                         /\ s.mine.col[c] = s.snap.col[c] => n.col[c] = tickets[t].col[c]
                    /\ s.mine.resolved # s.snap.resolved => n.resolved = s.mine.resolved
                    /\ s.mine.resolved = s.snap.resolved => n.resolved = tickets[t].resolved
  BY CommitWrites
<1>7. \A u \in Tickets : tickets'[u] = IF u = t THEN n ELSE tickets[u]
  BY <1>1, <1>2 DEF TypeOK
<1>8. n # Absent
  BY <1>6, AbsentIsNoRow
<1>9. \A a \in pend[w] : a.ticket = t /\ a.id < nextId
  BY CommitWrites
<1>. HIDE DEF n, s, t, next
<1>10. TypeOK'
  <2>1. tickets' \in [Tickets -> TicketRow \cup {Absent}]
    BY <1>1, <1>2, <1>6 DEF TypeOK
  <2>2. log' \subseteq Row /\ hooks' \in [Workers -> SUBSET Row]
    BY <1>1, <1>2 DEF TypeOK, Announced
  <2>. QED  BY <1>1, <1>2, <2>1, <2>2, ReleasedWorkers DEF TypeOK
<1>11. ControlOK' /\ LocksOK' /\ ChangesOK'
  BY <1>1, ReleasedKeeps
<1>12. \A v \in Workers \ {w} :
         /\ InTransaction(v)' <=> InTransaction(v)
         /\ work'[v] = work[v] /\ xlock'[v] = xlock[v] /\ pend'[v] = pend[v]
         /\ pc'[v] = pc[v]
  BY <1>1, <1>2, ReleasedWorkers
<1>13. ~InTransaction(w)' /\ pend'[w] = {}
  BY <1>1, <1>2, ReleasedWorkers
<1>14. tickets[t] # Absent =>
         \A c \in Columns :
           \/ s.mine.col[c] = s.snap.col[c] /\ n.col[c] = tickets[t].col[c]
           \/ s.mine.col[c] # s.snap.col[c] /\ n.col[c] = s.mine.col[c]
  BY <1>4, <1>6
<1>15. "status" \in Columns
  BY DEF Columns
<1>16. tickets[t] # Absent /\ tickets[t].col["status"] # "new" => n.col["status"] # "new"
  BY <1>2, <1>14, <1>15 DEF SessionOK
<1>17. TargetOK'
  <2>. SUFFICES ASSUME NEW v \in Workers \ {w}, InTransaction(v)
                PROVE  /\ work[v].born => tickets'[work[v].ticket] = Absent /\ xlock[v]
                       /\ ~work[v].born =>
                            /\ tickets'[work[v].ticket] # Absent
                            /\ work[v].snap.col["status"] # "new"
                                 => tickets'[work[v].ticket].col["status"] # "new"
    BY <1>12, <1>13 DEF TargetOK
  <2>1. work[v].ticket \in Tickets
    BY DEF RaceInv, ControlOK, Session
  <2>2. /\ work[v].born => tickets[work[v].ticket] = Absent /\ xlock[v]
        /\ ~work[v].born =>
             /\ tickets[work[v].ticket] # Absent
             /\ work[v].snap.col["status"] # "new"
                  => tickets[work[v].ticket].col["status"] # "new"
    BY DEF RaceInv, TargetOK
  <2>3. CASE work[v].ticket # t
    BY <1>7, <2>1, <2>2, <2>3
  <2>4. CASE work[v].ticket = t
    <3>1. ~work[v].born
      <4>1. xlock[w] => ~xlock[v]
        BY <1>1, <2>4 DEF RaceInv, LocksOK, s, t
      <4>. QED  BY <1>4, <2>2, <2>4, <4>1, AbsentIsNoRow
    <3>. QED  BY <1>7, <1>8, <1>16, <2>1, <2>2, <2>4, <3>1
  <2>. QED  BY <2>3, <2>4
<1>18. RowsOK'
  <2>1. \A a \in log' : a.id < nextId /\ tickets'[a.ticket] # Absent
    <3>. SUFFICES ASSUME NEW a \in log'
                  PROVE  a.id < nextId /\ tickets'[a.ticket] # Absent
      OBVIOUS
    <3>1. CASE a \in pend[w]
      BY <1>2, <1>7, <1>8, <1>9, <3>1
    <3>2. CASE a \in log
      <4>1. a.id < nextId /\ tickets[a.ticket] # Absent /\ a.ticket \in Tickets
        BY <1>2, <3>2 DEF RaceInv, RowsOK, TypeOK, Row
      <4>. QED  BY <1>7, <1>8, <4>1
    <3>. QED  BY <1>1, <3>1, <3>2
  <2>2. ASSUME NEW v \in Workers \ {w}, NEW a \in pend[v]
        PROVE  /\ a.id < nextId
               /\ a.ticket = work[v].ticket
               /\ a.field \in Columns => xlock[v]
               /\ \A u \in Workers \ {v} : \A b \in pend[u] : b.id # a.id
               /\ \A b \in log : b.id # a.id
               /\ \A b \in log : b.ticket = a.ticket /\ a.field \in Columns => b.id < a.id
    BY <2>2 DEF RaceInv, RowsOK
  <2>3. ASSUME NEW v \in Workers \ {w}, NEW a \in pend[v], NEW b \in pend[w],
               b.ticket = a.ticket, a.field \in Columns
        PROVE  FALSE
    <3>1. xlock[v] /\ Shared(w)
      BY <1>1, <1>3, <2>2, <2>3 DEF Shared
    <3>2. work[v].ticket = work[w].ticket /\ InTransaction(v)
      BY <1>9, <2>2, <2>3 DEF RaceInv, ControlOK, t, s
    <3>. QED  BY <1>1, <2>3, <3>1, <3>2 DEF RaceInv, LocksOK
  <2>. QED  BY <1>1, <1>12, <1>13, <2>1, <2>2, <2>3 DEF RowsOK
<1>19. DatesOK'
  <2>1. \A u \in Tickets : tickets[u] # Absent => tickets[u].resolved < nextId
    BY DEF RaceInv, DatesOK
  <2>2. s.mine.resolved < nextId
    BY <1>1, <1>3 DEF RaceInv, DatesOK, s
  <2>3. n.resolved < nextId
    <3>1. CASE s.born
      BY <1>4, <2>2, <3>1
    <3>2. CASE ~s.born
      BY <1>2, <1>4, <1>6, <2>1, <2>2, <3>2, AbsentIsNoRow
    <3>. QED  BY <3>1, <3>2
  <2>4. \A u \in Tickets : tickets'[u] # Absent => tickets'[u].resolved < nextId
    BY <1>7, <2>1, <2>3
  <2>. QED  BY <1>1, <1>12, <1>13, <2>4 DEF RaceInv, DatesOK
<1>20. NewestRowIsValue'
  <2>. SUFFICES ASSUME NEW a \in log', a.field \in Columns,
                       \A b \in log' : b.ticket = a.ticket /\ b.field = a.field => b.id <= a.id
                PROVE  tickets'[a.ticket].col[a.field] = a.new
    BY DEF NewestRowIsValue
  <2>1. CASE a \in pend[w]
    <3>1. /\ a.ticket = t /\ ~s.born
          /\ a.new = s.mine.col[a.field] /\ s.mine.col[a.field] # s.snap.col[a.field]
      BY <1>3, <1>9, <2>1, MessageIsNoColumn DEF Recorded
    <3>. QED  BY <1>2, <1>6, <1>7, <3>1
  <2>2. CASE a \in log
    <3>1. /\ a.ticket \in Tickets /\ tickets[a.ticket] # Absent
          /\ tickets[a.ticket].col[a.field] = a.new
      <4>1. \A b \in log : b.ticket = a.ticket /\ b.field = a.field => b.id <= a.id
        BY <1>1
      <4>. QED  BY <1>2, <2>2, <4>1 DEF RaceInv, NewestRowIsValue, RowsOK, TypeOK, Row
    <3>2. CASE a.ticket # t
      BY <1>7, <3>1, <3>2
    <3>3. CASE a.ticket = t
      <4>1. s.mine.col[a.field] = s.snap.col[a.field]
        <5>1. SUFFICES ASSUME s.mine.col[a.field] # s.snap.col[a.field]
                       PROVE  FALSE
          OBVIOUS
        <5>2. PICK b \in pend[w] : b.field = a.field
          BY <1>3, <5>1 DEF Recorded
        <5>3. b \in log' /\ b.ticket = a.ticket /\ a.id < b.id
          BY <1>1, <1>9, <2>2, <3>3, <5>2 DEF RaceInv, RowsOK
        <5>4. a.id \in Nat /\ b.id \in Nat
          BY <1>2, <2>2, <5>2 DEF TypeOK, Row
        <5>. QED  BY <5>2, <5>3, <5>4
      <4>. QED  BY <1>7, <1>14, <3>1, <3>3, <4>1
    <3>. QED  BY <3>2, <3>3
  <2>. QED  BY <1>1, <2>1, <2>2
<1>21. ResolvedHasDate'
  <2>. SUFFICES ASSUME n.col["status"] = "resolved"
                PROVE  n.resolved # NoDate
    BY <1>7 DEF RaceInv, ResolvedHasDate
  <2>1. ~s.born
    BY <1>2, <1>4 DEF SessionOK, NEW_TICKET_STATUSES
  <2>2. tickets[t] # Absent
    BY <1>4, <2>1, AbsentIsNoRow
  <2>3. CASE s.mine.col["status"] # s.snap.col["status"]
    BY <1>2, <1>6, <1>15, <2>1, <2>3 DEF SessionOK
  <2>4. CASE s.mine.col["status"] = s.snap.col["status"]
    <3>1. tickets[t].resolved # NoDate
      BY <1>2, <1>6, <1>15, <2>1, <2>2, <2>4 DEF RaceInv, ResolvedHasDate
    <3>2. s.mine.resolved = NoDate => s.snap.resolved = NoDate
      BY <1>2, <2>4 DEF SessionOK
    <3>. QED  BY <1>6, <2>1, <3>1, <3>2
  <2>. QED  BY <2>3, <2>4
<1>22. RepliedIsNotNew'
  <2>. SUFFICES ASSUME NEW a \in log', a.type = "Correspond"
                PROVE  tickets'[a.ticket].col["status"] # "new"
    BY DEF RepliedIsNotNew
  <2>1. CASE a \in pend[w]
    <3>1. a.ticket = t /\ ~s.born /\ s.mine.col["status"] # "new"
      BY <1>3, <1>9, <2>1 DEF Recorded
    <3>2. n.col["status"] # "new"
      BY <1>4, <1>14, <1>15, <3>1, AbsentIsNoRow
    <3>. QED  BY <1>2, <1>7, <3>1, <3>2
  <2>2. CASE a \in log
    <3>1. /\ a.ticket \in Tickets /\ tickets[a.ticket] # Absent
          /\ tickets[a.ticket].col["status"] # "new"
      BY <1>2, <2>2 DEF RaceInv, RepliedIsNotNew, RowsOK, TypeOK, Row
    <3>. QED  BY <1>7, <1>16, <3>1
  <2>. QED  BY <1>1, <2>1, <2>2
<1>. QED
  BY <1>10, <1>11, <1>17, <1>18, <1>19, <1>20, <1>21, <1>22 DEF RaceInv

(* The start of a session *)

\* A Set or Status row is about a column that moves, and about the value it
\* moves to; there is exactly one for each.
LEMMA MovesRecord ==
  ASSUME NEW s \in Session
  PROVE  LET m == Moves(s.snap, s.mine) IN
         /\ m \subseteq Change
         /\ \A x \in m : /\ x.field \in Columns
                         /\ x.type # "Correspond"
                         /\ x.new = s.mine.col[x.field]
                         /\ s.mine.col[x.field] # s.snap.col[x.field]
         /\ \A x, y \in m : x.field = y.field => x = y
         /\ \A c \in Columns : s.mine.col[c] # s.snap.col[c] => \E x \in m : x.field = c
<1>1. \A c \in Columns : s.mine.col[c] \in ColumnValues /\ s.snap.col[c] \in ColumnValues
  BY DEF Session, TicketRow
<1>2. \A c \in Columns : Moved(c, s.snap, s.mine) \in Change
  BY <1>1 DEF Moved, Change, RowTypes
<1>3. \A c \in Columns : LET x == Moved(c, s.snap, s.mine) IN
        x.field = c /\ x.type # "Correspond" /\ x.new = s.mine.col[c]
  BY DEF Moved
<1>4. \A x : x \in Moves(s.snap, s.mine) <=>
        \E c \in Columns : s.mine.col[c] # s.snap.col[c] /\ x = Moved(c, s.snap, s.mine)
  BY DEF Moves
<1>. QED  BY <1>2, <1>3, <1>4

\* A session begins: it is about a row that is there, and which it has just
\* read, or about one it alone knows of.
LEMMA BeginKeeps ==
  ASSUME RaceInv, NEW w \in Workers, pc[w] = "idle",
         NEW s \in Session, NEW said \in SUBSET Change, Begin(w, s, said),
         SessionOK(s), s.mine.resolved <= nextId,
         \A x, y \in said : x = y,
         \A x \in said : /\ x.field = "message"
                         /\ x.type = "Correspond" => s.mine.col["status"] # "new"
                         /\ s.born => x.type = "Create",
         s.born => /\ tickets[s.ticket] = Absent
                   /\ \A v \in Workers : InTransaction(v) => work[v].ticket # s.ticket,
         ~s.born => tickets[s.ticket] = s.snap
  PROVE  RaceInv'
<1>1. TypeOK /\ ~InTransaction(w)
  BY DEF RaceInv, InTransaction
<1>2. left[w] = {} /\ pend[w] = {} /\ ~xlock[w]
  BY <1>1 DEF RaceInv, ControlOK
<1>. DEFINE todo == said \cup Moves(s.snap, s.mine)
<1>3. /\ pc' = [pc EXCEPT ![w] = "insert"]
      /\ work' = [work EXCEPT ![w] = s]
      /\ left' = [left EXCEPT ![w] = todo]
      /\ xlock' = [xlock EXCEPT ![w] = s.born]
      /\ UNCHANGED <<tickets, log, nextId, mail, pend, hooks>>
  BY DEF Begin
<1>4. todo \subseteq Change /\ Recorded(s, todo, {})
  <2>. DEFINE m == Moves(s.snap, s.mine)
  <2>1. /\ m \subseteq Change
        /\ \A x \in m : /\ x.field \in Columns
                        /\ x.type # "Correspond"
                        /\ x.new = s.mine.col[x.field]
                        /\ s.mine.col[x.field] # s.snap.col[x.field]
        /\ \A x, y \in m : x.field = y.field => x = y
        /\ \A c \in Columns : s.mine.col[c] # s.snap.col[c] => \E x \in m : x.field = c
    BY MovesRecord
  <2>2. s.born => m = {}
    BY DEF SessionOK, Moves
  <2>. HIDE DEF m
  <2>3. \A x \in todo :
          /\ x.field \in Columns => /\ x.new = s.mine.col[x.field]
                                   /\ s.mine.col[x.field] # s.snap.col[x.field]
          /\ x.type = "Correspond" => s.mine.col["status"] # "new"
          /\ s.born => x.type = "Create" /\ x.field = "message"
    BY <2>1, <2>2, MessageIsNoColumn DEF m
  <2>4. \A x, y \in todo : x.field = y.field => x = y
    BY <2>1, MessageIsNoColumn DEF m
  <2>5. \A c \in Columns : s.mine.col[c] # s.snap.col[c] => \E x \in todo : x.field = c
    BY <2>1 DEF m
  <2>. QED  BY <2>1, <2>3, <2>4, <2>5 DEF Recorded, m
<1>. HIDE DEF todo
<1>5. s.born \in BOOLEAN /\ s.snap \in TicketRow /\ s.mine \in TicketRow
      /\ s.ticket \in Tickets
  BY DEF Session
<1>6. TypeOK'
  BY <1>1, <1>3, <1>4, <1>5 DEF TypeOK, Phases
<1>7. /\ InTransaction(w)' /\ work'[w] = s /\ left'[w] = todo
      /\ xlock'[w] = s.born /\ pc'[w] = "insert" /\ pend'[w] = {}
  BY <1>1, <1>2, <1>3 DEF TypeOK, InTransaction
<1>8. \A v \in Workers \ {w} :
        /\ InTransaction(v)' <=> InTransaction(v)
        /\ work'[v] = work[v] /\ left'[v] = left[v] /\ xlock'[v] = xlock[v]
        /\ pc'[v] = pc[v]
  BY <1>1, <1>3 DEF TypeOK, InTransaction
<1>9. ControlOK'
  BY <1>3, <1>7, <1>8 DEF RaceInv, ControlOK, SessionOK
<1>10. TargetOK'
  <2>1. ~s.born => tickets[s.ticket] # Absent
    BY <1>5, AbsentIsNoRow
  <2>. QED  BY <1>3, <1>7, <1>8, <2>1 DEF RaceInv, TargetOK
<1>11. LocksOK'
  <2>. SUFFICES ASSUME NEW u \in Workers, NEW v \in Workers, u # v,
                       InTransaction(u)', InTransaction(v)',
                       work'[u].ticket = work'[v].ticket, xlock'[v]
                PROVE  ~xlock'[u] /\ ~Shared(u)'
    BY <1>3 DEF LocksOK
  <2>1. CASE u # w /\ v # w
    BY <1>3, <1>8, <2>1 DEF RaceInv, LocksOK, Shared
  <2>2. CASE u = w
    BY <1>2, <1>5, <1>7, <1>8, <2>2 DEF Shared
  <2>3. CASE v = w
    BY <1>7, <1>8, <2>3
  <2>. QED  BY <2>1, <2>2, <2>3
<1>12. ChangesOK'
  BY <1>3, <1>4, <1>7, <1>8 DEF RaceInv, ChangesOK
<1>13. RowsOK'
  BY <1>2, <1>3, <1>7, <1>8 DEF RaceInv, RowsOK
<1>14. DatesOK'
  BY <1>3, <1>7, <1>8 DEF RaceInv, DatesOK
<1>15. NewestRowIsValue' /\ ResolvedHasDate' /\ RepliedIsNotNew'
  BY <1>3 DEF RaceInv, NewestRowIsValue, ResolvedHasDate, RepliedIsNotNew
<1>. QED
  BY <1>6, <1>9, <1>10, <1>11, <1>12, <1>13, <1>14, <1>15 DEF RaceInv

(* The requests *)

\* A refusal writes nothing.
LEMMA RefuseKeeps ==
  ASSUME RaceInv, NEW w \in Workers, pc[w] = "idle", Refuse(w)
  PROVE  RaceInv'
<1>1. ~InTransaction(w) /\ mail \subseteq Mail /\ hooks \in [Workers -> SUBSET Row]
  BY DEF RaceInv, TypeOK, InTransaction
<1>. QED  BY <1>1, OutsideKeeps DEF Refuse

\* A write to a ticket that is there, of a row that went through the lifecycle.
LEMMA EditKeeps ==
  ASSUME RaceInv, NEW w \in Workers, pc[w] = "idle",
         NEW t \in Tickets, tickets[t] # Absent,
         NEW a \in Actors, NEW mine \in TicketRow, NEW said \in SUBSET Change,
         Edit(w, t, a, mine, said),
         \/ mine.col["status"] = tickets[t].col["status"]
         \/ ~refuses(tickets[t].col["status"], mine.col["status"]),
         mine.resolved = ResolvedAfter(tickets[t].col["status"], mine.col["status"],
                                       tickets[t].resolved, nextId),
         tickets[t].started # NoDate => mine.started # NoDate,
         \A x, y \in said : x = y,
         \A x \in said : /\ x.field = "message"
                         /\ x.type = "Correspond" => mine.col["status"] # "new"
  PROVE  RaceInv'
<1>1. PICK quiet \in BOOLEAN :
        Begin(w, [ticket |-> t, actor |-> a, born |-> FALSE, quiet |-> quiet,
                  snap |-> tickets[t], mine |-> [mine EXCEPT !.lastBy = a]], said)
  BY DEF Edit
<1>. DEFINE s == [ticket |-> t, actor |-> a, born |-> FALSE, quiet |-> quiet,
                  snap |-> tickets[t], mine |-> [mine EXCEPT !.lastBy = a]]
<1>2. /\ tickets[t] \in TicketRow /\ tickets[t].resolved < nextId
      /\ nextId \in Nat \ {0}
  BY DEF RaceInv, TypeOK, DatesOK
<1>3. /\ s \in Session /\ s.born = FALSE /\ s.ticket = t /\ s.snap = tickets[t]
      /\ s.mine.col = mine.col /\ s.mine.resolved = mine.resolved
      /\ s.mine.started = mine.started
  BY <1>2 DEF Session, TicketRow
<1>. HIDE DEF s
<1>4. SessionOK(s) /\ s.mine.resolved <= nextId
  BY <1>2, <1>3, DecidedSoundly
<1>. QED  BY <1>1, <1>3, <1>4, BeginKeeps DEF s

\* The message row of a reply or a comment.
LEMMA SaidIsChange ==
  ASSUME NEW type \in RowTypes
  PROVE  /\ {Said(type)} \in SUBSET Change
         /\ \A x \in {Said(type)} : x.field = "message" /\ x.type = type
BY DEF Said, Change

\* What apply_status wants of the row it is given.
LEMMA RowsAreRead ==
  ASSUME RaceInv, NEW t \in Tickets, tickets[t] # Absent
  PROVE  tickets[t] \in TicketRow /\ nextId \in Nat
BY DEF RaceInv, TypeOK

\* The update page; a reply never leaves its ticket new.
LEMMA ticket_updateKeeps ==
  ASSUME RaceInv, NEW w \in Workers, ticket_update(w)
  PROVE  RaceInv'
<1>1. PICK t \in Tickets :
        /\ pc[w] = "idle" /\ tickets[t] # Absent
        /\ \/ Refuse(w)
           \/ \E a \in Actors, form \in UpdateForms :
                /\ ~UpdateRefused(tickets[t], form)
                /\ Edit(w, t, a, apply_status(tickets[t], Wanted(tickets[t], form), nextId),
                        UpdateMessage(form))
  BY DEF ticket_update
<1>2. CASE Refuse(w)
  BY <1>1, <1>2, RefuseKeeps
<1>3. ASSUME NEW a \in Actors, NEW form \in UpdateForms,
             ~UpdateRefused(tickets[t], form),
             Edit(w, t, a, apply_status(tickets[t], Wanted(tickets[t], form), nextId),
                  UpdateMessage(form))
      PROVE  RaceInv'
  <2>. DEFINE old == tickets[t].col["status"]
              new == Wanted(tickets[t], form)
              mine == apply_status(tickets[t], new, nextId)
  <2>1. ~refuses(old, new)
    BY <1>3 DEF UpdateRefused
  <2>2. new \in STATUSES /\ (new # old => new # "new")
    BY <2>1, NoMoveToNew
  <2>3. /\ mine \in TicketRow /\ mine.col["status"] = new
        /\ mine.resolved = ResolvedAfter(old, new, tickets[t].resolved, nextId)
        /\ tickets[t].started # NoDate => mine.started # NoDate
    BY <1>1, <2>2, RowsAreRead, ApplyStatus
  <2>4. form.content /\ form.kind = "respond" => new # "new"
    BY <2>2 DEF Wanted
  <2>5. /\ UpdateMessage(form) \in SUBSET Change
        /\ \A x, y \in UpdateMessage(form) : x = y
        /\ \A x \in UpdateMessage(form) :
             /\ x.field = "message"
             /\ x.type = "Correspond" => form.content /\ form.kind = "respond"
    BY SaidIsChange DEF UpdateMessage, RowTypes
  <2>. HIDE DEF mine, new
  <2>6. Edit(w, t, a, mine, UpdateMessage(form))
    BY <1>3 DEF mine, new
  <2>. QED  BY <1>1, <2>1, <2>3, <2>4, <2>5, <2>6, EditKeeps
<1>. QED  BY <1>1, <1>2, <1>3

\* The basics page, which has no message row.
LEMMA ticket_basics_saveKeeps ==
  ASSUME RaceInv, NEW w \in Workers, ticket_basics_save(w)
  PROVE  RaceInv'
<1>1. PICK t \in Tickets :
        /\ pc[w] = "idle" /\ tickets[t] # Absent
        /\ \/ Refuse(w)
           \/ \E a \in Actors, form \in BasicsForms :
                /\ ~BasicsRefused(tickets[t], form)
                /\ Edit(w, t, a, Basics(tickets[t], form, nextId), {})
  BY DEF ticket_basics_save
<1>2. CASE Refuse(w)
  BY <1>1, <1>2, RefuseKeeps
<1>3. ASSUME NEW a \in Actors, NEW form \in BasicsForms,
             ~BasicsRefused(tickets[t], form),
             Edit(w, t, a, Basics(tickets[t], form, nextId), {})
      PROVE  RaceInv'
  <2>. DEFINE row == [tickets[t] EXCEPT !.col =
                        [c \in Columns |-> IF c \in Fields THEN form.field[c]
                                           ELSE tickets[t].col[c]]]
              new == Asked(tickets[t], form)
              mine == apply_status(row, new, nextId)
  <2>1. tickets[t] \in TicketRow /\ nextId \in Nat
    BY <1>1, RowsAreRead
  <2>2. /\ row \in TicketRow /\ row.col["status"] = tickets[t].col["status"]
        /\ row.resolved = tickets[t].resolved /\ row.started = tickets[t].started
    <3>1. "status" \in Columns /\ "status" \notin Fields
      BY ConstantsOK DEF Columns, BasicsFields
    <3>2. \A c \in Fields : form.field[c] \in ColumnValues
      BY DEF BasicsForms, ColumnValues
    <3>. QED  BY <2>1, <3>1, <3>2 DEF TicketRow
  <2>3. ~refuses(tickets[t].col["status"], new)
    BY <1>3 DEF BasicsRefused
  <2>4. new \in STATUSES
    BY <2>3, NoMoveToNew
  <2>. HIDE DEF row, new
  <2>5. /\ mine \in TicketRow /\ mine.col["status"] = new
        /\ mine.resolved = ResolvedAfter(tickets[t].col["status"], new,
                                         tickets[t].resolved, nextId)
        /\ tickets[t].started # NoDate => mine.started # NoDate
    BY <2>1, <2>2, <2>4, ApplyStatus
  <2>. HIDE DEF mine
  <2>6. Edit(w, t, a, mine, {})
    BY <1>3 DEF Basics, mine, row, new
  <2>. QED  BY <1>1, <2>3, <2>5, <2>6, EditKeeps
<1>. QED  BY <1>1, <1>2, <1>3

\* A mail onto a ticket; the first reply opens it.
LEMMA mail_replyKeeps ==
  ASSUME RaceInv, NEW w \in Workers, mail_reply(w)
  PROVE  RaceInv'
<1>1. PICK t \in Tickets, a \in Actors, replying \in BOOLEAN :
        /\ pc[w] = "idle" /\ tickets[t] # Absent
        /\ \/ Refuse(w)
           \/ Edit(w, t, a, Opened(tickets[t], replying, nextId),
                   {Said(IF replying THEN "Correspond" ELSE "Comment")})
  BY DEF mail_reply
<1>2. CASE Refuse(w)
  BY <1>1, <1>2, RefuseKeeps
<1>3. CASE Edit(w, t, a, Opened(tickets[t], replying, nextId),
                {Said(IF replying THEN "Correspond" ELSE "Comment")})
  <2>. DEFINE old == tickets[t].col["status"]
              mine == Opened(tickets[t], replying, nextId)
              type == IF replying THEN "Correspond" ELSE "Comment"
  <2>1. tickets[t] \in TicketRow /\ nextId \in Nat
    BY <1>1, RowsAreRead
  <2>2. /\ mine \in TicketRow
        /\ \/ mine.col["status"] = old
           \/ ~refuses(old, mine.col["status"])
        /\ mine.resolved = ResolvedAfter(old, mine.col["status"],
                                         tickets[t].resolved, nextId)
        /\ tickets[t].started # NoDate => mine.started # NoDate
        /\ replying => mine.col["status"] # "new"
    <3>1. CASE replying /\ old = "new"
      <4>1. ~refuses("new", "open") /\ "open" \in STATUSES
        BY DEF refuses, may_change, transitions, TRANSITIONS, STATUSES, Active
      <4>2. mine = apply_status(tickets[t], "open", nextId)
        BY <3>1 DEF Opened
      <4>3. /\ mine \in TicketRow /\ mine.col["status"] = "open"
            /\ mine.resolved = ResolvedAfter(old, "open", tickets[t].resolved, nextId)
            /\ tickets[t].started # NoDate => mine.started # NoDate
        BY <2>1, <4>1, <4>2, ApplyStatus
      <4>. QED  BY <3>1, <4>1, <4>3
    <3>2. CASE ~(replying /\ old = "new")
      <4>1. mine = tickets[t]
        BY <3>2 DEF Opened
      <4>. QED  BY <2>1, <3>2, <4>1 DEF ResolvedAfter
    <3>. QED  BY <3>1, <3>2
  <2>3. type \in RowTypes /\ (type = "Correspond" => replying)
    BY DEF RowTypes
  <2>. HIDE DEF mine, type
  <2>4. Edit(w, t, a, mine, {Said(type)})
    BY <1>3 DEF mine, type
  <2>5. /\ {Said(type)} \in SUBSET Change
        /\ \A x \in {Said(type)} : x.field = "message" /\ x.type = type
        /\ \A x, y \in {Said(type)} : x = y
    BY <2>3, SaidIsChange
  <2>. QED  BY <1>1, <2>2, <2>3, <2>4, <2>5, EditKeeps
<1>. QED  BY <1>1, <1>2, <1>3

\* A new ticket is its creator's alone.
LEMMA CreateKeeps ==
  ASSUME RaceInv, NEW w \in Workers, pc[w] = "idle", NEW a \in Actors,
         NEW status \in NEW_TICKET_STATUSES, NEW cols \in [Fields -> Values],
         NEW requestor \in Actors, Create(w, a, status, cols, requestor)
  PROVE  RaceInv'
<1>. DEFINE row == [col |-> [c \in Columns |-> IF c \in Fields THEN cols[c] ELSE status],
                    started |-> NoDate, resolved |-> NoDate,
                    lastBy |-> a, requestor |-> requestor]
<1>1. PICK t \in Tickets :
        /\ tickets[t] = Absent
        /\ \A v \in Workers : InTransaction(v) => work[v].ticket # t
        /\ Begin(w, [ticket |-> t, actor |-> a, born |-> TRUE, quiet |-> FALSE,
                     snap |-> row, mine |-> row], {Said("Create")})
  BY DEF Create
<1>. DEFINE s == [ticket |-> t, actor |-> a, born |-> TRUE, quiet |-> FALSE,
                  snap |-> row, mine |-> row]
<1>2. row \in TicketRow /\ row.resolved = NoDate /\ row.col["status"] = status
  <2>1. status \in ColumnValues /\ \A c \in Fields : cols[c] \in ColumnValues
    BY DEF ColumnValues, NEW_TICKET_STATUSES, STATUSES
  <2>2. "status" \in Columns /\ "status" \notin Fields
    BY ConstantsOK DEF Columns, BasicsFields
  <2>. QED  BY <2>1, <2>2 DEF TicketRow, NoDate
<1>. HIDE DEF row
<1>3. /\ s \in Session /\ s.born = TRUE /\ s.ticket = t
      /\ s.snap = row /\ s.mine = row
  BY <1>2 DEF Session
<1>. HIDE DEF s
<1>4. SessionOK(s)
  BY <1>2, <1>3 DEF SessionOK
<1>5. s.mine.resolved <= nextId
  BY <1>2, <1>3 DEF RaceInv, TypeOK, NoDate
<1>6. /\ {Said("Create")} \in SUBSET Change
      /\ \A x \in {Said("Create")} : x.field = "message" /\ x.type = "Create"
      /\ \A x, y \in {Said("Create")} : x = y
  BY SaidIsChange DEF RowTypes
<1>7. Begin(w, s, {Said("Create")})
  BY <1>1 DEF s
<1>. QED  BY <1>1, <1>3, <1>4, <1>5, <1>6, <1>7, BeginKeeps

\* The create form and the mail that belongs to no ticket.
LEMMA createsKeep ==
  ASSUME RaceInv, NEW w \in Workers, ticket_create(w) \/ mail_create(w)
  PROVE  RaceInv'
<1>1. pc[w] = "idle"
  BY DEF ticket_create, mail_create
<1>2. CASE Refuse(w)
  BY <1>1, <1>2, RefuseKeeps
<1>3. ASSUME NEW a \in Actors, NEW form \in CreateForms, NEW requestor \in Actors,
             CreateGoes(Held[a], form),
             Create(w, a, form.status,
                    [f \in Fields |-> IF f = "priority" THEN Fresh[f] ELSE form.field[f]],
                    requestor)
      PROVE  RaceInv'
  <2>. DEFINE cols == [f \in Fields |-> IF f = "priority" THEN Fresh[f] ELSE form.field[f]]
  <2>1. cols \in [Fields -> Values]
    BY ConstantsOK DEF CreateForms
  <2>2. form.status \in NEW_TICKET_STATUSES
    BY <1>3 DEF CreateGoes
  <2>. QED  BY <1>1, <1>3, <2>1, <2>2, CreateKeeps
<1>4. ASSUME NEW a \in Actors, Create(w, a, "new", Fresh, a)
      PROVE  RaceInv'
  <2>1. Fresh \in [Fields -> Values] /\ "new" \in NEW_TICKET_STATUSES
    BY ConstantsOK DEF NEW_TICKET_STATUSES
  <2>. QED  BY <1>1, <1>4, <2>1, CreateKeeps
<1>. QED  BY <1>2, <1>3, <1>4 DEF ticket_create, mail_create

(* The theorems *)

\* No table is filled and nobody is at work before the first request.
LEMMA InitKeeps == Init => RaceInv
<1>. SUFFICES ASSUME Init PROVE RaceInv
  OBVIOUS
<1>1. TypeOK
  BY DEF Init, TypeOK, Phases
<1>2. \A w \in Workers : ~InTransaction(w) /\ pc[w] = "idle"
  BY DEF Init, InTransaction
<1>. QED
  BY <1>1, <1>2 DEF Init, RaceInv, ControlOK, TargetOK, LocksOK, ChangesOK, RowsOK,
     DatesOK, NewestRowIsValue, ResolvedHasDate, RepliedIsNotNew

\* Every step keeps the invariant, one lemma per action.
LEMMA NextKeeps == RaceInv /\ [Next]_vars => RaceInv'
<1>. SUFFICES ASSUME RaceInv, [Next]_vars PROVE RaceInv'
  OBVIOUS
<1>1. ASSUME NEW w \in Workers, Arrive(w)
      PROVE  RaceInv'
  BY <1>1, ticket_updateKeeps, ticket_basics_saveKeeps, mail_replyKeeps, createsKeep
     DEF Arrive
<1>2. ASSUME NEW w \in Workers, DeadlockVictim(w) \/ Crash(w)
      PROVE  RaceInv'
  <2>1. hooks' \in [Workers -> SUBSET Row]
    BY <1>2 DEF DeadlockVictim, Crash, RaceInv, TypeOK
  <2>. QED  BY <1>2, <2>1, RollbackKeeps DEF DeadlockVictim, Crash
<1>3. ASSUME NEW w \in Workers, FireHook(w)
      PROVE  RaceInv'
  <2>1. /\ ~InTransaction(w) /\ hooks' \in [Workers -> SUBSET Row]
        /\ UNCHANGED <<tickets, log, nextId, work, left, pend, xlock>>
        /\ \E next \in {"idle", "fire", "answer"} : pc' = [pc EXCEPT ![w] = next]
    BY <1>3 DEF FireHook, InTransaction, RaceInv, TypeOK
  <2>2. mail' \subseteq Mail
    <3>1. PICK r \in hooks[w] :
            mail' = mail \/ mail' = mail \cup {[row |-> r.id, to |-> u] : u \in Recipients(r)}
      BY <1>3 DEF FireHook
    <3>2. r.id \in Nat /\ Recipients(r) \subseteq Actors /\ mail \subseteq Mail
      BY ConstantsOK DEF RaceInv, TypeOK, Row, Recipients
    <3>. QED  BY <3>1, <3>2 DEF Mail
  <2>. QED  BY <2>1, <2>2, OutsideKeeps
<1>4. ASSUME NEW w \in Workers, Respond(w)
      PROVE  RaceInv'
  <2>1. ~InTransaction(w) /\ mail \subseteq Mail /\ hooks \in [Workers -> SUBSET Row]
    BY <1>4 DEF Respond, InTransaction, RaceInv, TypeOK
  <2>. QED  BY <1>4, <2>1, OutsideKeeps DEF Respond
<1>5. CASE UNCHANGED vars
  BY <1>5 DEF vars, RaceInv, TypeOK, ControlOK, TargetOK, LocksOK, ChangesOK, RowsOK,
     DatesOK, NewestRowIsValue, ResolvedHasDate, RepliedIsNotNew, InTransaction, SessionOK, Shared
<1>6. ASSUME NEW w \in Workers, Serve(w)
      PROVE  RaceInv'
  BY <1>2, <1>3, <1>4, <1>6, UpdateFirstKeeps, InsertRowKeeps, CheckParentKeeps, TouchUpdateKeeps,
     TouchUnchangedKeeps, CommitKeeps DEF Serve
<1>. QED  BY <1>1, <1>2, <1>5, <1>6 DEF Next

\* The inductive invariant holds in every reachable state.
THEOREM Invariant == Spec => []RaceInv
BY InitKeeps, NextKeeps, PTL DEF Spec

\* Every variable keeps its type.
THEOREM TypeCorrect == Spec => []TypeOK
<1>1. RaceInv => TypeOK
  BY DEF RaceInv
<1>. QED  BY <1>1, Invariant, PTL

\* The history never disagrees with the ticket, however the requests of any
\* number of workers interleave (transactions.py:8, update.py:233).
THEOREM HistoryIsTrue == Spec => []NewestRowIsValue
<1>1. RaceInv => NewestRowIsValue
  BY DEF RaceInv
<1>. QED  BY <1>1, Invariant, PTL

\* No interleaving leaves a resolved ticket without its date (lifecycle.py:4).
THEOREM ResolvedIsDated == Spec => []ResolvedHasDate
<1>1. RaceInv => ResolvedHasDate
  BY DEF RaceInv
<1>. QED  BY <1>1, Invariant, PTL

\* No interleaving leaves a ticket new that somebody has replied to
\* (update.py:211, gateway.py:280).
THEOREM RepliesOpen == Spec => []RepliedIsNotNew
<1>1. RaceInv => RepliedIsNotNew
  BY DEF RaceInv
<1>. QED  BY <1>1, Invariant, PTL

(* The steps of the committed tables *)

\* Only a commit writes the two tables.
LEMMA OnlyCommitWrites ==
  ASSUME [Next]_vars
  PROVE  \/ UNCHANGED <<tickets, log>>
         \/ \E w \in Workers : Commit(w)
<1>1. ASSUME NEW w \in Workers, Arrive(w)
      PROVE  UNCHANGED <<tickets, log>>
  <2>1. Refuse(w) => UNCHANGED <<tickets, log>>
    BY DEF Refuse
  <2>2. ASSUME NEW s, NEW said, Begin(w, s, said)
        PROVE  UNCHANGED <<tickets, log>>
    BY <2>2 DEF Begin
  <2>3. ASSUME NEW t, NEW a, NEW mine, NEW said, Edit(w, t, a, mine, said)
        PROVE  UNCHANGED <<tickets, log>>
    BY <2>2, <2>3 DEF Edit
  <2>4. ASSUME NEW a, NEW status, NEW cols, NEW requestor,
               Create(w, a, status, cols, requestor)
        PROVE  UNCHANGED <<tickets, log>>
    BY <2>2, <2>4 DEF Create
  <2>5. ticket_update(w) => UNCHANGED <<tickets, log>>
    BY <2>1, <2>3 DEF ticket_update
  <2>6. ticket_basics_save(w) => UNCHANGED <<tickets, log>>
    BY <2>1, <2>3 DEF ticket_basics_save
  <2>7. mail_reply(w) => UNCHANGED <<tickets, log>>
    BY <2>1, <2>3 DEF mail_reply
  <2>8. ticket_create(w) => UNCHANGED <<tickets, log>>
    BY <2>1, <2>4 DEF ticket_create
  <2>9. mail_create(w) => UNCHANGED <<tickets, log>>
    BY <2>1, <2>4 DEF mail_create
  <2>. QED  BY <1>1, <2>5, <2>6, <2>7, <2>8, <2>9 DEF Arrive
<1>2. ASSUME NEW w \in Workers, Serve(w) \/ Crash(w), ~Commit(w)
      PROVE  UNCHANGED <<tickets, log>>
  BY <1>2 DEF Serve, UpdateFirst, InsertRow, CheckParent, TouchUpdate, TouchUnchanged,
     DeadlockVictim, FireHook, Respond, Crash
<1>. QED  BY <1>1, <1>2 DEF Next, vars

\* No race makes a ticket new again or takes its started date away
\* (lifecycle.py:4, update.py:233).
THEOREM NewIsLeft == Spec => NewIsLeftForGood
<1>. DEFINE Stays ==
       \A t \in Tickets :
         tickets[t] # Absent =>
           /\ tickets'[t].col["status"] = "new" => tickets[t].col["status"] = "new"
           /\ tickets[t].started # NoDate => tickets'[t].started # NoDate
<1>1. RaceInv /\ [Next]_vars => [Stays]_tickets
  <2>. SUFFICES ASSUME RaceInv, NEW w \in Workers, Commit(w)
                PROVE  Stays
    BY OnlyCommitWrites
  <2>. SUFFICES ASSUME NEW t \in Tickets, tickets[t] # Absent
                PROVE  /\ tickets'[t].col["status"] = "new" => tickets[t].col["status"] = "new"
                       /\ tickets[t].started # NoDate => tickets'[t].started # NoDate
    OBVIOUS
  <2>1. tickets \in [Tickets -> TicketRow \cup {Absent}]
    BY DEF RaceInv, TypeOK
  <2>2. CASE t # work[w].ticket
    BY <2>1, <2>2, CommitWrites
  <2>3. CASE t = work[w].ticket
    <3>1. SessionOK(work[w]) /\ ~work[w].born /\ "status" \in Columns
      BY <2>3, CommitWrites DEF Columns
    <3>2. /\ \/ /\ work[w].mine.col["status"] # work[w].snap.col["status"]
                /\ tickets'[t].col["status"] = work[w].mine.col["status"]
             \/ tickets'[t].col["status"] = tickets[t].col["status"]
          /\ tickets[t].started # NoDate => tickets'[t].started # NoDate
      BY <2>3, <3>1, CommitWrites
    <3>. QED  BY <3>1, <3>2 DEF SessionOK
  <2>. QED  BY <2>2, <2>3
<1>. QED  BY <1>1, Invariant, PTL DEF Spec, NewIsLeftForGood

(* The implementation of AuditTrail *)

Value == [t \in Tickets |-> IF tickets[t] = Absent THEN Absent ELSE tickets[t].col]

\* A ticket's creation is a step of the audit trail.
LEMMA BirthIsCreate ==
  ASSUME RaceInv, NEW w \in Workers, Commit(w), work[w].born,
         NEW t \in Tickets, t = work[w].ticket
  PROVE  Trail!Create(t)
<1>. DEFINE n == tickets'[t]
<1>1. /\ t \in Tickets /\ n \in TicketRow /\ n # Absent
      /\ tickets' = [tickets EXCEPT ![t] = n] /\ tickets[t] = Absent
      /\ tickets \in [Tickets -> TicketRow \cup {Absent}]
  BY CommitWrites DEF RaceInv, TypeOK
<1>2. log' \ log = pend[w] /\ pend[w] # {} /\ log' = log \cup pend[w]
  BY CommitWrites
<1>. HIDE DEF n
<1>3. /\ Value[t] = Absent /\ Value'[t] = n.col
      /\ n.col # Absent
  BY <1>1, AbsentIsNoRow DEF Value, TicketRow, n
<1>4. Value' = [Value EXCEPT ![t] = Value'[t]]
  BY <1>1 DEF Value
<1>5. \A r \in log' \ log : r.ticket = t /\ r.type = "Create" /\ \A b \in log : b.id # r.id
  BY <1>2, CommitWrites DEF Recorded
<1>6. Trail!Recorded(t, log' \ log)
  BY <1>2, <1>5 DEF Trail!Recorded
<1>. QED  BY <1>3, <1>4, <1>5, <1>6 DEF Trail!Create, Value

\* Any other commit is one too: the columns it changes are the columns of its
\* rows, which are the newest about them.
LEMMA EditIsWrite ==
  ASSUME RaceInv, NEW w \in Workers, Commit(w), ~work[w].born,
         NEW t \in Tickets, t = work[w].ticket
  PROVE  Trail!Write(t)
<1>. DEFINE s == work[w]
            n == tickets'[t]
            rows == log' \ log
<1>1. /\ t \in Tickets /\ n \in TicketRow /\ n # Absent
      /\ tickets' = [tickets EXCEPT ![t] = n]
      /\ tickets[t] \in TicketRow /\ tickets[t] # Absent
      /\ tickets \in [Tickets -> TicketRow \cup {Absent}]
  BY CommitWrites, AbsentIsNoRow DEF RaceInv, TypeOK
<1>2. /\ rows = pend[w] /\ rows # {} /\ log' = log \cup rows
      /\ Recorded(s, {}, rows)
  <2>1. /\ log' = log \cup pend[w] /\ pend[w] # {} /\ Recorded(s, {}, pend[w])
        /\ \A a \in pend[w] : \A b \in log : b.id # a.id
    BY CommitWrites
  <2>2. rows = pend[w]
    BY <2>1
  <2>. HIDE DEF rows
  <2>. QED  BY <2>1, <2>2
<1>3. \A r \in rows : r.ticket = t /\ \A b \in log : b.id # r.id
  BY <1>2, CommitWrites
<1>4. \A c \in Columns : \A r \in Trail!About(rows, c), b \in Trail!About(log, c) :
        b.ticket = t => b.id < r.id
  BY <1>2, <1>3 DEF RaceInv, RowsOK, Trail!About
<1>5. \A c \in Columns : \A r, q \in Trail!About(rows, c) : r = q
  BY <1>2 DEF Recorded, Trail!About
<1>6. \A c \in Columns :
        n.col[c] = IF Trail!About(rows, c) = {} THEN tickets[t].col[c]
                   ELSE (CHOOSE r \in Trail!About(rows, c) : TRUE).new
  <2>. SUFFICES ASSUME NEW c \in Columns
                PROVE  n.col[c] = IF Trail!About(rows, c) = {} THEN tickets[t].col[c]
                                  ELSE (CHOOSE r \in Trail!About(rows, c) : TRUE).new
    OBVIOUS
  <2>1. /\ s.mine.col[c] # s.snap.col[c] => n.col[c] = s.mine.col[c]
        /\ s.mine.col[c] = s.snap.col[c] => n.col[c] = tickets[t].col[c]
    BY CommitWrites
  <2>2. CASE Trail!About(rows, c) = {}
    <3>1. s.mine.col[c] = s.snap.col[c]
      BY <1>2, <2>2 DEF Recorded, Trail!About
    <3>. QED  BY <2>1, <2>2, <3>1
  <2>3. CASE Trail!About(rows, c) # {}
    <3>. DEFINE r == CHOOSE q \in Trail!About(rows, c) : TRUE
    <3>1. r \in Trail!About(rows, c)
      BY <2>3
    <3>. HIDE DEF r
    <3>2. r.new = s.mine.col[c] /\ s.mine.col[c] # s.snap.col[c]
      BY <1>2, <3>1 DEF Recorded, Trail!About
    <3>. QED  BY <2>1, <2>3, <3>2 DEF r
  <2>. QED  BY <2>2, <2>3
<1>. HIDE DEF n, rows
<1>7. n.col = [c \in Columns |->
                 IF Trail!About(rows, c) = {} THEN tickets[t].col[c]
                 ELSE (CHOOSE r \in Trail!About(rows, c) : TRUE).new]
  <2>1. n.col \in [Columns -> ColumnValues]
    BY <1>1 DEF TicketRow
  <2>. QED  BY <1>6, <2>1
<1>8. Value[t] = tickets[t].col /\ Value[t] # Absent
  BY <1>1, AbsentIsNoRow DEF Value, TicketRow
<1>9. Value' = [Value EXCEPT ![t] = n.col]
  BY <1>1 DEF Value
<1>10. Trail!Recorded(t, rows)
  BY <1>2, <1>3 DEF Trail!Recorded
<1>11. Value' = [Value EXCEPT ![t] =
                   [c \in Columns |->
                      IF Trail!About(rows, c) = {} THEN Value[t][c]
                      ELSE (CHOOSE r \in Trail!About(rows, c) : TRUE).new]]
  BY <1>7, <1>8, <1>9
<1>. QED  BY <1>4, <1>5, <1>8, <1>10, <1>11 DEF Trail!Write, Value, rows

\* The two tables implement the audit trail: every value comes with its row,
\* in the order of the rows, under every interleaving (transactions.py:1-11).
THEOREM AuditTrailKept == Spec => KeepsAuditTrail
<1>1. Init => Trail!Init
  BY DEF Init, Trail!Init
<1>2. RaceInv /\ [Next]_vars => [Trail!Next]_(Trail!trailVars)
  <2>. SUFFICES ASSUME RaceInv, [Next]_vars
                PROVE  [Trail!Next]_(Trail!trailVars)
    OBVIOUS
  <2>1. CASE UNCHANGED <<tickets, log>>
    BY <2>1 DEF Trail!trailVars
  <2>2. ASSUME NEW w \in Workers, Commit(w)
        PROVE  Trail!Next
    <3>1. PICK t \in Tickets : t = work[w].ticket
      BY <2>2, CommitWrites
    <3>2. Trail!Create(t) \/ Trail!Write(t)
      BY <2>2, <3>1, BirthIsCreate, EditIsWrite
    <3>. QED  BY <3>1, <3>2 DEF Trail!Next
  <2>. QED  BY <2>1, <2>2, OnlyCommitWrites
<1>. QED  BY <1>1, <1>2, Invariant, PTL DEF Spec, KeepsAuditTrail, Trail!Spec
==============================================================================
