---------------------------- MODULE HistoryProofs ----------------------------
(***************************************************************************)
(* More about Tickets, on top of TicketsProofs: who is answerable for a    *)
(* row of the history, that moves appear at its end, who is mailed about   *)
(* it, and what holds besides when one request is served at a time.        *)
(***************************************************************************)
EXTENDS TicketsProofs

(* Steps that write no table *)

\* A session that goes on, or is given up, tells nothing new.
LEMMA NothingWritten ==
  ASSUME IInv, RaceInv', UNCHANGED <<tickets, log>>,
         \A v \in Workers : InTransaction(v)' =>
           /\ InTransaction(v)
           /\ work'[v] = work[v] /\ left'[v] = left[v] /\ pend'[v] = pend[v]
  PROVE  /\ SessionsOK' /\ OrderOK' /\ NewestOK' /\ StatusRowsAuthorised'
         /\ OneAtATime => ResolvedDateMatches' /\ StatusRowsChain' /\ LastUpdatedByIsNewest'
<1>1. SessionsOK'
  <2>. SUFFICES ASSUME NEW v \in Workers, InTransaction(v)'
                PROVE  Lawful(work'[v]) /\ Accounted(work'[v], left'[v], pend'[v])
    BY DEF SessionsOK
  <2>. QED  BY DEF IInv, HistoryInv, SessionsOK
<1>2. OrderOK'
  <2>1. \A v \in Workers : ~InTransaction(v)' => left'[v] = {} /\ pend'[v] = {}
    BY DEF RaceInv, ControlOK
  <2>. QED  BY <2>1 DEF IInv, HistoryInv, OrderOK
<1>3. NewestOK'
  BY DEF IInv, HistoryInv, NewestOK, OneAtATime
<1>4. StatusRowsAuthorised'
  BY DEF IInv, HistoryInv, StatusRowsAuthorised
<1>5. OneAtATime => ResolvedDateMatches' /\ StatusRowsChain' /\ LastUpdatedByIsNewest'
  BY DEF IInv, HistoryInv, ResolvedDateMatches, StatusRowsChain, LastUpdatedByIsNewest
<1>. QED  BY <1>1, <1>2, <1>3, <1>4, <1>5

\* No mail is sent and no hook is added.
LEMMA NothingMailed ==
  ASSUME IInv, UNCHANGED <<tickets, log, mail>>,
         \A v \in Workers : hooks'[v] \subseteq hooks[v]
  PROVE  MailFollowsCommit' /\ MailAtMostOnce'
<1>1. MailFollowsCommit'
  BY DEF IInv, HistoryInv, MailFollowsCommit
<1>2. MailAtMostOnce'
  BY DEF IInv, HistoryInv, MailAtMostOnce
<1>. QED  BY <1>1, <1>2

\* A session that only moves on, or a worker that refuses or answers.
LEMMA MovingOnTells ==
  ASSUME IInv, RaceInv', NEW w \in Workers, NEW next \in Phases,
         pc' = [pc EXCEPT ![w] = next],
         InTransaction(w) \/ next \in {"idle", "answer"},
         UNCHANGED <<tickets, log, nextId, mail, work, left, pend, hooks>>
  PROVE  HistoryInv'
<1>1. \A v \in Workers : v # w => pc'[v] = pc[v]
  BY DEF IInv, RaceInv, TypeOK
<1>2. pc'[w] = next
  BY DEF IInv, RaceInv, TypeOK
<1>3. ASSUME NEW v \in Workers, InTransaction(v)'
      PROVE  InTransaction(v)
  <2>1. CASE v = w
    BY <1>2, <1>3, <2>1 DEF InTransaction
  <2>2. CASE v # w
    BY <1>1, <1>3, <2>2 DEF InTransaction
  <2>. QED  BY <2>1, <2>2
<1>4. /\ SessionsOK' /\ OrderOK' /\ NewestOK' /\ StatusRowsAuthorised'
      /\ OneAtATime => ResolvedDateMatches' /\ StatusRowsChain' /\ LastUpdatedByIsNewest'
  BY <1>3, NothingWritten
<1>5. MailFollowsCommit' /\ MailAtMostOnce'
  BY NothingMailed
<1>. QED  BY <1>4, <1>5 DEF HistoryInv, OneAtATime

LEMMA RefuseTells ==
  ASSUME IInv, RaceInv', NEW w \in Workers, pc[w] = "idle", Refuse(w)
  PROVE  HistoryInv'
BY MovingOnTells DEF Refuse, Phases

LEMMA RespondTells ==
  ASSUME IInv, RaceInv', NEW w \in Workers, Respond(w)
  PROVE  HistoryInv'
BY MovingOnTells DEF Respond, Phases

LEMMA UpdateFirstTells ==
  ASSUME IInv, RaceInv', NEW w \in Workers, UpdateFirst(w)
  PROVE  HistoryInv'
<1>1. pc' = [pc EXCEPT ![w] = "insert"] /\ InTransaction(w)
  BY DEF UpdateFirst, InTransaction, IInv, RaceInv, TypeOK
<1>. QED  BY <1>1, MovingOnTells DEF UpdateFirst, Phases

LEMMA CheckParentTells ==
  ASSUME IInv, RaceInv', NEW w \in Workers, CheckParent(w)
  PROVE  HistoryInv'
<1>1. pc' = [pc EXCEPT ![w] = "touch"] /\ InTransaction(w)
  BY DEF CheckParent, InTransaction
<1>. QED  BY <1>1, MovingOnTells DEF CheckParent, Phases

LEMMA TouchTells ==
  ASSUME IInv, RaceInv', NEW w \in Workers, TouchUpdate(w) \/ TouchUnchanged(w)
  PROVE  HistoryInv'
<1>. DEFINE next == IF left[w] = {} THEN "commit" ELSE "insert"
<1>1. pc' = [pc EXCEPT ![w] = next] /\ InTransaction(w)
  BY DEF TouchUpdate, TouchUnchanged, AfterTouch, InTransaction
<1>. QED  BY <1>1, MovingOnTells DEF TouchUpdate, TouchUnchanged, Phases

\* A rollback takes its rows with it, and a crash its hooks.
LEMMA RollbackTells ==
  ASSUME IInv, RaceInv', NEW w \in Workers, NEW next \in {"idle", "answer"},
         Released(w, next), UNCHANGED <<tickets, log, nextId, mail>>,
         \A v \in Workers : hooks'[v] \subseteq hooks[v]
  PROVE  HistoryInv'
<1>1. /\ ~InTransaction(w)'
      /\ \A v \in Workers \ {w} :
           /\ InTransaction(v)' <=> InTransaction(v)
           /\ pc'[v] = pc[v] /\ work'[v] = work[v] /\ left'[v] = left[v]
           /\ pend'[v] = pend[v] /\ xlock'[v] = xlock[v]
  BY ReleasedWorkers DEF IInv, RaceInv
<1>2. ASSUME NEW v \in Workers, InTransaction(v)'
      PROVE  /\ InTransaction(v)
             /\ work'[v] = work[v] /\ left'[v] = left[v] /\ pend'[v] = pend[v]
  BY <1>1, <1>2
<1>3. /\ SessionsOK' /\ OrderOK' /\ NewestOK' /\ StatusRowsAuthorised'
      /\ OneAtATime => ResolvedDateMatches' /\ StatusRowsChain' /\ LastUpdatedByIsNewest'
  BY <1>2, NothingWritten
<1>4. MailFollowsCommit' /\ MailAtMostOnce'
  BY NothingMailed
<1>. QED  BY <1>3, <1>4 DEF HistoryInv, OneAtATime

\* A hook is fired once, about a committed row, and to its recipients.
LEMMA FireHookTells ==
  ASSUME IInv, RaceInv', NEW w \in Workers, FireHook(w)
  PROVE  HistoryInv'
<1>1. pc \in [Workers -> Phases] /\ hooks \in [Workers -> SUBSET Row]
  BY DEF IInv, RaceInv, TypeOK
<1>2. PICK r \in hooks[w] :
        /\ hooks' = [hooks EXCEPT ![w] = @ \ {r}]
        /\ \/ mail' = mail \cup {[row |-> r.id, to |-> u] : u \in Recipients(r)}
           \/ mail' = mail
        /\ pc' = [pc EXCEPT ![w] = IF hooks[w] = {r} THEN "answer" ELSE "fire"]
  BY DEF FireHook
<1>3. pc[w] = "fire" /\ UNCHANGED <<tickets, log, nextId, work, left, pend, xlock>>
  BY DEF FireHook
<1>4. \A v \in Workers : (InTransaction(v)' <=> InTransaction(v)) /\ (InTransaction(v) => pc'[v] = pc[v])
  BY <1>1, <1>2, <1>3 DEF InTransaction
<1>5. /\ SessionsOK' /\ OrderOK' /\ NewestOK' /\ StatusRowsAuthorised'
      /\ OneAtATime => ResolvedDateMatches' /\ StatusRowsChain' /\ LastUpdatedByIsNewest'
  <2>1. ASSUME NEW v \in Workers, InTransaction(v)'
        PROVE  /\ InTransaction(v)
               /\ work'[v] = work[v] /\ left'[v] = left[v] /\ pend'[v] = pend[v]
    BY <1>3, <1>4, <2>1
  <2>. QED  BY <1>3, <2>1, NothingWritten
<1>6. /\ r \in log /\ \A m \in mail : m.row # r.id
      /\ \A v \in Workers \ {w} : r \notin hooks[v]
  BY DEF IInv, HistoryInv, MailAtMostOnce
<1>7. \A m \in mail' : m \in mail \/ (m.row = r.id /\ m.to \in Recipients(r))
  BY <1>2
<1>8. MailFollowsCommit'
  <2>. SUFFICES ASSUME NEW m \in mail'
                PROVE  \E a \in log :
                         /\ a.id = m.row
                         /\ m.to = tickets[a.ticket].requestor
                         /\ \/ a.type = "Create"
                            \/ a.type = "Correspond" /\ a.creator # m.to
                            \/ a.type = "Status" /\ a.new = "resolved"
    BY <1>3 DEF MailFollowsCommit
  <2>1. CASE m \in mail
    BY <2>1 DEF IInv, HistoryInv, MailFollowsCommit
  <2>2. CASE m.row = r.id /\ m.to \in Recipients(r)
    BY <1>6, <2>2 DEF Recipients
  <2>. QED  BY <1>7, <2>1, <2>2
<1>9. MailAtMostOnce'
  <2>1. \A v \in Workers : hooks'[v] \subseteq hooks[v] /\ r \notin hooks'[v]
    BY <1>1, <1>2, <1>6
  <2>2. \A a, b \in log : a.id = b.id => a = b
    BY DEF IInv, HistoryInv, OrderOK
  <2>3. ASSUME NEW v \in Workers, NEW a \in hooks'[v]
        PROVE  /\ a \in log /\ \A m \in mail' : m.row # a.id
               /\ \A u \in Workers \ {v} : a \notin hooks'[u]
    BY <1>6, <1>7, <2>1, <2>2, <2>3 DEF IInv, HistoryInv, MailAtMostOnce
  <2>. QED  BY <1>3, <2>3 DEF MailAtMostOnce
<1>. QED  BY <1>5, <1>8, <1>9 DEF HistoryInv, OneAtATime

(* A row is inserted *)

\* The message comes before the columns.
LEMMA MessageRanksFirst ==
  ASSUME NEW c \in Columns
  PROVE  ~(Rank[c] <= Rank["message"])
<1>1. c \in {"subject", "queue", "owner", "priority", "status"}
  BY ConstantsOK DEF Columns, BasicsFields
<1>2. /\ Rank["message"] = 0 /\ Rank["subject"] = 1 /\ Rank["queue"] = 2 /\ Rank["owner"] = 3
      /\ Rank["priority"] = 4 /\ Rank["status"] = 5
  BY DEF Rank
<1>. QED  BY <1>1, <1>2

\* A change stays accounted for when it becomes a row.
LEMMA AccountedOne ==
  ASSUME NEW s, NEW todo, NEW done, NEW c \in todo, NEW r,
         r.field = c.field, r.old = c.old, r.type = c.type, r.creator = s.actor,
         Accounted(s, todo, done)
  PROVE  Accounted(s, todo \ {c}, done \cup {r})
<1>1. \A x \in (todo \ {c}) \cup (done \cup {r}) :
        /\ x.type = "Status" <=> x.field = "status"
        /\ x.type = "Status" => x.old = s.snap.col["status"]
        /\ x.type = "Correspond" => x.field = "message"
  BY DEF Accounted
<1>2. (\E x \in todo \cup done : x.type = "Correspond")
        => \E x \in (todo \ {c}) \cup (done \cup {r}) : x.type = "Correspond"
  OBVIOUS
<1>3. \A a \in done \cup {r} : a.creator = s.actor
  BY DEF Accounted
<1>. QED  BY <1>1, <1>2, <1>3 DEF Accounted

LEMMA InsertRowTells ==
  ASSUME IInv, RaceInv', NEW w \in Workers, InsertRow(w)
  PROVE  HistoryInv'
<1>. DEFINE s == work[w]
<1>1. PICK c \in left[w] :
        /\ IsFirst(c, left[w])
        /\ left' = [left EXCEPT ![w] = @ \ {c}]
        /\ pend' = [pend EXCEPT ![w] = @ \cup
             {[id |-> nextId, ticket |-> s.ticket, creator |-> s.actor,
               type |-> c.type, field |-> c.field, old |-> c.old, new |-> c.new]}]
  BY DEF InsertRow
<1>. DEFINE r == [id |-> nextId, ticket |-> s.ticket, creator |-> s.actor,
                  type |-> c.type, field |-> c.field, old |-> c.old, new |-> c.new]
<1>2. /\ pc[w] = "insert" /\ nextId' = nextId + 1 /\ pc' = [pc EXCEPT ![w] = "check"]
      /\ UNCHANGED <<tickets, log, mail, work, xlock, hooks>>
  BY DEF InsertRow
<1>3. TypeOK /\ nextId \in Nat /\ InTransaction(w) /\ c \in Change /\ left[w] \subseteq Change
  BY <1>2 DEF IInv, RaceInv, TypeOK, InTransaction
<1>4. \A v \in Workers : InTransaction(v)' <=> InTransaction(v)
  BY <1>2, <1>3 DEF InTransaction, TypeOK
<1>5. \A v \in Workers : v # w => left'[v] = left[v] /\ pend'[v] = pend[v] /\ pc'[v] = pc[v]
  BY <1>1, <1>2, <1>3 DEF TypeOK
<1>6. left'[w] = left[w] \ {c} /\ pend'[w] = pend[w] \cup {r} /\ pc'[w] = "check"
  BY <1>1, <1>2, <1>3 DEF TypeOK
<1>7. /\ r.id = nextId /\ r.field = c.field /\ r.old = c.old /\ r.type = c.type
      /\ r.creator = s.actor /\ r.ticket = s.ticket
  OBVIOUS
<1>. HIDE DEF r
<1>8. /\ \A b \in log : b.id < nextId /\ b.id \in Nat
      /\ \A a \in pend[w] : a.id < nextId /\ a.id \in Nat
  BY <1>3 DEF IInv, RaceInv, RowsOK, TypeOK, Row
<1>9. SessionsOK'
  <2>. SUFFICES ASSUME NEW v \in Workers, InTransaction(v)
                PROVE  Lawful(work[v]) /\ Accounted(work[v], left'[v], pend'[v])
    BY <1>2, <1>4 DEF SessionsOK
  <2>1. Lawful(work[v]) /\ Accounted(work[v], left[v], pend[v])
    BY DEF IInv, HistoryInv, SessionsOK
  <2>2. CASE v # w
    BY <1>5, <2>1, <2>2
  <2>3. CASE v = w
    <3>1. Accounted(s, left[w], pend[w])
      BY <2>1, <2>3
    <3>. HIDE DEF s
    <3>2. Accounted(s, left[w] \ {c}, pend[w] \cup {r})
      BY <1>7, <3>1, AccountedOne
    <3>. QED  BY <1>6, <2>1, <2>3, <3>2 DEF s
  <2>. QED  BY <2>2, <2>3
<1>10. OrderOK'
  <2>1. \A x \in left'[w] : x.field # "message"
    <3>. SUFFICES ASSUME NEW x \in left[w], x # c, x.field = "message"
                  PROVE  FALSE
      BY <1>6
    <3>1. Rank[c.field] <= Rank["message"]
      BY <1>1 DEF IsFirst
    <3>2. c.field = "message"
      BY <1>3, <3>1, MessageRanksFirst DEF Change
    <3>3. Recorded(work[w], left[w], pend[w])
      BY <1>3 DEF IInv, RaceInv, ChangesOK
    <3>. QED  BY <3>2, <3>3 DEF Recorded
  <2>2. c.field = "message" => pend[w] = {}
    BY DEF IInv, HistoryInv, OrderOK
  <2>3. ASSUME NEW a \in pend'[w], NEW b \in pend'[w]
        PROVE  /\ a.field = "message" /\ b.field # "message" => a.id < b.id
               /\ a.id = b.id => a = b
    <3>1. CASE a \in pend[w] /\ b \in pend[w]
      BY <3>1 DEF IInv, HistoryInv, OrderOK
    <3>2. CASE a = r /\ b = r
      BY <3>2
    <3>3. CASE a \in pend[w] /\ b = r
      BY <1>3, <1>7, <1>8, <3>3
    <3>4. CASE a = r /\ b \in pend[w]
      BY <1>3, <1>7, <1>8, <2>2, <3>4
    <3>. QED  BY <1>6, <3>1, <3>2, <3>3, <3>4
  <2>. QED  BY <1>2, <1>5, <2>1, <2>3 DEF IInv, HistoryInv, OrderOK
<1>11. NewestOK'
  <2>. SUFFICES ASSUME NEW v \in Workers, InTransaction(v)
                PROVE  /\ OneAtATime =>
                            \A a \in pend'[v], b \in log : b.ticket = a.ticket => b.id < a.id
                       /\ OneAtATime /\ ~work[v].born => tickets[work[v].ticket] = work[v].snap
    BY <1>2, <1>4 DEF NewestOK, OneAtATime
  <2>1. CASE v # w
    BY <1>5, <2>1 DEF IInv, HistoryInv, NewestOK
  <2>2. CASE v = w
    BY <1>6, <1>7, <1>8, <2>2 DEF IInv, HistoryInv, NewestOK
  <2>. QED  BY <2>1, <2>2
<1>12. StatusRowsAuthorised' /\ MailFollowsCommit' /\ MailAtMostOnce'
  BY <1>2 DEF IInv, HistoryInv, StatusRowsAuthorised, MailFollowsCommit, MailAtMostOnce
<1>13. OneAtATime => ResolvedDateMatches' /\ StatusRowsChain' /\ LastUpdatedByIsNewest'
  BY <1>2 DEF IInv, HistoryInv, ResolvedDateMatches, StatusRowsChain, LastUpdatedByIsNewest
<1>. QED  BY <1>9, <1>10, <1>11, <1>12, <1>13 DEF HistoryInv, OneAtATime

(* A commit *)

\* What a commit adds to the history: the rows the session has accounted for,
\* under ids of their own, and on a ticket whose requestor stays.
LEMMA CommitAdds ==
  ASSUME IInv, NEW w \in Workers, Commit(w)
  PROVE  LET s == work[w]
             t == work[w].ticket
         IN
         /\ pc[w] = "commit" /\ InTransaction(w) /\ Lawful(s) /\ Accounted(s, {}, pend[w])
         /\ UNCHANGED <<nextId, mail>>
         /\ hooks' = [hooks EXCEPT ![w] = Announced(pend[w])]
         /\ \A a \in log : a \in Row /\ tickets'[a.ticket] \in TicketRow
                           /\ tickets'[a.ticket].requestor = tickets[a.ticket].requestor
         /\ \A a \in pend[w] : a \in Row
         /\ \A a, b \in log' : a.id = b.id => a = b
         /\ \A v \in Workers \ {w} :
              /\ InTransaction(v)' <=> InTransaction(v)
              /\ pc'[v] = pc[v] /\ work'[v] = work[v] /\ left'[v] = left[v]
              /\ pend'[v] = pend[v] /\ xlock'[v] = xlock[v]
         /\ ~InTransaction(w)' /\ left'[w] = {} /\ pend'[w] = {}
<1>. DEFINE s == work[w]
            t == work[w].ticket
            n == tickets'[t]
            next == IF Announced(pend[w]) = {} THEN "answer" ELSE "fire"
<1>1. /\ pc[w] = "commit" /\ InTransaction(w) /\ left[w] = {}
      /\ UNCHANGED <<nextId, mail>>
      /\ hooks' = [hooks EXCEPT ![w] = Announced(pend[w])]
      /\ Released(w, next) /\ next \in {"idle", "fire", "answer"}
  BY DEF Commit, InTransaction, IInv, RaceInv, ControlOK
<1>2. TypeOK /\ RaceInv
  BY DEF IInv, RaceInv
<1>3. Lawful(s) /\ Accounted(s, {}, pend[w])
  BY <1>1 DEF IInv, HistoryInv, SessionsOK
<1>4. /\ n \in TicketRow /\ tickets' = [tickets EXCEPT ![t] = n] /\ t \in Tickets
      /\ s.born => tickets[t] = Absent
      /\ ~s.born => n = Merge(tickets[t], s.snap, s.mine)
      /\ log' = log \cup pend[w]
      /\ \A a \in pend[w] : \A b \in log : b.id # a.id
  BY <1>2, CommitWrites
<1>5. ASSUME NEW a \in log
      PROVE  a \in Row /\ tickets'[a.ticket] \in TicketRow
             /\ tickets'[a.ticket].requestor = tickets[a.ticket].requestor
  <2>1. a \in Row /\ a.ticket \in Tickets /\ tickets[a.ticket] # Absent
        /\ tickets[a.ticket] \in TicketRow
    BY <1>2 DEF RaceInv, RowsOK, TypeOK, Row
  <2>2. CASE a.ticket # t
    BY <1>2, <1>4, <2>1, <2>2 DEF TypeOK
  <2>3. CASE a.ticket = t
    BY <1>4, <2>1, <2>3 DEF Merge
  <2>. QED  BY <2>1, <2>2, <2>3
<1>6. \A a \in pend[w] : a \in Row
  BY <1>2 DEF TypeOK
<1>7. \A a, b \in log' : a.id = b.id => a = b
  BY <1>4 DEF IInv, HistoryInv, OrderOK
<1>8. /\ \A v \in Workers \ {w} :
           /\ InTransaction(v)' <=> InTransaction(v)
           /\ pc'[v] = pc[v] /\ work'[v] = work[v] /\ left'[v] = left[v]
           /\ pend'[v] = pend[v] /\ xlock'[v] = xlock[v]
      /\ ~InTransaction(w)' /\ left'[w] = {} /\ pend'[w] = {}
  BY <1>1, <1>2, ReleasedWorkers
<1>. QED  BY <1>1, <1>3, <1>5, <1>6, <1>7, <1>8

\* Who may not modify the ticket has replied first.
LEMMA CommitIsAuthorised ==
  ASSUME IInv, NEW w \in Workers, Commit(w)
  PROVE  StatusRowsAuthorised'
<1>. DEFINE s == work[w]
<1>1. /\ log' = log \cup pend[w] /\ Recorded(s, {}, pend[w])
      /\ \A a \in pend[w] : a.ticket = s.ticket
  BY CommitWrites DEF IInv
<1>2. Accounted(s, {}, pend[w])
  BY CommitAdds
<1>3. ASSUME NEW a \in pend[w], a.type = "Status", "ModifyTicket" \notin Held[a.creator]
      PROVE  /\ a.old = "new" /\ a.new = "open"
             /\ \E b \in log' : /\ b.type = "Correspond" /\ b.ticket = a.ticket
                                /\ b.creator = a.creator /\ b.id < a.id
  <2>1. /\ a.field = "status" /\ a.creator = s.actor /\ a.old = s.snap.col["status"]
        /\ a.new = s.mine.col["status"] /\ s.mine.col["status"] # s.snap.col["status"]
    BY <1>1, <1>2, <1>3 DEF Accounted, Recorded, Columns
  <2>2. /\ s.snap.col["status"] = "new" /\ s.mine.col["status"] = "open"
        /\ \E b \in pend[w] : b.type = "Correspond"
    BY <1>2, <1>3, <2>1 DEF Accounted
  <2>3. PICK b \in pend[w] : b.type = "Correspond"
    BY <2>2
  <2>4. b.field = "message" /\ b.creator = s.actor
    BY <1>2, <2>3 DEF Accounted
  <2>5. b.id < a.id
    BY <2>1, <2>4 DEF IInv, HistoryInv, OrderOK
  <2>. QED  BY <1>1, <2>1, <2>2, <2>3, <2>4, <2>5
<1>. QED  BY <1>1, <1>3 DEF IInv, HistoryInv, StatusRowsAuthorised

\* A new row has its hooks ahead of it and no mail behind it.
LEMMA CommitMails ==
  ASSUME IInv, NEW w \in Workers, Commit(w)
  PROVE  MailFollowsCommit' /\ MailAtMostOnce'
<1>1. /\ log' = log \cup pend[w]
      /\ \A a \in pend[w] : \A b \in log : b.id # a.id
  BY CommitWrites DEF IInv
<1>2. /\ mail' = mail /\ hooks' = [hooks EXCEPT ![w] = Announced(pend[w])]
      /\ \A a \in log : tickets'[a.ticket].requestor = tickets[a.ticket].requestor
  BY CommitAdds
<1>3. \A m \in mail : \E a \in log : a.id = m.row
  BY DEF IInv, HistoryInv, MailFollowsCommit
<1>4. /\ hooks'[w] \subseteq pend[w]
      /\ \A v \in Workers \ {w} : hooks'[v] = hooks[v] /\ hooks[v] \subseteq log
  BY <1>2 DEF Announced, IInv, RaceInv, TypeOK, HistoryInv, MailAtMostOnce
<1>5. MailFollowsCommit'
  <2>. SUFFICES ASSUME NEW m \in mail
                PROVE  \E a \in log' :
                         /\ a.id = m.row
                         /\ m.to = tickets'[a.ticket].requestor
                         /\ \/ a.type = "Create"
                            \/ a.type = "Correspond" /\ a.creator # m.to
                            \/ a.type = "Status" /\ a.new = "resolved"
    BY <1>2 DEF MailFollowsCommit
  <2>1. PICK a \in log :
          /\ a.id = m.row
          /\ m.to = tickets[a.ticket].requestor
          /\ \/ a.type = "Create"
             \/ a.type = "Correspond" /\ a.creator # m.to
             \/ a.type = "Status" /\ a.new = "resolved"
    BY DEF IInv, HistoryInv, MailFollowsCommit
  <2>2. a \in log' /\ m.to = tickets'[a.ticket].requestor
    BY <1>1, <1>2, <2>1
  <2>. QED  BY <2>1, <2>2
<1>6. MailAtMostOnce'
  <2>. SUFFICES ASSUME NEW v \in Workers, NEW a \in hooks'[v]
                PROVE  /\ a \in log' /\ \A m \in mail : m.row # a.id
                       /\ \A u \in Workers \ {v} : a \notin hooks'[u]
    BY <1>2 DEF MailAtMostOnce
  <2>1. CASE v = w
    BY <1>1, <1>3, <1>4, <2>1
  <2>2. CASE v # w
    BY <1>1, <1>4, <2>2 DEF IInv, HistoryInv, MailAtMostOnce
  <2>. QED  BY <2>1, <2>2
<1>. QED  BY <1>5, <1>6

\* Whoever is beside another does not run one at a time.
LEMMA CommitIsNewest ==
  ASSUME IInv, NEW w \in Workers, Commit(w)
  PROVE  NewestOK'
<1>1. ~InTransaction(w)'
  BY CommitAdds
<1>2. ASSUME NEW v \in Workers \ {w}
      PROVE  ~OneAtATime
  BY <1>2 DEF OneAtATime
<1>. QED  BY <1>1, <1>2 DEF NewestOK, OneAtATime

\* With nobody else at work, the row a session read is the row it writes to.
LEMMA CommitInTurn ==
  ASSUME IInv, OneAtATime, NEW w \in Workers, Commit(w)
  PROVE  ResolvedDateMatches' /\ StatusRowsChain' /\ LastUpdatedByIsNewest'
<1>. DEFINE s == work[w]
            t == work[w].ticket
            n == tickets'[t]
<1>1. /\ SessionOK(s) /\ t \in Tickets /\ n \in TicketRow /\ s \in Session
      /\ tickets' = [tickets EXCEPT ![t] = n]
      /\ s.born => tickets[t] = Absent /\ n = s.mine
      /\ ~s.born =>
           /\ tickets[t] \in TicketRow
           /\ n = Merge(tickets[t], s.snap, s.mine)
           /\ \A c \in Columns :
                /\ s.mine.col[c] # s.snap.col[c] => n.col[c] = s.mine.col[c]
                /\ s.mine.col[c] = s.snap.col[c] => n.col[c] = tickets[t].col[c]
           /\ s.mine.resolved # s.snap.resolved => n.resolved = s.mine.resolved
           /\ s.mine.resolved = s.snap.resolved => n.resolved = tickets[t].resolved
      /\ log' = log \cup pend[w] /\ pend[w] # {} /\ Recorded(s, {}, pend[w])
      /\ \A a \in pend[w] : a.ticket = t
  BY CommitWrites DEF IInv
<1>2. /\ InTransaction(w) /\ Lawful(s) /\ Accounted(s, {}, pend[w])
      /\ \A a \in log' : a \in Row
  BY <1>1, CommitAdds
<1>3. /\ ~s.born => tickets[t] = s.snap
      /\ \A a \in pend[w], b \in log : b.ticket = a.ticket => b.id < a.id
  BY <1>2 DEF IInv, HistoryInv, NewestOK
<1>4. /\ ResolvedDateMatches /\ StatusRowsChain /\ LastUpdatedByIsNewest
      /\ \A a \in log : a.type = "Status" <=> a.field = "status"
      /\ "status" \in Columns
  BY DEF IInv, HistoryInv, OrderOK, Columns
<1>5. \A u \in Tickets : tickets'[u] = IF u = t THEN n ELSE tickets[u]
  BY <1>1 DEF IInv, RaceInv, TypeOK
<1>6. \A a \in log' : a.id \in Nat /\ a.ticket \in Tickets
  BY <1>2 DEF Row
<1>7. ResolvedDateMatches'
  <2>1. n.resolved # NoDate <=> n.col["status"] = "resolved"
    <3>1. CASE s.born
      BY <1>1, <1>2, <3>1 DEF SessionOK, Lawful, NEW_TICKET_STATUSES
    <3>2. CASE ~s.born
      <4>1. n.resolved = s.mine.resolved /\ n.col["status"] = s.mine.col["status"]
        BY <1>1, <1>3, <1>4, <3>2
      <4>2. s.snap.resolved # NoDate <=> s.snap.col["status"] = "resolved"
        BY <1>1, <1>3, <1>4, <3>2, AbsentIsNoRow DEF ResolvedDateMatches
      <4>. QED  BY <1>2, <4>1, <4>2 DEF Lawful
    <3>. QED  BY <3>1, <3>2
  <2>. QED  BY <1>4, <1>5, <2>1 DEF ResolvedDateMatches
<1>8. StatusRowsChain'
  <2>. SUFFICES ASSUME NEW a \in log', NEW b \in log', a.type = "Status", b.type = "Status",
                       a.ticket = b.ticket, a.id < b.id,
                       \A c \in log' : ~(/\ c.type = "Status" /\ c.ticket = a.ticket
                                         /\ a.id < c.id /\ c.id < b.id)
                PROVE  b.old = a.new
    BY DEF StatusRowsChain
  <2>1. CASE b \in log
    <3>1. a \in log
      BY <1>1, <1>3, <1>6, <2>1
    <3>. QED  BY <1>1, <1>4, <2>1, <3>1 DEF StatusRowsChain
  <2>2. CASE b \in pend[w]
    <3>1. /\ b.field = "status" /\ b.old = s.snap.col["status"] /\ ~s.born /\ b.ticket = t
      BY <1>1, <1>2, <2>2 DEF Accounted, Recorded
    <3>2. a \in log /\ a.field = "status"
      <4>1. a \notin pend[w]
        <5>. SUFFICES ASSUME a \in pend[w]
                      PROVE  FALSE
          OBVIOUS
        <5>1. a.field = "status"
          BY <1>2 DEF Accounted
        <5>2. a = b
          BY <1>1, <2>2, <3>1, <5>1 DEF Recorded
        <5>. QED  BY <1>6, <5>2
      <4>. QED  BY <1>1, <1>4, <4>1
    <3>3. \A c \in log : c.ticket = a.ticket /\ c.field = a.field => c.id <= a.id
      <4>. SUFFICES ASSUME NEW c \in log, c.ticket = a.ticket, c.field = "status"
                    PROVE  c.id <= a.id
        BY <3>2
      <4>1. c.type = "Status" /\ c.id < b.id /\ c \in log'
        BY <1>1, <1>3, <1>4, <2>2
      <4>2. ~(a.id < c.id)
        BY <4>1
      <4>3. a.id \in Nat /\ c.id \in Nat
        BY <1>6, <4>1
      <4>. QED  BY <4>2, <4>3
    <3>4. tickets[t].col["status"] = a.new
      BY <1>4, <3>1, <3>2, <3>3 DEF IInv, RaceInv, NewestRowIsValue
    <3>. QED  BY <1>3, <3>1, <3>4
  <2>. QED  BY <1>1, <2>1, <2>2
<1>9. LastUpdatedByIsNewest'
  <2>. SUFFICES ASSUME NEW a \in log', \A b \in log' : b.ticket = a.ticket => b.id <= a.id
                PROVE  tickets'[a.ticket].lastBy = a.creator
    BY DEF LastUpdatedByIsNewest
  <2>1. CASE a.ticket = t
    <3>1. PICK b \in pend[w] : b.ticket = t /\ b.id <= a.id
      BY <1>1, <2>1
    <3>2. a \in pend[w]
      <4>. SUFFICES ASSUME a \in log
                    PROVE  FALSE
        BY <1>1
      <4>1. a.id < b.id
        BY <1>3, <2>1, <3>1
      <4>2. a.id \in Nat /\ b.id \in Nat
        BY <1>1, <1>6, <3>1
      <4>. QED  BY <3>1, <4>1, <4>2
    <3>3. a.creator = s.actor /\ s.mine.lastBy = s.actor
      BY <1>2, <3>2 DEF Accounted, Lawful
    <3>4. n.lastBy = s.mine.lastBy
      BY <1>1, <1>3 DEF Merge, Written
    <3>. QED  BY <2>1, <3>3, <3>4
  <2>2. CASE a.ticket # t
    <3>1. a \in log /\ \A b \in log : b.ticket = a.ticket => b.id <= a.id
      BY <1>1, <2>2
    <3>. QED  BY <1>4, <1>5, <1>6, <2>2, <3>1 DEF LastUpdatedByIsNewest
  <2>. QED  BY <2>1, <2>2
<1>. QED  BY <1>7, <1>8, <1>9

LEMMA CommitTells ==
  ASSUME IInv, RaceInv', NEW w \in Workers, Commit(w)
  PROVE  HistoryInv'
<1>1. SessionsOK'
  BY CommitAdds DEF IInv, HistoryInv, SessionsOK
<1>2. OrderOK'
  <2>1. /\ log' = log \cup pend[w]
        /\ \A a \in pend[w] : a.type = "Status" <=> a.field = "status"
    BY CommitWrites, CommitAdds DEF IInv, Accounted
  <2>2. /\ \A a, b \in log' : a.id = b.id => a = b
        /\ left'[w] = {} /\ pend'[w] = {}
        /\ \A v \in Workers \ {w} : left'[v] = left[v] /\ pend'[v] = pend[v]
    BY CommitAdds
  <2>. QED  BY <2>1, <2>2 DEF IInv, HistoryInv, OrderOK
<1>3. OneAtATime => ResolvedDateMatches' /\ StatusRowsChain' /\ LastUpdatedByIsNewest'
  BY CommitInTurn
<1>. QED  BY <1>1, <1>2, <1>3, CommitIsNewest, CommitIsAuthorised, CommitMails
          DEF HistoryInv, OneAtATime

(* The start of a session *)

\* What a session has still to record when it begins.
LEMMA AccountedFirst ==
  ASSUME NEW s \in Session, NEW said,
         \A x \in said : x.field = "message" /\ x.type # "Status",
         LET was == s.snap.col["status"]
             is  == s.mine.col["status"]
         IN  is # was /\ "ModifyTicket" \notin Held[s.actor] =>
               /\ was = "new" /\ is = "open"
               /\ \E x \in said : x.type = "Correspond"
  PROVE  Accounted(s, said \cup Moves(s.snap, s.mine), {})
<1>. DEFINE m == Moves(s.snap, s.mine)
<1>1. \A x \in m : \E c \in Columns : x = Moved(c, s.snap, s.mine)
  BY DEF Moves
<1>2. \A x \in m : /\ x.type = "Status" <=> x.field = "status"
                   /\ x.type = "Status" => x.old = s.snap.col["status"]
                   /\ x.type # "Correspond"
  BY <1>1 DEF Moved
<1>. HIDE DEF m
<1>. QED  BY <1>2 DEF Accounted, m

LEMMA BeginTells ==
  ASSUME IInv, RaceInv', NEW w \in Workers, pc[w] = "idle",
         NEW s \in Session, NEW said, Begin(w, s, said),
         Lawful(s), Accounted(s, said \cup Moves(s.snap, s.mine), {}),
         ~s.born => tickets[s.ticket] = s.snap
  PROVE  HistoryInv'
<1>. DEFINE todo == said \cup Moves(s.snap, s.mine)
<1>1. TypeOK /\ pend[w] = {}
  BY DEF IInv, RaceInv, ControlOK, InTransaction
<1>2. /\ pc' = [pc EXCEPT ![w] = "insert"]
      /\ work' = [work EXCEPT ![w] = s]
      /\ left' = [left EXCEPT ![w] = todo]
      /\ xlock' = [xlock EXCEPT ![w] = s.born]
      /\ UNCHANGED <<tickets, log, nextId, mail, pend, hooks>>
  BY DEF Begin
<1>. HIDE DEF todo
<1>3. work'[w] = s /\ left'[w] = todo /\ pend'[w] = {}
  BY <1>1, <1>2 DEF TypeOK
<1>4. \A v \in Workers \ {w} :
        /\ InTransaction(v)' <=> InTransaction(v)
        /\ work'[v] = work[v] /\ left'[v] = left[v] /\ xlock'[v] = xlock[v]
        /\ pc'[v] = pc[v] /\ pend'[v] = pend[v]
  BY <1>1, <1>2 DEF TypeOK, InTransaction
<1>5. SessionsOK'
  <2>1. Lawful(work'[w]) /\ Accounted(work'[w], left'[w], pend'[w])
    BY <1>3 DEF todo
  <2>. SUFFICES ASSUME NEW v \in Workers \ {w}, InTransaction(v)
                PROVE  Lawful(work'[v]) /\ Accounted(work'[v], left'[v], pend'[v])
    BY <1>4, <2>1 DEF SessionsOK
  <2>. QED  BY <1>4 DEF IInv, HistoryInv, SessionsOK
<1>6. OrderOK'
  BY <1>2, <1>3, <1>4 DEF IInv, HistoryInv, OrderOK
<1>7. NewestOK'
  <2>. SUFFICES ASSUME NEW v \in Workers, InTransaction(v)'
                PROVE  /\ OneAtATime =>
                            \A a \in pend'[v], b \in log : b.ticket = a.ticket => b.id < a.id
                       /\ OneAtATime /\ ~work'[v].born =>
                            tickets[work'[v].ticket] = work'[v].snap
    BY <1>2 DEF NewestOK, OneAtATime
  <2>1. CASE v = w
    BY <1>3, <2>1
  <2>2. CASE v # w
    BY <1>4, <2>2 DEF IInv, HistoryInv, NewestOK
  <2>. QED  BY <2>1, <2>2
<1>8. StatusRowsAuthorised' /\ MailFollowsCommit' /\ MailAtMostOnce'
  BY <1>2 DEF IInv, HistoryInv, StatusRowsAuthorised, MailFollowsCommit, MailAtMostOnce
<1>9. OneAtATime => ResolvedDateMatches' /\ StatusRowsChain' /\ LastUpdatedByIsNewest'
  BY <1>2 DEF IInv, HistoryInv, ResolvedDateMatches, StatusRowsChain, LastUpdatedByIsNewest
<1>. QED  BY <1>5, <1>6, <1>7, <1>8, <1>9 DEF HistoryInv, OneAtATime

\* A move the lifecycle does not refuse, with the dates it sets.
LEMMA DecidedLawfully ==
  ASSUME NEW s \in Session, ~s.born, s.mine.lastBy = s.actor, s.quiet => SameSecond,
         NEW now \in Nat \ {0},
         \/ s.mine.col["status"] = s.snap.col["status"]
         \/ ~refuses(s.snap.col["status"], s.mine.col["status"]),
         s.mine.started = StartedAfter(s.snap.col["status"], s.mine.col["status"],
                                       s.snap.started, now),
         s.mine.resolved = ResolvedAfter(s.snap.col["status"], s.mine.col["status"],
                                         s.snap.resolved, now)
  PROVE  Lawful(s)
BY DEF Lawful, refuses, may_change, StartedAfter, ResolvedAfter, NoDate

\* A write to a ticket that is there: the row went through the lifecycle, and who
\* may not modify it opens it by his reply.
LEMMA EditTells ==
  ASSUME IInv, RaceInv', NEW w \in Workers, pc[w] = "idle",
         NEW t \in Tickets, tickets[t] # Absent,
         NEW a \in Actors, NEW mine \in TicketRow, NEW said,
         Edit(w, t, a, mine, said),
         \/ mine.col["status"] = tickets[t].col["status"]
         \/ ~refuses(tickets[t].col["status"], mine.col["status"]),
         mine.started = StartedAfter(tickets[t].col["status"], mine.col["status"],
                                     tickets[t].started, nextId),
         mine.resolved = ResolvedAfter(tickets[t].col["status"], mine.col["status"],
                                       tickets[t].resolved, nextId),
         \A x \in said : x.field = "message" /\ x.type # "Status",
         mine.col["status"] # tickets[t].col["status"] /\ "ModifyTicket" \notin Held[a] =>
           /\ tickets[t].col["status"] = "new" /\ mine.col["status"] = "open"
           /\ \E x \in said : x.type = "Correspond"
  PROVE  HistoryInv'
<1>1. PICK quiet \in BOOLEAN :
        /\ quiet => SameSecond
        /\ Begin(w, [ticket |-> t, actor |-> a, born |-> FALSE, quiet |-> quiet,
                     snap |-> tickets[t], mine |-> [mine EXCEPT !.lastBy = a]], said)
  BY DEF Edit
<1>. DEFINE s == [ticket |-> t, actor |-> a, born |-> FALSE, quiet |-> quiet,
                  snap |-> tickets[t], mine |-> [mine EXCEPT !.lastBy = a]]
<1>2. tickets[t] \in TicketRow /\ nextId \in Nat \ {0}
  BY DEF IInv, RaceInv, TypeOK
<1>3. /\ s \in Session /\ s.born = FALSE /\ s.ticket = t /\ s.snap = tickets[t]
      /\ s.actor = a /\ s.quiet = quiet /\ s.mine.lastBy = a
      /\ s.mine.col = mine.col /\ s.mine.resolved = mine.resolved
      /\ s.mine.started = mine.started
  BY <1>2 DEF Session, TicketRow
<1>4. Begin(w, s, said)
  BY <1>1
<1>. HIDE DEF s
<1>5. Lawful(s)
  BY <1>1, <1>2, <1>3, DecidedLawfully
<1>6. Accounted(s, said \cup Moves(s.snap, s.mine), {})
  BY <1>3, AccountedFirst
<1>. QED  BY <1>3, <1>4, <1>5, <1>6, BeginTells

\* The update page moves a status with ModifyTicket or by a reply.
LEMMA ticket_updateTells ==
  ASSUME IInv, RaceInv', NEW w \in Workers, ticket_update(w)
  PROVE  HistoryInv'
<1>1. PICK t \in Tickets :
        /\ pc[w] = "idle" /\ tickets[t] # Absent
        /\ \/ Refuse(w)
           \/ \E a \in Actors, form \in UpdateForms :
                /\ ~UpdateForbidden(tickets[t], Held[a], form)
                /\ ~UpdateRefused(tickets[t], form)
                /\ Edit(w, t, a, apply_status(tickets[t], Wanted(tickets[t], form), nextId),
                        UpdateMessage(form))
  BY DEF ticket_update
<1>2. CASE Refuse(w)
  BY <1>1, <1>2, RefuseTells
<1>3. ASSUME NEW a \in Actors, NEW form \in UpdateForms,
             ~UpdateForbidden(tickets[t], Held[a], form),
             ~UpdateRefused(tickets[t], form),
             Edit(w, t, a, apply_status(tickets[t], Wanted(tickets[t], form), nextId),
                  UpdateMessage(form))
      PROVE  HistoryInv'
  <2>. DEFINE old == tickets[t].col["status"]
              new == Wanted(tickets[t], form)
              mine == apply_status(tickets[t], new, nextId)
  <2>1. ~refuses(old, new) /\ new \in STATUSES
    BY <1>3, NoMoveToNew DEF UpdateRefused
  <2>2. /\ mine \in TicketRow /\ mine.col["status"] = new
        /\ mine.started = StartedAfter(old, new, tickets[t].started, nextId)
        /\ mine.resolved = ResolvedAfter(old, new, tickets[t].resolved, nextId)
    <3>1. tickets[t] \in TicketRow /\ nextId \in Nat
      BY <1>1 DEF IInv, RaceInv, TypeOK
    <3>. QED  BY <2>1, <3>1, ApplyStatus
  <2>3. \A x \in UpdateMessage(form) : x.field = "message" /\ x.type # "Status"
    BY DEF UpdateMessage, Said
  <2>4. ASSUME new # old, "ModifyTicket" \notin Held[a]
        PROVE  /\ old = "new" /\ new = "open"
               /\ \E x \in UpdateMessage(form) : x.type = "Correspond"
    <3>1. Asked(tickets[t], form) = old
      BY <1>3, <2>4 DEF UpdateForbidden, Asked
    <3>2. form.content /\ form.kind = "respond" /\ old = "new" /\ new = "open"
      BY <2>4, <3>1 DEF Wanted
    <3>3. Said("Correspond") \in UpdateMessage(form) /\ Said("Correspond").type = "Correspond"
      BY <3>2 DEF UpdateMessage, Said
    <3>. QED  BY <3>2, <3>3
  <2>. HIDE DEF mine, new
  <2>5. Edit(w, t, a, mine, UpdateMessage(form))
    BY <1>3 DEF mine, new
  <2>. QED  BY <1>1, <2>1, <2>2, <2>3, <2>4, <2>5, EditTells
<1>. QED  BY <1>1, <1>2, <1>3

\* The basics page asks for ModifyTicket.
LEMMA ticket_basics_saveTells ==
  ASSUME IInv, RaceInv', NEW w \in Workers, ticket_basics_save(w)
  PROVE  HistoryInv'
<1>1. PICK t \in Tickets :
        /\ pc[w] = "idle" /\ tickets[t] # Absent
        /\ \/ Refuse(w)
           \/ \E a \in Actors, form \in BasicsForms :
                /\ ~BasicsForbidden(Held[a])
                /\ ~BasicsRefused(tickets[t], form)
                /\ Edit(w, t, a, Basics(tickets[t], form, nextId), {})
  BY DEF ticket_basics_save
<1>2. CASE Refuse(w)
  BY <1>1, <1>2, RefuseTells
<1>3. ASSUME NEW a \in Actors, NEW form \in BasicsForms,
             ~BasicsForbidden(Held[a]), ~BasicsRefused(tickets[t], form),
             Edit(w, t, a, Basics(tickets[t], form, nextId), {})
      PROVE  HistoryInv'
  <2>. DEFINE row == [tickets[t] EXCEPT !.col =
                        [c \in Columns |-> IF c \in Fields THEN form.field[c]
                                           ELSE tickets[t].col[c]]]
              new == Asked(tickets[t], form)
              mine == apply_status(row, new, nextId)
  <2>1. tickets[t] \in TicketRow /\ nextId \in Nat
    BY <1>1 DEF IInv, RaceInv, TypeOK
  <2>2. /\ row \in TicketRow /\ row.col["status"] = tickets[t].col["status"]
        /\ row.resolved = tickets[t].resolved /\ row.started = tickets[t].started
    <3>1. "status" \in Columns /\ "status" \notin Fields
      BY ConstantsOK DEF Columns, BasicsFields
    <3>2. \A c \in Fields : form.field[c] \in ColumnValues
      BY DEF BasicsForms, ColumnValues
    <3>. QED  BY <2>1, <3>1, <3>2 DEF TicketRow
  <2>3. ~refuses(tickets[t].col["status"], new) /\ new \in STATUSES
    BY <1>3, NoMoveToNew DEF BasicsRefused
  <2>4. "ModifyTicket" \in Held[a]
    BY <1>3 DEF BasicsForbidden
  <2>. HIDE DEF row, new
  <2>5. /\ mine \in TicketRow /\ mine.col["status"] = new
        /\ mine.started = StartedAfter(tickets[t].col["status"], new,
                                       tickets[t].started, nextId)
        /\ mine.resolved = ResolvedAfter(tickets[t].col["status"], new,
                                         tickets[t].resolved, nextId)
    BY <2>1, <2>2, <2>3, ApplyStatus
  <2>. HIDE DEF mine
  <2>6. Edit(w, t, a, mine, {})
    BY <1>3 DEF Basics, mine, row, new
  <2>. QED  BY <1>1, <2>3, <2>4, <2>5, <2>6, EditTells
<1>. QED  BY <1>1, <1>2, <1>3

\* A mail moves a status only by being a reply.
LEMMA mail_replyTells ==
  ASSUME IInv, RaceInv', NEW w \in Workers, mail_reply(w)
  PROVE  HistoryInv'
<1>1. PICK t \in Tickets, a \in Actors, replying \in BOOLEAN :
        /\ pc[w] = "idle" /\ tickets[t] # Absent
        /\ \/ Refuse(w)
           \/ Edit(w, t, a, Opened(tickets[t], replying, nextId),
                   {Said(IF replying THEN "Correspond" ELSE "Comment")})
  BY DEF mail_reply
<1>2. CASE Refuse(w)
  BY <1>1, <1>2, RefuseTells
<1>3. CASE Edit(w, t, a, Opened(tickets[t], replying, nextId),
                {Said(IF replying THEN "Correspond" ELSE "Comment")})
  <2>. DEFINE old == tickets[t].col["status"]
              mine == Opened(tickets[t], replying, nextId)
              said == {Said(IF replying THEN "Correspond" ELSE "Comment")}
  <2>1. tickets[t] \in TicketRow /\ nextId \in Nat
    BY <1>1 DEF IInv, RaceInv, TypeOK
  <2>2. \A x \in said : x.field = "message" /\ x.type # "Status"
    BY DEF Said
  <2>3. replying => \E x \in said : x.type = "Correspond"
    BY DEF Said
  <2>4. /\ mine \in TicketRow
        /\ \/ mine.col["status"] = old
           \/ ~refuses(old, mine.col["status"])
        /\ mine.started = StartedAfter(old, mine.col["status"], tickets[t].started, nextId)
        /\ mine.resolved = ResolvedAfter(old, mine.col["status"],
                                         tickets[t].resolved, nextId)
        /\ mine.col["status"] # old => replying /\ old = "new" /\ mine.col["status"] = "open"
    <3>1. CASE replying /\ old = "new"
      <4>1. ~refuses("new", "open") /\ "open" \in STATUSES
        BY DEF refuses, may_change, transitions, TRANSITIONS, STATUSES, Active
      <4>2. mine = apply_status(tickets[t], "open", nextId)
        BY <3>1 DEF Opened
      <4>3. /\ mine \in TicketRow /\ mine.col["status"] = "open"
            /\ mine.started = StartedAfter(old, "open", tickets[t].started, nextId)
            /\ mine.resolved = ResolvedAfter(old, "open", tickets[t].resolved, nextId)
        BY <2>1, <4>1, <4>2, ApplyStatus
      <4>. QED  BY <3>1, <4>1, <4>3
    <3>2. CASE ~(replying /\ old = "new")
      <4>1. mine = tickets[t]
        BY <3>2 DEF Opened
      <4>. QED  BY <2>1, <4>1 DEF StartedAfter, ResolvedAfter
    <3>. QED  BY <3>1, <3>2
  <2>. HIDE DEF mine, said
  <2>5. Edit(w, t, a, mine, said)
    BY <1>3 DEF mine, said
  <2>. QED  BY <1>1, <2>2, <2>3, <2>4, <2>5, EditTells
<1>. QED  BY <1>1, <1>2, <1>3

\* A new ticket moves nothing and has no dates.
LEMMA CreateTells ==
  ASSUME IInv, RaceInv', NEW w \in Workers, pc[w] = "idle", NEW a \in Actors,
         NEW status \in NEW_TICKET_STATUSES, NEW cols \in [Fields -> Values],
         NEW requestor \in Actors, Create(w, a, status, cols, requestor)
  PROVE  HistoryInv'
<1>. DEFINE row == [col |-> [c \in Columns |-> IF c \in Fields THEN cols[c] ELSE status],
                    started |-> NoDate, resolved |-> NoDate,
                    lastBy |-> a, requestor |-> requestor]
<1>1. PICK t \in Tickets :
        Begin(w, [ticket |-> t, actor |-> a, born |-> TRUE, quiet |-> FALSE,
                  snap |-> row, mine |-> row], {Said("Create")})
  BY DEF Create
<1>. DEFINE s == [ticket |-> t, actor |-> a, born |-> TRUE, quiet |-> FALSE,
                  snap |-> row, mine |-> row]
            said == {Said("Create")}
<1>2. /\ row \in TicketRow /\ row.lastBy = a
      /\ row.started = NoDate /\ row.resolved = NoDate
  <2>1. status \in ColumnValues /\ \A c \in Fields : cols[c] \in ColumnValues
    BY DEF ColumnValues, NEW_TICKET_STATUSES, STATUSES
  <2>. QED  BY <2>1 DEF TicketRow, NoDate
<1>. HIDE DEF row
<1>3. /\ s \in Session /\ s.born = TRUE /\ s.quiet = FALSE /\ s.actor = a
      /\ s.snap = row /\ s.mine = row
  BY <1>2 DEF Session
<1>4. Begin(w, s, said) /\ \A x \in said : x.field = "message" /\ x.type # "Status"
  BY <1>1 DEF Said
<1>. HIDE DEF s, said
<1>5. Lawful(s)
  BY <1>2, <1>3 DEF Lawful
<1>6. Accounted(s, said \cup Moves(s.snap, s.mine), {})
  BY <1>3, <1>4, AccountedFirst
<1>. QED  BY <1>3, <1>4, <1>5, <1>6, BeginTells

LEMMA createsTell ==
  ASSUME IInv, RaceInv', NEW w \in Workers, ticket_create(w) \/ mail_create(w)
  PROVE  HistoryInv'
<1>1. pc[w] = "idle"
  BY DEF ticket_create, mail_create
<1>2. CASE Refuse(w)
  BY <1>1, <1>2, RefuseTells
<1>3. ASSUME NEW a \in Actors, NEW form \in CreateForms, NEW requestor \in Actors,
             CreateGoes(Held[a], form),
             Create(w, a, form.status,
                    [f \in Fields |-> IF f = "priority" THEN Fresh[f] ELSE form.field[f]],
                    requestor)
      PROVE  HistoryInv'
  <2>. DEFINE cols == [f \in Fields |-> IF f = "priority" THEN Fresh[f] ELSE form.field[f]]
  <2>1. cols \in [Fields -> Values]
    BY ConstantsOK DEF CreateForms
  <2>2. form.status \in NEW_TICKET_STATUSES
    BY <1>3 DEF CreateGoes
  <2>. QED  BY <1>1, <1>3, <2>1, <2>2, CreateTells
<1>4. ASSUME NEW a \in Actors, Create(w, a, "new", Fresh, a)
      PROVE  HistoryInv'
  <2>1. Fresh \in [Fields -> Values] /\ "new" \in NEW_TICKET_STATUSES
    BY ConstantsOK DEF NEW_TICKET_STATUSES
  <2>. QED  BY <1>1, <1>4, <2>1, CreateTells
<1>. QED  BY <1>2, <1>3, <1>4 DEF ticket_create, mail_create

(* The theorems *)

LEMMA InitTells == Init => IInv
<1>. SUFFICES ASSUME Init PROVE HistoryInv
  BY InitKeeps DEF IInv
<1>1. \A w \in Workers : ~InTransaction(w)
  BY DEF Init, InTransaction
<1>. QED
  BY <1>1 DEF Init, HistoryInv, SessionsOK, OrderOK, NewestOK, StatusRowsAuthorised,
     MailFollowsCommit, MailAtMostOnce, ResolvedDateMatches, StatusRowsChain,
     LastUpdatedByIsNewest

LEMMA NextTells == IInv /\ [Next]_vars => IInv'
<1>. SUFFICES ASSUME IInv, [Next]_vars PROVE IInv'
  OBVIOUS
<1>1. RaceInv'
  BY NextKeeps DEF IInv
<1>2. ASSUME NEW w \in Workers, Arrive(w)
      PROVE  HistoryInv'
  BY <1>1, <1>2, ticket_updateTells, ticket_basics_saveTells, mail_replyTells, createsTell
     DEF Arrive
<1>3. ASSUME NEW w \in Workers, DeadlockVictim(w) \/ Crash(w)
      PROVE  HistoryInv'
  <2>1. \A v \in Workers : hooks'[v] \subseteq hooks[v]
    BY <1>3 DEF DeadlockVictim, Crash, IInv, RaceInv, TypeOK
  <2>2. \E next \in {"idle", "answer"} : Released(w, next)
    BY <1>3 DEF DeadlockVictim, Crash
  <2>3. UNCHANGED <<tickets, log, nextId, mail>>
    BY <1>3 DEF DeadlockVictim, Crash
  <2>. QED  BY <1>1, <2>1, <2>2, <2>3, RollbackTells
<1>4. ASSUME NEW w \in Workers, Serve(w)
      PROVE  HistoryInv'
  BY <1>1, <1>3, <1>4, UpdateFirstTells, InsertRowTells, CheckParentTells, TouchTells, CommitTells,
     FireHookTells, RespondTells DEF Serve
<1>5. CASE UNCHANGED vars
  <2>1. UNCHANGED <<tickets, log, nextId, mail, pc, work, left, pend, xlock, hooks>>
    BY <1>5 DEF vars
  <2>2. ASSUME NEW v \in Workers, InTransaction(v)'
        PROVE  /\ InTransaction(v)
               /\ work'[v] = work[v] /\ left'[v] = left[v] /\ pend'[v] = pend[v]
    BY <2>1, <2>2 DEF InTransaction, IInv, HistoryInv, NewestOK
  <2>3. /\ SessionsOK' /\ OrderOK' /\ NewestOK' /\ StatusRowsAuthorised'
        /\ OneAtATime => ResolvedDateMatches' /\ StatusRowsChain' /\ LastUpdatedByIsNewest'
    BY <1>1, <2>1, <2>2, NothingWritten
  <2>4. MailFollowsCommit' /\ MailAtMostOnce'
    BY <2>1, NothingMailed
  <2>. QED  BY <1>1, <2>3, <2>4 DEF IInv, HistoryInv, OneAtATime
<1>. QED  BY <1>1, <1>2, <1>3, <1>4, <1>5 DEF Next, IInv

\* The whole inductive invariant holds in every reachable state: what the races
\* leave of the tables, and what the history tells.
THEOREM WholeInvariant == Spec => []IInv
BY InitTells, NextTells, PTL DEF Spec

\* Whoever may not modify a ticket moves its status only by being the first to
\* reply to it, whatever the others do meanwhile (router.py:218, update.py:211).
THEOREM OnlyAReplyOpens == Spec => []StatusRowsAuthorised
<1>1. IInv => StatusRowsAuthorised
  BY DEF IInv, HistoryInv
<1>. QED  BY <1>1, WholeInvariant, PTL

\* Mail is sent about committed rows only, and to the ticket's requestor
\* (notify.py, hooks.py:7).
THEOREM MailIsAboutHistory == Spec => []MailFollowsCommit
<1>1. IInv => MailFollowsCommit
  BY DEF IInv, HistoryInv
<1>. QED  BY <1>1, WholeInvariant, PTL

\* No row is mailed about a second time, through crashes and failing back ends
\* (hooks.py:59).
THEOREM MailedOnce == Spec => []MailAtMostOnce
<1>1. IInv => MailAtMostOnce
  BY DEF IInv, HistoryInv
<1>. QED  BY <1>1, WholeInvariant, PTL

\* A Set or Status row never appears before a row of its ticket that is already
\* to be read: the UPDATE that precedes it has kept every other session's rows
\* off the ticket since before its id was taken (transactions.py:63).
THEOREM MovesGoLast == Spec => MovesAppearLast
<1>. DEFINE Last == \A a \in log' \ log, b \in log :
                      a.ticket = b.ticket /\ a.field \in Columns => b.id < a.id
<1>1. IInv /\ [Next]_vars => [Last]_log
  <2>. SUFFICES ASSUME IInv, NEW w \in Workers, Commit(w)
                PROVE  Last
    BY OnlyCommitWrites
  <2>1. log' = log \cup pend[w]
    BY CommitWrites DEF IInv
  <2>. QED  BY <2>1 DEF IInv, RaceInv, RowsOK
<1>. QED  BY <1>1, WholeInvariant, PTL DEF Spec, MovesAppearLast

\* With one request at a time a ticket has its resolved date exactly while it is
\* resolved (lifecycle.py:4).
THEOREM ResolvedExactly ==
  ASSUME OneAtATime
  PROVE  Spec => []ResolvedDateMatches
<1>1. IInv => ResolvedDateMatches
  BY DEF IInv, HistoryInv
<1>. QED  BY <1>1, WholeInvariant, PTL

\* With one request at a time each Status row leaves from where the one before
\* it went (update.py:233).
THEOREM StatusesChain ==
  ASSUME OneAtATime
  PROVE  Spec => []StatusRowsChain
<1>1. IInv => StatusRowsChain
  BY DEF IInv, HistoryInv
<1>. QED  BY <1>1, WholeInvariant, PTL

\* With one request at a time last_updated_by is the author of the newest row
\* (transactions.py:75).
THEOREM NewestIsNamed ==
  ASSUME OneAtATime
  PROVE  Spec => []LastUpdatedByIsNewest
<1>1. IInv => LastUpdatedByIsNewest
  BY DEF IInv, HistoryInv
<1>. QED  BY <1>1, WholeInvariant, PTL

(* The implementation of TicketLife *)

LifeStatus ==
  [t \in Tickets |-> IF tickets[t] = Absent THEN Absent ELSE tickets[t].col["status"]]

LifeStarted == [t \in Tickets |-> tickets[t] # Absent /\ tickets[t].started # NoDate]

LifeResolved == [t \in Tickets |-> tickets[t] # Absent /\ tickets[t].resolved # NoDate]

\* What the commit of a row makes of its ticket's status and dates.
LEMMA LifeAfter ==
  ASSUME RaceInv, NEW t \in Tickets, NEW n \in TicketRow,
         tickets' = [tickets EXCEPT ![t] = n]
  PROVE  /\ LifeStatus' = [LifeStatus EXCEPT ![t] = n.col["status"]]
         /\ LifeStarted' = [LifeStarted EXCEPT ![t] = n.started # NoDate]
         /\ LifeResolved' = [LifeResolved EXCEPT ![t] = n.resolved # NoDate]
<1>1. tickets \in [Tickets -> TicketRow \cup {Absent}] /\ n # Absent
  BY AbsentIsNoRow DEF RaceInv, TypeOK
<1>2. LifeStatus' = [LifeStatus EXCEPT ![t] = n.col["status"]]
  BY <1>1 DEF LifeStatus
<1>3. LifeStarted' = [LifeStarted EXCEPT ![t] = n.started # NoDate]
  BY <1>1 DEF LifeStarted
<1>4. LifeResolved' = [LifeResolved EXCEPT ![t] = n.resolved # NoDate]
  BY <1>1 DEF LifeResolved
<1>. QED  BY <1>2, <1>3, <1>4

\* A ticket's creation is its birth, with neither date.
LEMMA BirthIsBorn ==
  ASSUME IInv, NEW w \in Workers, Commit(w), work[w].born,
         NEW t \in Tickets, t = work[w].ticket
  PROVE  Life!Born(t)
<1>1. PICK n \in TicketRow :
        /\ tickets' = [tickets EXCEPT ![t] = n]
        /\ tickets[t] = Absent /\ n = work[w].mine /\ SessionOK(work[w])
  BY CommitWrites DEF IInv
<1>2. /\ n.col["status"] \in Active
      /\ n.started = NoDate /\ n.resolved = NoDate
  <2>1. Lawful(work[w])
    BY CommitAdds
  <2>. QED  BY <1>1, <2>1 DEF Lawful, SessionOK, NEW_TICKET_STATUSES, Active
<1>3. /\ LifeStatus' = [LifeStatus EXCEPT ![t] = n.col["status"]]
      /\ LifeStarted' = [LifeStarted EXCEPT ![t] = n.started # NoDate]
      /\ LifeResolved' = [LifeResolved EXCEPT ![t] = n.resolved # NoDate]
  BY <1>1, LifeAfter DEF IInv
<1>4. LifeStatus[t] = Absent /\ LifeStarted[t] = FALSE /\ LifeResolved[t] = FALSE
  BY <1>1 DEF LifeStatus, LifeStarted, LifeResolved
<1>5. LifeStarted' = LifeStarted /\ LifeResolved' = LifeResolved
  BY <1>2, <1>3, <1>4 DEF LifeStarted, LifeResolved
<1>6. \E s \in Active : LifeStatus' = [LifeStatus EXCEPT ![t] = s]
  BY <1>2, <1>3
<1>. QED
  BY <1>4, <1>5, <1>6
     DEF Life!Born, Life!Active, Active, LifeStatus, LifeStarted, LifeResolved

\* Any other commit is a move of the lifecycle, or leaves it alone.
LEMMA EditIsMove ==
  ASSUME IInv, OneAtATime, NEW w \in Workers, Commit(w), ~work[w].born,
         NEW t \in Tickets, t = work[w].ticket
  PROVE  Life!Move(t) \/ UNCHANGED Life!lifeVars
<1>. DEFINE s == work[w]
            was == s.snap.col["status"]
            is == s.mine.col["status"]
<1>1. PICK n \in TicketRow :
        /\ tickets' = [tickets EXCEPT ![t] = n]
        /\ n = Merge(tickets[t], s.snap, s.mine)
        /\ tickets[t] \in TicketRow
  BY CommitWrites DEF IInv
<1>2. Lawful(s) /\ tickets[t] = s.snap /\ tickets[t] # Absent
  <2>1. InTransaction(w) /\ Lawful(s)
    BY CommitAdds
  <2>. QED  BY <1>1, <2>1, AbsentIsNoRow DEF IInv, HistoryInv, NewestOK
<1>3. n.col["status"] = is /\ n.started = s.mine.started /\ n.resolved = s.mine.resolved
  <2>1. "status" \in Columns
    BY DEF Columns
  <2>. QED  BY <1>1, <1>2, <2>1 DEF Merge, Written
<1>4. was = "resolved" <=> s.snap.resolved # NoDate
  BY <1>2 DEF IInv, HistoryInv, ResolvedDateMatches
<1>5. /\ LifeStatus' = [LifeStatus EXCEPT ![t] = is]
      /\ LifeStarted' = [LifeStarted EXCEPT ![t] = s.mine.started # NoDate]
      /\ LifeResolved' = [LifeResolved EXCEPT ![t] = s.mine.resolved # NoDate]
  <2>1. /\ LifeStatus' = [LifeStatus EXCEPT ![t] = n.col["status"]]
        /\ LifeStarted' = [LifeStarted EXCEPT ![t] = n.started # NoDate]
        /\ LifeResolved' = [LifeResolved EXCEPT ![t] = n.resolved # NoDate]
    BY <1>1, LifeAfter DEF IInv
  <2>. QED  BY <1>3, <2>1
<1>6. /\ LifeStatus[t] = was
      /\ LifeStarted[t] = (s.snap.started # NoDate)
      /\ LifeResolved[t] = (s.snap.resolved # NoDate)
  BY <1>2 DEF LifeStatus, LifeStarted, LifeResolved
<1>7. CASE is = was
  <2>1. s.mine.started = s.snap.started /\ s.mine.resolved = s.snap.resolved
    BY <1>2, <1>7 DEF Lawful
  <2>2. LifeStatus' = LifeStatus /\ LifeStarted' = LifeStarted /\ LifeResolved' = LifeResolved
    BY <1>5, <1>6, <1>7, <2>1 DEF LifeStatus, LifeStarted, LifeResolved
  <2>. QED  BY <2>2 DEF Life!lifeVars, LifeStatus, LifeStarted, LifeResolved
<1>8. CASE is # was
  <2>1. /\ is \in transitions(was)
        /\ (s.mine.started # NoDate) = (s.snap.started # NoDate \/ was = "new")
        /\ (s.mine.resolved # NoDate) = (is = "resolved")
    BY <1>2, <1>4, <1>8 DEF Lawful
  <2>2. was # Absent
    BY <2>1, AbsentIsNoRow DEF transitions
  <2>3. LifeStarted' = [LifeStarted EXCEPT ![t] = LifeStarted[t] \/ LifeStatus[t] = "new"]
    BY <1>5, <1>6, <2>1
  <2>4. LifeResolved' = [LifeResolved EXCEPT ![t] = (is = "resolved")]
    BY <1>5, <2>1
  <2>5. /\ LifeStatus[t] # Absent /\ is \in transitions(LifeStatus[t])
        /\ LifeStatus' = [LifeStatus EXCEPT ![t] = is]
    BY <1>5, <1>6, <2>1, <2>2
  <2>. HIDE DEF is
  <2>. QED
    BY <2>3, <2>4, <2>5 DEF Life!Move, Life!transitions, Life!TRANSITIONS, Life!STATUSES,
       Life!Active, transitions, TRANSITIONS, STATUSES, Active,
       LifeStatus, LifeStarted, LifeResolved
<1>. QED  BY <1>7, <1>8

\* With one request at a time every committed change of a ticket is a move of
\* the lifecycle's table, with its two dates (lifecycle.py:1-10).
THEOREM LifecycleKept ==
  ASSUME OneAtATime
  PROVE  Spec => KeepsLifecycle
<1>1. Init => Life!Init
  BY DEF Init, Life!Init
<1>2. IInv /\ [Next]_vars => [Life!Next]_(Life!lifeVars)
  <2>. SUFFICES ASSUME IInv, [Next]_vars
                PROVE  [Life!Next]_(Life!lifeVars)
    OBVIOUS
  <2>1. CASE UNCHANGED <<tickets, log>>
    BY <2>1 DEF Life!lifeVars
  <2>2. ASSUME NEW w \in Workers, Commit(w)
        PROVE  [Life!Next]_(Life!lifeVars)
    <3>1. PICK t \in Tickets : t = work[w].ticket
      BY <2>2, CommitWrites DEF IInv
    <3>2. Life!Born(t) \/ Life!Move(t) \/ UNCHANGED Life!lifeVars
      BY <2>2, <3>1, BirthIsBorn, EditIsMove
    <3>. QED  BY <3>1, <3>2 DEF Life!Next
  <2>. QED  BY <2>1, <2>2, OnlyCommitWrites
<1>. QED  BY <1>1, <1>2, WholeInvariant, PTL DEF Spec, KeepsLifecycle, Life!Spec
==============================================================================
