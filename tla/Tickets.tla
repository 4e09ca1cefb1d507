------------------------------- MODULE Tickets -------------------------------
(***************************************************************************)
(* The ticket writes of py-rt: the create form, the update page, the       *)
(* basics page and the mail gateway, run by concurrent workers against one *)
(* InnoDB database at REPEATABLE READ.                                     *)
(*                                                                         *)
(* A worker serves one request at a time.  Its session reads the ticket    *)
(* once (work.snap), computes the row it wants (work.mine) and flushes one *)
(* `transactions` row after another.  What the database adds:              *)
(*   - INSERT of a transaction row takes its id, then waits for a shared   *)
(*     lock on the ticket row it refers to (a foreign key); UPDATE of the  *)
(*     ticket takes an exclusive one; both are kept until commit or        *)
(*     rollback;                                                           *)
(*   - UPDATE writes only the columns the session changed, onto the newest *)
(*     committed row: there is no version column and no SELECT FOR UPDATE; *)
(*   - two sessions that each hold the shared lock and want the exclusive  *)
(*     one are a deadlock, and InnoDB rolls one of them back.              *)
(* Hooks (the mail) run after the commit; a crash there loses them.        *)
(***************************************************************************)
EXTENDS Lifecycle, FiniteSets

CONSTANTS
  Workers,      \* request slots: one of them is a serial server
  Tickets,      \* ticket ids
  Actors,       \* users who sign in or write mail
  Fields,       \* the basics columns modelled, out of BasicsFields
  Values,       \* what such a column may hold
  Fresh,        \* the value each column has on a ticket born of a mail
  Offers,       \* [Fields -> SUBSET Values]: what the selects and checks allow
  Held,         \* [Actors -> SUBSET RightNames]: rights on the ticket's queue
  Mailable,     \* the actors with an email address
  FormStatuses, \* the statuses a form may ask for
  MaxRows,      \* bound: a write starts only while nextId <= MaxRows
  SameSecond,   \* may a request fall in the second of the ticket's last touch
  MayCrash,     \* may a worker die in the middle of a request
  MailMayFail,  \* may the mail back end fail
  Absent,       \* a ticket id no row has
  NoWork        \* an idle worker's session

BasicsFields == {"subject", "queue", "owner", "priority"}

Columns == Fields \cup {"status"}

ColumnValues == STATUSES \cup Values

RightNames ==
  {"ShowTicket", "ReplyToTicket", "CommentOnTicket", "ModifyTicket", "CreateTicket",
   "SeeQueue"}

NEW_TICKET_STATUSES == {"new", "open", "stalled"}

NoValue == ""

TicketRow ==
  [col: [Columns -> ColumnValues], started: Nat, resolved: Nat,
   lastBy: Actors, requestor: Actors]

ASSUME ConstantsOK ==
  /\ Fields \subseteq BasicsFields
  /\ Fresh \in [Fields -> Values]
  /\ Offers \in [Fields -> SUBSET Values]
  /\ Held \in [Actors -> SUBSET RightNames]
  /\ Mailable \subseteq Actors
  /\ FormStatuses \subseteq STATUSES
  /\ MaxRows \in Nat
  /\ {SameSecond, MayCrash, MailMayFail} \subseteq BOOLEAN

ASSUME AbsentIsNoRow ==
  /\ Absent \notin TicketRow
  /\ Absent \notin [Columns -> ColumnValues]
  /\ Absent \notin STATUSES

VARIABLES
  tickets,  \* the tickets table: [Tickets -> TicketRow \cup {Absent}]
  log,      \* the transactions table, a set of rows keyed by id
  nextId,   \* its AUTO_INCREMENT counter, also the clock the dates are read off
  mail,     \* the messages handed to the mail back end
  pc,       \* what each worker does next
  work,     \* each worker's session: the ticket as read and as wanted
  left,     \* the changes a session has still to record, before its commit
  pend,     \* the rows a session has inserted and not committed
  xlock,    \* whether a session holds the exclusive lock on its ticket row
  hooks     \* the committed rows whose hooks a worker has still to fire

vars == <<tickets, log, nextId, mail, pc, work, left, pend, xlock, hooks>>

----------------------------------------------------------------------------
(* Rows and sessions *)

RowTypes == {"Create", "Correspond", "Comment", "Set", "Status"}

\* `field` names the column a Set or Status row is about, "message" otherwise.
Change ==
  [type: RowTypes, field: Columns \cup {"message"},
   old: ColumnValues \cup {NoValue}, new: ColumnValues \cup {NoValue}]

Row ==
  [id: Nat, ticket: Tickets, creator: Actors,
   type: RowTypes, field: Columns \cup {"message"},
   old: ColumnValues \cup {NoValue}, new: ColumnValues \cup {NoValue}]

Session ==
  [ticket: Tickets, actor: Actors, born: BOOLEAN, quiet: BOOLEAN,
   snap: TicketRow, mine: TicketRow]

Mail == [row: Nat, to: Actors]

Phases == {"idle", "insert", "check", "touch", "commit", "fire", "answer"}

TypeOK ==
  /\ tickets \in [Tickets -> TicketRow \cup {Absent}]
  /\ log \subseteq Row
  /\ nextId \in Nat \ {0}
  /\ mail \subseteq Mail
  /\ pc \in [Workers -> Phases]
  /\ work \in [Workers -> Session \cup {NoWork}]
  /\ left \in [Workers -> SUBSET Change]
  /\ pend \in [Workers -> SUBSET Row]
  /\ xlock \in [Workers -> BOOLEAN]
  /\ hooks \in [Workers -> SUBSET Row]

Init ==
  /\ tickets = [t \in Tickets |-> Absent]
  /\ log = {}
  /\ nextId = 1
  /\ mail = {}
  /\ pc = [w \in Workers |-> "idle"]
  /\ work = [w \in Workers |-> NoWork]
  /\ left = [w \in Workers |-> {}]
  /\ pend = [w \in Workers |-> {}]
  /\ xlock = [w \in Workers |-> FALSE]
  /\ hooks = [w \in Workers |-> {}]

\* The message row comes first; then save_basics goes through its columns in
\* this order and ends with the status.
Rank ==
  [message |-> 0, subject |-> 1, queue |-> 2, owner |-> 3, priority |-> 4,
   status |-> 5]

IsFirst(c, changes) ==
  c \in changes /\ \A d \in changes : Rank[c.field] <= Rank[d.field]

Said(type) ==
  [type |-> type, field |-> "message", old |-> NoValue, new |-> NoValue]

\* The old value read after the assignment.
MovedLate(c, snap, mine) ==
  [type |-> IF c = "status" THEN "Status" ELSE "Set", field |-> c,
   old |-> mine.col[c], new |-> mine.col[c]]

Moved(c, snap, mine) ==
  [type |-> IF c = "status" THEN "Status" ELSE "Set", field |-> c,
   old |-> snap.col[c], new |-> mine.col[c]]

\* Set rows forgotten.
MovesStatusOnly(snap, mine) ==
  {Moved(c, snap, mine) : c \in {d \in {"status"} : mine.col[d] # snap.col[d]}}

\* One Set or Status row for each column that differs, none for the others.
Moves(snap, mine) ==
  {Moved(c, snap, mine) : c \in {d \in Columns : mine.col[d] # snap.col[d]}}

InTransaction(w) == pc[w] \in {"insert", "check", "touch", "commit"}

\* The other sessions at work on the same ticket row.
Rivals(w) ==
  {v \in Workers \ {w} : InTransaction(v) /\ work[v].ticket = work[w].ticket}

NoneExclusive(w) == \A v \in Rivals(w) : ~xlock[v]

\* Whether a session holds the shared lock: each of its INSERTs has asked for it.
\* The one that waits in "check" has it only beside the exclusive lock.
Shared(w) == pend[w] # {} /\ pc[w] # "check"

\* Without the foreign key on transactions.ticket_id an INSERT locks nothing.
NoForeignKey(w) == TRUE

NoneShared(w) == \A v \in Rivals(w) : ~Shared(v)

----------------------------------------------------------------------------
(* Handling a request, up to its first flush.  Everything read comes from *)
(* the snapshot of the first SELECT, so reading and deciding are one step. *)

\* A form that is refused (404, 403 or a message on the form): nothing is
\* written.
Refuse(w) ==
  /\ pc' = [pc EXCEPT ![w] = "answer"]
  /\ UNCHANGED <<tickets, log, nextId, mail, work, left, pend, xlock, hooks>>

\* A session that will write: `said` is the message row, if there is one.
Begin(w, session, said) ==
  /\ nextId <= MaxRows
  /\ pc' = [pc EXCEPT ![w] = "insert"]
  /\ work' = [work EXCEPT ![w] = session]
  /\ left' = [left EXCEPT ![w] = said \cup Moves(session.snap, session.mine)]
  /\ xlock' = [xlock EXCEPT ![w] = session.born]
  /\ UNCHANGED <<tickets, log, nextId, mail, pend, hooks>>

\* `quiet`: the clock shows the second of the ticket's last touch and the
\* actor is the one who made it, so the touch of record() changes no column.
Edit(w, t, a, mine, said) ==
  \E quiet \in BOOLEAN :
    /\ quiet => SameSecond /\ tickets[t].lastBy = a
    /\ Begin(w, [ticket |-> t, actor |-> a, born |-> FALSE, quiet |-> quiet,
                 snap |-> tickets[t], mine |-> [mine EXCEPT !.lastBy = a]], said)

----------------------------------------------------------------------------
(* The update page: POST /ticket/{id}/update *)

UpdateForms ==
  [kind: {"respond", "comment"}, status: FormStatuses \cup {""}, content: BOOLEAN]

\* The status select's answer, the current one when the form has none.
Asked(row, form) == IF form.status = "" THEN row.col["status"] ELSE form.status

\* A reply that leaves a new ticket new.
WantedStays(row, form) == Asked(row, form)

\* The first reply to a new ticket opens it, unless the form asked otherwise.
Wanted(row, form) ==
  IF /\ form.content
     /\ form.kind = "respond"
     /\ row.col["status"] = "new"
     /\ Asked(row, form) = "new"
  THEN "open" ELSE Asked(row, form)

\* The router that forgets ModifyTicket when a status comes with the form.
UpdateForbiddenLax(row, held, form) ==
  \/ "ShowTicket" \notin held
  \/ held \cap {"ReplyToTicket", "CommentOnTicket", "ModifyTicket"} = {}
  \/ form.content /\ form.kind = "comment" /\ "CommentOnTicket" \notin held
  \/ form.content /\ form.kind = "respond" /\ "ReplyToTicket" \notin held

UpdateForbidden(row, held, form) ==
  \/ "ShowTicket" \notin held
  \/ held \cap {"ReplyToTicket", "CommentOnTicket", "ModifyTicket"} = {}
  \/ form.content /\ form.kind = "comment" /\ "CommentOnTicket" \notin held
  \/ form.content /\ form.kind = "respond" /\ "ReplyToTicket" \notin held
  \/ /\ form.status \notin {"", row.col["status"]}
     /\ "ModifyTicket" \notin held

UpdateRefused(row, form) ==
  \/ ~form.content /\ Asked(row, form) = row.col["status"]
  \/ refuses(row.col["status"], Wanted(row, form))

\* The radio's own value as the row's type.
UpdateMessageRaw(form) == IF form.content THEN {Said(form.kind)} ELSE {}

UpdateMessage(form) ==
  IF ~form.content THEN {}
  ELSE {Said(IF form.kind = "respond" THEN "Correspond" ELSE "Comment")}

ticket_update(w) ==
  /\ pc[w] = "idle"
  /\ \E t \in Tickets :
       /\ tickets[t] # Absent
       /\ LET row == tickets[t]
              Goes(a, form) ==
                ~UpdateForbidden(row, Held[a], form) /\ ~UpdateRefused(row, form)
          IN  \/ ~(\A a \in Actors, form \in UpdateForms : Goes(a, form)) /\ Refuse(w)
              \/ \E a \in Actors, form \in UpdateForms :
                   /\ Goes(a, form)
                   /\ Edit(w, t, a, apply_status(row, Wanted(row, form), nextId),
                           UpdateMessage(form))

----------------------------------------------------------------------------
(* The basics page: POST /ticket/{id}/basics, without custom fields *)

BasicsForms == [field: [Fields -> Values], status: FormStatuses \cup {""}]

BasicsForbidden(held) == ~({"ShowTicket", "ModifyTicket"} \subseteq held)

\* The value the ticket has now is always on the list.
BasicsRefused(row, form) ==
  \/ \E f \in Fields : form.field[f] \notin Offers[f] \cup {row.col[f]}
  \/ refuses(row.col["status"], Asked(row, form))

Basics(row, form, now) ==
  apply_status(
    [row EXCEPT !.col = [c \in Columns |-> IF c \in Fields THEN form.field[c]
                                           ELSE row.col[c]]],
    Asked(row, form), now)

ticket_basics_save(w) ==
  /\ pc[w] = "idle"
  /\ \E t \in Tickets :
       /\ tickets[t] # Absent
       /\ LET row == tickets[t]
              Saved(form) == Basics(row, form, nextId)
              Goes(a, form) ==
                /\ ~BasicsForbidden(Held[a])
                /\ ~BasicsRefused(row, form)
                /\ Moves(row, Saved(form)) # {}      \* else "Nothing changed"
          IN  \/ ~(\A a \in Actors, form \in BasicsForms : Goes(a, form)) /\ Refuse(w)
              \/ \E a \in Actors, form \in BasicsForms :
                   Goes(a, form) /\ Edit(w, t, a, Saved(form), {})

----------------------------------------------------------------------------
(* The mail gateway's reply onto a ticket *)

\* A gateway that leaves the ticket it answers new.
OpenedNever(row, replying, now) == row

Opened(row, replying, now) ==
  IF replying /\ row.col["status"] = "new" THEN apply_status(row, "open", now) ELSE row

mail_reply(w) ==
  /\ pc[w] = "idle"
  /\ \E a \in Actors, t \in Tickets, replying \in BOOLEAN :
       /\ tickets[t] # Absent
       /\ LET right == IF replying THEN "ReplyToTicket" ELSE "CommentOnTicket"
          IN  \/ right \notin Held[a] /\ Refuse(w)
              \/ /\ right \in Held[a]
                 /\ Edit(w, t, a, Opened(tickets[t], replying, nextId),
                         {Said(IF replying THEN "Correspond" ELSE "Comment")})

----------------------------------------------------------------------------
(* A new ticket, from the create form or from a mail.  Its row is invisible *)
(* to the others until the commit.                                          *)

Create(w, a, status, cols, requestor) ==
  \E t \in Tickets :
    /\ tickets[t] = Absent
    /\ \A v \in Workers : InTransaction(v) => work[v].ticket # t
    /\ LET row == [col |-> [c \in Columns |-> IF c \in Fields THEN cols[c] ELSE status],
                   started |-> NoDate, resolved |-> NoDate,
                   lastBy |-> a, requestor |-> requestor]
       IN  Begin(w, [ticket |-> t, actor |-> a, born |-> TRUE, quiet |-> FALSE,
                     snap |-> row, mine |-> row], {Said("Create")})

\* "new" is what the form's status select starts with.
CreateForms == [field: [Fields -> Values], status: FormStatuses \cup {"new"}]

CreateGoes(held, form) ==
  /\ {"CreateTicket", "SeeQueue"} \subseteq held
  /\ form.status \in NEW_TICKET_STATUSES
  /\ \A f \in Fields : form.field[f] \in Offers[f]

ticket_create(w) ==
  /\ pc[w] = "idle"
  /\ \/ ~(\A a \in Actors, form \in CreateForms : CreateGoes(Held[a], form)) /\ Refuse(w)
     \/ \E a \in Actors, form \in CreateForms, requestor \in Actors :
          /\ CreateGoes(Held[a], form)
          /\ Create(w, a, form.status,
                    [f \in Fields |-> IF f = "priority" THEN Fresh[f] ELSE form.field[f]],
                    requestor)

mail_create(w) ==
  /\ pc[w] = "idle"
  /\ \E a \in Actors :
       \/ "CreateTicket" \notin Held[a] /\ Refuse(w)
       \/ "CreateTicket" \in Held[a] /\ Create(w, a, "new", Fresh, a)

----------------------------------------------------------------------------
(* transactions.record: INSERT the row, then touch the ticket *)

\* A status or a column set before the flush makes the ticket dirty, and the
\* unit of work emits its UPDATE before the INSERT: tickets sort before
\* transactions.
NextIsColumn(w) == \E c \in left[w] : IsFirst(c, left[w]) /\ c.field # "message"

UpdateFirst(w) ==
  /\ pc[w] = "insert"
  /\ ~xlock[w]
  /\ NextIsColumn(w)
  /\ NoneExclusive(w) /\ NoneShared(w)
  /\ xlock' = [xlock EXCEPT ![w] = TRUE]
  /\ UNCHANGED <<tickets, log, nextId, mail, pc, work, left, pend, hooks>>

\* A handler that records its move before it sets the column.
MayInsertAny(w) == TRUE

MayInsert(w) == NextIsColumn(w) => xlock[w]

\* The id is taken and the row placed before any lock on the ticket is asked for.
InsertRow(w) ==
  /\ pc[w] = "insert"
  /\ MayInsert(w)
  /\ \E c \in left[w] :
       /\ IsFirst(c, left[w])
       /\ left' = [left EXCEPT ![w] = @ \ {c}]
       /\ pend' = [pend EXCEPT ![w] = @ \cup
            {[id |-> nextId, ticket |-> work[w].ticket, creator |-> work[w].actor,
              type |-> c.type, field |-> c.field, old |-> c.old, new |-> c.new]}]
  /\ nextId' = nextId + 1
  /\ pc' = [pc EXCEPT ![w] = "check"]
  /\ UNCHANGED <<tickets, log, mail, work, xlock, hooks>>

\* The INSERT goes on to its foreign key, and waits there for the shared lock.
CheckParent(w) ==
  /\ pc[w] = "check"
  /\ NoneExclusive(w)
  /\ pc' = [pc EXCEPT ![w] = "touch"]
  /\ UNCHANGED <<tickets, log, nextId, mail, work, left, pend, xlock, hooks>>

Dirty(w) == \E r \in pend[w] : r.field # "message"

Updates(w) == ~work[w].quiet \/ Dirty(w)

AfterTouch(w) == pc' = [pc EXCEPT ![w] = IF left[w] = {} THEN "commit" ELSE "insert"]

\* The touch of last_updated and last_updated_by, and the columns set so far.
TouchUpdate(w) ==
  /\ pc[w] = "touch"
  /\ Updates(w)
  /\ NoneExclusive(w) /\ NoneShared(w)
  /\ xlock' = [xlock EXCEPT ![w] = TRUE]
  /\ AfterTouch(w)
  /\ UNCHANGED <<tickets, log, nextId, mail, work, left, pend, hooks>>

\* Nothing to write: no UPDATE leaves the session.
TouchUnchanged(w) ==
  /\ pc[w] = "touch"
  /\ ~Updates(w)
  /\ AfterTouch(w)
  /\ UNCHANGED <<tickets, log, nextId, mail, work, left, pend, xlock, hooks>>

WantsExclusive(w) ==
  /\ ~xlock[w]
  /\ \/ pc[w] = "touch" /\ Updates(w)
     \/ pc[w] = "insert" /\ NextIsColumn(w)

Released(w, next) ==
  /\ pc' = [pc EXCEPT ![w] = next]
  /\ work' = [work EXCEPT ![w] = NoWork]
  /\ left' = [left EXCEPT ![w] = {}]
  /\ pend' = [pend EXCEPT ![w] = {}]
  /\ xlock' = [xlock EXCEPT ![w] = FALSE]

\* No deadlock detection: the two sessions go on waiting.
DeadlockUndetected(w) ==
  /\ InTransaction(w) /\ WantsExclusive(w)
  /\ \E v \in Rivals(w) : WantsExclusive(v) /\ (Shared(v) \/ Shared(w))
  /\ UNCHANGED vars

\* InnoDB finds the cycle of two upgrades and rolls one session back: the
\* request ends in a 500, or in the gateway's "not ok".
DeadlockVictim(w) ==
  /\ InTransaction(w) /\ WantsExclusive(w)
  /\ \E v \in Rivals(w) : WantsExclusive(v) /\ (Shared(v) \/ Shared(w))
  /\ Released(w, "answer")
  /\ UNCHANGED <<tickets, log, nextId, mail, hooks>>

----------------------------------------------------------------------------
(* Commit, hooks, answer, crash *)

Written(now, before, after) == IF after # before THEN after ELSE now

\* An UPDATE that writes every column the session has read.
MergeWhole(row, snap, mine) == mine

\* An UPDATE that never writes last_updated_by.
MergeUntouched(row, snap, mine) ==
  [col |-> [c \in Columns |-> Written(row.col[c], snap.col[c], mine.col[c])],
   started |-> Written(row.started, snap.started, mine.started),
   resolved |-> Written(row.resolved, snap.resolved, mine.resolved),
   lastBy |-> row.lastBy,
   requestor |-> row.requestor]

\* UPDATE ... WHERE id: only the columns this session changed.
Merge(row, snap, mine) ==
  [col |-> [c \in Columns |-> Written(row.col[c], snap.col[c], mine.col[c])],
   started |-> Written(row.started, snap.started, mine.started),
   resolved |-> Written(row.resolved, snap.resolved, mine.resolved),
   lastBy |-> Written(row.lastBy, snap.lastBy, mine.lastBy),
   requestor |-> row.requestor]

\* One hook per request, the status change's when there is one.
AnnouncedOnce(rows) ==
  {r \in rows : r.type # "Set" /\ \A q \in rows : Rank[q.field] <= Rank[r.field]}

\* A Set row announces nothing.
Announced(rows) == {r \in rows : r.type # "Set"}

Commit(w) ==
  /\ pc[w] = "commit"
  /\ LET s == work[w]
     IN  tickets' = [tickets EXCEPT ![s.ticket] =
                       IF s.born THEN s.mine ELSE Merge(@, s.snap, s.mine)]
  /\ log' = log \cup pend[w]
  /\ hooks' = [hooks EXCEPT ![w] = Announced(pend[w])]
  /\ Released(w, IF Announced(pend[w]) = {} THEN "answer" ELSE "fire")
  /\ UNCHANGED <<nextId, mail>>

\* A reply mailed back to the one who wrote it.
RecipientsAll(r) ==
  {u \in {tickets[r.ticket].requestor} \cap Mailable :
     \/ r.type \in {"Create", "Correspond"}
     \/ r.type = "Status" /\ r.new = "resolved"}

\* The listeners of mail/notify.py.  A ticket has one requestor.
Recipients(r) ==
  {u \in {tickets[r.ticket].requestor} \cap Mailable :
     \/ r.type = "Create"
     \/ r.type = "Correspond" /\ u # r.creator
     \/ r.type = "Status" /\ r.new = "resolved"}

\* A listener that is registered twice (notify.register is idempotent).
FireHookTwice(w) ==
  /\ pc[w] = "fire"
  /\ \E r \in hooks[w] :
       /\ mail' = mail \cup {[row |-> r.id, to |-> u] : u \in Recipients(r)}
       /\ hooks' = [hooks EXCEPT ![w] = IF mail' = mail THEN @ \ {r} ELSE @]
       /\ pc' = [pc EXCEPT ![w] = IF hooks'[w] = {} THEN "answer" ELSE "fire"]
  /\ UNCHANGED <<tickets, log, nextId, work, left, pend, xlock>>

\* One hook; a back end that fails is logged and swallowed.
FireHook(w) ==
  /\ pc[w] = "fire"
  /\ \E r \in hooks[w] :
       /\ IsFirst(r, hooks[w])
       /\ hooks' = [hooks EXCEPT ![w] = @ \ {r}]
       /\ \/ mail' = mail \cup {[row |-> r.id, to |-> u] : u \in Recipients(r)}
          \/ MailMayFail /\ Recipients(r) # {} /\ mail' = mail
       /\ pc' = [pc EXCEPT ![w] = IF hooks[w] = {r} THEN "answer" ELSE "fire"]
  /\ UNCHANGED <<tickets, log, nextId, work, left, pend, xlock>>

Respond(w) ==
  /\ pc[w] = "answer"
  /\ pc' = [pc EXCEPT ![w] = "idle"]
  /\ UNCHANGED <<tickets, log, nextId, mail, work, left, pend, xlock, hooks>>

\* The process dies, or loses the database: what is not committed is rolled back,
\* what is not yet mailed never will be.
Crash(w) ==
  /\ MayCrash
  /\ pc[w] \in {"insert", "check", "touch", "commit", "fire"}
  /\ Released(w, "idle")
  /\ hooks' = [hooks EXCEPT ![w] = {}]
  /\ UNCHANGED <<tickets, log, nextId, mail>>

Arrive(w) ==
  ticket_update(w) \/ ticket_basics_save(w) \/ mail_reply(w)
    \/ ticket_create(w) \/ mail_create(w)

Serve(w) ==
  UpdateFirst(w) \/ InsertRow(w) \/ CheckParent(w) \/ TouchUpdate(w)
    \/ TouchUnchanged(w) \/ DeadlockVictim(w) \/ Commit(w) \/ FireHook(w) \/ Respond(w)

Next == \E w \in Workers : Arrive(w) \/ Serve(w) \/ Crash(w)

Spec == Init /\ [][Next]_vars

\* A thread with something to do is scheduled; a lock is granted in the order
\* it was asked for, so a session that keeps waiting gets it; the deadlock
\* detector runs.  Nobody has to send a form.
Fairness ==
  \A w \in Workers :
    /\ SF_vars(UpdateFirst(w)) /\ SF_vars(CheckParent(w)) /\ SF_vars(TouchUpdate(w))
    /\ WF_vars(InsertRow(w)) /\ WF_vars(TouchUnchanged(w)) /\ WF_vars(DeadlockVictim(w))
    /\ WF_vars(Commit(w)) /\ WF_vars(FireHook(w)) /\ WF_vars(Respond(w))

FairSpec == Spec /\ Fairness

----------------------------------------------------------------------------
(* What holds however the requests interleave *)

\* The newest Set or Status row of a column says what the column holds: the
\* history, which is all the ticket page shows (transactions.py:8), never
\* disagrees with the ticket, although both sides of a race write from stale
\* snapshots.
NewestRowIsValue ==
  \A a \in log :
    (/\ a.field \in Columns
     /\ \A b \in log : b.ticket = a.ticket /\ b.field = a.field => b.id <= a.id)
      => tickets[a.ticket].col[a.field] = a.new

\* A resolved ticket carries its date (lifecycle.py:4), whoever raced with
\* the request that resolved it.
ResolvedHasDate ==
  \A t \in Tickets :
    tickets[t] # Absent /\ tickets[t].col["status"] = "resolved"
      => tickets[t].resolved # NoDate

\* A ticket somebody has replied to is not new any more (update.py:211,
\* gateway.py:280), and no race makes it new again.
RepliedIsNotNew ==
  \A a \in log : a.type = "Correspond" => tickets[a.ticket].col["status"] # "new"

\* Who may not modify a ticket moves its status in one way only: by being
\* the first to reply to it (router.py:218, update.py:211).
StatusRowsAuthorised ==
  \A a \in log :
    a.type = "Status" /\ "ModifyTicket" \notin Held[a.creator]
      => /\ a.old = "new" /\ a.new = "open"
         /\ \E b \in log : /\ b.type = "Correspond" /\ b.ticket = a.ticket
                          /\ b.creator = a.creator /\ b.id < a.id

\* Mail is about committed rows only: a create, a reply to somebody else, or
\* a move to resolved; never a comment, a Set, or what was rolled back
\* (notify.py, hooks.py:7).
MailFollowsCommit ==
  \A m \in mail :
    \E a \in log :
      /\ a.id = m.row
      /\ m.to = tickets[a.ticket].requestor
      /\ \/ a.type = "Create"
         \/ a.type = "Correspond" /\ a.creator # m.to
         \/ a.type = "Status" /\ a.new = "resolved"

\* A row waiting for its hook is committed, has not been mailed and waits in
\* no other worker: nobody is mailed twice about one row.
MailAtMostOnce ==
  \A w \in Workers : \A a \in hooks[w] :
    /\ a \in log
    /\ \A m \in mail : m.row # a.id
    /\ \A v \in Workers \ {w} : a \notin hooks[v]

\* No ticket ever becomes new again, and no started date is ever taken away.
NewIsLeftForGood ==
  [][\A t \in Tickets :
       tickets[t] # Absent =>
         /\ tickets'[t].col["status"] = "new" => tickets[t].col["status"] = "new"
         /\ tickets[t].started # NoDate => tickets'[t].started # NoDate]_tickets

----------------------------------------------------------------------------
(* What holds when requests come one at a time *)

\* "`resolved` on entering `resolved` and cleared on leaving it"
\* (lifecycle.py:4): the date is there exactly while the ticket is resolved.
ResolvedDateMatches ==
  \A t \in Tickets :
    tickets[t] # Absent =>
      (tickets[t].resolved # NoDate <=> tickets[t].col["status"] = "resolved")

\* The Status rows of a ticket chain: each leaves from where the one before
\* it went, so the history reads as a walk through the lifecycle.
StatusRowsChain ==
  \A a, b \in log :
    (/\ a.type = "Status" /\ b.type = "Status" /\ a.ticket = b.ticket /\ a.id < b.id
     /\ ~ \E c \in log : /\ c.type = "Status" /\ c.ticket = a.ticket
                         /\ a.id < c.id /\ c.id < b.id)
      => b.old = a.new

\* "LastUpdated and LastUpdatedBy move on every transaction" (FP T14,
\* transactions.py:75): the ticket names the author of its newest row.
LastUpdatedByIsNewest ==
  \A a \in log :
    (\A b \in log : b.ticket = a.ticket => b.id <= a.id)
      => tickets[a.ticket].lastBy = a.creator

\* The same of each commit, for whatever was written meanwhile (transactions.py:75):
\* whoever adds a row to a ticket is its last_updated_by afterwards.
EveryRowTouches ==
  [][\A a \in log' \ log : tickets'[a.ticket].lastBy = a.creator]_log

----------------------------------------------------------------------------
(* Order and progress *)

\* A row that moves a column appears behind every row of its ticket that a reader
\* could already see: whoever reads the history twice finds no move slipped in
\* before one he has read.  A message row may: its id is older than its lock
\* (transactions.py:54).
MovesAppearLast ==
  [][\A a \in log' \ log, b \in log :
       a.ticket = b.ticket /\ a.field \in Columns => b.id < a.id]_log

\* Every request is answered: sessions waiting for each other's row lock are
\* broken up.
Answered == \A w \in Workers : (pc[w] # "idle") ~> (pc[w] = "idle")

\* A committed reply by somebody else reaches a requestor with an address,
\* if no worker dies and the mail back end works (MayCrash, MailMayFail).
ReplyIsMailed ==
  \A i \in 1..(MaxRows + 3 * Cardinality(Workers)) :
    (\E a \in log :
       /\ a.id = i /\ a.type = "Correspond"
       /\ tickets[a.ticket].requestor \in Mailable \ {a.creator})
      ~> (\E m \in mail : m.row = i)

----------------------------------------------------------------------------
(* What the tables promise, as specifications of their own *)

Trail == INSTANCE AuditTrail WITH
  value <- [t \in Tickets |-> IF tickets[t] = Absent THEN Absent ELSE tickets[t].col],
  trail <- log

\* The tickets and transactions tables implement the audit trail, whatever
\* the sessions do to each other (transactions.py:1-11).
KeepsAuditTrail == Trail!Spec

Life == INSTANCE TicketLife WITH
  status <- [t \in Tickets |-> IF tickets[t] = Absent THEN Absent
                               ELSE tickets[t].col["status"]],
  started <- [t \in Tickets |-> tickets[t] # Absent /\ tickets[t].started # NoDate],
  resolved <- [t \in Tickets |-> tickets[t] # Absent /\ tickets[t].resolved # NoDate]

\* With one request at a time the committed tickets live by lifecycle.py:1-10.
KeepsLifecycle == Life!Spec

----------------------------------------------------------------------------
(* The inductive invariant: why the first four properties survive races *)

\* What a handler has decided before its first flush.
SessionOK(s) ==
  LET was == s.snap.col["status"]
      is  == s.mine.col["status"]
  IN  /\ s.born => s.mine = s.snap /\ is \in NEW_TICKET_STATUSES
      /\ is # was => is # "new"
      /\ is # was /\ is = "resolved"
           => s.mine.resolved # NoDate /\ s.mine.resolved # s.snap.resolved
      /\ s.mine.resolved = NoDate /\ s.snap.resolved # NoDate
           => is # was /\ is # "resolved"
      /\ s.snap.started # NoDate => s.mine.started # NoDate

\* A session exists while a request is in its transaction and leaves nothing
\* behind afterwards.
ControlOK ==
  \A w \in Workers :
    /\ ~InTransaction(w) => left[w] = {} /\ pend[w] = {} /\ ~xlock[w]
    /\ InTransaction(w) => work[w] \in Session /\ SessionOK(work[w])
    /\ pc[w] \in {"check", "touch", "commit"} => pend[w] # {}
    /\ pc[w] = "commit" => left[w] = {}

\* A row that is being created is locked by its creator; any other session is
\* about a row that is there.  A status that has left "new" stays away.
TargetOK ==
  \A w \in Workers : InTransaction(w) =>
    LET s == work[w] IN
    /\ s.born => tickets[s.ticket] = Absent /\ xlock[w]
    /\ ~s.born =>
         /\ tickets[s.ticket] # Absent
         /\ s.snap.col["status"] # "new" => tickets[s.ticket].col["status"] # "new"

\* The two lock modes.
LocksOK ==
  \A v, w \in Workers :
    v # w /\ InTransaction(v) /\ InTransaction(w) /\ work[v].ticket = work[w].ticket
      => (xlock[w] => ~xlock[v] /\ ~Shared(v))

\* Recorded or still to be recorded: one row for each column that moves, with
\* the value it moves to; and a reply only when the ticket ends up not new.
Recorded(s, todo, done) ==
  /\ \A x \in todo \cup done :
       /\ x.field \in Columns => /\ x.new = s.mine.col[x.field]
                                /\ s.mine.col[x.field] # s.snap.col[x.field]
       /\ x.type = "Correspond" => s.mine.col["status"] # "new"
       /\ s.born => x.type = "Create" /\ x.field = "message"
  /\ \A x, y \in todo : x.field = y.field => x = y
  /\ \A x, y \in done : x.field = y.field => x = y
  /\ \A x \in todo, y \in done : x.field # y.field
  /\ \A c \in Columns : s.mine.col[c] # s.snap.col[c]
       => \E x \in todo \cup done : x.field = c

ChangesOK ==
  \A w \in Workers : InTransaction(w) => Recorded(work[w], left[w], pend[w])

\* Ids are fresh, a pending row is its session's, and a pending row about a
\* column is newer than the committed ones: its session has kept the others
\* off the ticket since before it was inserted.
RowsOK ==
  /\ \A a \in log : a.id < nextId /\ tickets[a.ticket] # Absent
  /\ \A w \in Workers : \A a \in pend[w] :
       /\ a.id < nextId
       /\ a.ticket = work[w].ticket
       /\ a.field \in Columns => xlock[w]
       /\ \A b \in log : b.id # a.id
       /\ \A v \in Workers \ {w} : \A b \in pend[v] : b.id # a.id
       /\ \A b \in log : b.ticket = a.ticket /\ a.field \in Columns => b.id < a.id

\* Dates are in the past, a session's own one at the latest from its first row.
DatesOK ==
  /\ \A t \in Tickets : tickets[t] # Absent => tickets[t].resolved < nextId
  /\ \A w \in Workers : InTransaction(w) =>
       /\ work[w].mine.resolved <= nextId
       /\ pend[w] # {} => work[w].mine.resolved < nextId

RaceInv ==
  /\ TypeOK /\ ControlOK /\ TargetOK /\ LocksOK /\ ChangesOK /\ RowsOK /\ DatesOK
  /\ NewestRowIsValue /\ ResolvedHasDate /\ RepliedIsNotNew

----------------------------------------------------------------------------
(* And what a history tells: who wrote a row, after which, and who hears   *)

\* One request slot: the server handles one request at a time.
OneAtATime == \A v, w \in Workers : v = w

\* A session's row is what the lifecycle makes of the one it has read.
Lawful(s) ==
  LET was == s.snap.col["status"]
      is  == s.mine.col["status"]
  IN  /\ s.mine.lastBy = s.actor
      /\ s.quiet => SameSecond
      /\ is # was => is \in transitions(was)
      /\ s.born => s.mine.started = NoDate /\ s.mine.resolved = NoDate
      /\ is = was => s.mine.started = s.snap.started /\ s.mine.resolved = s.snap.resolved
      /\ is # was =>
           /\ s.mine.started # NoDate <=> was = "new" \/ s.snap.started # NoDate
           /\ s.mine.resolved # NoDate <=>
                is = "resolved" \/ (was # "resolved" /\ s.snap.resolved # NoDate)

\* A row names its session's actor, and a Status row the status he read.  Without
\* ModifyTicket he moves a status by a reply, recorded or still to be recorded.
Accounted(s, todo, done) ==
  LET was == s.snap.col["status"]
      is  == s.mine.col["status"]
  IN  /\ \A x \in todo \cup done :
           /\ x.type = "Status" <=> x.field = "status"
           /\ x.type = "Status" => x.old = was
           /\ x.type = "Correspond" => x.field = "message"
      /\ \A a \in done : a.creator = s.actor
      /\ is # was /\ "ModifyTicket" \notin Held[s.actor] =>
           /\ was = "new" /\ is = "open"
           /\ \E x \in todo \cup done : x.type = "Correspond"

SessionsOK == \A w \in Workers : InTransaction(w) =>
                Lawful(work[w]) /\ Accounted(work[w], left[w], pend[w])

\* The message is the first row of its request, and no two rows have one id.
OrderOK ==
  /\ \A w \in Workers :
       /\ (\E x \in left[w] : x.field = "message") => pend[w] = {}
       /\ \A a, b \in pend[w] :
            /\ a.field = "message" /\ b.field # "message" => a.id < b.id
            /\ a.id = b.id => a = b
  /\ \A a, b \in log : a.id = b.id => a = b
  /\ \A a \in log : a.type = "Status" <=> a.field = "status"

\* When there are no others, a session's rows are the newest, and it writes to
\* the row it has read.
NewestOK ==
  \A w \in Workers : InTransaction(w) =>
    /\ OneAtATime =>
         \A a \in pend[w], b \in log : b.ticket = a.ticket => b.id < a.id
    /\ OneAtATime /\ ~work[w].born => tickets[work[w].ticket] = work[w].snap

HistoryInv ==
  /\ SessionsOK /\ OrderOK /\ NewestOK
  /\ StatusRowsAuthorised /\ MailFollowsCommit /\ MailAtMostOnce
  /\ OneAtATime => ResolvedDateMatches /\ StatusRowsChain /\ LastUpdatedByIsNewest

IInv == RaceInv /\ HistoryInv
==============================================================================
