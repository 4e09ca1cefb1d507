------------------------------ MODULE Gateway ------------------------------
(***************************************************************************)
(* Mail in: `pyrt mailgate`, a process per delivery (cli.py:138,           *)
(* mail/gateway.py), with the mail it causes (mail/notify.py) and the      *)
(* queues, users and tickets that decide where a message goes.             *)
(*                                                                         *)
(* A delivery reads its snapshot and decides in one step; it inserts the   *)
(* sender's user, when new, under the lock of the unique name; it writes   *)
(* and commits; it mails; it prints its protocol and exits.  It may die at *)
(* any of these.  What a reply does to the columns of a ticket is Tickets'.*)
(* Ids are positions in a table, handed out as rows are committed, and     *)
(* deliveries are numbered as they begin.                                  *)
(***************************************************************************)
EXTENDS Naturals, Sequences, FiniteSets

CONSTANTS
  Letters,    \* what people write: [from, queue, action]
  Addresses,  \* addresses, lower-cased
  Long,       \* the ones longer than users.email, not longer than users.name
  Cut,        \* what users.email keeps of those
  Queues,     \* queue ids
  QueueNames, \* names of queues, equal when MariaDB says so
  Tags,       \* subject tags a queue may be given
  Plain,      \* the tags TAG_RE can read back: without "#" and "]"
  SiteName,   \* SITE_NAME, the tag of queues without one
  Foreign,    \* a tag of somebody else's tracker
  Grants,     \* <<"Everyone" or "Requestor", right, queue>>
  QueueForms, \* what administrators post about a queue: [name, tag, disabled]
  UserForms,  \* and about a user: [email, disabled]
  StartUsers, StartQueues, \* the tables at first
  MaxDeliveries, \* bound: runs of the command
  MaxEdits,   \* bound: what administrators change
  None        \* no address, no tag, no queue

\* ACTIONS, the ones the gateway speaks.
Spoken == {"correspond", "comment"}

\* `by` is the delivery that made the row, 0 for an administrator, and `edited`
\* says that an administrator has changed its email: both for properties.
UserRow == [name: Addresses \cup {None}, email: (Addresses \ Long) \cup {Cut, None},
            disabled: BOOLEAN, by: Nat, edited: BOOLEAN]

\* `retagged` says, for a property, that its tag has been changed.
QueueRow == [name: QueueNames, tag: Tags \cup {None}, disabled: BOOLEAN, retagged: BOOLEAN]

\* `rows` are the deliveries whose message is in the ticket's history, and
\* `moved` says, for a property, that it has changed its queue.
TicketRow == [queue: Queues, requestor: Nat, rows: SUBSET Nat, moved: BOOLEAN]

SubjectTag == [name: Tags \cup {SiteName, Foreign}, id: Nat]

Letter == [from: Addresses \cup {None}, queue: QueueNames, action: Spoken \cup {"bounce"}]

Message == [letter: Letters, tag: SubjectTag \cup {None}]

Steps == {"insert", "write", "hooks", "exit"}

\* What the caller hears: "not ok" with the gateway's own words, or those of an
\* exception ("name taken", or any other "error"); or nothing, "lost".
Outcomes == {"ok", "not ok", "name taken", "error", "lost"}

\* `first` is the delivery that carried the message first, `sender` a user or 0
\* for a new one, `ticket` the one to answer or 0 for a new one, which `creates`
\* repeats; `gate` is the queue of the command line, `tag` its tag and `queue`
\* the ticket's queue as the snapshot had them.
Run ==
  [at: Steps \cup Outcomes, mail: Message, first: Nat, sender: Nat, requestor: Nat,
   ticket: Nat, creates: BOOLEAN, gate: Queues \cup {None}, tag: Tags \cup {SiteName},
   queue: Queues \cup {None}, allowed: BOOLEAN]

ASSUME GatewayConstants ==
  /\ Letters \subseteq Letter
  /\ Long \subseteq Addresses /\ Cut \notin Addresses /\ None \notin Addresses \cup {Cut}
  /\ Plain \subseteq Tags \cup {SiteName} /\ SiteName \in Plain
  /\ Foreign \notin Tags \cup {SiteName} /\ None \notin Tags \cup {SiteName}
  /\ StartUsers \in Seq(UserRow)
  /\ \A u \in DOMAIN StartUsers : StartUsers[u].by = 0
  /\ StartQueues \in [Queues -> QueueRow \cup {None}]
  /\ QueueForms \subseteq [name: QueueNames, tag: Tags \cup {None}, disabled: BOOLEAN]
  /\ UserForms \subseteq [email: (Addresses \ Long) \cup {None}, disabled: BOOLEAN]
  /\ None \notin Queues \cup QueueRow \cup SubjectTag
  /\ MaxDeliveries \in Nat /\ MaxEdits \in Nat

VARIABLES
  users,     \* the users table
  queues,    \* the queues table
  tickets,   \* the tickets table
  sent,      \* the mail sent out: [to, tag, by]
  runs,      \* the deliveries so far
  edits      \* how many changes administrators have made

vars == <<users, queues, tickets, sent, runs, edits>>

TypeOK ==
  /\ users \in Seq(UserRow)
  /\ queues \in [Queues -> QueueRow \cup {None}]
  /\ tickets \in Seq(TicketRow)
  /\ sent \subseteq [to: (Addresses \ Long) \cup {Cut}, tag: SubjectTag, by: Nat]
  /\ runs \in Seq(Run)
  /\ edits \in Nat

Init ==
  /\ users = StartUsers /\ queues = StartQueues
  /\ tickets = <<>> /\ sent = {} /\ runs = <<>> /\ edits = 0

----------------------------------------------------------------------------
(* Deciding *)

\* The queue's own tag, or the site's.
subject_tag_for(q) == IF queues[q].tag = None THEN SiteName ELSE queues[q].tag

queue_by_name(name) == {q \in Queues : queues[q] # None /\ queues[q].name = name}

\* Mutant: a disabled user is passed over when the sender is looked up.
enabled_user_by_email(address) ==
  LET found == {u \in DOMAIN users : users[u].email = address /\ ~users[u].disabled}
  IN  IF found = {} THEN 0 ELSE CHOOSE u \in found : \A v \in found : u <= v

\* The oldest user with that address, 0 for none.
user_by_email(address) ==
  LET found == {u \in DOMAIN users : users[u].email = address}
  IN  IF found = {} THEN 0 ELSE CHOOSE u \in found : \A v \in found : u <= v

\* Mutant: the address is not cut.
Stored_whole(address) == address

\* What users.email keeps of an address.
Stored(address) == IF address \in Long THEN Cut ELSE address

\* Mutant: the site's tag is nothing to a queue with a tag of its own.
is_our_tag_strict(tag, q) == tag.name \in Plain \cap {subject_tag_for(q)}

\* A tag is the site's, or that of the queue its ticket is in now; TAG_RE reads it.
is_our_tag(tag, q) == tag.name \in Plain \cap {SiteName, subject_tag_for(q)}

\* The ticket a message answers, 0 for none.
threading(tag) ==
  IF tag # None /\ tag.id \in DOMAIN tickets /\ is_our_tag(tag, tickets[tag.id].queue)
  THEN tag.id ELSE 0

\* A disabled sender holds nothing; the new one, 0, holds what Everyone does.
has_right(u, roles, right, q) ==
  /\ u # 0 => ~users[u].disabled
  /\ \E who \in {"Everyone"} \cup roles : <<who, right, q>> \in Grants

Allowed(u, t, action, gate) ==
  LET roles == IF tickets[t].requestor = u THEN {"Requestor"} ELSE {}
      right == IF action = "correspond" THEN "ReplyToTicket" ELSE "CommentOnTicket"
  IN  IF t = 0 THEN has_right(u, {}, "CreateTicket", gate)
      ELSE has_right(u, roles, right, tickets[t].queue)

\* An action it does not speak, a queue that is not there or off, no usable From.
Unacceptable(l) ==
  \/ l.action \notin Spoken
  \/ \A q \in queue_by_name(l.queue) : queues[q].disabled
  \/ l.from = None

Refused(m, first) ==
  [at |-> "not ok", mail |-> m, first |-> first, sender |-> 0, requestor |-> 0, ticket |-> 0,
   creates |-> FALSE, gate |-> None, tag |-> SiteName, queue |-> None, allowed |-> FALSE]

\* Everything a delivery decides from its snapshot, up to its first write.  The
\* requestor of a new ticket is looked up by the address as it is stored.
Opened(m, first, gate) ==
  LET u == user_by_email(m.letter.from)
      t == threading(m.tag)
  IN  [at |-> IF u = 0 THEN "insert" ELSE "write", mail |-> m, first |-> first,
       sender |-> u, requestor |-> IF u = 0 THEN user_by_email(Stored(m.letter.from)) ELSE u,
       ticket |-> t, creates |-> t = 0, gate |-> gate, tag |-> subject_tag_for(gate),
       queue |-> IF t = 0 THEN gate ELSE tickets[t].queue,
       allowed |-> Allowed(u, t, m.letter.action, gate)]

deliver(m, first) ==
  /\ Len(runs) < MaxDeliveries
  /\ \/ Unacceptable(m.letter) /\ runs' = Append(runs, Refused(m, first))
     \/ /\ ~Unacceptable(m.letter)
        /\ \E gate \in queue_by_name(m.letter.queue) :
             runs' = Append(runs, Opened(m, first, gate))
  /\ UNCHANGED <<users, queues, tickets, sent, edits>>

\* Somebody writes: no tag, another tracker's, or the tag of mail we sent.
arrive ==
  \E l \in Letters,
     tag \in {None, [name |-> Foreign, id |-> 1]} \cup {s.tag : s \in sent} :
    deliver([letter |-> l, tag |-> tag], Len(runs) + 1)

\* The caller hands a message over again until it hears "ok".
arrive_again ==
  \E d \in DOMAIN runs :
    /\ runs[d].first = d
    /\ \A e \in DOMAIN runs : runs[e].first = d => runs[e].at \in Outcomes \ {"ok"}
    /\ deliver(runs[d].mail, d)

----------------------------------------------------------------------------
(* Writing *)

At(d, step) == d \in DOMAIN runs /\ runs[d].at = step

\* The process is gone and what it had in hand with it.
Gone(d, outcome, ticket) ==
  [Refused(runs[d].mail, runs[d].first) EXCEPT !.at = outcome, !.ticket = ticket]

\* It ends; a session not committed is rolled back.
end(d, outcome) ==
  /\ runs' = [runs EXCEPT ![d] = Gone(d, outcome, runs[d].ticket)]
  /\ UNCHANGED <<users, queues, tickets, sent, edits>>

\* Another session has inserted the same name and not yet ended.
NamePending(d) ==
  \E e \in DOMAIN runs \ {d} :
    /\ runs[e].at = "write" /\ runs[e].sender = 0
    /\ runs[e].mail.letter.from = runs[d].mail.letter.from

NameTaken(name) == \E u \in DOMAIN users : users[u].name = name

inserted(d) ==
  /\ runs' = [runs EXCEPT ![d].at = "write"]
  /\ UNCHANGED <<users, queues, tickets, sent, edits>>

\* Mutant: no unique name.
sender_user_unlocked(d) == At(d, "insert") /\ inserted(d)

\* sender_user's flush: the unique name waits for the other session's end.
sender_user(d) ==
  /\ At(d, "insert") /\ ~NamePending(d)
  /\ \/ NameTaken(runs[d].mail.letter.from) /\ end(d, "name taken")
     \/ ~NameTaken(runs[d].mail.letter.from) /\ inserted(d)

\* The tables with the sender's row, and the sender's id.
NewUser(d) ==
  [name |-> runs[d].mail.letter.from, email |-> Stored(runs[d].mail.letter.from),
   disabled |-> FALSE, by |-> d, edited |-> FALSE]

WithSender(d) == IF runs[d].sender = 0 THEN Append(users, NewUser(d)) ELSE users

Sender(d) == IF runs[d].sender = 0 THEN Len(users) + 1 ELSE runs[d].sender

\* Mutant: no rollback, and the session's scope commits the sender.
permission_denied_kept(d) ==
  /\ At(d, "write") /\ ~runs[d].allowed
  /\ users' = WithSender(d)
  /\ runs' = [runs EXCEPT ![d].at = "not ok"]
  /\ UNCHANGED <<queues, tickets, sent, edits>>

permission_denied(d) ==
  /\ At(d, "write") /\ ~runs[d].allowed
  /\ end(d, "not ok")

\* The database refuses a statement, a deadlock or a wait too long, or the
\* connection goes before the commit: deliver refuses in the exception's words.
database_error(d) ==
  /\ At(d, "insert") \/ At(d, "write")
  /\ end(d, "error")

\* The commit, inside deliver's try: its acknowledgement arrives, or is lost with
\* the connection and deliver refuses, rolling back nothing, what is filed.
committed(d, ticket) ==
  \/ runs' = [runs EXCEPT ![d].at = "hooks", ![d].sender = Sender(d), ![d].ticket = ticket]
  \/ runs' = [runs EXCEPT ![d] = Gone(d, "error", ticket)]

\* _reply: a Correspond or Comment row more on the ticket.
reply(d) ==
  /\ At(d, "write") /\ runs[d].allowed /\ ~runs[d].creates
  /\ users' = WithSender(d)
  /\ tickets' = [tickets EXCEPT ![runs[d].ticket].rows = @ \cup {d}]
  /\ committed(d, runs[d].ticket)
  /\ UNCHANGED <<queues, sent, edits>>

\* _create: a ticket in the queue of the command line.
create(d) ==
  LET asked == runs[d].requestor IN
  /\ At(d, "write") /\ runs[d].allowed /\ runs[d].creates
  /\ users' = WithSender(d)
  /\ tickets' = Append(tickets,
       [queue |-> runs[d].gate, requestor |-> IF asked = 0 THEN Sender(d) ELSE asked,
        rows |-> {d}, moved |-> FALSE])
  /\ committed(d, Len(tickets) + 1)
  /\ UNCHANGED <<queues, sent, edits>>

----------------------------------------------------------------------------
(* After the commit *)

\* The gate's queue is still the session's, as the snapshot had it; any other is
\* read again.
subject_for(d) ==
  [name |-> IF runs[d].queue = runs[d].gate THEN runs[d].tag ELSE subject_tag_for(runs[d].queue),
   id |-> runs[d].ticket]

\* The autoreply, to the address as stored; a reply's copy, to the requestor
\* unless he wrote it; a comment's, to nobody.
Recipients(d) ==
  LET requestor == tickets[runs[d].ticket].requestor IN
  IF runs[d].creates THEN {Stored(runs[d].mail.letter.from)}
  ELSE {users[u].email : u \in {requestor} \ {runs[d].sender}} \ {None}

Notified(d) ==
  IF ~runs[d].creates /\ runs[d].mail.letter.action = "comment" THEN {} ELSE Recipients(d)

\* Mutant: a message whose mail is not taken is refused, though filed.
fire_raising(d) ==
  /\ At(d, "hooks")
  /\ \/ /\ sent' = sent \cup {[to |-> a, tag |-> subject_for(d), by |-> d] : a \in Notified(d)}
        /\ runs' = [runs EXCEPT ![d].at = "exit"]
     \/ sent' = sent /\ runs' = [runs EXCEPT ![d].at = "not ok"]
  /\ UNCHANGED <<users, queues, tickets, edits>>

\* The listeners, with a back end that takes the mail or fails: both are logged
\* and swallowed.
fire(d) ==
  /\ At(d, "hooks")
  /\ \E taken \in {{}, Notified(d)} :
       sent' = sent \cup {[to |-> a, tag |-> subject_for(d), by |-> d] : a \in taken}
  /\ runs' = [runs EXCEPT ![d].at = "exit"]
  /\ UNCHANGED <<users, queues, tickets, edits>>

\* _mailgate prints ok and the ticket.
exit(d) == At(d, "exit") /\ end(d, "ok")

\* The process dies, or the answer does not reach the caller: what is not
\* committed is rolled back by the server.
die(d) ==
  /\ d \in DOMAIN runs /\ runs[d].at \in Steps
  /\ end(d, "lost")

----------------------------------------------------------------------------
(* Administrators *)

Edit == edits < MaxEdits /\ edits' = edits + 1

name_problem(name, q) == queue_by_name(name) \ {q} # {}

QueueOf(form, retagged) ==
  [name |-> form.name, tag |-> form.tag, disabled |-> form.disabled, retagged |-> retagged]

create_queue(q) ==
  /\ Edit /\ queues[q] = None
  /\ \E form \in QueueForms :
       /\ ~name_problem(form.name, q)
       /\ queues' = [queues EXCEPT ![q] = QueueOf(form, FALSE)]
  /\ UNCHANGED <<users, tickets, sent, runs>>

save_queue(q) ==
  /\ Edit /\ queues[q] # None
  /\ \E form \in QueueForms :
       /\ ~name_problem(form.name, q)
       /\ queues' = [queues EXCEPT ![q] =
            QueueOf(form, queues[q].retagged \/ form.tag # queues[q].tag)]
  /\ UNCHANGED <<users, tickets, sent, runs>>

\* The users page, for what the gateway reads: an address that fits, or none.
save_user(u) ==
  /\ Edit /\ u \in DOMAIN users
  /\ \E form \in UserForms :
       users' = [users EXCEPT ![u].email = form.email, ![u].disabled = form.disabled,
                              ![u].edited = @ \/ form.email # users[u].email]
  /\ UNCHANGED <<queues, tickets, sent, runs>>

\* The basics page: the ticket goes to another queue that takes tickets.
move_ticket(t) ==
  /\ Edit /\ t \in DOMAIN tickets
  /\ \E q \in Queues \ {tickets[t].queue} :
       /\ queues[q] # None /\ ~queues[q].disabled
       /\ tickets' = [tickets EXCEPT ![t].queue = q, ![t].moved = TRUE]
  /\ UNCHANGED <<users, queues, sent, runs>>

----------------------------------------------------------------------------
Next ==
  \/ arrive \/ arrive_again
  \/ \E d \in DOMAIN runs :
       \/ sender_user(d) \/ permission_denied(d) \/ database_error(d)
       \/ reply(d) \/ create(d) \/ fire(d) \/ exit(d) \/ die(d)
  \/ \E q \in Queues : create_queue(q) \/ save_queue(q)
  \/ \E u \in DOMAIN users : save_user(u)
  \/ \E t \in DOMAIN tickets : move_ticket(t)

Spec == Init /\ [][Next]_vars

----------------------------------------------------------------------------
(* Safety *)

Filed(d) == \E t \in DOMAIN tickets : d \in tickets[t].rows

Over(d, outcomes) == d \in DOMAIN runs /\ runs[d].at \in outcomes

\* What the command prints is what the database holds: after "ok" the message is
\* in the named ticket; after a refusal in the gateway's own words, or for a taken
\* name, nowhere.  After any end, an error's too, it is in one ticket at most, and
\* "nothing half-written survives": a user made for it is there only with it
\* (gateway.py:28-31, 372-376).
ProtocolTellsTheTruth ==
  \A d \in DOMAIN runs :
    /\ Over(d, {"ok"}) => Filed(d) /\ d \in tickets[runs[d].ticket].rows
    /\ Over(d, {"not ok", "name taken"}) => ~Filed(d)
    /\ \A t, v \in DOMAIN tickets : d \in tickets[t].rows /\ d \in tickets[v].rows => t = v
    /\ (\E u \in DOMAIN users : users[u].by = d) => Filed(d)

\* What the module's own words say of every refusal: "A refusal rolls the session
\* back, so a message the gateway would not accept leaves nothing behind -- not
\* even the user its From would have made" (gateway.py:30-32).
RefusalLeavesNothing ==
  \A d \in DOMAIN runs :
    Over(d, {"not ok", "name taken", "error"}) =>
      ~Filed(d) /\ \A u \in DOMAIN users : users[u].by # d

\* A caller that hands a message over until it hears "ok" files it twice only when
\* the earlier answer was lost, or was an error's: a refusal in the gateway's own
\* words, or for a taken name, may be tried again (gateway.py:307 records the
\* message id, nobody asks for it).
FiledOnce ==
  \A d, e \in DOMAIN runs :
    d < e /\ runs[d].first = runs[e].first /\ Filed(d) /\ Filed(e) => Over(d, {"lost", "error"})

\* However many first messages of one person arrive side by side, one user is
\* made for them (gateway.py:193-218).
OneUserPerSender ==
  \A u, v \in DOMAIN users : u # v /\ users[u].by # 0 /\ users[v].by # 0 =>
    users[u].name # users[v].name

\* An answer to mail we sent is filed on the ticket that mail was about, whatever
\* happened to queues and tags in between: unless the tag cannot be read back, or
\* is a queue's and the ticket has left that queue, or the queue that tag
\* (gateway.py:224-255, notify.py:34-36).
AnswersReachTheirTicket ==
  \A d \in DOMAIN runs : \A s \in sent :
    Filed(d) /\ runs[d].mail.tag = s.tag /\ s.tag.name \in Plain =>
      LET t == s.tag.id IN
      \/ d \in tickets[t].rows
      \/ s.tag.name # SiteName /\ (tickets[t].moved \/ queues[tickets[t].queue].retagged)

\* The user a message is filed under is looked up by email and made under a
\* unique name: the same message is turned away by that name twice only when the
\* account of that name has lost the address, or never kept the whole of it.
TurnedAwayOnce ==
  \A d, e \in DOMAIN runs :
    /\ d # e /\ runs[d].first = runs[e].first
    /\ Over(d, {"name taken"}) /\ Over(e, {"name taken"})
    => \E u \in DOMAIN users :
         /\ users[u].name = runs[d].mail.letter.from
         /\ users[u].edited \/ users[u].email # users[u].name

----------------------------------------------------------------------------
(* The inductive invariant: why the protocol and the tables stay in step *)

\* No claim on the ticket is left in an old tag: it has moved, or its queue has
\* been given another tag.
Loose(t) == tickets[t].moved \/ queues[tickets[t].queue].retagged

\* A tag we have sent names a ticket there is, and still names its queue.
TagStands(tag) ==
  /\ tag.id \in DOMAIN tickets
  /\ tag.name \in {SiteName, subject_tag_for(tickets[tag.id].queue)} \/ Loose(tag.id)

TablesOK ==
  /\ \A t \in DOMAIN tickets :
       /\ queues[tickets[t].queue] # None
       /\ tickets[t].requestor \in DOMAIN users
       /\ \A d \in tickets[t].rows : d \in DOMAIN runs /\ runs[d].ticket = t
  /\ \A u \in DOMAIN users : users[u].by # 0 => users[u].by \in DOMAIN runs
  /\ \A s \in sent : TagStands(s.tag)

\* What a delivery has decided keeps its meaning while others change the tables.
InHand(d) ==
  LET r == runs[d] IN
  /\ r.mail.letter.from # None
  /\ r.gate \in Queues /\ queues[r.gate] # None
  /\ r.tag \in {SiteName, subject_tag_for(r.gate)} \/ queues[r.gate].retagged
  /\ {r.sender, r.requestor} \subseteq {0} \cup DOMAIN users
  /\ r.queue \in Queues /\ queues[r.queue] # None
  /\ r.ticket = 0 => r.queue = r.gate
  /\ r.ticket # 0 =>
       /\ r.ticket \in DOMAIN tickets
       /\ r.queue = tickets[r.ticket].queue \/ tickets[r.ticket].moved
  /\ r.at \in {"insert", "write"} => (r.creates <=> r.ticket = 0)
  /\ r.at = "insert" => r.sender = 0

\* A message that answers our mail is headed for its ticket, unless the tag is loose.
Aimed(d) ==
  LET tag == runs[d].mail.tag IN
  tag # None /\ tag.name \in Plain =>
    /\ tag.id \in DOMAIN tickets
    /\ runs[d].ticket = tag.id \/ (tag.name # SiteName /\ Loose(tag.id))

\* A delivery and its message, and what it has written by its stage.
RunOK(d) ==
  LET r == runs[d] IN
  /\ r.first \in DOMAIN runs /\ r.mail = runs[r.first].mail
  /\ r.mail.tag # None => r.mail.tag.name = Foreign \/ \E s \in sent : s.tag = r.mail.tag
  /\ r.at \in Steps => InHand(d)
  /\ r.at \in {"insert", "write", "not ok", "name taken"} => ~Filed(d)
  /\ (\E u \in DOMAIN users : users[u].by = d) => Filed(d)
  /\ r.at \in {"hooks", "exit", "ok"} => r.ticket \in DOMAIN tickets /\ d \in tickets[r.ticket].rows
  /\ r.at = "name taken" => NameTaken(r.mail.letter.from)
  /\ r.at \in Steps \/ Filed(d) => Aimed(d)

Inserted(d) == runs[d].at = "write" /\ runs[d].sender = 0

\* A user is there by that name, but not by that address.
NameIsLost(name) ==
  \E u \in DOMAIN users :
    users[u].name = name /\ (users[u].edited \/ users[u].email # users[u].name)

\* Two deliveries: of one message, the earlier is over and has owned up to nothing;
\* of one sender, one alone has the new user's name.
PairOK(d, e) ==
  /\ runs[d].first = runs[e].first =>
       /\ \A x, y \in {d, e} : x < y => runs[x].at \in Outcomes \ {"ok"}
       /\ {runs[d].at, runs[e].at} \subseteq {"insert", "name taken"}
            => NameIsLost(runs[d].mail.letter.from)
  /\ Inserted(d) /\ Inserted(e) => runs[d].mail.letter.from # runs[e].mail.letter.from

IInv ==
  /\ TypeOK /\ TablesOK /\ OneUserPerSender
  /\ \A d \in DOMAIN runs : RunOK(d)
  /\ \A d \in DOMAIN runs : Inserted(d) => ~NameTaken(runs[d].mail.letter.from)
  /\ \A d, e \in DOMAIN runs : d # e => PairOK(d, e)
=============================================================================
