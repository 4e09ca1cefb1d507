---------------------------- MODULE CustomFields ----------------------------
(***************************************************************************)
(* Custom fields (customfields/), from both sides of "Applies to" and on   *)
(* the ticket's forms (tickets/router.py), over the tables the lists of    *)
(* Search read.                                                            *)
(*                                                                         *)
(* A slot is a browser with at most one form open and at most one request  *)
(* in hand.  A form shows the database as it was when it was opened; a     *)
(* POST reads its own snapshot, decides, and becomes a job; a job commits  *)
(* in one step onto whatever the database holds by then, for the rows it   *)
(* writes are locked from its first flush to its commit.  A request that   *)
(* is refused, or that changes nothing, is no step.                        *)
(***************************************************************************)
EXTENDS Search

CONSTANTS
  Slots,        \* browsers
  Fields,       \* custom field ids
  FieldNames,   \* their names, equal when MariaDB says so
  LongNames,    \* the ones transactions.field has no room for
  Values,       \* what a row may hold
  Typed,        \* what people type into an input
  Cleaned,      \* [Typed -> Values \cup {NoValue}]: stripped and cut
  Grantable,    \* the grants the rights pages add and take away
  Start,        \* the database at first
  Today,        \* the date of tickets created in a run
  MaxFlips,     \* bound: boxes or inputs a person changes before saving
  MaxWrites     \* bound: requests that write

\* No row: an empty input.
NoValue == ""

FieldRow == [name: FieldNames, disabled: BOOLEAN]

Pair == Queues \X Fields

\* A CustomField row of the history; `old` and `new` are NULL for no value.
Row == [name: FieldNames, old: Values \cup {NoValue}, new: Values \cup {NoValue}]

Partial(S, T) == UNION {[D -> T] : D \in SUBSET S}

\* An "Applies to" page, or the basics form of a ticket as `user` sees it.
Page ==
  [side: {"field"}, id: Fields, offered: SUBSET Pair, ticked: SUBSET Pair]
    \cup [side: {"queue"}, id: Queues, offered: SUBSET Pair, ticked: SUBSET Pair]
    \cup [side: {"ticket"}, id: Tickets, user: Users, queue: Queues,
          inputs: Partial(Fields, Values \cup {NoValue})]

\* One value a save moves, as its snapshot had it.
Change ==
  [field: Fields, name: FieldNames, old: Values \cup {NoValue}, new: Values \cup {NoValue}]

\* What a request is about to write.  `fresh` says, for a property, that the
\* page it came from was still true at the POST.
Job ==
  [do: {"pairs"}, add: SUBSET Pair, remove: SUBSET Pair, posted: SUBSET Pair, fresh: BOOLEAN]
    \cup [do: {"ticket"}, ticket: Tickets, changes: SUBSET Change, queue: Queues,
          moves: BOOLEAN, posted: Partial(Fields, Typed), fresh: BOOLEAN]
    \cup [do: {"create"}, ticket: Tickets, changes: SUBSET Change, row: TicketRow]
    \cup [do: {"field"}, id: Fields, was: FieldRow \cup {Absent}, row: FieldRow]

ASSUME FieldConstants ==
  /\ LongNames \subseteq FieldNames
  /\ NoValue \notin Values /\ Values \cup {NoValue} \subseteq Typed
  /\ Cleaned \in [Typed -> Values \cup {NoValue}]
  /\ \A v \in Values \cup {NoValue} : Cleaned[v] = v
  /\ Today \in Nat /\ MaxFlips \in Nat /\ MaxWrites \in Nat
  /\ Absent \notin FieldRow

\* The runs start after some requests.
ASSUME StartOK ==
  /\ Start.tickets \in [Tickets -> TicketRow \cup {Absent}]
  /\ Start.disabled \subseteq Queues
  /\ Start.fields \in [Fields -> FieldRow \cup {Absent}]
  /\ \A f, g \in Fields :
       /\ f # g /\ Start.fields[f] # Absent /\ Start.fields[g] # Absent
       => Start.fields[f].name # Start.fields[g].name
  /\ Start.carried \subseteq {p \in Pair : Start.fields[p[2]] # Absent}

VARIABLES
  disabled,  \* the queues that are disabled
  fields,    \* the custom_fields table
  carried,   \* the queue_custom_fields table
  values,    \* the ticket_custom_field_values table
  log,       \* [Tickets -> [Fields -> Seq(Row)]]: the CustomField rows
  page,      \* the form each slot has open
  job,       \* the write each slot has in hand
  begun      \* how many writes have begun

vars == <<rights, tickets, disabled, fields, carried, values, log, page, job, begun>>

tables == <<rights, tickets, disabled, fields, carried, values, log>>

TypeOK ==
  /\ rights \subseteq Grantable \cup Start.rights
  /\ tickets \in [Tickets -> TicketRow \cup {Absent}]
  /\ disabled \subseteq Queues
  /\ fields \in [Fields -> FieldRow \cup {Absent}]
  /\ carried \subseteq Pair
  /\ values \in [Tickets -> [Fields -> Values \cup {NoValue}]]
  /\ log \in [Tickets -> [Fields -> Seq(Row)]]
  /\ page \in [Slots -> Page \cup {None}]
  /\ job \in [Slots -> Job \cup {None}]
  /\ begun \in Nat

NoRows == [t \in Tickets |-> [f \in Fields |-> <<>>]]

Init ==
  /\ rights = Start.rights /\ tickets = Start.tickets
  /\ disabled = Start.disabled /\ fields = Start.fields /\ carried = Start.carried
  /\ values = [t \in Tickets |-> [f \in Fields |-> NoValue]] /\ log = NoRows
  /\ page = [s \in Slots |-> None] /\ job = [s \in Slots |-> None]
  /\ begun = 0

----------------------------------------------------------------------------
(* Reading *)

all_fields == {f \in Fields : fields[f] # Absent /\ ~fields[f].disabled}

enabled_queues == Queues \ disabled

queue_boxes(f) == enabled_queues \X {f}

field_boxes(q) == {q} \X all_fields

\* The fields of a queue's tickets, and what the ticket page shows of them.
queue_fields(q) == {f \in all_fields : <<q, f>> \in carried}

ticket_values(t) == [f \in queue_fields(tickets[t].queue) |-> values[t][f]]

\* ModifyCustomField on the ticket's queue, by a role too, makes the inputs.
may_set_custom_fields(u, t) == HoldsOn(u, "ModifyCustomField", t)

applies_to_page(side, id) ==
  LET boxes == IF side = "field" THEN queue_boxes(id) ELSE field_boxes(id)
  IN  [side |-> side, id |-> id, offered |-> boxes, ticked |-> boxes \cap carried]

basics_form(u, t) ==
  [side |-> "ticket", id |-> t, user |-> u, queue |-> tickets[t].queue,
   inputs |-> IF may_set_custom_fields(u, t) THEN ticket_values(t) ELSE [f \in {} |-> NoValue]]

Shown(pg) ==
  IF pg.side = "ticket" THEN basics_form(pg.user, pg.id) ELSE applies_to_page(pg.side, pg.id)

Somebody(right, object) == \E u \in SignedIn : Holds(u, right, object)

\* AdminCustomField for the field's page, AdminQueue for the queue's.
AdministersField(f) == fields[f] # Absent /\ Somebody("AdminCustomField", "system")

modify_ticket(u, t) == Opens(u, t) /\ HoldsOn(u, "ModifyTicket", t)

open_page(s) ==
  /\ job[s] = None /\ page[s] = None
  /\ \/ \E f \in Fields :
          AdministersField(f) /\ page' = [page EXCEPT ![s] = applies_to_page("field", f)]
     \/ \E q \in Queues :
          Somebody("AdminQueue", q) /\ page' = [page EXCEPT ![s] = applies_to_page("queue", q)]
     \/ \E u \in SignedIn, t \in Existing :
          modify_ticket(u, t) /\ page' = [page EXCEPT ![s] = basics_form(u, t)]
  /\ UNCHANGED <<tables, job, begun>>

----------------------------------------------------------------------------
(* Deciding *)

Free(s) == job[s] = None /\ begun < MaxWrites

Begin(s, write) ==
  /\ begun' = begun + 1
  /\ job' = [job EXCEPT ![s] = write]
  /\ UNCHANGED <<tables, page>>

\* What may come back from a page of boxes: its ticks with a few changed.
Forms(pg) ==
  {(pg.ticked \ x) \cup (x \ pg.ticked) :
     x \in {y \in SUBSET pg.offered : Cardinality(y) <= MaxFlips}}

\* Either side: the boxes are derived again and looked up in what was posted.
save_applies_to(s) ==
  /\ Free(s)
  /\ page[s] # None /\ page[s].side # "ticket"
  /\ IF page[s].side = "field" THEN AdministersField(page[s].id)
     ELSE Somebody("AdminQueue", page[s].id)
  /\ LET now == Shown(page[s])
     IN  \E posted \in Forms(page[s]) :
           LET wanted == now.offered \cap posted
           IN  /\ wanted # now.ticked
               /\ Begin(s, [do |-> "pairs", add |-> wanted \ now.ticked,
                            remove |-> now.ticked \ wanted, posted |-> posted,
                            fresh |-> now = page[s]])

\* Mutant: a field without an input in the form is taken for an emptied one.
apply_values_missing(t, q, sent) ==
  LET new(f) == IF f \in DOMAIN sent THEN Cleaned[sent[f]] ELSE NoValue
      moved == {f \in queue_fields(q) : new(f) # values[t][f]}
  IN  {[field |-> f, name |-> fields[f].name, old |-> values[t][f], new |-> new(f)] :
         f \in moved}

\* Mutant: what was typed is kept as it is.
apply_values_raw(t, q, sent) ==
  LET moved == {f \in queue_fields(q) \cap DOMAIN sent : sent[f] # values[t][f]}
  IN  {[field |-> f, name |-> fields[f].name, old |-> values[t][f], new |-> sent[f]] :
         f \in moved}

\* Only the fields the queue carries, and only the values that moved.
apply_values(t, q, sent) ==
  LET moved == {f \in queue_fields(q) \cap DOMAIN sent : Cleaned[sent[f]] # values[t][f]}
  IN  {[field |-> f, name |-> fields[f].name, old |-> values[t][f], new |-> Cleaned[sent[f]]] :
         f \in moved}

\* The select's queues: enabled, and the user may see and create in them.
queues_for_create(u) ==
  {q \in enabled_queues : Holds(u, "CreateTicket", q) /\ Holds(u, "SeeQueue", q)}

\* What may come back from the inputs of a form.
Typings(inputs) ==
  {i \in [DOMAIN inputs -> Typed] :
     Cardinality({f \in DOMAIN inputs : i[f] # inputs[f]}) <= MaxFlips}

\* Mutant: the ticket is moved first, and the fields of its new queue written.
Save_moving_first(u, t, posted, to) ==
  LET sent == IF may_set_custom_fields(u, t) THEN posted ELSE [f \in {} |-> NoValue]
  IN  apply_values(t, to, sent)

\* The values the save moves, in the queue the ticket is in now; they are
\* dropped when the user may not set them.
Save(u, t, posted, to) ==
  LET sent == IF may_set_custom_fields(u, t) THEN posted ELSE [f \in {} |-> NoValue]
  IN  apply_values(t, tickets[t].queue, sent)

ticket_basics_save(s) ==
  /\ Free(s)
  /\ page[s] # None /\ page[s].side = "ticket"
  /\ LET u == page[s].user
         t == page[s].id
     IN  /\ modify_ticket(u, t)
         /\ \E posted \in Typings(page[s].inputs),
               q \in {page[s].queue} \cup queues_for_create(u) :
              LET changes == Save(u, t, posted, q)
                  moves == q # tickets[t].queue
              IN  /\ moves => q \in queues_for_create(u)
                  /\ moves \/ changes # {}
                  /\ Begin(s, [do |-> "ticket", ticket |-> t, changes |-> changes, queue |-> q,
                               moves |-> moves, posted |-> posted,
                               fresh |-> Shown(page[s]) = page[s]])

\* An id the table has not handed out.
UnusedTicket(t) ==
  /\ tickets[t] = Absent
  /\ \A s \in Slots : job[s] # None /\ job[s].do = "create" => job[s].ticket # t
  /\ \A x \in Tickets : x < t => tickets[x] # Absent

owner_choices(q) ==
  {nobody} \cup {u \in SignedIn : People.users[u].privileged /\ Holds(u, "OwnTicket", q)}

\* The create form with whatever inputs it was drawn with; its requestor is
\* who fills it in.
ticket_create(s) ==
  /\ Free(s) /\ page[s] = None
  /\ \E u \in SignedIn, t \in Tickets, D \in SUBSET Fields :
     \E q \in queues_for_create(u), typed \in [D -> Typed] : \E owner \in owner_choices(q) :
       /\ UnusedTicket(t)
       /\ Cardinality({f \in D : typed[f] # NoValue}) <= MaxFlips
       /\ LET sent == IF Holds(u, "ModifyCustomField", q) THEN typed ELSE [f \in {} |-> NoValue]
          IN  Begin(s, [do |-> "create", ticket |-> t, changes |-> apply_values(t, q, sent),
                        row |-> [queue |-> q, owner |-> owner, requestor |-> u, status |-> "new",
                                 priority |-> 0, created |-> Today]])

NewField == [name |-> "", disabled |-> FALSE]

\* What may come back from a field's form that showed `row`.
Edited(row) ==
  {r \in FieldRow : Cardinality({c \in DOMAIN row : r[c] # row[c]}) <= MaxFlips} \ {row}

refusal(f, row) == \E g \in Fields \ {f} : fields[g] # Absent /\ fields[g].name = row.name

create_field(s) ==
  /\ Free(s) /\ page[s] = None
  /\ Somebody("AdminCustomField", "system")
  /\ \E f \in Fields, row \in Edited(NewField) :
       /\ fields[f] = Absent /\ ~refusal(f, row)
       /\ \A x \in Slots : job[x] # None /\ job[x].do = "field" => job[x].id # f
       /\ Begin(s, [do |-> "field", id |-> f, was |-> Absent, row |-> row])

modify_field(s) ==
  /\ Free(s) /\ page[s] = None
  /\ \E f \in Fields :
       /\ AdministersField(f)
       /\ \E row \in Edited(fields[f]) :
            ~refusal(f, row) /\ Begin(s, [do |-> "field", id |-> f, was |-> fields[f], row |-> row])

----------------------------------------------------------------------------
(* The database's side of a write *)

\* A form that was saved is shown anew: the redirect is a new GET.
Done(s) ==
  /\ job' = [job EXCEPT ![s] = None]
  /\ page' = [page EXCEPT ![s] = None]
  /\ UNCHANGED begun

\* The DELETE finds what is there; the INSERT of a pair that is there fails.
write_pairs(s) ==
  /\ job[s] # None /\ job[s].do = "pairs"
  /\ job[s].add \cap carried = {}
  /\ carried' = (carried \ job[s].remove) \cup job[s].add
  /\ Done(s)
  /\ UNCHANGED <<rights, tickets, disabled, fields, values, log>>

\* Mutant: an INSERT that finds a row replaces it.
Fits_upsert(t, c) == c.name \notin LongNames

\* The INSERT of a row that is there breaks the key (ticket, field); an UPDATE
\* that matches no row is an error of the ORM, a DELETE that matches none is
\* not; the name must fit transactions.field.
Fits(t, c) ==
  /\ c.old = NoValue => values[t][c.field] = NoValue
  /\ c.old # NoValue /\ c.new # NoValue => values[t][c.field] # NoValue
  /\ c.name \notin LongNames

RowOf(c) == [name |-> c.name, old |-> c.old, new |-> c.new]

WriteValues(t, changes) ==
  /\ values' = [values EXCEPT ![t] = [f \in Fields |->
       IF \E c \in changes : c.field = f
       THEN (CHOOSE c \in changes : c.field = f).new ELSE @[f]]]
  /\ log' = [log EXCEPT ![t] = [f \in Fields |->
       @[f] \o (IF \E c \in changes : c.field = f
                THEN <<RowOf(CHOOSE c \in changes : c.field = f)>> ELSE <<>>)]]

commit_basics(s) ==
  /\ job[s] # None /\ job[s].do = "ticket"
  /\ LET t == job[s].ticket
     IN  /\ \A c \in job[s].changes : Fits(t, c)
         /\ WriteValues(t, job[s].changes)
         /\ tickets' = IF job[s].moves THEN [tickets EXCEPT ![t].queue = job[s].queue]
                       ELSE tickets
  /\ Done(s)
  /\ UNCHANGED <<rights, disabled, fields, carried>>

commit_create(s) ==
  /\ job[s] # None /\ job[s].do = "create"
  /\ LET t == job[s].ticket
     IN  /\ \A c \in job[s].changes : Fits(t, c)
         /\ WriteValues(t, job[s].changes)
         /\ tickets' = [tickets EXCEPT ![t] = job[s].row]
  /\ Done(s)
  /\ UNCHANGED <<rights, disabled, fields, carried>>

\* UPDATE names the columns that differ from the snapshot; INSERT all of them.
Merged(now, was, row) ==
  IF was = Absent THEN row
  ELSE [c \in DOMAIN row |-> IF row[c] # was[c] THEN row[c] ELSE now[c]]

save_field(s) ==
  /\ job[s] # None /\ job[s].do = "field"
  /\ LET f == job[s].id
         row == Merged(fields[f], job[s].was, job[s].row)
     IN  /\ \A g \in Fields \ {f} : fields[g] # Absent => fields[g].name # row.name
         /\ fields' = [fields EXCEPT ![f] = row]
  /\ Done(s)
  /\ UNCHANGED <<rights, tickets, disabled, carried, values, log>>

\* A key the write breaks, a value no column holds, a deadlock, a dead process.
roll_back(s) ==
  /\ job[s] # None
  /\ Done(s)
  /\ UNCHANGED tables

----------------------------------------------------------------------------
(* What other pages change meanwhile *)

Edit ==
  /\ begun < MaxWrites
  /\ begun' = begun + 1
  /\ UNCHANGED <<fields, carried, values, log, page, job>>

\* Enabled on a queue's form.
save_queue ==
  /\ Edit
  /\ \E q \in Queues :
       /\ Somebody("AdminQueue", q)
       /\ disabled' = IF q \in disabled THEN disabled \ {q} ELSE disabled \cup {q}
  /\ UNCHANGED <<rights, tickets>>

\* A box on a rights page.
save_rights ==
  /\ Edit
  /\ Somebody("SuperUser", "system")
  /\ \E g \in Grantable : rights' = IF g \in rights THEN rights \ {g} ELSE rights \cup {g}
  /\ UNCHANGED <<tickets, disabled>>

\* The other columns of a ticket, by anybody who may: Tickets has them.
ticket_update ==
  /\ Edit
  /\ \E t \in Existing, u \in SignedIn :
       /\ modify_ticket(u, t)
       /\ \/ \E status \in transitions(tickets[t].status) :
               tickets' = [tickets EXCEPT ![t].status = status]
          \/ \E owner \in owner_choices(tickets[t].queue) \ {tickets[t].owner} :
               tickets' = [tickets EXCEPT ![t].owner = owner]
  /\ UNCHANGED <<rights, disabled>>

Next ==
  \/ \E s \in Slots :
       \/ open_page(s) \/ save_applies_to(s) \/ ticket_basics_save(s) \/ ticket_create(s)
       \/ create_field(s) \/ modify_field(s)
       \/ write_pairs(s) \/ commit_basics(s) \/ commit_create(s) \/ save_field(s)
       \/ roll_back(s)
  \/ save_queue \/ save_rights \/ ticket_update

Spec == Init /\ [][Next]_vars

----------------------------------------------------------------------------
(* What holds *)

\* The history of a field on a ticket agrees with its value although two saves
\* may be decided on one snapshot (customfields/service.py:434): its last row
\* ends in the value there is; a row that says "from no value" follows one that
\* says "to no value", for only one of two first values gets in; a row that
\* says "from a to b" never follows one that cleared the value.
HistoryAgrees ==
  \A t \in Tickets, f \in Fields :
    LET rows == log[t][f]
        Before(i) == IF i = 1 THEN NoValue ELSE rows[i - 1].new
    IN  /\ values[t][f] = Before(Len(rows) + 1)
        /\ \A i \in DOMAIN rows :
             /\ rows[i].old = NoValue => Before(i) = NoValue
             /\ rows[i].old # NoValue /\ rows[i].new # NoValue => Before(i) # NoValue

\* The fields are told apart by name, in the history for one (FP F01), although
\* the check and the write are two steps; pairs and values are about fields
\* that are there.
FieldsStand ==
  /\ \A f, g \in Fields :
       f # g /\ fields[f] # Absent /\ fields[g] # Absent => fields[f].name # fields[g].name
  /\ \A p \in carried : fields[p[2]] # Absent
  /\ \A t \in Tickets, f \in Fields :
       values[t][f] # NoValue => t \in Existing /\ fields[f] # Absent

\* A value changes only by a save of a form that had its input, and to what
\* was typed there: unapplying, disabling, renaming, moving the ticket, and
\* forms opened before any of these lose none (FP F06, F07).
ValuesSurvive ==
  [][\A t \in Existing, f \in Fields :
       values'[t][f] # values[t][f] =>
         \E s \in Slots :
           /\ job[s] # None /\ job'[s] = None
           /\ page[s] # None /\ page[s].side = "ticket" /\ page[s].id = t
           /\ f \in DOMAIN page[s].inputs
           /\ values'[t][f] = Cleaned[job[s].posted[f]]]_vars

\* Afterwards the boxes are the ones posted, and no other pair moved.
SavesItsBoxes(s) ==
  carried' = (carried \ page[s].offered) \cup job[s].posted

\* Afterwards the values are the ones typed and the queue the one chosen, and
\* no other value or ticket moved.
SavesItsInputs(s) ==
  LET t == page[s].id
      typed == job[s].posted
  IN  /\ values' = [values EXCEPT ![t] = [f \in Fields |->
                      IF f \in DOMAIN typed THEN Cleaned[typed[f]] ELSE @[f]]]
      /\ tickets' = [tickets EXCEPT ![t].queue = job[s].queue]

\* A form that is still true at its POST and when its save commits becomes the
\* truth, whatever else is saved side by side ("difference only",
\* customfields/router.py:240, 298; "the value the person was shown",
\* tickets/update.py:298).
SavesAreExact ==
  [][\A s \in Slots :
       /\ job[s] # None /\ job'[s] = None /\ page[s] # None
       /\ <<carried, values, tickets>>' # <<carried, values, tickets>>
       /\ job[s].fresh /\ page[s] = Shown(page[s])
       => IF page[s].side = "ticket" THEN SavesItsInputs(s) ELSE SavesItsBoxes(s)]_vars

----------------------------------------------------------------------------
(* The inductive invariant *)

\* What a save of boxes has worked out, and from what when its page was true.
PairsInHand(j, pg) ==
  /\ pg # None /\ pg.side # "ticket"
  /\ \A p \in j.add : fields[p[2]] # Absent
  /\ j.fresh => /\ j.posted \subseteq pg.offered
                /\ j.add = j.posted \ pg.ticked /\ j.remove = pg.ticked \ j.posted

\* What a save of the basics form has: changes to what was typed, all of them
\* when the form was true.
BasicsInHand(j, pg) ==
  /\ pg # None /\ pg.side = "ticket" /\ pg.id = j.ticket /\ j.ticket \in Existing
  /\ DOMAIN j.posted = DOMAIN pg.inputs
  /\ \A c \in j.changes :
       /\ fields[c.field] # Absent
       /\ c.field \in DOMAIN pg.inputs /\ c.new = Cleaned[j.posted[c.field]]
  /\ j.fresh =>
       /\ ~j.moves => j.queue = pg.queue
       /\ \A f \in DOMAIN pg.inputs :
            Cleaned[j.posted[f]] # pg.inputs[f] => \E c \in j.changes : c.field = f

\* The id of a ticket to be is nobody else's.
CreateInHand(s) ==
  /\ page[s] = None
  /\ tickets[job[s].ticket] = Absent
  /\ \A c \in job[s].changes : fields[c.field] # Absent
  /\ \A x \in Slots \ {s} :
       job[x] # None /\ job[x].do = "create" => job[x].ticket # job[s].ticket

InHand(s) ==
  /\ job[s].do = "pairs" => PairsInHand(job[s], page[s])
  /\ job[s].do = "ticket" => BasicsInHand(job[s], page[s])
  /\ job[s].do = "create" => CreateInHand(s)
  /\ job[s].do = "field" /\ job[s].was # Absent => fields[job[s].id] # Absent

IInv ==
  /\ TypeOK /\ HistoryAgrees /\ FieldsStand
  /\ \A s \in Slots : job[s] # None => InHand(s)
==============================================================================
