------------------------------- MODULE Fixture -------------------------------
(***************************************************************************)
(* `pyrt seed`, `pyrt seed --fixture` and `--check` (cli.py, db/seed.py,   *)
(* db/fixture.py): one dataset written through the services, commit by     *)
(* commit, into a database others may be writing to.                       *)
(*                                                                         *)
(* A process runs one command.  Each of its steps ends in a commit, for    *)
(* what it decides by comes from the snapshot of that transaction or from  *)
(* the objects its session has held since it made them.                    *)
(***************************************************************************)
EXTENDS Lifecycle, SequencesExt

CONSTANTS
  Processes,  \* the processes started
  Commands,   \* what they may be started with: SUBSET [Processes -> Command]
  Squatted,   \* rows an administrator makes in the app meanwhile
  Clock,      \* the date of every write, before it is stamped
  MaxId,      \* bound: ticket ids handed out
  MaxForeign, \* bound: what the app writes meanwhile
  Absent,     \* an id no ticket has
  None        \* nothing

STEP_STATUSES == {"new", "open", "stalled", "resolved", "rejected"}

GLOBAL_ONLY_RIGHTS ==
  {"SuperUser", "AdminUsers", "AdminGroup", "AdminCustomField", "ShowConfigTab"}

\* A row of a table, by its unique key.  The seed's groups are cut to one.
SEED ==
  {<<"groups", "Everyone">>, <<"users", "Nobody">>, <<"users", "root">>,
   <<"queues", "General">>, <<"rights", "user", "root", "SuperUser", "system">>}

----------------------------------------------------------------------------
(* The file *)

Step ==
  [type: {"correspond", "comment", "status", "custom_field"}, at: Nat, actor: STRING,
   status: STRING, field: STRING, value: STRING]

TicketSpec ==
  [id: Nat, queue: STRING, subject: STRING, owner: STRING, creator: STRING,
   created: Nat, steps: Seq(Step)]

\* A grant is on a queue, or on "system".
Dataset ==
  [queues: Seq([name: STRING, existing: BOOLEAN]),
   users: Seq([name: STRING, privileged: BOOLEAN]),
   groups: Seq([name: STRING, members: Seq(STRING)]),
   fields: Seq([name: STRING, applies_to: SUBSET STRING]),
   rights: Seq([kind: {"user", "group"}, principal: STRING, queue: STRING,
                rights: SUBSET STRING]),
   tickets: Seq(TicketSpec)]

NamesOf(specs) == {specs[i].name : i \in DOMAIN specs}

Unique(specs) == IsInjective([i \in DOMAIN specs |-> specs[i].name])

\* 1..N in file order, each ticket's times increasing.
ticket_spec(spec, position) ==
  /\ spec.id = position
  /\ \A k \in DOMAIN spec.steps :
       /\ spec.steps[k].at > IF k = 1 THEN spec.created ELSE spec.steps[k - 1].at
       /\ spec.steps[k].type = "status" => spec.steps[k].status \in STEP_STATUSES

grant_spec(grant) ==
  grant.rights # {} /\ (grant.queue # "system" => grant.rights \cap GLOBAL_ONLY_RIGHTS = {})

CarriedBy(file, field) ==
  UNION {c.applies_to : c \in {x \in ToSet(file.fields) : x.name = field}}

cross_check(file) ==
  /\ Unique(file.queues) /\ Unique(file.users) /\ Unique(file.groups) /\ Unique(file.fields)
  /\ IsInjective([i \in DOMAIN file.rights |->
       <<file.rights[i].kind, file.rights[i].principal, file.rights[i].queue>>])
  /\ \A c \in ToSet(file.fields) : c.applies_to \subseteq NamesOf(file.queues)
  /\ \A grant \in ToSet(file.rights) :
       /\ grant.queue \in NamesOf(file.queues) \cup {"system"}
       /\ grant.kind = "user" =>
            \A u \in ToSet(file.users) : u.name = grant.principal => u.privileged
  /\ \A spec \in ToSet(file.tickets) :
       /\ spec.queue \in NamesOf(file.queues)
       /\ \A step \in ToSet(spec.steps) :
            step.type = "custom_field" => spec.queue \in CarriedBy(file, step.field)

parse(file) ==
  /\ \A i \in DOMAIN file.tickets : ticket_spec(file.tickets[i], i)
  /\ \A group \in ToSet(file.groups) : IsInjective(group.members)
  /\ \A grant \in ToSet(file.rights) : grant_spec(grant)
  /\ cross_check(file)

\* The status the last status step names.
final_status(spec) ==
  LET moves == {k \in DOMAIN spec.steps : spec.steps[k].type = "status"}
  IN  IF moves = {} THEN "new" ELSE spec.steps[Max(moves)].status

\* A ticket's values are pairs of a field and a value, one for each field set.
WithValue(values, step) ==
  {x \in values : x[1] # step.field} \cup {<<step.field, step.value>>}

\* Of the steps that set a field, the last of the first n.
SetBy(spec, n) ==
  LET steps == {k \in 1 .. n : spec.steps[k].type = "custom_field"}
  IN  {k \in steps : \A j \in steps : spec.steps[j].field = spec.steps[k].field => j <= k}

ValuesAfter(spec, n) == {<<spec.steps[k].field, spec.steps[k].value>> : k \in SetBy(spec, n)}

final_values(spec) == ValuesAfter(spec, Len(spec.steps))

steps_of(file, kind) ==
  Cardinality(UNION {{<<i, k>> : k \in {x \in DOMAIN file.tickets[i].steps :
                                        file.tickets[i].steps[x].type = kind}} :
                       i \in DOMAIN file.tickets})

\* What is written before the tickets: a set of rows per commit, in the order
\* the references need; the grants of one rights page are one save.
Units(file) ==
  LET Each(specs, table) == [i \in DOMAIN specs |-> {<<table, specs[i].name>>}]
      New(queue) == ~queue.existing
      GroupOf(g) == <<{<<"groups", g.name>>}>>
                      \o [i \in DOMAIN g.members |-> {<<"group_members", g.name, g.members[i]>>}]
      FieldOf(c) == <<{<<"custom_fields", c.name>>},
                      {<<"queue_custom_fields", q, c.name>> : q \in c.applies_to}>>
      PageOf(grant) == <<grant.queue, grant.kind>>
      GrantsOf(i) ==
        IF \E j \in 1 .. i - 1 : PageOf(file.rights[j]) = PageOf(file.rights[i]) THEN {}
        ELSE UNION {{<<"rights", g.kind, g.principal, r, g.queue>> : r \in g.rights} :
                      g \in {x \in ToSet(file.rights) : PageOf(x) = PageOf(file.rights[i])}}
  IN  Each(file.users, "users")
        \o Each(SelectSeq(file.queues, New), "queues")
        \o FlattenSeq([i \in DOMAIN file.groups |-> GroupOf(file.groups[i])])
        \o FlattenSeq([i \in DOMAIN file.fields |-> FieldOf(file.fields[i])])
        \o SelectSeq([i \in DOMAIN file.rights |-> GrantsOf(i)], LAMBDA unit : unit # {})

Objects(file) == UNION ToSet(Units(file))

Command == [do: {"seed", "load", "check"}, file: Dataset]

ASSUME CommandsOK == Commands \subseteq [Processes -> Command]

\* True of every file, by what Units is; a fold, so the proofs take it as given:
\* only a grant is in two units, and the queues are those that are not there.
ASSUME UnitsOK ==
  \A c \in Commands : \A p \in Processes :
    LET file == c[p].file
        units == Units(file)
    IN  /\ units \in Seq(SUBSET Seq(STRING))
        /\ parse(file) =>
             /\ \A i, j \in DOMAIN units : \A k \in units[i] \cap units[j] : i = j \/ k[1] = "rights"
             /\ {k \in Objects(file) : k[1] = "queues"} =
                  {<<"queues", q.name>> : q \in {x \in ToSet(file.queues) : ~x.existing}}

\* What the app writes by is a string; the provers have no such fact.
ASSUME NamesAreStrings == {"root", "other", "General", "Nobody"} \subseteq STRING

\* Who writes in the app is none of the processes.
ASSUME AppIsNoProcess == "app" \notin Processes

\* A date is no NULL.
ASSUME BoundsOK == Clock \in Nat \ {NoDate} /\ MaxId \in Nat /\ MaxForeign \in Nat

----------------------------------------------------------------------------
(* The state *)

VARIABLES
  rows,     \* the tables but tickets': each row there is, and who wrote it
  tickets,  \* [1 .. MaxId -> Ticket \cup {Absent}]
  next_id,  \* the tickets table's AUTO_INCREMENT
  command,  \* what each process was started with; never changes
  proc,     \* where each process is
  foreign   \* how much the app has written

vars == <<rows, tickets, next_id, command, proc, foreign>>

Writers == Processes \cup {"app"}

\* A history row.  `who` is for the properties: who wrote it.
Row == [type: {"Create", "Correspond", "Comment", "Status", "Set", "CustomField"},
        at: Nat, by: STRING, who: Writers]

\* The subject stands for the requestor too.
Ticket ==
  [subject: STRING, queue: STRING, owner: STRING, status: STATUSES, created: Nat,
   started: Nat, resolved: Nat, last_updated: Nat, last_updated_by: STRING,
   values: SUBSET (STRING \X STRING), log: Seq(Row), who: Writers]

Places == {"start", "seed", "guard", "write", "create", "stamp", "apply", "verify"}

\* How a process ended: the line printed, the database seeded, exit 2, exit 1
\* for four reasons; "failed" is any that nothing in the model decides, a
\* killed process among them.
Outcomes == {"line", "seeded", "schema", "refused", "partly", "absent", "failed"}

\* The Ticket object the session holds, which is never read again.
Held ==
  [status: STATUSES, created: Nat, started: Nat, resolved: Nat, last_updated: Nat,
   last_updated_by: STRING]

\* The unit of objects, the ticket of the file and the step it is at; the id,
\* the high-water mark of the ticket's rows, its two dates before the step.
Process ==
  [at: Places, unit: Nat, number: Nat, step: Nat, ticket: Held \cup {None}, id: Nat,
   mark: Nat, before: Nat \X Nat, out: Outcomes \cup {""}]

ASSUME AbsentIsNoTicket == Absent \notin Ticket

TypeOK ==
  /\ \A k \in DOMAIN rows : rows[k] \in Writers
  /\ tickets \in [1 .. MaxId -> Ticket \cup {Absent}]
  /\ next_id \in 1 .. MaxId + 1
  /\ command \in Commands
  /\ proc \in [Processes -> Process]
  /\ foreign \in 0 .. MaxForeign

Init ==
  /\ rows = <<>>
  /\ tickets = [t \in 1 .. MaxId |-> Absent] /\ next_id = 1
  /\ command \in Commands
  /\ proc = [p \in Processes |->
       [at |-> "start", unit |-> 1, number |-> 1, step |-> 0, ticket |-> None, id |-> 0,
        mark |-> 0, before |-> <<NoDate, NoDate>>, out |-> ""]]
  /\ foreign = 0

----------------------------------------------------------------------------
(* Before the first write *)

Has(key) == key \in DOMAIN rows

Existing == {t \in 1 .. MaxId : tickets[t] # Absent}

File(p) == command[p].file

At(p, place) == proc[p].at = place /\ proc[p].out = ""

End(p, out) == proc' = [proc EXCEPT ![p].out = out]

Go(p, place) == proc' = [proc EXCEPT ![p].at = place]

database == <<rows, tickets, next_id>>

users_exist == \E k \in DOMAIN rows : k[1] = "users"

\* A side that has a user is seeded.
Seeded(p) == IF command[p].do = "seed" THEN End(p, "seeded") ELSE Go(p, "guard")

\* The file is parsed before anything else; --check neither migrates nor seeds.
start(p) ==
  /\ At(p, "start")
  /\ IF command[p].do # "seed" /\ ~parse(File(p)) THEN End(p, "schema")
     ELSE IF command[p].do = "check" THEN Go(p, "verify")
     ELSE IF users_exist THEN Seeded(p) ELSE Go(p, "seed")
  /\ UNCHANGED <<database, command, foreign>>

\* The tables with these rows as well; a row that is there stays as it is.
Inserted(keys, who) ==
  [k \in DOMAIN rows \cup keys |-> IF Has(k) THEN rows[k] ELSE who]

\* One transaction, which a rival's seed breaks on the unique names.
seed(p) ==
  /\ At(p, "seed")
  /\ IF \E k \in SEED : Has(k) THEN End(p, "failed") /\ UNCHANGED rows
     ELSE rows' = Inserted(SEED, p) /\ Seeded(p)
  /\ UNCHANGED <<tickets, next_id, command, foreign>>

Known(file, table) == {k[2] : k \in {x \in DOMAIN rows \cup Objects(file) : x[1] = table}}

People(file) ==
  UNION {ToSet(g.members) : g \in ToSet(file.groups)}
    \cup {g.principal : g \in {x \in ToSet(file.rights) : x.kind = "user"}}
    \cup UNION {{spec.creator} \cup ({spec.owner} \ {"Nobody"})
                  \cup {step.actor : step \in ToSet(spec.steps)} : spec \in ToSet(file.tickets)}

\* An empty tickets table, none of the names the file makes, all of those it
\* only names; Nobody holds no right.
guarded(file) ==
  /\ Existing = {}
  /\ \A q \in ToSet(file.queues) : q.existing = Has(<<"queues", q.name>>)
  /\ \A k \in Objects(file) : k[1] \in {"users", "groups", "custom_fields"} => ~Has(k)
  /\ People(file) \subseteq Known(file, "users")
  /\ \A g \in ToSet(file.rights) :
       IF g.kind = "user" THEN g.principal # "Nobody"
       ELSE g.principal \in Known(file, "groups")

\* What comes after the n-th unit.
AfterUnit(p, n) ==
  IF n < Len(Units(File(p))) THEN "write"
  ELSE IF File(p).tickets # <<>> THEN "create" ELSE "verify"

guard(p) ==
  /\ At(p, "guard")
  /\ IF guarded(File(p)) THEN Go(p, AfterUnit(p, 0)) ELSE End(p, "refused")
  /\ UNCHANGED <<database, command, foreign>>

----------------------------------------------------------------------------
(* Writing *)

\* One object, the members of a group one by one, a field's boxes, or a rights
\* page, on which a grant that is there already is posted ticked.  Boxes are
\* counted when those that were not there are committed.
write(p) ==
  /\ At(p, "write")
  /\ LET unit == Units(File(p))[proc[p].unit]
     IN  /\ rows' = Inserted(unit, p)
         /\ IF \E k \in unit : k[1] # "rights" /\ Has(k) THEN End(p, "partly")
            ELSE proc' = [proc EXCEPT ![p].unit = @ + 1, ![p].at = AfterUnit(p, proc[p].unit)]
  /\ UNCHANGED <<tickets, next_id, command, foreign>>

\* Nobody, or a privileged user who holds OwnTicket by the rows `keys`.
may_own(file, keys, spec) ==
  \/ spec.owner = "Nobody"
  \/ /\ \A u \in ToSet(file.users) : u.name = spec.owner => u.privileged
     /\ \E g \in {k \in keys : k[1] = "rights"} :
          /\ g[4] \in {"OwnTicket", "SuperUser"} /\ g[5] \in {"system", spec.queue}
          /\ \/ g[2] = "user" /\ g[3] = spec.owner
             \/ g[2] = "group" /\ (g[3] = "Everyone" \/ <<"group_members", g[3], spec.owner>> \in keys)

SpecOf(p) == File(p).tickets[proc[p].number]

StepOf(p) == SpecOf(p).steps[proc[p].step]

\* Mutant: the form's status is left empty.
NewTicket_unset(p, spec) ==
  [subject |-> spec.subject, queue |-> spec.queue, owner |-> spec.owner, status |-> "",
   created |-> Clock, started |-> NoDate, resolved |-> NoDate, last_updated |-> Clock,
   last_updated_by |-> spec.creator, values |-> {},
   log |-> <<[type |-> "Create", at |-> Clock, by |-> spec.creator, who |-> p]>>, who |-> p]

NewTicket(p, spec) ==
  [subject |-> spec.subject, queue |-> spec.queue, owner |-> spec.owner, status |-> "new",
   created |-> Clock, started |-> NoDate, resolved |-> NoDate, last_updated |-> Clock,
   last_updated_by |-> spec.creator, values |-> {},
   log |-> <<[type |-> "Create", at |-> Clock, by |-> spec.creator, who |-> p]>>, who |-> p]

\* The object the session has of a row.
ObjectOf(row) ==
  [status |-> row.status, created |-> row.created, started |-> row.started,
   resolved |-> row.resolved, last_updated |-> row.last_updated,
   last_updated_by |-> row.last_updated_by]

\* The create page's write, once the owner is found to be one it offers.
Created(p, mine) ==
  LET row == NewTicket(p, SpecOf(p))
  IN  /\ tickets' = [tickets EXCEPT ![next_id] = row] /\ next_id' = next_id + 1
      /\ IF ~mine THEN End(p, "partly")
         ELSE proc' = [proc EXCEPT ![p].at = "stamp", ![p].id = next_id, ![p].step = 0,
                       ![p].ticket = ObjectOf(row), ![p].before = <<NoDate, NoDate>>]

\* Mutant: whatever id the database hands out will do.
create_anywhere(p) ==
  /\ At(p, "create") /\ next_id <= MaxId
  /\ IF may_own(File(p), DOMAIN rows, SpecOf(p)) THEN Created(p, TRUE)
     ELSE End(p, "partly") /\ UNCHANGED <<tickets, next_id>>
  /\ UNCHANGED <<rows, command, foreign>>

\* The id is looked at when the ticket is committed.
create(p) ==
  /\ At(p, "create") /\ next_id <= MaxId
  /\ IF may_own(File(p), DOMAIN rows, SpecOf(p)) THEN Created(p, next_id = SpecOf(p).id)
     ELSE End(p, "partly") /\ UNCHANGED <<tickets, next_id>>
  /\ UNCHANGED <<rows, command, foreign>>

\* An UPDATE names the columns that differ from what the session held.
Updated(now, was, row) ==
  [c \in DOMAIN now |-> IF c \in DOMAIN row THEN IF row[c] # was[c] THEN row[c] ELSE now[c]
                        ELSE now[c]]

TypeNamed == [correspond |-> "Correspond", comment |-> "Comment", custom_field |-> "CustomField"]

\* The first reply opens a new ticket.
Target(status, step) ==
  CASE step.type = "status" -> step.status
    [] step.type = "correspond" /\ status = "new" -> "open"
    [] OTHER -> status

\* One step as its page writes it; a status the ticket has already is done.
apply_step(p) ==
  /\ At(p, "apply")
  /\ LET step == StepOf(p)
         held == proc[p].ticket
         row == tickets[proc[p].id]
         target == Target(held.status, step)
         Entry(type) == <<[type |-> type, at |-> Clock, by |-> step.actor, who |-> p]>>
         entries == (IF step.type = "status" THEN <<>> ELSE Entry(TypeNamed[step.type]))
                      \o (IF target = held.status THEN <<>> ELSE Entry("Status"))
         new == IF entries = <<>> THEN held
                ELSE [held EXCEPT
                       !.status = target,
                       !.started = StartedAfter(held.status, target, @, Clock),
                       !.resolved = ResolvedAfter(held.status, target, @, Clock),
                       !.last_updated = Clock, !.last_updated_by = step.actor]
         values == IF step.type = "custom_field" THEN WithValue(row.values, step) ELSE row.values
     IN  IF \/ target # held.status /\ ~may_change(held.status, target)
            \/ step.type = "custom_field" /\ values = row.values
         THEN End(p, "partly") /\ UNCHANGED tickets
         ELSE /\ tickets' = [tickets EXCEPT ![proc[p].id] =
                  [Updated(row, held, new) EXCEPT !.values = values, !.log = @ \o entries]]
              /\ proc' = [proc EXCEPT ![p].at = "stamp", ![p].ticket = new,
                                      ![p].before = <<held.started, held.resolved>>]
  /\ UNCHANGED <<rows, next_id, command, foreign>>

\* Mutant: a date that is there is taken for one the step set.
Restamped_always(date, before, at) == IF date # NoDate THEN at ELSE date

Restamped(date, before, at) == IF date # NoDate /\ date # before THEN at ELSE date

\* Everything in the ticket's history above the mark, and the dates the write
\* set, get the file's time; then the next step, ticket, or the end.
stamp(p) ==
  /\ At(p, "stamp")
  /\ LET me == proc[p]
         birth == me.step = 0
         at == IF birth THEN SpecOf(p).created ELSE StepOf(p).at
         held == IF birth THEN [me.ticket EXCEPT !.created = at] ELSE me.ticket
         row == tickets[me.id]
         new == [held EXCEPT !.started = Restamped(@, me.before[1], at),
                             !.resolved = Restamped(@, me.before[2], at),
                             !.last_updated = at,
                             !.last_updated_by = IF birth THEN SpecOf(p).creator ELSE StepOf(p).actor]
         log == [i \in DOMAIN row.log |->
                   IF i > me.mark THEN [row.log[i] EXCEPT !.at = at] ELSE row.log[i]]
     IN  /\ tickets' = [tickets EXCEPT ![me.id] = [Updated(row, me.ticket, new) EXCEPT !.log = log]]
         /\ proc' = [proc EXCEPT ![p] =
              IF me.step < Len(SpecOf(p).steps)
              THEN [me EXCEPT !.at = "apply", !.step = @ + 1, !.ticket = new, !.mark = Len(log)]
              ELSE [me EXCEPT !.at = IF me.number < Len(File(p).tickets) THEN "create" ELSE "verify",
                              !.number = @ + 1, !.step = 0, !.ticket = None, !.mark = 0,
                              !.before = <<NoDate, NoDate>>]]
  /\ UNCHANGED <<rows, next_id, command, foreign>>

----------------------------------------------------------------------------
(* Verifying *)

\* The rows of one type in the histories of the file's tickets.
CountOf(file, type) ==
  Cardinality(UNION {{<<t, i>> : i \in {x \in DOMAIN tickets[t].log : tickets[t].log[x].type = type}} :
                       t \in Existing \cap DOMAIN file.tickets})

\* Mutant: status rows are counted like the others.
counts_agree_all(file) ==
  /\ CountOf(file, "Create") = Len(file.tickets)
  /\ \A kind \in DOMAIN TypeNamed : CountOf(file, TypeNamed[kind]) = steps_of(file, kind)
  /\ CountOf(file, "Status") = steps_of(file, "status")

counts_agree(file) ==
  /\ CountOf(file, "Create") = Len(file.tickets)
  /\ \A kind \in DOMAIN TypeNamed : CountOf(file, TypeNamed[kind]) = steps_of(file, kind)

\* No date is looked at, and no Status row.
verified(file) ==
  /\ NamesOf(file.queues) \subseteq {k[2] : k \in {x \in DOMAIN rows : x[1] = "queues"}}
  /\ Objects(file) \cup {<<"users", "Nobody">>} \subseteq DOMAIN rows
  /\ \A t \in DOMAIN file.tickets :
       LET spec == file.tickets[t]
       IN  /\ t \in Existing
           /\ tickets[t].subject = spec.subject /\ tickets[t].queue = spec.queue
           /\ tickets[t].owner = spec.owner /\ tickets[t].status = final_status(spec)
           /\ final_values(spec) \subseteq tickets[t].values
  /\ counts_agree(file)

verify(p) ==
  /\ At(p, "verify")
  /\ End(p, IF verified(File(p)) THEN "line" ELSE "absent")
  /\ UNCHANGED <<database, command, foreign>>

\* A killed process, a lost connection, a refusal by rows the model leaves out;
\* after a step, a commit whose acknowledgement is lost leaves the same.  An INSERT that
\* is rolled back has used its id up.
fail(p) ==
  /\ proc[p].out = "" /\ proc[p].at # "start"
  /\ End(p, "failed")
  /\ \/ UNCHANGED next_id
     \/ proc[p].at = "create" /\ next_id <= MaxId /\ next_id' = next_id + 1
  /\ UNCHANGED <<rows, tickets, command, foreign>>

----------------------------------------------------------------------------
(* The app, meanwhile *)

App ==
  /\ foreign < MaxForeign /\ users_exist
  /\ foreign' = foreign + 1
  /\ UNCHANGED <<command, proc>>

\* The rows a row's foreign keys name.
Refers(k) ==
  CASE k[1] = "group_members" -> {<<"groups", k[2]>>, <<"users", k[3]>>}
    [] k[1] = "queue_custom_fields" -> {<<"queues", k[2]>>, <<"custom_fields", k[3]>>}
    [] k[1] = "rights" -> {<<IF k[2] = "user" THEN "users" ELSE "groups", k[3]>>}
                            \cup (IF k[5] = "system" THEN {} ELSE {<<"queues", k[5]>>})
    [] OTHER -> {}

app_makes ==
  /\ App
  /\ \E k \in Squatted :
       ~Has(k) /\ Refers(k) \subseteq DOMAIN rows /\ rows' = Inserted({k}, "app")
  /\ UNCHANGED <<tickets, next_id>>

app_creates ==
  /\ App
  /\ next_id <= MaxId /\ next_id' = next_id + 1
  /\ LET other == [subject |-> "other", queue |-> "General", owner |-> "Nobody", creator |-> "root"]
     IN  tickets' = [tickets EXCEPT ![next_id] = NewTicket("app", other)]
  /\ UNCHANGED rows

\* Some change to a ticket there is, by its pages.
app_touches ==
  /\ App
  /\ \E t \in Existing :
       LET row == [tickets[t] EXCEPT !.last_updated = Clock, !.last_updated_by = "root"]
           Logged(new, type) ==
             tickets' = [tickets EXCEPT ![t] =
               [new EXCEPT !.log = Append(@, [type |-> type, at |-> Clock, by |-> "root", who |-> "app"])]]
       IN  \/ \E type \in {"Comment", "Set"} : Logged(row, type)
           \/ \E status \in transitions(row.status) :
                Logged([row EXCEPT !.status = status,
                          !.started = StartedAfter(row.status, status, @, Clock),
                          !.resolved = ResolvedAfter(row.status, status, @, Clock)], "Status")
  /\ UNCHANGED <<rows, next_id>>

Next ==
  \/ \E p \in Processes :
       \/ start(p) \/ seed(p) \/ guard(p) \/ write(p) \/ create(p) \/ apply_step(p) \/ stamp(p)
       \/ verify(p) \/ fail(p)
  \/ app_makes \/ app_creates \/ app_touches

Spec == Init /\ [][Next]_vars

----------------------------------------------------------------------------
(* What holds *)

\* What the file says of a ticket when its first n steps are done
\* (tests/test_fixture.py:127 has the dates).  The status: the last that a step
\* names, but a reply since then opens a new ticket.
StatusAfter(spec, n) ==
  LET last == Max({0} \cup {k \in 1 .. n : spec.steps[k].type = "status"})
      named == IF last = 0 THEN "new" ELSE spec.steps[last].status
  IN  IF named = "new" /\ \E k \in last + 1 .. n : spec.steps[k].type = "correspond"
      THEN "open" ELSE named

Leaves(spec, k) == StatusAfter(spec, k) # StatusAfter(spec, k - 1)

Moves(spec, n) == {k \in 1 .. n : Leaves(spec, k)}

\* The file's time of the creation, which is step 0, and of each step.
Times(spec) ==
  [k \in 0 .. Len(spec.steps) |-> IF k = 0 THEN spec.created ELSE spec.steps[k].at]

Actor(spec, k) == IF k = 0 THEN spec.creator ELSE spec.steps[k].actor

\* The two dates, when step k is done at when[k].
StartedBy(spec, n, when) ==
  IF Moves(spec, n) = {} THEN NoDate ELSE when[Min(Moves(spec, n))]

ResolvedBy(spec, n, when) ==
  IF Moves(spec, n) # {} /\ StatusAfter(spec, n) = "resolved" THEN when[Max(Moves(spec, n))] ELSE NoDate

\* The rows a step leaves in the history, and how many there are after it.
RowsOf(spec, k) ==
  (IF spec.steps[k].type = "status" THEN <<>> ELSE <<TypeNamed[spec.steps[k].type]>>)
    \o (IF Leaves(spec, k) THEN <<"Status">> ELSE <<>>)

RowsTo(spec, k) ==
  1 + Cardinality({j \in 1 .. k : spec.steps[j].type # "status"}) + Cardinality(Moves(spec, k))

\* Row i of the history is that of the creation, or one of a step's.
Tells(entry, i, spec, k, when) ==
  /\ IF k = 0 THEN i = 1 /\ entry.type = "Create"
     ELSE /\ i - RowsTo(spec, k - 1) \in DOMAIN RowsOf(spec, k)
          /\ entry.type = RowsOf(spec, k)[i - RowsTo(spec, k - 1)]
  /\ entry.at = when[k] /\ entry.by = Actor(spec, k)

History(log, spec, n, when) ==
  /\ Len(log) = RowsTo(spec, n)
  /\ \A i \in DOMAIN log : \E k \in 0 .. n : Tells(log[i], i, spec, k, when)

\* The ticket after n steps, step k done at when[k].
Follows(row, spec, n, when) ==
  /\ row.subject = spec.subject /\ row.queue = spec.queue /\ row.owner = spec.owner
  /\ row.status = StatusAfter(spec, n) /\ row.values = ValuesAfter(spec, n)
  /\ row.created = when[0]
  /\ row.started = StartedBy(spec, n, when) /\ row.resolved = ResolvedBy(spec, n, when)
  /\ History(row.log, spec, n, when)

LastIs(row, spec, n, when) == row.last_updated = when[n] /\ row.last_updated_by = Actor(spec, n)

\* The ticket is the file's, its dates and its history's included.
AsSaid(row, spec) ==
  LET n == Len(spec.steps)
  IN  Follows(row, spec, n, Times(spec)) /\ LastIs(row, spec, n, Times(spec))

\* The same when the load stopped at step n, before what it wrote had its date
\* or after: all that is left to do are steps to the status the ticket has.
AlmostAsSaid(row, spec) ==
  \E n \in 0 .. Len(spec.steps) :
    /\ \A k \in n + 1 .. Len(spec.steps) : spec.steps[k].type = "status"
    /\ StatusAfter(spec, n) = StatusAfter(spec, Len(spec.steps))
    /\ \E at \in {Clock, Times(spec)[n]} : Follows(row, spec, n, [Times(spec) EXCEPT ![n] = at])

Touched(t) == t \in Existing /\ \E i \in DOMAIN tickets[t].log : tickets[t].log[i].who = "app"

\* Whoever wrote the ticket is, or was when it ended, not through with it.
Unfinished(t) ==
  LET p == tickets[t].who
  IN  p \in Processes /\ proc[p].at \in {"apply", "stamp"} /\ proc[p].id = t

\* The line means what README.md:174 says: on tickets nobody else has written
\* to, a load's line stands for the file's history and the file's dates
\* (fixture.py:953); the line of --check for the same, but on a ticket whose
\* load was cut short, or is running, dates and Status rows may be missing,
\* which verify does not look at (fixture.py:991).
LineIsTheFile ==
  [][\A p \in Processes :
       LET said == File(p).tickets
       IN  At(p, "verify") /\ proc'[p].out = "line" /\ (\A t \in DOMAIN said : ~Touched(t)) =>
             \A t \in DOMAIN said :
               \/ AsSaid(tickets[t], said[t])
               \/ /\ command[p].do = "check" /\ Unfinished(t)
                  /\ AlmostAsSaid(tickets[t], said[t])]_vars

\* What a load's line counts, that load has written: no row of a rival load, of
\* one that was cut short, or of the app passes for its own (the guard at
\* fixture.py:668, the unique keys, the id at fixture.py:908).  A grant is
\* allowed to be there already.
LineIsItsOwn ==
  \A p \in Processes :
    proc[p].out = "line" /\ command[p].do = "load" =>
      /\ \A k \in Objects(File(p)) : k[1] # "rights" => rows[k] = p
      /\ \A t \in DOMAIN File(p).tickets : tickets[t].who = p

\* Nobody but p, and whoever seeded, has written.
Alone(p) ==
  /\ foreign = 0
  /\ \A k \in DOMAIN rows \ SEED : rows[k] = p
  /\ \A t \in 1 .. next_id - 1 : t \in Existing /\ tickets[t].who = p

\* A step that its page takes: a move of the lifecycle, a value not there yet.
Playable(spec, k) ==
  /\ Leaves(spec, k) => may_change(StatusAfter(spec, k - 1), StatusAfter(spec, k))
  /\ spec.steps[k].type = "custom_field" =>
       <<spec.steps[k].field, spec.steps[k].value>> \notin ValuesAfter(spec, k - 1)

\* The steps of the file can be taken one after the other, and verify will look
\* for the status they lead to.
Plays(file) ==
  \A spec \in ToSet(file.tickets) :
    /\ may_own(file, SEED \cup Objects(file), spec)
    /\ final_status(spec) = StatusAfter(spec, Len(spec.steps))
    /\ \A k \in DOMAIN spec.steps : Playable(spec, k)

\* A file that parse lets through, on a side of its own, loads whole and is
\* found, or stops half-way or is not found, exactly as its steps decide: an
\* owner who may not own, a move the lifecycle refuses, a value set twice, and
\* a ticket that only a reply has opened (fixture.py:231, 313, 928).
LoadsWhatPlays ==
  \A p \in Processes :
    command[p].do = "load" /\ Alone(p) /\ proc[p].out \in {"line", "partly", "absent"} =>
      (proc[p].out = "line" <=> Plays(File(p)))

----------------------------------------------------------------------------
(* Why a line is its own: the inductive invariant *)

\* The id the database hands out next is no ticket's.
FreshOK == \A t \in Existing : t < next_id

\* What a load has behind it, it has written: the units before the one it is
\* at, and the tickets before the one it is at.
RowsOwned(p) ==
  \A j \in DOMAIN Units(File(p)) : j < proc[p].unit =>
    \A k \in Units(File(p))[j] : Has(k) /\ (k[1] # "rights" => rows[k] = p)

TicketsOwned(p) ==
  \A t \in DOMAIN File(p).tickets : t < proc[p].number =>
    t \in Existing /\ tickets[t].who = p

\* The place a process is at says what it was started with and how far it is.
PlaceOK(p) ==
  LET me == proc[p]
      file == File(p)
  IN  /\ me.at # "start" /\ command[p].do # "seed" => parse(file)
      /\ me.at = "seed" => command[p].do # "check"
      /\ me.at \in {"guard", "write", "create", "stamp", "apply"} => command[p].do = "load"
      /\ me.at = "verify" => command[p].do # "seed"
      /\ me.at \in {"start", "seed", "guard"} => me.unit = 1
      /\ me.at \in {"start", "seed", "guard", "write"} => me.number = 1
      /\ me.at = "write" => me.unit \in DOMAIN Units(file)
      /\ me.at \in {"create", "stamp", "apply"} => me.number \in DOMAIN file.tickets
      /\ me.at \in {"stamp", "apply"} =>
           /\ me.id \in Existing /\ me.id = me.number /\ tickets[me.id].who = p
           /\ me.ticket \in Held
           /\ me.step \in 0 .. Len(file.tickets[me.number].steps)
      /\ me.at = "apply" => me.step # 0
      /\ me.out = "line" => me.at = "verify"
      /\ command[p].do = "load" =>
           /\ me.at \in {"create", "stamp", "apply", "verify"} => me.unit > Len(Units(file))
           /\ me.at = "verify" => me.number > Len(file.tickets)

IInv ==
  /\ TypeOK /\ FreshOK
  /\ \A p \in Processes : PlaceOK(p) /\ RowsOwned(p) /\ TicketsOwned(p)

----------------------------------------------------------------------------
(* Why a line is the file: the ticket a load has open, and those behind it *)

\* A ticket that left "new" has not come back to it.
NewIsUnmoved(spec, n) == StatusAfter(spec, n) = "new" <=> Moves(spec, n) = {}

\* The object in the session is the row, the row is that of the steps so far,
\* and what is not yet at the file's time lies above the mark or differs from
\* the dates before the step.
OpenIsSaid(p) ==
  LET me == proc[p]
      spec == SpecOf(p)
      row == tickets[me.id]
      n == me.step
  IN  /\ me.at \notin {"stamp", "apply"} => me.mark = 0
      /\ me.at \in {"stamp", "apply"} /\ ~Touched(me.id) =>
           /\ me.ticket = ObjectOf(row)
           /\ me.at = "apply" =>
                /\ Follows(row, spec, n - 1, Times(spec)) /\ NewIsUnmoved(spec, n - 1)
                /\ me.mark = RowsTo(spec, n - 1)
           /\ me.at = "stamp" =>
                /\ Follows(row, spec, n, [Times(spec) EXCEPT ![n] = Clock]) /\ NewIsUnmoved(spec, n)
                /\ me.mark = IF n = 0 THEN 0 ELSE RowsTo(spec, n - 1)
                /\ me.before = <<StartedBy(spec, n - 1, Times(spec)),
                                 ResolvedBy(spec, n - 1, Times(spec))>>

DoneIsSaid(p) ==
  \A t \in DOMAIN File(p).tickets :
    t < proc[p].number /\ ~Touched(t) => AsSaid(tickets[t], File(p).tickets[t])

SaidInv == IInv /\ \A p \in Processes : OpenIsSaid(p) /\ DoneIsSaid(p)

----------------------------------------------------------------------------
(* Why a load alone prints its line exactly when the file plays *)

Guarded(p) ==
  \/ proc[p].at \in {"write", "create", "stamp", "apply"}
  \/ proc[p].at = "verify" /\ command[p].do = "load"

\* The seed comes first and whole.
SeededOK ==
  /\ DOMAIN rows # {} => SEED \subseteq DOMAIN rows
  /\ \A p \in Processes : proc[p].at = "guard" \/ Guarded(p) => DOMAIN rows # {}

NoAppOK == foreign = 0 => \A t \in Existing : ~Touched(t)

\* What p wrote is the seed, or behind it in its file, or of the unit it stopped
\* in, or the ticket that got the wrong id.
RowsFrom(p) ==
  \A k \in DOMAIN rows : rows[k] = p =>
    \/ k \in SEED
    \/ \E j \in DOMAIN Units(File(p)) :
         /\ j < proc[p].unit \/ (j = proc[p].unit /\ proc[p].out # "")
         /\ k \in Units(File(p))[j]

TicketsFrom(p) ==
  \A t \in Existing : tickets[t].who = p =>
    \/ t < proc[p].number
    \/ t = proc[p].number /\ proc[p].at \in {"stamp", "apply"}
    \/ proc[p].at = "create" /\ proc[p].out # ""

\* What is left of the guard: its answer still stands.
GuardStands(p) ==
  Guarded(p) =>
    /\ \A k \in Objects(File(p)) : k[1] # "rights" => k \notin SEED
    /\ \A q \in ToSet(File(p).queues) : q.existing => Has(<<"queues", q.name>>)

Owned(file, spec) == may_own(file, SEED \cup Objects(file), spec)

\* A load that is alone has come so far by steps that can be played, and has
\* ended as the whole file decides.
PlayedSoFar(p) ==
  LET me == proc[p]
      file == File(p)
  IN  command[p].do = "load" /\ Alone(p) =>
        /\ \A t \in DOMAIN file.tickets : t < me.number =>
             /\ Owned(file, file.tickets[t])
             /\ \A k \in DOMAIN file.tickets[t].steps : Playable(file.tickets[t], k)
        /\ me.at \in {"stamp", "apply"} =>
             /\ Owned(file, SpecOf(p))
             /\ \A k \in DOMAIN SpecOf(p).steps :
                  k < me.step \/ (k = me.step /\ me.at = "stamp") => Playable(SpecOf(p), k)
        /\ me.out \in {"line", "partly", "absent"} => (me.out = "line" <=> Plays(file))

AloneInv ==
  /\ SaidInv /\ SeededOK /\ NoAppOK
  /\ \A p \in Processes : RowsFrom(p) /\ TicketsFrom(p) /\ GuardStands(p) /\ PlayedSoFar(p)

----------------------------------------------------------------------------
(* Why the line of a check stands for the file *)

\* A ticket that nobody has written to but who made it is of a load's file,
\* behind the load or open, or is the one it stopped on for its number.
WhoseOK(p) ==
  LET me == proc[p]
  IN  \A t \in Existing : tickets[t].who = p /\ ~Touched(t) =>
        /\ command[p].do = "load"
        /\ \/ /\ t \in DOMAIN File(p).tickets
              /\ t < me.number \/ (t = me.number /\ me.at \in {"stamp", "apply"})
           \/ /\ me.at = "create" /\ me.out # ""
              /\ t # me.number /\ tickets[t].subject = SpecOf(p).subject

AppShows == \A t \in Existing : tickets[t].who = "app" => Touched(t)

WhoseInv == SaidInv /\ AppShows /\ \A p \in Processes : WhoseOK(p)

\* A subject that a check looks for and a load writes is that of one ticket.
\* Nothing in the code sees to it: verify goes by what the tickets say, and
\* another file's tickets may say the same.
SubjectsTell ==
  \A c \in Commands : \A p, q \in Processes :
    c[p].do = "check" /\ c[q].do = "load" =>
      \A t \in DOMAIN c[p].file.tickets, u \in DOMAIN c[q].file.tickets :
        c[p].file.tickets[t].subject = c[q].file.tickets[u].subject =>
          t = u /\ c[p].file.tickets[t] = c[q].file.tickets[u]
==============================================================================
