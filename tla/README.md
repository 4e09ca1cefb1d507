# py-rt, modelled and proved

py-rt is a ticket tracker: a FastAPI application over one MariaDB database, with a
command that files incoming mail and another that loads a fixture.  This directory
holds TLA+ modules translated from its source, TLC runs of small instances, and
theorems checked by TLAPS.  Paths such as `tickets/update.py:233` are relative to
`pyrt/`.

## 1. The system

| Component | State it keeps | Operations | What makes it correct | Modelled in |
|---|---|---|---|---|
| Ticket lifecycle (`tickets/lifecycle.py`) | status, started, resolved of a ticket | `refusal`, `apply_status` | only the table's moves; `started` on the first leave of "new"; `resolved` exactly while resolved | `Lifecycle`, `TicketLife` |
| Ticket writes (`tickets/update.py`, `service.py`, `transactions.py`, `router.py`) | `tickets`, `transactions` | create form, update page, basics page; each writes through `record()` | the history agrees with the ticket; a reply opens a ticket; the author and the dates are kept | `Tickets`, `AuditTrail` |
| Hooks and notifications (`tickets/hooks.py`, `mail/notify.py`) | the hooks still to fire (in the request's stack) | `fire`, three listeners that mail | mail only about committed rows, once, to the people the row names | `Tickets` |
| Mail gateway (`mail/gateway.py`) | writes tickets, transactions and users | `_reply`, `_create`, `sender_user`, `_threading`, refusals | a message ends as one reply, one ticket, or one refusal that leaves nothing, and what is printed says which | `Gateway`; what its two writes do to a ticket, in `Tickets` |
| Permission resolution (`acl.py`) | none (reads groups, members, rights) | `principals`, `ticket_principals`, `has_right` | what it answers is what the rights pages show; a disabled user or group reaches nothing | `Access` |
| Rights pages (`rights/`) | `rights` | show a page, save it | the boxes ticked are the grants, and nothing the page did not show is touched | `Access` |
| Groups, users (`groups/`, `users/`) | `groups`, `group_members`, `users` | create, rename, disable, members | names unique without regard to case; root stays enabled; Nobody is no person | `Access` |
| Queues (`queues/`) | `queues` | create, rename, disable | names unique; a disabled queue takes no mail and no new ticket; its tag is what its mail carries | `Gateway`, `CustomFields` |
| Custom fields (`customfields/`) | `custom_fields`, `queue_custom_fields`, `ticket_custom_field_values` | create, rename, disable; applies-to from both sides; values on the ticket forms | the history of a value agrees with it; a value survives whatever hides its input and comes back with it | `CustomFields` |
| Search and home page (`search/`, `web/home.py`) | none | `parse`, `visibility`, `results`, `visible` | a list shows what the ticket page would open | `Search` |
| Sign-in (`auth.py`) | a signed cookie at the client | `authenticate`, `current_user` | a disabled user is nobody on the next request | `Somebody` in `Access`, `SignedIn` in `Search`; the rest is library code |
| Schema, engine, seed (`db/`) | the tables, their keys | migrate, `seed` | one seed, although two first starts race | tables in every module; `seed` in `Fixture` |
| Fixture loader (`db/fixture.py`) | all tables | `parse`, `_guard`, `_write`, `_stamp`, `verify` | a printed line stands for the file, on rows this load has written | `Fixture` |
| Command line (`cli.py`) | none | `_mailgate`, `_seed_fixture`, `_serve` | the printed protocol tells what was committed | `_mailgate` in `Gateway`, `_seed_fixture` in `Fixture` |
| Mail parsing and sending, web shell, telemetry | none | text in, text out; wiring | | not modelled |

**How they interact.**  A page handler is a plain function that uvicorn runs in a thread
pool, so requests really run side by side.  `RequestContextMiddleware` opens one database
session per request and closes it at the end (`web/deps.py:36-58`).  The first
SELECT of a session fixes its REPEATABLE READ snapshot (`db/engine.py:14-21` sets no
isolation level and `deploy/compose.yaml` runs MariaDB 10.11).  A handler reads the ticket,
checks rights (`acl.py`), decides, and calls `transactions.record` once per row; `record`
inserts the row and touches the ticket.  One commit ends the unit of work; hooks are then
called in the same thread and mail is sent from them.  `py-rt mailgate` is a process of its
own that goes through the same functions, and so is `py-rt seed --fixture`, which plays a file through the
services commit by commit.

**What is hard.**  Everything a request decides rests on a snapshot that others are writing
past: there is no version column, no SELECT FOR UPDATE, and the ORM's UPDATE names only the
columns whose value differs from the one read.  Row locks (the foreign key's shared lock of
the INSERT, the exclusive lock of the touch) are the only order between sessions, and two of
them deadlock; an INSERT has its id before it waits for its lock, so ids do not follow commits.  A COMMIT may be
executed and its acknowledgement lost.  The commit and the hooks are separate steps.  Forms carry the values a page
showed, however long ago.  A load is hundreds of commits with one look at the start.  The list of
such places, each with the line where it bites and
the property that would catch it, is `hazards` in `PROJECT.json`.  A hazard whose case every property exempts is listed
with no property and says why: the code does the thing and no text promises the opposite (a grant that outlives the
privileged flag, a message whose answer was lost, a tag that cannot be read back), or another run's finding is the same one
elsewhere.

## 2. The modules

| Module | What it is |
|---|---|
| `Lifecycle` | the operators of `lifecycle.py`: the transition table, `refuses`, `apply_status` |
| `Tickets` | every writer of a ticket, as concurrent workers against InnoDB (EXTENDS `Lifecycle`) |
| `AuditTrail` | abstract: what `transactions.py:1-11` promises, rows and columns change together |
| `TicketLife` | abstract: what `lifecycle.py:1-10` promises of one ticket |
| `Access` | who may do what: the resolver, the rights pages, the users and groups pages |
| `Gateway` | mail in: deliveries, the mail they cause, and what administrators change meanwhile |
| `Search` | the lists of tickets: the search box, its filter in SQL, the home page, the ticket page's own check |
| `CustomFields` | the fields, where they apply, and the values on a ticket's forms (EXTENDS `Search`) |
| `Fixture` | `seed`, a load, `--check`: commands that run, die and meet the app (EXTENDS `Lifecycle`) |
| `MCTickets`, `MCAccess`, `MCGateway`, `MCCustomFields`, `MCFixture` | the small instances for TLC |
| `TicketsProofs`, `HistoryProofs` | the theorems about `Tickets`: what survives races; what a history tells, and the two refinements (EXTENDS the former) |
| `AccessProofs`, `CustomFieldsProofs`, `GatewayProofs` | the theorems about `Access`, `CustomFields` with `Search`, and `Gateway`, and their proofs |
| `FixtureProofs`, `LoadProofs`, `AloneProofs` | the theorems about `Fixture`: whose the rows are; what a load leaves of its file; what a line means (each EXTENDS the one before) |

`Tickets` is related to both abstract specifications by an INSTANCE with a refinement
mapping (`Trail`, `Life`).  `Access` stands beside it: what it decides enters `Tickets` as the
constant `Held`.  `Gateway` goes the whole way of a message and reduces its write to "this message
is now in that ticket's history"; what the write does to the ticket's columns is `mail_reply` and
`mail_create` of `Tickets`.  `Search` has an INSTANCE of `Access` for its resolver (`Acl`), over the
tables that `CustomFields` changes: so each list is compared with the page in every state that
administrators and ticket forms lead to.  `Fixture` takes the lifecycle from `Lifecycle` and a ticket
page's step as one commit; what happens inside one is `Tickets`.

### Tickets

**State.**  `tickets` and `log` are the two tables as committed; `nextId` is the
AUTO_INCREMENT of `transactions`.  A worker `w` is a request slot: `pc[w]` is where its
request is, `work[w]` its session (the row as read, `snap`, and as wanted, `mine`), `left[w]`
the rows it has still to record, `pend[w]` the rows it has inserted and not committed,
`xlock[w]` whether it holds the exclusive lock on the ticket row, `hooks[w]` the committed
rows it has still to announce.  `mail` is what the mail back end took.

**Actions.**

| Action | Code |
|---|---|
| `ticket_update` | `router.py:192-225`, `update.py:205-252`: rights, refusal, the status wanted, the message row |
| `ticket_basics_save` | `router.py:241-278`, `update.py:258-391` |
| `mail_reply`, `mail_create` | `gateway.py:266-325`, `328-369` |
| `ticket_create` | `router.py:84-117`, `service.py:216-332` |
| `UpdateFirst`, `InsertRow`, `CheckParent`, `TouchUpdate`, `TouchUnchanged` | `transactions.record`, 53-79, flush by flush: the INSERT takes its id and places its row (`InsertRow`), then waits for the shared lock its foreign key asks for (`CheckParent`) |
| `DeadlockVictim`, `Crash` | InnoDB's rollback of one session of a cycle; the process dies |
| `Commit` | `db.commit()`, then which rows have a hook |
| `FireHook` | `hooks.fire` and the listeners of `mail/notify.py:124-175` |
| `Respond` | the answer, the session closed |

A handler reads only its snapshot until its first flush, and nothing another session does can
change that snapshot, so reading and deciding are one step; from there each flush and the
commit is a step of its own.  A refused form is a step to "answer" that writes nothing.

**Abstractions.**

- *One clock.*  `nextId` also serves as the clock the dates are read off: a date is the id
  the request's first row is going to have or a later one.  It is finer than the code's
  seconds.  What is lost: a ticket resolved twice within one second keeps a date the ORM finds
  unchanged.  What is kept: `quiet` says that a touch falls in the second of the last one
  and by the same actor, so that `record` changes no column and takes no lock (`SameSecond`).
- *Which UPDATE.*  When `record` is called for a Status or Set row the ticket is already
  dirty, and the flush emits its UPDATE before the INSERT: the unit of work sorts the tables by their
  foreign keys, tickets before transactions.  So `InsertRow` of such a row waits for `UpdateFirst` (`MayInsert`).
- *A lost acknowledgement* of a page's commit leaves the tables of a `Commit` followed by a `Crash`: the rows are there,
  the hooks are not called, the answer is a 500.
- *Rights* are the constant `Held`, per actor: the answers of `has_right` on the ticket's queue.
  A queue change does not change them here.
- *Selects.*  `Offers[f]` with the current value is what `basics_refusal` accepts for a column.
- *One requestor* per ticket, always an existing user.
- *Left out*: custom-field values on the two forms (they are `CustomFields`), message bodies, a lock wait that times out
  after 50 seconds, `_limit_text`-like cuts of column values.

**Constants of the runs.**  `Workers` two (the races are between two sessions; a third adds
waiting, not a new kind of conflict) or one (a serial server); one ticket (sessions meet on one row; rows
of different tickets share only the id counter, which is shared here by one ticket's rows as
well); one basics column with two values next to the status; `staff` with every right and
`customer` with the right to see, reply, and open by mail; `FormStatuses`, the statuses a form
may ask for.  `MaxRows` bounds `nextId` at the *start* of a write: a write already begun
finishes, so up to three rows per worker come on top.  `tickets_live` has `MaxRows` two and no `SameSecond`, for liveness is
checked on the whole graph.

**Fairness** (`FairSpec`).  A worker with something to do is a thread that is
scheduled: weak fairness of `TouchUnchanged`, `DeadlockVictim`, `Commit`, `FireHook`,
`Respond`, and of `InsertRow`, which waits for nobody.  `UpdateFirst`, `CheckParent` and `TouchUpdate` wait for a
row lock that others take and release, so they are disabled again and again: strong fairness, because InnoDB grants a lock
in the order of its queue.  No fairness of arrivals or crashes.

### Access

**State.**  `users`, `groups`, `members`, `rights` are the tables as committed; the system groups
and roles are constants, for no page writes them.  `page[s]` is the rights page browser `s` has
open, with the rows and ticks it was rendered with; `job[s]` the write it has in hand, which is
what its request worked out from its own snapshot; `begun` counts the writes.

**Actions.**

| Action | Code |
|---|---|
| `open_page` | the four GETs, `rights/router.py:66-190`, `group_sections`, `user_sections` |
| `save_rights` | the four POSTs: the page derived anew and compared with what was posted, `rights/service.py:154-182` |
| `create_user`, `modify_user` | `users/router.py:105-132`, `157-190`, with `refusal` and `editable_user` |
| `create_group`, `modify_group` | `groups/router.py:122-146`, `170-197` |
| `change_members` | `groups/router.py:225-255`: Add or Remove, through `addable_user` |
| `commit_rights`, `commit_user`, `commit_group`, `commit_members` | flush and commit, with the unique keys and "UPDATE only what changed" (`Merged`) |
| `roll_back` | a broken unique key, a deadlock, the process dies |

A page, its POST and its commit are three steps, because people and other requests come between
them.  Flush and commit are one: nothing is read in between and nobody else sees the rows.
A refused request is no step.

**Abstractions.**

- *Who acts.*  Any signed-in user who may: `Somebody` asks the resolver about every user the
  database has now.  `creator_id` is left out.
- *Names* are values equal when the database's collation and `func.lower` say so.
- *A form* differs from what it showed in at most `MaxFlips` boxes or fields.
- *Left out*: email, real name, password, description, timestamps; the users that the gateway
  creates for senders (`Gateway` has them).

**Constants of the run.**  Two browsers, since the races are between two writes; users root,
Nobody, bob and one not yet created; one group bob administers the queue through, and one not yet
created; one system group and one role; two rights, one global-only and one every object has; five names, one of
them a system group's; `MaxWrites` three, which is a rename, a disable and a save, and two browsers that race twice; one
changed field per form.  `StartOK` is what the seed gives and the invariant keeps.  Deadlock is not
checked: the writes are bounded, and the system may really stop, since the global page lets root take
its own SuperUser away (`docs/NOTES.md:158-163` calls this the foot-gun).

### Gateway

**State.**  `users`, `queues`, `tickets` are the tables as committed, reduced to what decides about
mail; `tickets[t].rows` are the deliveries filed in ticket `t`.  `sent` is the mail the back end took.
`runs[d]` is the process of the `d`-th delivery: where it is, its message, and what it decided from its
snapshot; an ended process keeps its message and its outcome.

**Actions.**

| Action | Code |
|---|---|
| `arrive`, `arrive_again` | `_mailgate` reads a message, `deliver` decides (`gateway.py:156-178`, `184-255`): refused at once, or sender, ticket, right and tag as the snapshot has them |
| `sender_user` | the INSERT of a new sender: waits for another session's uncommitted row of that name, fails on a committed one |
| `permission_denied`, `database_error` | `_refuse`: rolled back, "not ok"; the model calls the latter's outcome "error", for its words are the exception's and not the gateway's |
| `reply`, `create` | `_reply` and `_create` up to and with their commit, which is `committed`: acknowledged, or executed and its acknowledgement lost, so that `deliver` answers "not ok" for what is filed |
| `fire` | the listeners, with a back end that takes the mail or fails |
| `exit` | "ok" and the ticket, `cli.py:171-176` |
| `die` | the process dies at any step, or nobody hears its answer |
| `create_queue`, `save_queue`, `save_user`, `move_ticket` | what administrators change while mail is under way |

The session keeps objects past its commit (`expire_on_commit=False`, `db/engine.py:21`), so the autoreply carries the tag
of the queue as it was read at the start, and a copy of a reply carries that of the ticket's queue as it is
now, unless it is the queue of the command line; `subject_for` says so.

**Abstractions.**

- *A letter* is who wrote it, to which queue, for which action; its subject is a tag or none.  `TAG_RE` is
  the set `Plain` of tags it can read back.
- *Rights* are grants to Everyone and to Requestor; how a principal set comes about is `Access`.
- *The caller* hands a message over again only when it was refused, for whatever reason, or not answered.  That is an
  assumption about another program: the code keeps a message id and never asks for it.
- *Administrators* act in one step each; how their requests race is `Access`.
- *Left out*: bodies, display names, addresses longer than the 200 characters of a user name, rights changing
  meanwhile, the rows people write on the web.

**Constants of the run.**  Three deliveries: one to make a user and a ticket, two to meet it, each other, or be handed over
again.  Two senders, one with an address too long to be stored whole; one queue under the site's tag, one with its own, one not yet
created; one tag that `TAG_RE` cannot read.  `MaxEdits` one: each property compares a
decision with one change after it.  Deadlock is not checked: deliveries are bounded and end.

### Search

No state of its own: operators over `rights`, `tickets` and the constant `People`.

| Operator | Code |
|---|---|
| `Opens` | `_show_ticket`, `tickets/router.py:296-311`: `has_right` with the roles on the ticket |
| `parse` | the box, `search/service.py:62-113`: words, the last known status option, a lone number |
| `visibility`, `visible_clause` | the grants read once, per scope, and the WHERE made of them, `119-232` |
| `results` | all words, the status, the filter, newest first, LIMIT, `238-300` |
| `owned_tickets`, `unowned_tickets`, `visible` | the two boxes of the home page: LIMIT first, then the rows in queues with ShowTicket, `web/home.py:44-92` |

**Abstractions.**  A box is a sequence of tokens; `Says` tells which words are in which ticket's text
(`LIKE` over the subject and the messages).  `ORDER BY ... LIMIT n` is "fewer than n come before it".

### CustomFields

**State.**  `rights`, `tickets`, `disabled` (queues), `fields`, `carried` (which queue carries which
field), `values` and `log` (the CustomField rows of the history, per ticket and field) are the tables as
committed.  `page[s]` is the form browser `s` has open, as the database was at its GET; `job[s]` the write
its POST has decided on, from the snapshot of the POST; `begun` counts the writes.

**Actions.**

| Action | Code |
|---|---|
| `open_page` | applies-to of a field or of a queue, `customfields/router.py:208-285`; the basics form, `tickets/router.py:228-238` |
| `save_applies_to` | the two POSTs: the boxes derived anew and looked up in what came in, `customfields/service.py:267-301` |
| `ticket_basics_save` | the values of the queue the ticket is leaving, and the move, `tickets/update.py:302-391` |
| `ticket_create` | whatever inputs the form had; only the fields of the queue chosen count |
| `create_field`, `modify_field` | with `refusal` on the name |
| `write_pairs`, `commit_basics`, `commit_create`, `save_field` | flush and commit, with the keys of the tables and "UPDATE only what changed" |
| `roll_back` | a broken key, an UPDATE of a row that is gone, a name too long, a deadlock, the process dies |
| `save_queue`, `save_rights`, `ticket_update` | what other pages change meanwhile |

`apply_values` is the one writer of values: it reads the values of the fields the queue carries, writes a
row of the history for each that moved, and the row itself by INSERT, UPDATE or DELETE according to what
it read.  `Fits` is what the database says to that later.

**Abstractions.**

- *A commit is one step* on the tables as they are by then: the rows it writes are locked from their first
  flush, so nobody writes them in between.
- *The other columns* of the basics form and the mail of a save are in `Tickets`; `ticket_update` changes a status or an owner
  in one step, because the lists depend on them.
- *Cleaning* of a typed value is the constant `Cleaned` (stripped, cut to the column).
- *People* do not change; that users and groups are disabled meanwhile is in `Access`.
- *Left out*: description and sort order of a field, and `stray_values`, a list nobody posts back.

**Constants of the run.**  Two browsers, interchangeable (symmetry); root, Nobody, a privileged ann in a
group, and rae, who may only what a creator and a requestor may; two queues, of which one carries a field;
one ticket, room for another, and for a second field; two values, a blank and one with a trailing blank; a
name for a field that fits the history and one that does not; one grant to take away and give back.
`MaxWrites` three is two saves that race and what lies between page and save; `MaxFlips` one changed box
or input per form.  Both limits are one, so that they cut.  Deadlock is not checked: the writes are bounded.

### Fixture

**State.**  `rows` is every row of the tables but `tickets`, by its unique key, with who wrote it;
`tickets` and `next_id`, the table and its AUTO_INCREMENT; `command[p]` and `proc[p]` what a process was
started with and where it is: the unit of objects, the ticket and the step it is at, the Ticket object its
session holds, the mark above which history rows are its own; `foreign` counts what the app has written.

**Actions.**

| Action | Code |
|---|---|
| `start` | `_seed_fixture`, `cli.py:179-223`: the file is parsed, then migrated and seeded, or checked |
| `seed` | `db/seed.py:70-137`, one transaction, decided by `users_exist` |
| `guard` | `_guard`, `fixture.py:668-737` |
| `write` | one object of `_write`: a user, a queue, a group, a member, a field, its boxes, a rights page |
| `create` | the create page's write, then the id is compared |
| `apply_step`, `stamp` | one step through its service; then its rows and dates get the file's time |
| `verify` | `verify`, `fixture.py:991-1150`; `--check` is this alone |
| `fail` | killed, disconnected, refused by rows that are left out; a create rolled back has used up an id |
| `app_makes`, `app_creates`, `app_touches` | the app meanwhile: a row of the same name, a ticket, a change to a ticket |

`parse` is the checks on the file, without the shapes of the JSON; `Units` is the order in which the
objects are written, each commit a set of rows.  What the file says of a ticket after its first `n` steps is in closed
form, not recursive: `StatusAfter` by the last status step, `ValuesAfter` by the last step that sets a field
(`SetBy`), the dates by the first and the last of `Moves`, the history by `RowsTo`, how many rows come before a step's.

**Abstractions.**  A step ends in a commit, for what it decides by comes from the snapshot of that
transaction or from the object its session has held since it made it (`expire_on_commit=False`).  The
clock stands still at `Clock`, so a date that was not stamped shows.  A ticket's requestor is its creator;
its subject stands for the file's ticket.  The seed's groups are cut to Everyone.  Hooks are silenced
during a load and left out.

**Constants of the run.**  Two processes: a load with a rival load, a `--check`, or a seed, for each of the
files.  The files are every sequence of at most two steps (comment, reply, two statuses, a value) on one
ticket, two longer ones, a file with a row of every kind and two tickets, five variants that `parse` must
refuse and three that stop half-way.  No two tickets of a check and a load have one subject and differ (`SubjectsTell`, which TLC
evaluates).  The app writes once: each property compares a load with one thing somebody else did.  Three ids are handed out, two for the file and one too many.  Deadlock is not checked:
commands end.

## 3. The runs

| Run | Question | Properties |
|---|---|---|
| `tickets_concurrent` | two workers, crashes, deadlocks, same-second touches: what survives every interleaving? | `TypeOK`, `IInv`, `NewestRowIsValue`, `ResolvedHasDate`, `RepliedIsNotNew`, `StatusRowsAuthorised`, `MailFollowsCommit`, `MailAtMostOnce`, `NewIsLeftForGood`, `KeepsAuditTrail` |
| `tickets_serial` | one request at a time, crashes, failing mail: does the code keep what its comments say? | `ResolvedDateMatches`, `StatusRowsChain`, `LastUpdatedByIsNewest`, `KeepsLifecycle` |
| `tickets_live` | no crash: is every request answered, every reply mailed, and does a move always appear last? | `Answered`, `ReplyIsMailed`, `MovesAppearLast` |
| `race_dates` | two status moves from one snapshot | violates `ResolvedDateMatches` |
| `race_touch` | two touches from one snapshot | violates `EveryRowTouches` |
| `access` | two administrators on the rights, users and groups pages: do tables, pages and resolver stay together? | `TypeOK`, `IInv`, `TablesConsistent`, `NobodyHoldsNothing`, `PagesKeepTheirPromise`, `WhatIsHeldIsShown`, `SaveMakesTheBoxesTrue` |
| `access_stale_page` | a page opened before a group is enabled, saved after | violates `OnlyOfferedTouched` |
| `gateway` | three deliveries and one administrator: does the protocol tell the truth, does an answer reach its ticket, is a message filed once? | `TypeOK`, `ProtocolTellsTheTruth`, `FiledOnce`, `OneUserPerSender`, `AnswersReachTheirTicket`, `TurnedAwayOnce` |
| `gateway_lost_commit` | a commit whose acknowledgement is lost | violates `RefusalLeavesNothing` |
| `custom_fields` | two browsers on the forms of fields, queues and tickets: do values lose nothing, does a true form become the truth, do the three ways to see a ticket agree? | `TypeOK`, `HistoryAgrees`, `ValuesSurvive`, `SavesAreExact`, `SearchIsThePage`, `HomeShowsWhatOpens` |
| `fixture` | two commands that may die anywhere, and the app: what does a printed line stand for? | `TypeOK`, `LineIsTheFile`, `LineIsItsOwn`, `LoadsWhatPlays` |
| `access_root` | root is renamed, then disabled | violates `RootStaysEnabled` |

The violations are findings:

1. **A rejected ticket with a resolved date.**  `lifecycle.py:4` says the date is "cleared on
   leaving" resolved.  Two requests read "open"; one resolves, the other rejects.  The second
   UPDATE writes `status` and not `resolved`, which it never changed.
2. **A row that does not move `last_updated_by`.**  `transactions.py:75` says it moves
   on every transaction.  The ORM omits the column when the actor is the one it read, and a
   rival's commit in between stays: the commit adds its row under another author's name.  `EveryRowTouches` says it
   of each commit, and not of the newest row, because with two workers the newest row by id need not be the last to appear.
3. **A save revokes what its page did not show.**  `rights/service.py:168` says "Only the pairs this page offered are
   touched".  The POST derives the page again; a group that was disabled at the GET and is
   enabled at the POST has boxes then, none of them in the form, and loses its grants.
4. **root can be disabled.**  `users/service.py:121-124` says it cannot; the guard knows root by its
   name, and the same form renames it.
5. **A refusal that leaves a ticket behind.**  `mail/gateway.py:30` says "A refusal rolls the session back, so a message the
   gateway would not accept leaves nothing behind".  `db.commit()` is inside `deliver`'s try (`gateway.py:147-153`, `312`,
   `tickets/service.py:330`): when the server has executed it and the connection is lost before the acknowledgement, the
   command prints "not ok" for a message that is filed, and its sender's user is made.

One disagreement needs no run to be seen: `docs/NOTES.md:167` says "The actor of a notify-worthy change is skipped", and
`notify.py:164` mails the resolve note to every requestor, the resolver included (`Recipients` of `Tickets`).

Between them, `tickets_concurrent` and `tickets_serial` show where the line is: what the history says about
a column's *value*, the presence of a resolved date on a resolved ticket, and "new is left for
good" need no serial order; the *absence* of a resolved date elsewhere, the chain of Status
rows and the author column do.  `tickets_live` shows the like for the order of the history (`MovesAppearLast`): a row that
moves a column appears behind all that could be seen before, because its INSERT comes after the ticket's UPDATE and so under the
exclusive lock.  A message row may slip in before rows somebody has read: it has its id before it waits for its lock.

`access` shows the same for the rights pages.  Without any lock, unique keys and
"a row never goes away" are enough for `TablesConsistent`, for Nobody to hold nothing,
and for the pages and the resolver to agree on every rendered page, in both directions.
`PagesKeepTheirPromise`: a tick is a right its people have.  `WhatIsHeldIsShown`: a right in force has
a tick somewhere, except that a user who was granted rights and then lost the privileged flag
keeps them and is on no page.  What does need an order is the save: `SaveMakesTheBoxesTrue` holds
when the page is still true at its POST and at its commit, and finding 3 is what happens otherwise.

`gateway` shows what a caller of the command may rely on.  "ok" is the truth about the
database, and so is a refusal in the gateway's own words or for a taken name, although the scope around `deliver` commits after
a refusal too and although the mail goes out after the commit: a failing back end is swallowed.  Any other "not ok" is the
report of an exception, and the commit may have been executed (finding 5); what is there is whole even so, one ticket at most and a
user only with it.  Handed over until it hears "ok", a message is filed twice only when an earlier answer was lost or was such an
error (`FiledOnce`).  `AnswersReachTheirTicket` names the exceptions to threading: a ticket moved or a queue
retagged since (documented, `gateway.py:224-233`), and a Subject Tag with `#` or `]` in it, which the queue form accepts and
`TAG_RE` cannot read (`notify.py:36`).  `TurnedAwayOnce` does the same for senders: a first message that loses the race for the
unique name gets through the second time, but an account whose email was changed, or cut to 120 characters, turns its
owner away for good.  The comment at `cli.py:145` ("A reply arriving by mail notifies nobody") holds
only of replies by the requestor: anybody else's is copied to the requestor (`Recipients`).

`custom_fields` shows that no lock is needed for a value and its history to agree (`HistoryAgrees`): two
first values meet the key (ticket, field), a change of a value that was cleared meanwhile is an UPDATE
of no row, which the ORM refuses, and two changes of one value leave a history whose last row is the
value, though both rows may say the same "from".  `ValuesSurvive`: nothing but a form with the input changes a value;
unapplying, disabling, renaming and moving keep it.  `SavesAreExact` has the condition under which a save
does what its form says: still true at the POST and at the commit.  Without it, a queue enabled between GET and
POST loses the field, against `customfields/service.py:272` ("Only the queues this page offered are touched") and for
the reason of finding 3.  Two facts of the code that no property is about: the history row carries the field's name in 64
characters where the field has 200, so a longer-named field is shown and can never be given a value
(`LongNames`; the form fails as a whole); and a form left open writes back the values it
showed.

`SearchIsThePage` says that the two implementations of "who may see a ticket" (grants joined in SQL, and the resolver
per ticket) agree in every state of that run, the limit included.  `HomeShowsWhatOpens` says the same of the home page with its
two exceptions: it cuts to ten rows before it drops what may not be seen, so a box may be empty while
there are rows to show, and it counts no role on the ticket.

`fixture` shows what the line of a load is worth.  On tickets nobody else writes to, it stands for
the file with its history and dates (`LineIsTheFile`), for rows of this very load
(`LineIsItsOwn`), and it is printed exactly when the steps can be played (`LoadsWhatPlays`).  What the
conditions leave out is what the code does: `_stamp` dates every row above its mark, a stranger's too, where its
docstring (`fixture.py:964`) says they are the write's; `--check` looks at no date and no Status row, so it passes a
side whose load died before its last stamp; `parse` (`fixture.py:313`) does not check "everything the
file can be wrong about on its own", for a move the lifecycle refuses, an owner without OwnTicket and a value set twice are
found half-way; a ticket that only a reply has opened is loaded whole and then reported absent; and the number of a
ticket is compared after its commit, so an id used up by a rolled-back create leaves one ticket too many.

## 4. The proofs

`TicketsProofs` proves, for every finite or infinite choice of workers, tickets, actors, columns,
values, rights and bounds that satisfies `ConstantsOK` and `AbsentIsNoRow`:

| Theorem | States |
|---|---|
| `Invariant` | `Spec => []RaceInv` |
| `TypeCorrect` | `Spec => []TypeOK` |
| `HistoryIsTrue` | `Spec => []NewestRowIsValue` |
| `ResolvedIsDated` | `Spec => []ResolvedHasDate` |
| `RepliesOpen` | `Spec => []RepliedIsNotNew` |
| `NewIsLeft` | `Spec => NewIsLeftForGood` |
| `AuditTrailKept` | `Spec => KeepsAuditTrail`, the refinement |

The properties are not inductive: whether a commit keeps the history true depends on what the
session decided, what it has inserted, and who else may have committed since.  `RaceInv` adds

- `SessionOK`, in `ControlOK`: what a handler has decided by its first flush (a moved status is
  not "new"; a session that resolves writes a date different from the one it read, so the
  column is in its UPDATE; one that clears a date moves the status away);
- `TargetOK`: the row a session works on is there, or is being created and locked; a status that
  was not "new" when read is not "new" now;
- `LocksOK`: shared and exclusive exclude each other (`Shared`: an INSERT that still waits in "check" has no shared lock);
- `ChangesOK`: what is recorded and to be recorded is exactly the columns that move;
- `RowsOK`: ids are fresh, and a pending row about a column is newer than the committed ones
  *because* its session has had the exclusive lock since before the row was inserted;
- `DatesOK`: a date lies in the past, so the date a session resolves with is new.

Each action has a lemma that it preserves `RaceInv` (the five handlers share one about `Begin`,
for they differ only in the session they begin), and the theorem combines them.
`KeepsAuditTrail` follows from `RaceInv` with one
lemma: a commit is a `Write` or a `Create` of `AuditTrail`, everything else a stutter.

`HistoryProofs` proves, from the same assumptions on the constants:

| Theorem | Assumes | States |
|---|---|---|
| `WholeInvariant` | | `Spec => []IInv`, which is `RaceInv /\ HistoryInv` |
| `OnlyAReplyOpens` | | `Spec => []StatusRowsAuthorised` |
| `MailIsAboutHistory` | | `Spec => []MailFollowsCommit` |
| `MailedOnce` | | `Spec => []MailAtMostOnce` |
| `MovesGoLast` | | `Spec => MovesAppearLast` |
| `ResolvedExactly` | `OneAtATime` | `Spec => []ResolvedDateMatches` |
| `StatusesChain` | `OneAtATime` | `Spec => []StatusRowsChain` |
| `NewestIsNamed` | `OneAtATime` | `Spec => []LastUpdatedByIsNewest` |
| `LifecycleKept` | `OneAtATime` | `Spec => KeepsLifecycle`, the refinement |

`OneAtATime` is the assumption of `tickets_serial`, a single worker, a server that handles one request at a time, and the
code needs it: `race_dates` shows the first of its properties violated by two workers, and `race_touch` what becomes of the
third.  `MovesGoLast` follows from `RowsOK` alone, with no assumption on the clock: a pending row about a column is newer than every
committed row of its ticket, and a commit adds its own rows at once.

`HistoryInv` adds to `RaceInv` what a session means to do, not only what it holds.  `Lawful`: the row it wants is
what the lifecycle makes of the row it read.  `Accounted`: its rows name its actor and the status it read, and
whoever moves a status without ModifyTicket has a reply recorded or still to record, which `OrderOK` shows to come
before the Status row, as `StatusRowsAuthorised` asks.  `NewestOK` is what a single worker adds: all its rows are newer than the committed ones, its
message row as well, and the row it read is still the row in the table.  For
`LifecycleKept`, `LifeAfter` says what a row written at a commit is for the abstract ticket, and `BirthIsBorn` and `EditIsMove`
that a commit is one of its two steps.  TLC checks `IInv` as an invariant of `tickets_concurrent`; it was also
checked on the instances of `tickets_serial`, where `OneAtATime` holds, and `tickets_live`.

`AccessProofs` proves, for all browsers, users, groups, queues, names, rights and starting tables that
satisfy `AccessConstants` and `StartOK`:

| Theorem | States |
|---|---|
| `Invariant` | `Spec => []IInv` |
| `TypeCorrect` | `Spec => []TypeOK` |
| `TablesStayConsistent` | `Spec => []TablesConsistent` |
| `NobodyNeverHolds` | `Spec => []NobodyHoldsNothing` |
| `PromisesKept` | `Spec => []PagesKeepTheirPromise` |
| `HeldIsShown` | `Spec => []WhatIsHeldIsShown` |
| `SaveIsExact` | `Spec => SaveMakesTheBoxesTrue` |

`IInv` adds what is in hand: a job carries only grants about rows that are there (`JobOK`; the rows
stay, so this outlives the wait), no name of a built-in group, nothing about Nobody; and a page that was
true when posted is what the job was worked out from (`WorkedOut`).  Nobody's row
keeps its name because no form reaches it and the unique key keeps the name from everybody else; that
it stays disabled is why `NobodyHoldsNothing` follows.  The two agreement theorems compare the rows of a page
with the principals of a user, group by group; the save is set algebra on what `WorkedOut` gives.

`CustomFieldsProofs` proves, for all browsers, users, groups, queues, fields, tickets, values, boxes, limits and
starting tables that satisfy `SearchConstants`, `FieldConstants` and `StartOK`:

| Theorem | States |
|---|---|
| `SearchAgrees` | `Spec => []SearchIsThePage` |
| `HomeAgrees` | `Spec => []HomeShowsWhatOpens` |
| `Invariant` | `Spec => []IInv` |
| `TypeCorrect` | `Spec => []TypeOK` |
| `HistoryIsTrue` | `Spec => []HistoryAgrees` |
| `FieldsStayPut` | `Spec => []FieldsStand`: names of fields stay apart, pairs and values are about rows that exist |
| `NothingIsLost` | `Spec => ValuesSurvive` |
| `FormsAreExact` | `Spec => SavesAreExact` |

The first two need no invariant: they hold of any tables, because they compare two ways to read them.  `FilterIsThePage` goes from
the three scopes of the filter to the principals with the roles of a ticket; `ParseAsks` shows that what `parse` takes out of a box is
what it asks for, with `LastOne` for "the last known status wins".

The others rest on `IInv`, which adds to the three invariants what each browser has in hand: `PairsInHand` and `BasicsInHand` say that
a job is about the page still open in its slot, about fields and a ticket that are there (none ever goes away, which is why
`JobsStand`), and, when the page was true at the POST, is exactly the difference between what was shown and what came back;
`CreateInHand` that the id of a ticket to be is in no other job and no row.  Every change of a value is a `WriteValues`, and
`WriteKeeps` is where the keys of the table do their work: what `Fits` lets through is a row that continues the history
(`OneMoreRow`).  `FieldsStand` and `IInv` were checked with TLC on the instance of `custom_fields` and are not invariants of a run.

`GatewayProofs` proves, for all queues, names, tags, letters, rights and bounds that satisfy
`GatewayConstants`:

| Theorem | States |
|---|---|
| `Invariant` | `Spec => []IInv` |
| `TypeCorrect` | `Spec => []TypeOK` |
| `ProtocolIsTrue` | `Spec => []ProtocolTellsTheTruth` |
| `FilesOnce` | `Spec => []FiledOnce` |
| `OneUserEach` | `Spec => []OneUserPerSender` |
| `AnswersArrive` | `Spec => []AnswersReachTheirTicket` |
| `TurnsAwayOnce` | `Spec => []TurnedAwayOnce` |

A delivery decides on a snapshot and writes later, so `IInv` says of each delivery what of its decision still
holds while others write: `InHand` (its queue, sender and ticket are there; its tag is the queue's, unless the queue has
been retagged; its queue is the ticket's, unless the ticket has moved), `Aimed` (an answer to our mail is headed for
that mail's ticket, unless the tag is loose) and, in `RunOK`, what it has written by its stage: nothing before its commit, nothing after a refusal, and after an error either
nothing or all of it (`committed`).  `TagStands` says the same of every tag
sent.  `PairOK` is about two deliveries: of one message, the earlier is over and has not said "ok", and two
that were stopped by the name show that the account has lost its address (`NameIsLost`); of one sender, one alone has the new
user's name inserted and not committed.  The proof rests on one fact: the tables only gain.  `Grows(d)` says what a step of
delivery `d` may do to what another relies on; each action has a lemma that it does no more, `OneStep` that such a step
keeps `IInv` for the others, and what is left per action is about the delivery that took it.  `IInv` was checked with TLC on
all states of the instance of `gateway` and is not an invariant of a run.

`FixtureProofs` proves, for any number of processes, any files they are started with, and anything the app may make
meanwhile, under the assumptions of `Fixture`:

| Theorem | States |
|---|---|
| `Invariant` | `Spec => []IInv` |
| `TypeCorrect` | `Spec => []TypeOK` |
| `LinesAreOwn` | `Spec => []LineIsItsOwn` |

`LineIsItsOwn` speaks of the moment a line is printed.  `IInv` says how it comes about: a load that is at a unit or a
ticket of its file has written everything before it (`RowsOwned`, `TicketsOwned`), the place it is at says how far that is
(`PlaceOK`; the ticket it has open is the one with the file's number, and its own), and no ticket has the id
handed out next (`FreshOK`).  Rows and tickets are never taken away or given to somebody else (`RowsStay`, `TicketsStay`),
so no step of a rival touches this (`OthersKeep`); a unit that meets a foreign row, and a ticket that gets a foreign number, end
the load.  None of it uses the guard, which looks once: it holds wherever an earlier load was cut short.
Two of the assumptions are facts about data the provers cannot derive, and TLC evaluates them: `UnitsOK`, that `Units`, a fold
over the file, yields a sequence of sets of keys, of which only a grant is in two, and whose queues are those that are not there; and
`NamesAreStrings`, that the app's four literals are strings.  `BoundsOK` says that the clock's date is no NULL, `AppIsNoProcess` that
"app" is not a process's name.

`LoadProofs` and `AloneProofs` go on from there, under the same assumptions:

| Theorem | Assumes | States |
|---|---|---|
| `TicketsAreSaid` | | `Spec => []SaidInv` |
| `LoadsAreSaid` | | `Spec => []LoadedIsTheFile`: what a load has printed stands for it, on untouched tickets, from then on |
| `AloneInvariant` | | `Spec => []AloneInv` |
| `LoadsAsTheyPlay` | | `Spec => []LoadsWhatPlays` |
| `WhoseTickets` | | `Spec => []WhoseInv` |
| `LinesAreTheFile` | `SubjectsTell` | `Spec => LineIsTheFile` |

*What a load leaves.*  `SaidInv` adds to `IInv` that a ticket is the file's (`DoneIsSaid`: status, values, dates, and each history row
with its step, time and author) once the load is past it, and what holds of the one it has open (`OpenIsSaid`).  Between a
step and its stamp the ticket `Follows` the file with this one step at the clock's time; the mark is how many rows the steps before it
left, and `before` the two dates as they were then.  These are just what the stamp needs to date the step's rows and dates and no
others: a date that differs from `before` was set by this step, for a step's time is a number and NULL is none.  `NewIsUnmoved`,
that a ticket that has left "new" never comes back, is why `started` is the first move's.  The closed forms have lemmas that go from
`n - 1` steps to `n` (`StatusIs` and its like), so no induction over the file is needed: the steps of the load are the induction.

*What a load alone prints.*  `AloneInv` adds `SeededOK` (the seed comes first and whole), `RowsFrom` and `TicketsFrom` (what is p's is
behind it in its file), `GuardStands` (what the guard saw still holds, for rows are never taken away) and `PlayedSoFar`.  A load that
nobody else writes beside meets no foreign row and no foreign number, so it can stop only where a step cannot be played,
and what is past has been.  At verify everything is there (`RowsAreFound`, `TicketsAreFound`), and what verify *counts* comes out:
`HistoryCounts` says that the rows of a type and the steps of that kind correspond one to one, by the row a step leaves first
(`RowAt`), and `PairsCount` sums this over the tickets with the library's facts about surjections and cardinality.  What is left
is whether `final_status`, which knows no opening reply, is the status the steps lead to; that is the third conjunct of `Plays`.

*What a check prints.*  A check has written nothing, so its line has to be traced to whoever wrote what it finds.  `WhoseInv` says
whose a ticket is that only its writer has written to: a file's ticket behind a load or open in it, or the one a load stopped
on because of its number.  By its subject the ticket is the one the check looks for, and so `Stands` at some step of that
file's.  The counts then work the other way round: `CountsTell` shows that when as many rows of each kind are found as the file
has steps of it, no message and no value is missing *on any ticket*, for the rows found are a subset of the rows looked for, and a
finite set has no proper subset of its own size.  What may be missing are status steps at the end, which
`SettledStatus` shows to lead to the status that is there.  `SubjectsTell` is needed: a check that is run with another
file than the load's, with the same subjects and statuses and other dates, prints its line, for verify looks at no date.

`IInv`, `SaidInv`, `AloneInv` and `WhoseInv` were checked with TLC on all states of the instance of `fixture` before they were proved
and are not invariants of a run.

**Only model-checked:** the liveness properties `Answered` and `ReplyIsMailed`, which are out of the prover's reach with fairness and
ENABLED.  Every other property of a passing run is stated by a theorem.  The theorems of `HistoryProofs` with an assumption say nothing
without it; the runs `race_dates` and `race_touch` do.  `UnitsOK` stays an assumption: what a fold computes for every file
is an induction over data.

## 5. The plan

All modules of the plan are written, and every safety property and every action property of a passing run is proved.  What is left:

1. A mutual refinement: that `Gateway`'s reply and create are `mail_reply` and `mail_create` of `Tickets`, and `Fixture`'s steps
   the handlers of the pages, which is argued in section 2 only.
2. The stamp against the app: which of a stranger's rows and dates a stamp takes with it, as a property about touched
   tickets, where `LineIsTheFile` is silent.

**Not modelled**, with the reasons: MIME decoding, message layout and templates (text in, text
out); password hashing and cookie signatures (library code); telemetry, logging and settings (no
state of the tracker); the Alembic migration's DDL beyond the tables it creates; the argument parser and the
health check of the command line.
