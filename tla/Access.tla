------------------------------- MODULE Access -------------------------------
(***************************************************************************)
(* Who may do what in py-rt, and the pages that decide it: the resolver    *)
(* (acl.py), the rights pages (rights/), the users and groups pages        *)
(* (users/, groups/).                                                      *)
(*                                                                         *)
(* A slot is a browser with at most one rights page open and at most one   *)
(* request in hand.  A page shows the database as it was when it was       *)
(* opened; a POST reads its own snapshot, decides, and becomes a job; the  *)
(* job is flushed and committed in one step, for nothing is read between   *)
(* the two, onto whatever the database holds by then.  A request that is   *)
(* refused, or that changes nothing, is no step.                           *)
(***************************************************************************)
EXTENDS Naturals, FiniteSets

CONSTANTS
  Slots,      \* browsers
  Users,      \* user ids
  root,       \* the id of the user seeded as "root"
  nobody,     \* the id of the user seeded as "Nobody"
  Groups,     \* ids of user-defined groups
  BuiltIns,   \* the system groups and roles modelled, each its own id
  Queues,     \* queue ids
  Names,      \* names of users and user-defined groups, equal when MariaDB says so
  RightNames, \* the rights modelled, out of RIGHTS
  Start,      \* the database at first: [users, groups, members, rights]
  MaxFlips,   \* bound: boxes and fields a person changes before saving a page
  MaxWrites,  \* bound: requests that write
  Absent,     \* an id no row has
  None        \* no page open, no request in hand

RIGHTS ==
  {"SuperUser", "ShowTicket", "CreateTicket", "ReplyToTicket", "CommentOnTicket",
   "ModifyTicket", "OwnTicket", "TakeTicket", "StealTicket", "SeeQueue", "AdminQueue",
   "AdminUsers", "AdminGroup", "AdminGroupMembership", "AdminCustomField",
   "SeeCustomField", "ModifyCustomField", "ShowConfigTab", "AdminOwnPersonalGroups"}

GLOBAL_ONLY_RIGHTS ==
  {"SuperUser", "AdminUsers", "AdminGroup", "AdminCustomField", "ShowConfigTab"}

SYSTEM_GROUPS == {"Everyone", "Privileged", "Unprivileged"}

ROLE_GROUPS == {"Owner", "Requestor", "Cc", "AdminCc"}

\* object_of: a queue, or everywhere.
Objects == Queues \cup {"system"}

UserRow == [name: Names, privileged: BOOLEAN, disabled: BOOLEAN]

GroupRow == [name: Names, disabled: BOOLEAN]

Principal == ({"user"} \X Users) \cup ({"group"} \X (Groups \cup BuiltIns))

Grant == [who: Principal, right: RightNames, object: Objects]

\* The name of a checkbox: the principal's name and the right.
Control == (Names \cup BuiltIns) \X RightNames

\* A rights page: a row per principal, a box per row and right offered.
Page ==
  [kind: {"user", "group"}, object: Objects,
   rows: SUBSET [who: Principal, name: Names \cup BuiltIns], checked: SUBSET Grant]

\* What a request is about to write.  `was` is the row as its snapshot had it;
\* `fresh` says, for a property, that the page posted was still true then.
Job ==
  [do: {"rights"}, add: SUBSET Grant, remove: SUBSET Grant, posted: SUBSET Control,
   fresh: BOOLEAN]
    \cup [do: {"user"}, id: Users, was: UserRow \cup {Absent}, row: UserRow]
    \cup [do: {"group"}, id: Groups, was: GroupRow \cup {Absent}, row: GroupRow]
    \cup [do: {"join", "leave"}, group: Groups, user: Users]

ASSUME AccessConstants ==
  /\ {root, nobody} \subseteq Users /\ root # nobody
  /\ BuiltIns \subseteq SYSTEM_GROUPS \cup ROLE_GROUPS
  /\ Groups \cap (SYSTEM_GROUPS \cup ROLE_GROUPS) = {} /\ "system" \notin Queues
  /\ {"root", "Nobody"} \subseteq Names
  /\ RightNames \subseteq RIGHTS
  /\ MaxFlips \in Nat /\ MaxWrites \in Nat
  /\ Absent \notin UserRow \cup GroupRow
  /\ None \notin Page \cup Job

rights_offered(object) ==
  IF object = "system" THEN RightNames ELSE RightNames \ GLOBAL_ONLY_RIGHTS

\* No two rows of a table have one name.
NamesDiffer(table) ==
  \A i, j \in DOMAIN table :
    i # j /\ table[i] # Absent /\ table[j] # Absent => table[i].name # table[j].name

\* A grant is about a principal that has a row and a right its object knows.
MakesSense(g, us, gs) ==
  /\ g.right \in rights_offered(g.object)
  /\ g.who[1] = "user" => g.who[2] # nobody /\ us[g.who[2]] # Absent
  /\ g.who[1] = "group" /\ g.who[2] \in Groups => gs[g.who[2]] # Absent

\* "Nobody" is a name nobody else has and the seed's row for it is disabled.
NobodyKept(us) == us[nobody] # Absent /\ us[nobody].name = "Nobody" /\ us[nobody].disabled

\* The runs start after the seed and some requests.
ASSUME StartOK ==
  /\ Start.users \in [Users -> UserRow \cup {Absent}]
  /\ Start.groups \in [Groups -> GroupRow \cup {Absent}]
  /\ Start.members \subseteq Groups \X (Users \ {nobody})
  /\ Start.rights \subseteq Grant
  /\ NamesDiffer(Start.users) /\ NamesDiffer(Start.groups)
  /\ \A g \in Groups : Start.groups[g] # Absent => Start.groups[g].name \notin BuiltIns
  /\ \A g \in Start.rights : MakesSense(g, Start.users, Start.groups)
  /\ NobodyKept(Start.users)
  /\ Start.users[root] = [name |-> "root", privileged |-> TRUE, disabled |-> FALSE]

VARIABLES
  users,    \* [Users -> UserRow \cup {Absent}]
  groups,   \* [Groups -> GroupRow \cup {Absent}], the user-defined ones
  members,  \* the group_members table
  rights,   \* the rights table
  page,     \* the rights page each slot has open
  job,      \* the write each slot has in hand
  begun     \* how many writes have begun

db == <<users, groups, members, rights>>
vars == <<users, groups, members, rights, page, job, begun>>

TypeOK ==
  /\ users \in [Users -> UserRow \cup {Absent}]
  /\ groups \in [Groups -> GroupRow \cup {Absent}]
  /\ members \subseteq Groups \X Users
  /\ rights \subseteq Grant
  /\ page \in [Slots -> Page \cup {None}]
  /\ job \in [Slots -> Job \cup {None}]
  /\ begun \in Nat

Init ==
  /\ users = Start.users /\ groups = Start.groups
  /\ members = Start.members /\ rights = Start.rights
  /\ page = [s \in Slots |-> None]
  /\ job = [s \in Slots |-> None]
  /\ begun = 0

----------------------------------------------------------------------------
(* acl.py *)

\* A resolver that forgets that groups can be disabled.
principalsAnyGroup(u) ==
  IF users[u] = Absent \/ users[u].disabled THEN {}
  ELSE LET flag == IF users[u].privileged THEN "Privileged" ELSE "Unprivileged"
           mine == {g \in Groups : groups[g] # Absent /\ <<g, u>> \in members}
       IN  {<<"user", u>>}
             \cup ({"group"} \X ((BuiltIns \cap {"Everyone", flag}) \cup mine))

principals(u) ==
  IF users[u] = Absent \/ users[u].disabled THEN {}
  ELSE LET flag == IF users[u].privileged THEN "Privileged" ELSE "Unprivileged"
           mine == {g \in Groups : /\ groups[g] # Absent /\ ~groups[g].disabled
                                   /\ <<g, u>> \in members}
       IN  {<<"user", u>>}
             \cup ({"group"} \X ((BuiltIns \cap {"Everyone", flag}) \cup mine))

\* `roles` are the ones the user has on the ticket in hand.
ticket_principals(u, roles) ==
  IF principals(u) = {} THEN {}
  ELSE principals(u) \cup ({"group"} \X (roles \cap BuiltIns \cap {"Owner", "Requestor"}))

\* Asked globally, `object` is "system": a queue's grants then do not count.
has_right(held, right, object) ==
  \E g \in rights :
    /\ g.who \in held
    /\ g.right \in {right, "SuperUser"}
    /\ g.object \in {"system", object}

\* Somebody who is signed in and may: current_user gives no disabled one.
Somebody(right, object) == \E u \in Users : has_right(principals(u), right, object)

----------------------------------------------------------------------------
(* The rights pages *)

privileged_users ==
  {u \in Users : /\ users[u] # Absent /\ users[u].name # "Nobody"
                 /\ users[u].privileged /\ ~users[u].disabled}

GroupRows(gs) == {[who |-> <<"group", g>>, name |-> groups[g].name] : g \in gs}

\* The users' page with its rows filed under the wrong kind.
principal_rows_misfiled(kind) ==
  IF kind = "user"
  THEN {[who |-> <<"group", u>>, name |-> users[u].name] : u \in privileged_users}
  ELSE {[who |-> <<"group", b>>, name |-> b] : b \in BuiltIns}
         \cup GroupRows({g \in Groups : groups[g] # Absent /\ ~groups[g].disabled})

\* A page that lists disabled groups too.
principal_rows_all(kind) ==
  IF kind = "user"
  THEN {[who |-> <<"user", u>>, name |-> users[u].name] : u \in privileged_users}
  ELSE {[who |-> <<"group", b>>, name |-> b] : b \in BuiltIns}
         \cup GroupRows({g \in Groups : groups[g] # Absent})

principal_rows(kind) ==
  IF kind = "user"
  THEN {[who |-> <<"user", u>>, name |-> users[u].name] : u \in privileged_users}
  ELSE {[who |-> <<"group", b>>, name |-> b] : b \in BuiltIns}
         \cup GroupRows({g \in Groups : groups[g] # Absent /\ ~groups[g].disabled})

\* The grants a page has boxes for.
Offered(pg) ==
  [who: {p.who : p \in pg.rows}, right: rights_offered(pg.object), object: {pg.object}]

\* group_sections or user_sections, as the database is now.
sections(kind, object) ==
  LET rows == principal_rows(kind)
      blank == [kind |-> kind, object |-> object, rows |-> rows, checked |-> {}]
  IN  [blank EXCEPT !.checked = rights \cap Offered(blank)]

controls(pg, grants) ==
  {<<x[1].name, x[2].right>> : x \in {y \in pg.rows \X grants : y[1].who = y[2].who}}

\* The grants of the page whose box is among what was posted.
Wanted(pg, posted) == {g \in Offered(pg) : controls(pg, {g}) \cap posted # {}}

\* What may come back from a page: its ticks with a few boxes changed.
Forms(pg) ==
  {controls(pg, (pg.checked \ f) \cup (f \ pg.checked)) :
     f \in {x \in SUBSET Offered(pg) : Cardinality(x) <= MaxFlips}}

\* AdminQueue on the queue, or SuperUser for the global pages.
Gate(object) == IF object = "system" THEN "SuperUser" ELSE "AdminQueue"

\* A page that is never saved might as well not have been opened.
open_page(s) ==
  /\ job[s] = None /\ page[s] = None
  /\ \E kind \in {"user", "group"}, object \in Objects :
       /\ Somebody(Gate(object), object)
       /\ page' = [page EXCEPT ![s] = sections(kind, object)]
  /\ UNCHANGED <<users, groups, members, rights, job, begun>>

Free(s) == job[s] = None /\ begun < MaxWrites

Begin(s, write) ==
  /\ begun' = begun + 1
  /\ job' = [job EXCEPT ![s] = write]
  /\ UNCHANGED <<users, groups, members, rights, page>>

\* Whatever the object has and the form has not, offered or not.
unticked_all(pg, posted) ==
  {g \in rights : g.object = pg.object /\ g.who[1] = pg.kind} \ Wanted(pg, posted)

unticked(pg, posted) == pg.checked \ Wanted(pg, posted)

\* The POST derives the page again and looks its boxes up in what was posted.
save_rights(s) ==
  /\ Free(s)
  /\ page[s] # None
  /\ Somebody(Gate(page[s].object), page[s].object)
  /\ LET now == sections(page[s].kind, page[s].object)
     IN  \E posted \in Forms(page[s]) :
           LET add == Wanted(now, posted) \ now.checked
               remove == unticked(now, posted)
           IN  /\ add \cup remove # {}
               /\ Begin(s, [do |-> "rights", add |-> add, remove |-> remove,
                            posted |-> posted, fresh |-> now = page[s]])

----------------------------------------------------------------------------
(* The users and groups pages *)

\* What may come back from a form that showed `row`.
Edited(row, rows) ==
  {r \in rows : Cardinality({c \in DOMAIN row : r[c] # row[c]}) <= MaxFlips}

\* An empty form: Enabled is ticked, Privileged is not, any name may be typed.
NewUser == [name |-> "", privileged |-> FALSE, disabled |-> FALSE]

NewGroup == [name |-> "", disabled |-> FALSE]

\* Nobody can be modified as well.
editable_any_user == {u \in Users : users[u] # Absent}

editable_user == {u \in Users : users[u] # Absent /\ users[u].name # "Nobody"}

user_refused(u, row) ==
  \/ \E v \in Users \ {u} : users[v] # Absent /\ users[v].name = row.name
  \/ users[u] # Absent /\ users[u].name = "root" /\ row.disabled

\* An id the table has not handed out: AUTO_INCREMENT gives each INSERT its own.
Unused(id, table, kind) ==
  /\ table[id] = Absent
  /\ \A s \in Slots : job[s] # None /\ job[s].do = kind => job[s].id # id

create_user(s) ==
  /\ Free(s)
  /\ Somebody("AdminUsers", "system")
  /\ \E u \in Users, row \in Edited(NewUser, UserRow) :
       /\ Unused(u, users, "user")
       /\ ~user_refused(u, row)
       /\ Begin(s, [do |-> "user", id |-> u, was |-> Absent, row |-> row])

modify_user(s) ==
  /\ Free(s)
  /\ Somebody("AdminUsers", "system")
  /\ \E u \in editable_user : \E row \in Edited(users[u], UserRow) \ {users[u]} :
       /\ ~user_refused(u, row)
       /\ Begin(s, [do |-> "user", id |-> u, was |-> users[u], row |-> row])

group_refused(g, row) ==
  \/ row.name \in BuiltIns
  \/ \E h \in Groups \ {g} : groups[h] # Absent /\ groups[h].name = row.name

create_group(s) ==
  /\ Free(s)
  /\ Somebody("AdminGroup", "system")
  /\ \E g \in Groups, row \in Edited(NewGroup, GroupRow) :
       /\ Unused(g, groups, "group")
       /\ ~group_refused(g, row)
       /\ Begin(s, [do |-> "group", id |-> g, was |-> Absent, row |-> row])

modify_group(s) ==
  /\ Free(s)
  /\ Somebody("AdminGroup", "system")
  /\ \E g \in {h \in Groups : groups[h] # Absent} :
     \E row \in Edited(groups[g], GroupRow) \ {groups[g]} :
       /\ ~group_refused(g, row)
       /\ Begin(s, [do |-> "group", id |-> g, was |-> groups[g], row |-> row])

\* Nobody can be added as well.
addable_any_user == {u \in Users : users[u] # Absent}

addable_user == {u \in Users : /\ users[u] # Absent /\ ~users[u].disabled
                               /\ users[u].name # "Nobody"}

\* Add and Remove both go through addable_user; a second Add, or a Remove of
\* somebody who is not in it, writes nothing.
change_members(s) ==
  /\ Free(s)
  /\ Somebody("AdminGroupMembership", "system")
  /\ \E g \in Groups, u \in addable_user :
       /\ groups[g] # Absent
       /\ Begin(s, [do |-> IF <<g, u>> \in members THEN "leave" ELSE "join",
                    group |-> g, user |-> u])

----------------------------------------------------------------------------
(* The database's side of a write *)

\* A rights page that was saved is shown anew: the redirect is a new GET.
Done(s) ==
  /\ job' = [job EXCEPT ![s] = None]
  /\ page' = [page EXCEPT ![s] = IF job[s].do = "rights" THEN None ELSE @]
  /\ UNCHANGED begun

\* UPDATE names the columns that differ from the snapshot; INSERT all of them.
Merged(now, was, row) ==
  IF was = Absent THEN row
  ELSE [c \in DOMAIN row |-> IF row[c] # was[c] THEN row[c] ELSE now[c]]

\* The DELETE finds what is there; an INSERT of a grant that is there fails on
\* uq_rights_grant.
commit_rights(s) ==
  /\ job[s] # None /\ job[s].do = "rights"
  /\ job[s].add \cap (rights \ job[s].remove) = {}
  /\ rights' = (rights \ job[s].remove) \cup job[s].add
  /\ Done(s)
  /\ UNCHANGED <<users, groups, members>>

\* A users table without its unique key.
commit_user_keyless(s) ==
  /\ job[s] # None /\ job[s].do = "user"
  /\ users' = [users EXCEPT ![job[s].id] = Merged(@, job[s].was, job[s].row)]
  /\ Done(s)
  /\ UNCHANGED <<groups, members, rights>>

commit_user(s) ==
  /\ job[s] # None /\ job[s].do = "user"
  /\ LET u == job[s].id
         row == Merged(users[u], job[s].was, job[s].row)
     IN  /\ \A v \in Users \ {u} : users[v] # Absent => users[v].name # row.name
         /\ users' = [users EXCEPT ![u] = row]
  /\ Done(s)
  /\ UNCHANGED <<groups, members, rights>>

commit_group(s) ==
  /\ job[s] # None /\ job[s].do = "group"
  /\ LET g == job[s].id
         row == Merged(groups[g], job[s].was, job[s].row)
     IN  /\ \A h \in Groups \ {g} : groups[h] # Absent => groups[h].name # row.name
         /\ groups' = [groups EXCEPT ![g] = row]
  /\ Done(s)
  /\ UNCHANGED <<users, members, rights>>

commit_members(s) ==
  /\ job[s] # None /\ job[s].do \in {"join", "leave"}
  /\ LET pair == <<job[s].group, job[s].user>>
     IN  IF job[s].do = "join" THEN pair \notin members /\ members' = members \cup {pair}
         ELSE members' = members \ {pair}
  /\ Done(s)
  /\ UNCHANGED <<users, groups, rights>>

\* A unique key the write breaks, a deadlock, or the process dies: rolled back.
roll_back(s) ==
  /\ job[s] # None
  /\ Done(s)
  /\ UNCHANGED <<users, groups, members, rights>>

Next ==
  \E s \in Slots :
    \/ open_page(s) \/ save_rights(s)
    \/ create_user(s) \/ modify_user(s) \/ create_group(s) \/ modify_group(s)
    \/ change_members(s)
    \/ commit_rights(s) \/ commit_user(s) \/ commit_group(s) \/ commit_members(s)
    \/ roll_back(s)

Spec == Init /\ [][Next]_vars

----------------------------------------------------------------------------
(* What holds *)

\* Names, from which the pages make their controls, are never shared, and no
\* user-defined group shadows a built-in one (groups/service.py:95), although
\* the check and the write are two steps; every grant is about a row that is
\* there and a right its object knows (models.py:130), whatever else happened
\* to its principal in between.
TablesConsistent ==
  /\ NamesDiffer(users) /\ NamesDiffer(groups)
  /\ \A g \in Groups : groups[g] # Absent => groups[g].name \notin BuiltIns
  /\ \A g \in rights : MakesSense(g, users, groups)

\* Nobody is no person (users/service.py:97, groups/service.py:172): however
\* users are renamed and enabled, the unowned owner holds no right anywhere.
NobodyHoldsNothing ==
  /\ \A g \in Groups : <<g, nobody>> \notin members
  /\ \A r \in RightNames, o \in Objects :
       ~has_right(ticket_principals(nobody, ROLE_GROUPS), r, o)

\* Whom a row of a page is about, with the roles they have on a ticket.
Meant(u, roles, who) ==
  \/ who = <<"user", u>>
  \/ /\ who[1] = "group" /\ who[2] \in Groups
     /\ <<who[2], u>> \in members
  \/ who = <<"group", "Everyone">>
  \/ who = <<"group", "Privileged">> /\ users[u].privileged
  \/ who = <<"group", "Unprivileged">> /\ ~users[u].privileged
  \/ who[1] = "group" /\ who[2] \in roles

Enabled == {u \in Users : users[u] # Absent /\ ~users[u].disabled}

\* A box that is ticked is kept: everybody the row names has that right
\* ("offering its boxes would promise something the resolver does not keep",
\* rights/service.py:232).
PagesKeepTheirPromise ==
  \A kind \in {"user", "group"}, o \in Objects : \A g \in sections(kind, o).checked :
    \A u \in Enabled, roles \in SUBSET {"Owner", "Requestor"} :
      Meant(u, roles, g.who) => has_right(ticket_principals(u, roles), g.right, o)

\* What somebody holds can be found on a page and taken away there, with one
\* exception: a user who was granted rights and then lost the privileged flag
\* keeps them, and is on no page (users/service.py:82).
WhatIsHeldIsShown ==
  LET shown == UNION {sections(kind, o).checked : kind \in {"user", "group"}, o \in Objects}
  IN  \A u \in Enabled : \A g \in rights \ shown :
        g.who \in principals(u) => g.who = <<"user", u>> /\ ~users[u].privileged

\* When the page a slot posted was still true at its POST and is when its save
\* commits, its boxes are afterwards the ones posted, and no other grant moved.
SavesItsBoxes(s) ==
  LET pg == page[s]
  IN  /\ job[s] # None /\ job'[s] = None /\ rights' # rights
      /\ job[s].fresh /\ pg = sections(pg.kind, pg.object)
      => rights' = (rights \ Offered(pg)) \cup Wanted(pg, job[s].posted)

\* "The checked set is the desired set" (rights/service.py:166), whatever two
\* administrators save at once, as long as nobody's page has gone stale.
SaveMakesTheBoxesTrue == [][\A s \in Slots : SavesItsBoxes(s)]_vars

----------------------------------------------------------------------------
(* What comments promise and stale pages or renames break *)

\* "Only the pairs this page offered are touched" (rights/service.py:167).
OnlyOfferedTouched ==
  \A s \in Slots :
    job[s] # None /\ job[s].do = "rights" =>
      job[s].add \cup job[s].remove \subseteq Offered(page[s])

\* "the one that holds SuperUser from the seed stays able to sign in"
\* (users/service.py:123).
RootStaysEnabled == users[root] # Absent /\ ~users[root].disabled

----------------------------------------------------------------------------
(* The inductive invariant *)

\* What a request in hand may have decided: nothing about Nobody, nothing
\* about a row that is not there, no name of a built-in group.
JobOK(j) ==
  /\ j.do = "rights" => \A g \in j.add : MakesSense(g, users, groups)
  /\ j.do = "user" => j.id # nobody /\ (j.was # Absent => users[j.id] # Absent)
  /\ j.do = "group" => /\ j.row.name \notin BuiltIns
                       /\ j.was # Absent => groups[j.id] # Absent
  /\ j.do = "join" => j.user # nobody

\* A page that was true when it was posted is what the request works out.
WorkedOut(j, pg) ==
  /\ j.add = Wanted(pg, j.posted) \ pg.checked
  /\ j.remove = unticked(pg, j.posted)

JobsOK ==
  \A s \in Slots :
    job[s] # None =>
      /\ JobOK(job[s])
      /\ job[s].do = "rights" => page[s] # None /\ (job[s].fresh => WorkedOut(job[s], page[s]))

IInv ==
  /\ TypeOK /\ JobsOK /\ TablesConsistent
  /\ NobodyKept(users) /\ \A g \in Groups : <<g, nobody>> \notin members
==============================================================================
