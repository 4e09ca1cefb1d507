----------------------------- MODULE AccessProofs -----------------------------
(***************************************************************************)
(* Theorems about Access.  The tables stay consistent because a row never  *)
(* goes away and a job carries only what its snapshot allowed; what a page *)
(* promises, what it hides and what saving it does follow from that.       *)
(***************************************************************************)
EXTENDS Access, TLAPS

USE AccessConstants

----------------------------------------------------------------------------
(* Pages *)

\* A page's rows are principals with their names.
LEMMA RowsTyped ==
  ASSUME TypeOK, NEW kind \in {"user", "group"}
  PROVE  principal_rows(kind) \subseteq [who: Principal, name: Names \cup BuiltIns]
<1>1. CASE kind = "user"
  BY <1>1 DEF principal_rows, TypeOK, privileged_users, Principal, UserRow
<1>2. CASE kind = "group"
  BY <1>2 DEF principal_rows, TypeOK, GroupRows, Principal, GroupRow
<1>. QED BY <1>1, <1>2

\* The boxes of a page are grants.
LEMMA OfferedTyped ==
  ASSUME NEW pg \in Page
  PROVE  Offered(pg) \subseteq Grant
BY DEF Offered, Page, Grant, rights_offered

\* A rendered page: its parts, and the grants it finds ticked.
LEMMA SectionsTyped ==
  ASSUME TypeOK, NEW kind \in {"user", "group"}, NEW o \in Objects
  PROVE  /\ sections(kind, o) \in Page
         /\ sections(kind, o).kind = kind /\ sections(kind, o).object = o
         /\ sections(kind, o).rows = principal_rows(kind)
         /\ sections(kind, o).checked = rights \cap Offered(sections(kind, o))
<1>1. principal_rows(kind) \subseteq [who: Principal, name: Names \cup BuiltIns]
  BY RowsTyped
<1>2. rights \subseteq Grant
  BY DEF TypeOK
<1>. QED BY <1>1, <1>2 DEF sections, Offered, Page

\* What is posted are controls.
LEMMA FormsTyped ==
  ASSUME NEW pg \in Page, NEW posted \in Forms(pg)
  PROVE  posted \subseteq Control
<1>1. PICK f \in SUBSET Offered(pg) : posted = controls(pg, (pg.checked \ f) \cup (f \ pg.checked))
  BY DEF Forms
<1>2. (pg.checked \ f) \cup (f \ pg.checked) \subseteq Grant
  BY <1>1, OfferedTyped DEF Page
<1>. QED BY <1>1, <1>2 DEF controls, Control, Page, Grant

\* A page offers only grants that make sense.
LEMMA OfferedMakesSense ==
  ASSUME IInv, NEW kind \in {"user", "group"}, NEW o \in Objects,
         NEW g \in Offered(sections(kind, o))
  PROVE  MakesSense(g, users, groups)
<1>. DEFINE pg == sections(kind, o)
<1>1. pg.rows = principal_rows(kind) /\ pg.object = o
  BY SectionsTyped DEF IInv
<1>2. g.right \in rights_offered(o) /\ g.object = o
  BY <1>1 DEF Offered
<1>3. PICK p \in principal_rows(kind) : g.who = p.who
  BY <1>1 DEF Offered
<1>4. CASE kind = "user"
  <2>1. PICK u \in privileged_users : g.who = <<"user", u>>
    BY <1>3, <1>4 DEF principal_rows
  <2>2. u # nobody /\ users[u] # Absent
    BY DEF privileged_users, IInv, NobodyKept
  <2>. QED BY <1>2, <2>1, <2>2 DEF MakesSense
<1>5. CASE kind = "group"
  <2>1. \/ \E b \in BuiltIns : g.who = <<"group", b>>
        \/ \E h \in Groups : groups[h] # Absent /\ g.who = <<"group", h>>
    BY <1>3, <1>5 DEF principal_rows, GroupRows
  <2>. QED BY <1>2, <2>1 DEF MakesSense
<1>. QED BY <1>4, <1>5

----------------------------------------------------------------------------
(* The invariant: what a request may leave in hand *)

\* Rows that stay keep grants sensible.
LEMMA SenseStays ==
  ASSUME NEW g \in Grant, MakesSense(g, users, groups),
         \A u \in Users : users[u] # Absent => users'[u] # Absent,
         \A h \in Groups : groups[h] # Absent => groups'[h] # Absent
  PROVE  MakesSense(g, users', groups')
<1>1. g.who[1] = "user" => g.who[2] \in Users
  BY DEF Grant, Principal
<1>. QED BY <1>1 DEF MakesSense

\* A write that leaves every row in its place leaves the other jobs as good.
LEMMA DoneKeepsJobs ==
  ASSUME IInv, NEW s \in Slots, Done(s),
         \A u \in Users : users[u] # Absent => users'[u] # Absent,
         \A h \in Groups : groups[h] # Absent => groups'[h] # Absent
  PROVE  /\ job' \in [Slots -> Job \cup {None}]
         /\ page' \in [Slots -> Page \cup {None}]
         /\ begun' \in Nat
         /\ JobsOK'
<1>1. /\ job' \in [Slots -> Job \cup {None}]
      /\ page' \in [Slots -> Page \cup {None}]
      /\ begun' \in Nat
  BY DEF Done, IInv, TypeOK
<1>2. SUFFICES ASSUME NEW t \in Slots, job'[t] # None
               PROVE  /\ JobOK(job[t])'
                      /\ job'[t].do = "rights" =>
                           page'[t] # None /\ (job'[t].fresh => WorkedOut(job'[t], page'[t]))
  BY <1>1 DEF JobsOK
<1>3. t # s /\ job'[t] = job[t] /\ page'[t] = page[t] /\ job[t] \in Job
  BY <1>2 DEF Done, IInv, TypeOK
<1>4. /\ JobOK(job[t])
      /\ job[t].do = "rights" =>
           page[t] # None /\ (job[t].fresh => WorkedOut(job[t], page[t]))
  BY <1>2, <1>3 DEF IInv, JobsOK
<1>5. job[t].do = "rights" => \A g \in job[t].add : MakesSense(g, users', groups')
  <2>1. SUFFICES ASSUME job[t].do = "rights", NEW g \in job[t].add
                 PROVE  MakesSense(g, users', groups')
    OBVIOUS
  <2>2. g \in Grant
    BY <1>3, <2>1 DEF Job
  <2>. QED BY <1>4, <2>1, <2>2, SenseStays DEF JobOK
<1>6. job[t].do = "user" => job[t].id \in Users
  BY <1>3 DEF Job
<1>7. job[t].do = "group" => job[t].id \in Groups
  BY <1>3 DEF Job
<1>8. JobOK(job[t])'
  BY <1>3, <1>4, <1>5, <1>6, <1>7 DEF JobOK
<1>. QED BY <1>3, <1>4, <1>8

\* A request that decides on a good write keeps the invariant.
LEMMA BeginKeeps ==
  ASSUME IInv, NEW s \in Slots, NEW write \in Job, JobOK(write), Begin(s, write),
         write.do = "rights" => page[s] # None /\ (write.fresh => WorkedOut(write, page[s]))
  PROVE  IInv'
<1>1. /\ users' = users /\ groups' = groups /\ members' = members /\ rights' = rights
      /\ page' = page /\ job' = [job EXCEPT ![s] = write] /\ begun' = begun + 1
  BY DEF Begin
<1>2. TypeOK'
  BY <1>1 DEF IInv, TypeOK
<1>3. JobsOK'
  <2>1. SUFFICES ASSUME NEW t \in Slots, job'[t] # None
                 PROVE  /\ JobOK(job[t])'
                        /\ job'[t].do = "rights" =>
                             page[t] # None /\ (job'[t].fresh => WorkedOut(job'[t], page[t]))
    BY <1>1 DEF JobsOK
  <2>2. CASE t = s
    <3>1. job'[t] = write
      BY <1>1, <2>2 DEF IInv, TypeOK
    <3>. QED BY <1>1, <2>2, <3>1 DEF JobOK
  <2>3. CASE t # s
    <3>1. job'[t] = job[t]
      BY <1>1, <2>3 DEF IInv, TypeOK
    <3>. QED BY <1>1, <2>1, <3>1 DEF IInv, JobsOK, JobOK
  <2>. QED BY <2>2, <2>3
<1>. QED BY <1>1, <1>2, <1>3 DEF IInv, TablesConsistent
LEMMA OpenKeeps ==
  ASSUME IInv, NEW s \in Slots, open_page(s)
  PROVE  IInv'
<1>1. PICK kind \in {"user", "group"}, object \in Objects :
        page' = [page EXCEPT ![s] = sections(kind, object)]
  BY DEF open_page
<1>2. /\ users' = users /\ groups' = groups /\ members' = members /\ rights' = rights
      /\ job' = job /\ begun' = begun /\ job[s] = None
  BY DEF open_page
<1>3. TypeOK'
  BY <1>1, <1>2, SectionsTyped DEF IInv, TypeOK
<1>4. JobsOK'
  <2>1. SUFFICES ASSUME NEW t \in Slots, job[t] # None
                 PROVE  /\ JobOK(job[t])'
                        /\ job[t].do = "rights" =>
                             page'[t] # None /\ (job[t].fresh => WorkedOut(job[t], page'[t]))
    BY <1>2 DEF JobsOK
  <2>2. page'[t] = page[t]
    BY <1>1, <1>2, <2>1 DEF IInv, TypeOK
  <2>. QED BY <1>2, <2>1, <2>2 DEF IInv, JobsOK, JobOK
<1>. QED BY <1>2, <1>3, <1>4 DEF IInv, TablesConsistent

LEMMA SaveRightsKeeps ==
  ASSUME IInv, NEW s \in Slots, save_rights(s)
  PROVE  IInv'
<1>. DEFINE now == sections(page[s].kind, page[s].object)
            add(posted) == Wanted(now, posted) \ now.checked
            remove(posted) == unticked(now, posted)
            write(posted) == [do |-> "rights", add |-> add(posted), remove |-> remove(posted),
                              posted |-> posted, fresh |-> now = page[s]]
<1>1. PICK posted \in Forms(page[s]) : Begin(s, write(posted))
  BY DEF save_rights
<1>2. page[s] \in Page /\ page[s] # None
  BY DEF save_rights, IInv, TypeOK
<1>3. page[s].kind \in {"user", "group"} /\ page[s].object \in Objects
  BY <1>2 DEF Page
<1>4. now \in Page
  BY <1>3, SectionsTyped DEF IInv
<1>5. posted \subseteq Control
  BY <1>1, <1>2, FormsTyped
<1>6. add(posted) \subseteq Offered(now)
  BY DEF Wanted
<1>7. add(posted) \subseteq Grant /\ remove(posted) \subseteq Grant
  BY <1>4, <1>6, OfferedTyped DEF unticked, Page
<1>8. write(posted) \in Job
  BY <1>5, <1>7 DEF Job
<1>9. JobOK(write(posted))
  BY <1>3, <1>6, OfferedMakesSense DEF JobOK
<1>10. write(posted).fresh => WorkedOut(write(posted), page[s])
  BY DEF WorkedOut
<1>. HIDE DEF write
<1>. QED BY <1>1, <1>2, <1>8, <1>9, <1>10, BeginKeeps

LEMMA UserFormsKeep ==
  ASSUME IInv, NEW s \in Slots, create_user(s) \/ modify_user(s)
  PROVE  IInv'
<1>. DEFINE write(u, was, row) == [do |-> "user", id |-> u, was |-> was, row |-> row]
<1>1. CASE create_user(s)
  <2>1. PICK u \in Users, row \in UserRow :
          Unused(u, users, "user") /\ Begin(s, write(u, Absent, row))
    BY <1>1 DEF create_user, Edited
  <2>2. u # nobody
    BY <2>1 DEF Unused, IInv, NobodyKept
  <2>3. write(u, Absent, row) \in Job /\ JobOK(write(u, Absent, row))
    BY <2>1, <2>2 DEF Job, JobOK
  <2>. QED BY <2>1, <2>3, BeginKeeps
<1>2. CASE modify_user(s)
  <2>1. PICK u \in editable_user : \E row \in UserRow : Begin(s, write(u, users[u], row))
    BY <1>2 DEF modify_user, Edited
  <2>2. PICK row \in UserRow : Begin(s, write(u, users[u], row))
    BY <2>1
  <2>3. /\ u \in Users /\ u # nobody /\ users[u] # Absent
        /\ users[u] \in UserRow
    BY DEF editable_user, IInv, NobodyKept, TypeOK
  <2>4. write(u, users[u], row) \in Job /\ JobOK(write(u, users[u], row))
    BY <2>2, <2>3 DEF Job, JobOK
  <2>. QED BY <2>2, <2>4, BeginKeeps
<1>. QED BY <1>1, <1>2

LEMMA GroupFormsKeep ==
  ASSUME IInv, NEW s \in Slots, create_group(s) \/ modify_group(s)
  PROVE  IInv'
<1>. DEFINE write(g, was, row) == [do |-> "group", id |-> g, was |-> was, row |-> row]
<1>1. CASE create_group(s)
  <2>1. PICK g \in Groups, row \in GroupRow :
          ~group_refused(g, row) /\ Begin(s, write(g, Absent, row))
    BY <1>1 DEF create_group, Edited
  <2>2. write(g, Absent, row) \in Job /\ JobOK(write(g, Absent, row))
    BY <2>1 DEF Job, JobOK, group_refused
  <2>. QED BY <2>1, <2>2, BeginKeeps
<1>2. CASE modify_group(s)
  <2>1. PICK g \in Groups, row \in GroupRow :
          groups[g] # Absent /\ ~group_refused(g, row) /\ Begin(s, write(g, groups[g], row))
    BY <1>2 DEF modify_group, Edited
  <2>2. groups[g] \in GroupRow
    BY <2>1 DEF IInv, TypeOK
  <2>3. write(g, groups[g], row) \in Job /\ JobOK(write(g, groups[g], row))
    BY <2>1, <2>2 DEF Job, JobOK, group_refused
  <2>. QED BY <2>1, <2>3, BeginKeeps
<1>. QED BY <1>1, <1>2

LEMMA ChangeMembersKeeps ==
  ASSUME IInv, NEW s \in Slots, change_members(s)
  PROVE  IInv'
<1>. DEFINE write(g, u) == [do |-> IF <<g, u>> \in members THEN "leave" ELSE "join",
                            group |-> g, user |-> u]
<1>1. PICK g \in Groups, u \in addable_user : Begin(s, write(g, u))
  BY DEF change_members
<1>2. u \in Users /\ u # nobody
  BY DEF addable_user, IInv, NobodyKept
<1>3. write(g, u) \in Job /\ JobOK(write(g, u)) /\ write(g, u).do # "rights"
  BY <1>2 DEF Job, JobOK
<1>. HIDE DEF write
<1>. QED BY <1>1, <1>3, BeginKeeps

----------------------------------------------------------------------------
(* The invariant: what a write does *)

\* Merging two rows column by column gives a row.
LEMMA MergedUser ==
  ASSUME NEW now \in UserRow \cup {Absent}, NEW was \in UserRow \cup {Absent},
         NEW row \in UserRow, was # Absent => now # Absent
  PROVE  Merged(now, was, row) \in UserRow
<1>1. CASE was = Absent
  BY <1>1 DEF Merged
<1>2. CASE was # Absent
  <2>1. now \in UserRow /\ was \in UserRow
    BY <1>2
  <2>2. DOMAIN row = {"name", "privileged", "disabled"}
    BY DEF UserRow
  <2>. DEFINE m == Merged(now, was, row)
  <2>3. m = [c \in {"name", "privileged", "disabled"} |->
               IF row[c] # was[c] THEN row[c] ELSE now[c]]
    BY <1>2, <2>2 DEF Merged
  <2>4. m.name \in Names /\ m.privileged \in BOOLEAN /\ m.disabled \in BOOLEAN
    BY <2>1, <2>3 DEF UserRow
  <2>5. m = [name |-> m.name, privileged |-> m.privileged, disabled |-> m.disabled]
    BY <2>3
  <2>. QED BY <2>4, <2>5 DEF UserRow
<1>. QED BY <1>1, <1>2

LEMMA MergedGroup ==
  ASSUME NEW now \in GroupRow \cup {Absent}, NEW was \in GroupRow \cup {Absent},
         NEW row \in GroupRow, was # Absent => now # Absent
  PROVE  /\ Merged(now, was, row) \in GroupRow
         /\ Merged(now, was, row).name \in {row.name, now.name}
         /\ was = Absent => Merged(now, was, row) = row
<1>1. CASE was = Absent
  BY <1>1 DEF Merged
<1>2. CASE was # Absent
  <2>1. now \in GroupRow /\ was \in GroupRow
    BY <1>2
  <2>2. DOMAIN row = {"name", "disabled"}
    BY DEF GroupRow
  <2>. DEFINE m == Merged(now, was, row)
  <2>3. m = [c \in {"name", "disabled"} |->
               IF row[c] # was[c] THEN row[c] ELSE now[c]]
    BY <1>2, <2>2 DEF Merged
  <2>4. m.name \in Names /\ m.disabled \in BOOLEAN /\ m.name \in {row.name, now.name}
    BY <2>1, <2>3 DEF GroupRow
  <2>5. m = [name |-> m.name, disabled |-> m.disabled]
    BY <2>3
  <2>. QED BY <1>2, <2>4, <2>5 DEF GroupRow
<1>. QED BY <1>1, <1>2

LEMMA CommitRightsKeeps ==
  ASSUME IInv, NEW s \in Slots, commit_rights(s)
  PROVE  IInv'
<1>1. /\ rights' = (rights \ job[s].remove) \cup job[s].add
      /\ users' = users /\ groups' = groups /\ members' = members
      /\ Done(s) /\ job[s] # None /\ job[s].do = "rights"
  BY DEF commit_rights
<1>2. job[s] \in Job /\ JobOK(job[s])
  BY <1>1 DEF IInv, TypeOK, JobsOK
<1>3. job[s].add \subseteq Grant
  BY <1>1, <1>2 DEF Job
<1>4. \A g \in rights' : MakesSense(g, users, groups)
  BY <1>1, <1>2 DEF JobOK, IInv, TablesConsistent
<1>. QED BY <1>1, <1>3, <1>4, DoneKeepsJobs DEF IInv, TypeOK, TablesConsistent

LEMMA CommitUserKeeps ==
  ASSUME IInv, NEW s \in Slots, commit_user(s)
  PROVE  IInv'
<1>. DEFINE u == job[s].id
            row == Merged(users[u], job[s].was, job[s].row)
<1>1. /\ users' = [users EXCEPT ![u] = row]
      /\ \A v \in Users \ {u} : users[v] # Absent => users[v].name # row.name
      /\ groups' = groups /\ members' = members /\ rights' = rights
      /\ Done(s) /\ job[s] # None /\ job[s].do = "user"
  BY DEF commit_user
<1>2. job[s] \in Job /\ JobOK(job[s])
  BY <1>1 DEF IInv, TypeOK, JobsOK
<1>3. /\ u \in Users /\ job[s].was \in UserRow \cup {Absent} /\ job[s].row \in UserRow
      /\ u # nobody /\ (job[s].was # Absent => users[u] # Absent)
  BY <1>1, <1>2 DEF Job, JobOK
<1>4. users \in [Users -> UserRow \cup {Absent}]
  BY DEF IInv, TypeOK
<1>5. row \in UserRow /\ row # Absent
  BY <1>3, <1>4, MergedUser
<1>. HIDE DEF u, row
<1>6. /\ users' \in [Users -> UserRow \cup {Absent}]
      /\ users'[u] = row /\ \A v \in Users \ {u} : users'[v] = users[v]
  BY <1>1, <1>3, <1>4, <1>5
<1>7. \A v \in Users : users[v] # Absent => users'[v] # Absent
  BY <1>5, <1>6
<1>8. NamesDiffer(users')
  <2>1. SUFFICES ASSUME NEW i \in Users, NEW j \in Users, i # j,
                        users'[i] # Absent, users'[j] # Absent
                 PROVE  users'[i].name # users'[j].name
    BY <1>6 DEF NamesDiffer
  <2>2. users[i] # Absent /\ users[j] # Absent => users[i].name # users[j].name
    BY <1>4, <2>1 DEF IInv, TablesConsistent, NamesDiffer
  <2>. QED BY <1>1, <1>6, <2>1, <2>2
<1>9. \A g \in rights : MakesSense(g, users', groups')
  <2>1. \A h \in Groups : groups[h] # Absent => groups'[h] # Absent
    BY <1>1
  <2>2. SUFFICES ASSUME NEW g \in rights PROVE MakesSense(g, users', groups')
    OBVIOUS
  <2>3. g \in Grant /\ MakesSense(g, users, groups)
    BY DEF IInv, TypeOK, TablesConsistent
  <2>. QED BY <1>7, <2>1, <2>3, SenseStays
<1>10. NobodyKept(users')
  BY <1>3, <1>6 DEF IInv, NobodyKept
<1>11. TypeOK'
  BY <1>1, <1>6, <1>7, DoneKeepsJobs DEF IInv, TypeOK
<1>12. JobsOK'
  BY <1>1, <1>7, DoneKeepsJobs
<1>. QED BY <1>1, <1>8, <1>9, <1>10, <1>11, <1>12 DEF IInv, TablesConsistent

LEMMA CommitGroupKeeps ==
  ASSUME IInv, NEW s \in Slots, commit_group(s)
  PROVE  IInv'
<1>. DEFINE h == job[s].id
            row == Merged(groups[h], job[s].was, job[s].row)
<1>1. /\ groups' = [groups EXCEPT ![h] = row]
      /\ \A i \in Groups \ {h} : groups[i] # Absent => groups[i].name # row.name
      /\ users' = users /\ members' = members /\ rights' = rights
      /\ Done(s) /\ job[s] # None /\ job[s].do = "group"
  BY DEF commit_group
<1>2. job[s] \in Job /\ JobOK(job[s])
  BY <1>1 DEF IInv, TypeOK, JobsOK
<1>3. /\ h \in Groups /\ job[s].was \in GroupRow \cup {Absent} /\ job[s].row \in GroupRow
      /\ job[s].row.name \notin BuiltIns /\ (job[s].was # Absent => groups[h] # Absent)
  BY <1>1, <1>2 DEF Job, JobOK
<1>4. groups \in [Groups -> GroupRow \cup {Absent}]
  BY DEF IInv, TypeOK
<1>5. /\ row \in GroupRow /\ row # Absent
      /\ row.name \in {job[s].row.name, groups[h].name}
      /\ job[s].was = Absent => row = job[s].row
  BY <1>3, <1>4, MergedGroup
<1>6. row.name \notin BuiltIns
  BY <1>3, <1>5 DEF IInv, TablesConsistent
<1>. HIDE DEF h, row
<1>7. /\ groups' \in [Groups -> GroupRow \cup {Absent}]
      /\ groups'[h] = row /\ \A i \in Groups \ {h} : groups'[i] = groups[i]
  BY <1>1, <1>3, <1>4, <1>5
<1>8. \A i \in Groups : groups[i] # Absent => groups'[i] # Absent
  BY <1>5, <1>7
<1>9. NamesDiffer(groups')
  <2>1. SUFFICES ASSUME NEW i \in Groups, NEW j \in Groups, i # j,
                        groups'[i] # Absent, groups'[j] # Absent
                 PROVE  groups'[i].name # groups'[j].name
    BY <1>7 DEF NamesDiffer
  <2>2. groups[i] # Absent /\ groups[j] # Absent => groups[i].name # groups[j].name
    BY <1>4, <2>1 DEF IInv, TablesConsistent, NamesDiffer
  <2>. QED BY <1>1, <1>7, <2>1, <2>2
<1>10. \A i \in Groups : groups'[i] # Absent => groups'[i].name \notin BuiltIns
  BY <1>6, <1>7 DEF IInv, TablesConsistent
<1>11. \A g \in rights : MakesSense(g, users', groups')
  <2>1. \A v \in Users : users[v] # Absent => users'[v] # Absent
    BY <1>1
  <2>2. SUFFICES ASSUME NEW g \in rights PROVE MakesSense(g, users', groups')
    OBVIOUS
  <2>3. g \in Grant /\ MakesSense(g, users, groups)
    BY DEF IInv, TypeOK, TablesConsistent
  <2>. QED BY <1>8, <2>1, <2>3, SenseStays
<1>12. TypeOK' /\ JobsOK'
  BY <1>1, <1>7, <1>8, DoneKeepsJobs DEF IInv, TypeOK
<1>. QED BY <1>1, <1>9, <1>10, <1>11, <1>12 DEF IInv, TablesConsistent

LEMMA CommitMembersKeeps ==
  ASSUME IInv, NEW s \in Slots, commit_members(s)
  PROVE  IInv'
<1>1. /\ job[s] # None /\ job[s].do \in {"join", "leave"} /\ Done(s)
      /\ users' = users /\ groups' = groups /\ rights' = rights
      /\ \/ job[s].do = "join" /\ members' = members \cup {<<job[s].group, job[s].user>>}
         \/ members' = members \ {<<job[s].group, job[s].user>>}
  BY DEF commit_members
<1>2. job[s] \in Job /\ JobOK(job[s])
  BY <1>1 DEF IInv, TypeOK, JobsOK
<1>3. /\ job[s].group \in Groups /\ job[s].user \in Users
      /\ job[s].do = "join" => job[s].user # nobody
  BY <1>1, <1>2 DEF Job, JobOK
<1>4. members' \subseteq Groups \X Users
  BY <1>1, <1>3 DEF IInv, TypeOK
<1>5. \A g \in Groups : <<g, nobody>> \notin members'
  BY <1>1, <1>3 DEF IInv
<1>. QED BY <1>1, <1>4, <1>5, DoneKeepsJobs DEF IInv, TypeOK, TablesConsistent

LEMMA RollBackKeeps ==
  ASSUME IInv, NEW s \in Slots, roll_back(s)
  PROVE  IInv'
BY DoneKeepsJobs DEF roll_back, IInv, TypeOK, TablesConsistent

\* From the seed on, whatever requests come and however they interleave:
\* every column keeps its type, the tables stay consistent, Nobody is kept as
\* the seed wrote it, and what is in hand is what its snapshot allowed.
THEOREM Invariant == Spec => []IInv
<1>1. Init => IInv
  BY StartOK DEF Init, IInv, TypeOK, JobsOK, TablesConsistent
<1>2. IInv /\ [Next]_vars => IInv'
  <2>1. SUFFICES ASSUME IInv, [Next]_vars PROVE IInv'
    OBVIOUS
  <2>2. CASE UNCHANGED vars
    BY <2>1, <2>2 DEF vars, IInv, TypeOK, JobsOK, JobOK, TablesConsistent
  <2>3. CASE Next
    <3>1. PICK s \in Slots :
            \/ open_page(s) \/ save_rights(s)
            \/ create_user(s) \/ modify_user(s) \/ create_group(s) \/ modify_group(s)
            \/ change_members(s)
            \/ commit_rights(s) \/ commit_user(s) \/ commit_group(s) \/ commit_members(s)
            \/ roll_back(s)
      BY <2>3 DEF Next
    <3>. QED BY <2>1, <3>1, OpenKeeps, SaveRightsKeeps, UserFormsKeep, GroupFormsKeep,
                ChangeMembersKeeps, CommitRightsKeeps, CommitUserKeeps, CommitGroupKeeps,
                CommitMembersKeeps, RollBackKeeps
  <2>. QED BY <2>1, <2>2, <2>3
<1>. QED BY <1>1, <1>2, PTL DEF Spec

----------------------------------------------------------------------------
(* What follows *)

\* Every column, page and write in hand has its type.
THEOREM TypeCorrect == Spec => []TypeOK
<1>1. IInv => TypeOK
  BY DEF IInv
<1>. QED BY <1>1, Invariant, PTL

\* No two rows share a name and no grant is about a row or a right that is not
\* there, although what decides and what writes are two steps.
THEOREM TablesStayConsistent == Spec => []TablesConsistent
<1>1. IInv => TablesConsistent
  BY DEF IInv
<1>. QED BY <1>1, Invariant, PTL

\* Nobody is in no group and holds no right, on any ticket.
THEOREM NobodyNeverHolds == Spec => []NobodyHoldsNothing
<1>1. ASSUME IInv PROVE NobodyHoldsNothing
  <2>1. principals(nobody) = {}
    BY <1>1 DEF IInv, NobodyKept, principals
  <2>2. ticket_principals(nobody, ROLE_GROUPS) = {}
    BY <2>1 DEF ticket_principals
  <2>. QED BY <1>1, <2>2 DEF NobodyHoldsNothing, has_right, IInv
<1>. QED BY <1>1, Invariant, PTL

\* What an enabled user acts as.
LEMMA PrincipalsAre ==
  ASSUME TypeOK, NEW u \in Enabled
  PROVE  /\ <<"user", u>> \in principals(u)
         /\ "Everyone" \in BuiltIns => <<"group", "Everyone">> \in principals(u)
         /\ users[u].privileged /\ "Privileged" \in BuiltIns
              => <<"group", "Privileged">> \in principals(u)
         /\ ~users[u].privileged /\ "Unprivileged" \in BuiltIns
              => <<"group", "Unprivileged">> \in principals(u)
         /\ \A h \in Groups : groups[h] # Absent /\ ~groups[h].disabled /\ <<h, u>> \in members
              => <<"group", h>> \in principals(u)
         /\ \A p \in principals(u) :
              \/ p = <<"user", u>>
              \/ \E b \in BuiltIns : p = <<"group", b>>
              \/ \E h \in Groups : groups[h] # Absent /\ ~groups[h].disabled /\ p = <<"group", h>>
<1>1. u \in Users /\ users[u] # Absent /\ ~users[u].disabled
  BY DEF Enabled
<1>. DEFINE flag == IF users[u].privileged THEN "Privileged" ELSE "Unprivileged"
            mine == {h \in Groups : groups[h] # Absent /\ ~groups[h].disabled /\ <<h, u>> \in members}
            held == (BuiltIns \cap {"Everyone", flag}) \cup mine
<1>2. principals(u) = {<<"user", u>>} \cup ({"group"} \X held)
  BY <1>1 DEF principals
<1>. HIDE DEF held
<1>3. \A b : b \in held => <<"group", b>> \in principals(u)
  BY <1>2
<1>4. \A p \in principals(u) : p = <<"user", u>> \/ \E b \in held : p = <<"group", b>>
  BY <1>2
<1>. QED BY <1>2, <1>3, <1>4 DEF held

\* A grant is on a page exactly when the page has a row for its principal.
LEMMA TickedAre ==
  ASSUME IInv, NEW kind \in {"user", "group"}, NEW o \in Objects, NEW g \in rights
  PROVE  g \in sections(kind, o).checked
           <=> g.object = o /\ \E p \in principal_rows(kind) : p.who = g.who
<1>. DEFINE pg == sections(kind, o)
<1>1. pg.rows = principal_rows(kind) /\ pg.object = o /\ pg.checked = rights \cap Offered(pg)
  BY SectionsTyped DEF IInv
<1>2. g \in Grant /\ g.right \in rights_offered(g.object)
  BY DEF IInv, TypeOK, TablesConsistent, MakesSense
<1>3. g = [who |-> g.who, right |-> g.right, object |-> g.object]
  BY <1>2 DEF Grant
<1>. HIDE DEF pg
<1>4. g \in Offered(pg) <=> g.object = o /\ \E p \in principal_rows(kind) : p.who = g.who
  BY <1>1, <1>2, <1>3 DEF Offered
<1>. QED BY <1>1, <1>4 DEF pg

\* Whatever renames, disablings and memberships went before, a ticked box of a
\* page rendered now is a right its row's people have.
THEOREM PromisesKept == Spec => []PagesKeepTheirPromise
<1>1. ASSUME IInv PROVE PagesKeepTheirPromise
  <2>1. SUFFICES ASSUME NEW kind \in {"user", "group"}, NEW o \in Objects,
                        NEW g \in sections(kind, o).checked,
                        NEW u \in Enabled, NEW roles \in SUBSET {"Owner", "Requestor"},
                        Meant(u, roles, g.who)
                 PROVE  has_right(ticket_principals(u, roles), g.right, o)
    BY DEF PagesKeepTheirPromise
  <2>2. g \in rights
    BY <1>1, SectionsTyped DEF IInv
  <2>3. PICK p \in principal_rows(kind) : p.who = g.who /\ g.object = o
    BY <1>1, <2>2, TickedAre
  <2>4. TypeOK
    BY <1>1 DEF IInv
  <2>5. principals(u) # {} /\ principals(u) \subseteq ticket_principals(u, roles)
    BY <2>4, PrincipalsAre DEF ticket_principals
  <2>6. g.who \in ticket_principals(u, roles)
    <3>1. CASE kind = "user"
      <4>1. g.who = <<"user", u>>
        BY <2>1, <2>3, <3>1 DEF principal_rows, Meant
      <4>. QED BY <2>4, <2>5, <4>1, PrincipalsAre
    <3>2. CASE kind = "group"
      <4>1. \/ \E b \in BuiltIns : g.who = <<"group", b>>
            \/ \E h \in Groups : /\ groups[h] # Absent /\ ~groups[h].disabled
                                 /\ g.who = <<"group", h>>
        BY <2>3, <3>2 DEF principal_rows, GroupRows
      <4>2. ASSUME NEW b \in BuiltIns, g.who = <<"group", b>>
            PROVE  g.who \in ticket_principals(u, roles)
        <5>1. b \notin Groups /\ g.who[1] = "group" /\ g.who[2] = b
          BY <4>2
        <5>2. CASE b \in roles
          BY <2>5, <4>2, <5>2 DEF ticket_principals
        <5>3. CASE b \notin roles
          <6>1. \/ b = "Everyone"
                \/ b = "Privileged" /\ users[u].privileged
                \/ b = "Unprivileged" /\ ~users[u].privileged
            BY <2>1, <4>2, <5>1, <5>3 DEF Meant
          <6>2. <<"group", b>> \in principals(u)
            BY <2>4, <6>1, PrincipalsAre
          <6>. QED BY <2>5, <4>2, <6>2
        <5>. QED BY <5>2, <5>3
      <4>3. ASSUME NEW h \in Groups, groups[h] # Absent, ~groups[h].disabled,
                   g.who = <<"group", h>>
            PROVE  g.who \in ticket_principals(u, roles)
        <5>1. /\ h \notin {"Everyone", "Privileged", "Unprivileged", "Owner", "Requestor"}
              /\ g.who[1] = "group" /\ g.who[2] = h
          BY <4>3 DEF SYSTEM_GROUPS, ROLE_GROUPS
        <5>2. /\ g.who # <<"user", u>> /\ g.who # <<"group", "Everyone">>
              /\ g.who # <<"group", "Privileged">> /\ g.who # <<"group", "Unprivileged">>
          BY <5>1
        <5>3. <<g.who[2], u>> \in members
          BY <2>1, <5>1, <5>2 DEF Meant
        <5>. QED BY <2>4, <2>5, <4>3, <5>1, <5>3, PrincipalsAre
      <4>. QED BY <4>1, <4>2, <4>3
    <3>. QED BY <3>1, <3>2
  <2>. QED BY <2>2, <2>3, <2>6 DEF has_right
<1>. QED BY <1>1, Invariant, PTL

\* Every grant that is in force is on a page, except those of a user who lost
\* the privileged flag.
THEOREM HeldIsShown == Spec => []WhatIsHeldIsShown
<1>1. ASSUME IInv PROVE WhatIsHeldIsShown
  <2>. DEFINE shown == UNION {sections(kind, o).checked : kind \in {"user", "group"}, o \in Objects}
  <2>1. SUFFICES ASSUME NEW u \in Enabled, NEW g \in rights, g.who \in principals(u),
                        ~(g.who = <<"user", u>> /\ ~users[u].privileged)
                 PROVE  g \in shown
    BY DEF WhatIsHeldIsShown
  <2>2. u \in Users /\ users[u] # Absent /\ ~users[u].disabled /\ TypeOK
    BY <1>1 DEF Enabled, IInv
  <2>3. g.object \in Objects
    BY <2>2 DEF TypeOK, Grant
  <2>4. ASSUME NEW kind \in {"user", "group"}, \E p \in principal_rows(kind) : p.who = g.who
        PROVE  g \in shown
    BY <1>1, <2>3, <2>4, TickedAre
  <2>. HIDE DEF shown
  <2>5. CASE g.who = <<"user", u>>
    <3>1. users[u].name # "Nobody"
      BY <1>1, <2>2 DEF IInv, NobodyKept, TypeOK, TablesConsistent, NamesDiffer
    <3>2. u \in privileged_users
      BY <2>1, <2>2, <2>5, <3>1 DEF privileged_users
    <3>3. [who |-> <<"user", u>>, name |-> users[u].name] \in principal_rows("user")
      BY <3>2 DEF principal_rows
    <3>. QED BY <2>4, <2>5, <3>3
  <2>6. ASSUME NEW b \in BuiltIns, g.who = <<"group", b>>
        PROVE  g \in shown
    <3>1. [who |-> <<"group", b>>, name |-> b] \in principal_rows("group")
      BY DEF principal_rows
    <3>. QED BY <2>4, <2>6, <3>1
  <2>7. ASSUME NEW h \in Groups, groups[h] # Absent, ~groups[h].disabled, g.who = <<"group", h>>
        PROVE  g \in shown
    <3>1. [who |-> <<"group", h>>, name |-> groups[h].name] \in principal_rows("group")
      BY <2>7 DEF principal_rows, GroupRows
    <3>. QED BY <2>4, <2>7, <3>1
  <2>. QED BY <2>1, <2>2, <2>5, <2>6, <2>7, PrincipalsAre
<1>. QED BY <1>1, Invariant, PTL

\* Only the write of a rights page moves a grant, and it is the one of the slot
\* that ends.
LEMMA OnlyRightsMove ==
  ASSUME IInv, NEW s \in Slots, Next, job[s] # None, job'[s] = None, rights' # rights
  PROVE  commit_rights(s)
<1>1. PICK t \in Slots : commit_rights(t)
  BY DEF Next, open_page, save_rights, create_user, modify_user, create_group, modify_group,
     change_members, Begin, commit_user, commit_group, commit_members, roll_back
<1>2. t = s
  BY <1>1 DEF commit_rights, Done, IInv, TypeOK
<1>. QED BY <1>1, <1>2

\* A page that is still true when it is saved and when the save commits leaves
\* exactly its ticks, and every other grant as it was.
THEOREM SaveIsExact == Spec => SaveMakesTheBoxesTrue
<1>1. ASSUME IInv, [Next]_vars, NEW s \in Slots PROVE SavesItsBoxes(s)
  <2>. DEFINE pg == page[s]
              W == Wanted(pg, job[s].posted)
  <2>1. SUFFICES ASSUME job[s] # None, job'[s] = None, rights' # rights, job[s].fresh,
                        pg = sections(pg.kind, pg.object)
                 PROVE  rights' = (rights \ Offered(pg)) \cup W
    BY DEF SavesItsBoxes
  <2>2. commit_rights(s)
    BY <1>1, <2>1, OnlyRightsMove DEF vars
  <2>3. /\ rights' = (rights \ job[s].remove) \cup job[s].add
        /\ pg # None /\ WorkedOut(job[s], pg)
    BY <1>1, <2>1, <2>2 DEF commit_rights, IInv, JobsOK
  <2>4. pg.kind \in {"user", "group"} /\ pg.object \in Objects
    BY <1>1, <2>3 DEF IInv, TypeOK, Page
  <2>5. pg.checked = rights \cap Offered(pg)
    BY <1>1, <2>1, <2>4, SectionsTyped DEF IInv
  <2>6. W \subseteq Offered(pg)
    BY DEF Wanted
  <2>7. job[s].add = W \ pg.checked /\ job[s].remove = pg.checked \ W
    BY <2>3 DEF WorkedOut, unticked
  <2>. HIDE DEF W
  <2>. QED BY <2>3, <2>5, <2>6, <2>7
<1>2. IInv /\ [Next]_vars => \A s \in Slots : SavesItsBoxes(s)
  BY <1>1
<1>. QED BY <1>2, Invariant, PTL DEF Spec, SaveMakesTheBoxesTrue
==============================================================================
