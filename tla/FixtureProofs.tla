---------------------------- MODULE FixtureProofs ----------------------------
(***************************************************************************)
(* Proofs about Fixture, for every number of processes, every set of files *)
(* they are started with and everything the app writes meanwhile: a load   *)
(* that prints its line has written every row and ticket the line counts.  *)
(***************************************************************************)
EXTENDS Fixture, TLAPS

(* What no step takes away *)

RowsStay == \A k \in DOMAIN rows : k \in DOMAIN rows' /\ rows'[k] = rows[k]

TicketsStay == \A t \in Existing : t \in Existing' /\ tickets'[t].who = tickets[t].who

TablesOK ==
  /\ \A k \in DOMAIN rows : rows[k] \in Writers
  /\ tickets \in [1 .. MaxId -> Ticket \cup {Absent}]
  /\ next_id \in 1 .. MaxId + 1
  /\ FreshOK

\* An INSERT changes no row that is there.
LEMMA InsertStays ==
  ASSUME NEW keys, NEW who \in Writers, rows' = Inserted(keys, who),
         \A k \in DOMAIN rows : rows[k] \in Writers
  PROVE  /\ RowsStay
         /\ DOMAIN rows' = DOMAIN rows \cup keys
         /\ \A k \in DOMAIN rows' : rows'[k] \in Writers
         /\ \A k \in keys \ DOMAIN rows : rows'[k] = who
BY DEF RowsStay, Inserted, Has

\* A ticket gets the next id, or is written by somebody without being made anew.
LEMMA CreateStays ==
  ASSUME tickets \in [1 .. MaxId -> Ticket \cup {Absent}], next_id \in 1 .. MaxId + 1,
         next_id <= MaxId, FreshOK, NEW row \in Ticket,
         tickets' = [tickets EXCEPT ![next_id] = row], next_id' = next_id + 1
  PROVE  /\ TicketsStay /\ FreshOK'
         /\ tickets' \in [1 .. MaxId -> Ticket \cup {Absent}] /\ next_id' \in 1 .. MaxId + 1
         /\ next_id \in Existing' /\ tickets'[next_id] = row
<1>1. next_id \in 1 .. MaxId /\ MaxId \in Nat /\ row # Absent
  BY BoundsOK, AbsentIsNoTicket
<1>2. /\ tickets' \in [1 .. MaxId -> Ticket \cup {Absent}] /\ tickets'[next_id] = row
      /\ \A t \in 1 .. MaxId : t # next_id => tickets'[t] = tickets[t]
  BY <1>1
<1>3. next_id' \in 1 .. MaxId + 1
  BY <1>1
<1>4. \A t \in Existing : t # next_id
  BY <1>1 DEF FreshOK, Existing
<1>5. TicketsStay
  BY <1>2, <1>4 DEF TicketsStay, Existing
<1>6. FreshOK'
  BY <1>1, <1>2 DEF FreshOK, Existing
<1>. QED  BY <1>1, <1>2, <1>3, <1>5, <1>6 DEF Existing

LEMMA UpdateStays ==
  ASSUME tickets \in [1 .. MaxId -> Ticket \cup {Absent}], FreshOK,
         NEW t \in Existing, NEW row \in Ticket, row.who = tickets[t].who,
         tickets' = [tickets EXCEPT ![t] = row], next_id' = next_id
  PROVE  /\ TicketsStay /\ FreshOK'
         /\ tickets' \in [1 .. MaxId -> Ticket \cup {Absent}]
<1>1. /\ tickets' \in [1 .. MaxId -> Ticket \cup {Absent}] /\ tickets'[t] = row
      /\ \A u \in 1 .. MaxId : u # t => tickets'[u] = tickets[u]
  BY DEF Existing
<1>2. Existing' = Existing
  BY <1>1, AbsentIsNoTicket DEF Existing
<1>3. TicketsStay
  BY <1>1, <1>2 DEF TicketsStay, Existing
<1>4. FreshOK'
  BY <1>2 DEF FreshOK
<1>. QED  BY <1>1, <1>3, <1>4

(* A process and the others *)

\* What a process has behind it nobody takes away.
LEMMA OthersKeep ==
  ASSUME RowsStay, TicketsStay, command' = command,
         NEW q \in Processes, proc'[q] = proc[q],
         PlaceOK(q), RowsOwned(q), TicketsOwned(q)
  PROVE  PlaceOK(q)' /\ RowsOwned(q)' /\ TicketsOwned(q)'
<1>. PICK file : file = File(q)
  OBVIOUS
<1>1. File(q)' = file /\ (command[q].do)' = command[q].do
  BY DEF File
<1>. PICK me : me = proc[q]
  OBVIOUS
<1>. PICK units : units = Units(file)
  OBVIOUS
<1>2. PlaceOK(q)'
  BY <1>1 DEF PlaceOK, TicketsStay
<1>3. RowsOwned(q)'
  BY <1>1 DEF RowsOwned, RowsStay, Has
<1>4. TicketsOwned(q)'
  BY <1>1 DEF TicketsOwned, TicketsStay
<1>. QED  BY <1>2, <1>3, <1>4

\* A step of a process, once it is known what it leaves of the tables.
LEMMA ProcessKeeps ==
  ASSUME IInv, NEW p \in Processes, NEW me \in Process, proc' = [proc EXCEPT ![p] = me],
         TablesOK', RowsStay, TicketsStay,
         UNCHANGED <<command, foreign>>,
         PlaceOK(p)', RowsOwned(p)', TicketsOwned(p)'
  PROVE  IInv'
<1>1. TypeOK' /\ FreshOK'
  BY DEF IInv, TypeOK, TablesOK
<1>2. ASSUME NEW q \in Processes
      PROVE  PlaceOK(q)' /\ RowsOwned(q)' /\ TicketsOwned(q)'
  <2>1. CASE q = p
    BY <2>1
  <2>2. CASE q # p
    <3>1. proc'[q] = proc[q]
      BY <2>2 DEF IInv, TypeOK
    <3>. QED  BY <3>1, OthersKeep DEF IInv
  <2>. QED  BY <2>1, <2>2
<1>. QED  BY <1>1, <1>2 DEF IInv

\* What a process was started with has its shape.
LEMMA FilesHaveShape ==
  ASSUME TypeOK, NEW p \in Processes
  PROVE  /\ command[p] \in Command /\ File(p) \in Dataset
         /\ Units(File(p)) \in Seq(SUBSET Seq(STRING))
         /\ Len(Units(File(p))) \in Nat /\ DOMAIN Units(File(p)) = 1 .. Len(Units(File(p)))
         /\ File(p).tickets \in Seq(TicketSpec)
         /\ Len(File(p).tickets) \in Nat /\ DOMAIN File(p).tickets = 1 .. Len(File(p).tickets)
<1>1. command \in Commands /\ command \in [Processes -> Command]
  BY CommandsOK DEF TypeOK
<1>2. command[p] \in Command
  BY <1>1
<1>3. File(p) \in Dataset
  BY <1>2 DEF File, Command
<1>4. File(p).tickets \in Seq(TicketSpec)
  BY <1>3 DEF Dataset
<1>5. Units(File(p)) \in Seq(SUBSET Seq(STRING))
  BY <1>1, UnitsOK DEF File
<1>. PICK units : units = Units(File(p))
  OBVIOUS
<1>6. Len(units) \in Nat /\ DOMAIN units = 1 .. Len(units)
  BY <1>5
<1>. QED  BY <1>2, <1>3, <1>4, <1>5, <1>6

\* A process that ends.
LEMMA EndKeeps ==
  ASSUME IInv, NEW p \in Processes, NEW out \in Outcomes, End(p, out),
         out = "line" => proc[p].at = "verify",
         TablesOK', RowsStay, TicketsStay,
         UNCHANGED <<command, foreign>>
  PROVE  IInv'
<1>. DEFINE me == [proc[p] EXCEPT !.out = out]
<1>1. proc \in [Processes -> Process] /\ proc[p] \in Process
  BY DEF IInv, TypeOK
<1>2. me \in Process /\ proc' = [proc EXCEPT ![p] = me] /\ proc'[p] = me
  BY <1>1 DEF End, Process
<1>3. /\ me.at = proc[p].at /\ me.unit = proc[p].unit /\ me.number = proc[p].number
      /\ me.step = proc[p].step /\ me.ticket = proc[p].ticket /\ me.id = proc[p].id
      /\ me.out = out
  BY <1>1 DEF Process
<1>. HIDE DEF me
<1>. PICK file : file = File(p)
  OBVIOUS
<1>4. File(p)' = file /\ (command[p].do)' = command[p].do
  BY DEF File
<1>5. PlaceOK(p) /\ RowsOwned(p) /\ TicketsOwned(p)
  BY DEF IInv
<1>6. PlaceOK(p)'
  BY <1>2, <1>3, <1>4, <1>5 DEF PlaceOK, TicketsStay
<1>7. RowsOwned(p)'
  BY <1>2, <1>3, <1>4, <1>5 DEF RowsOwned, RowsStay, Has
<1>8. TicketsOwned(p)'
  BY <1>2, <1>3, <1>4, <1>5 DEF TicketsOwned, TicketsStay
<1>. QED  BY <1>2, <1>6, <1>7, <1>8, ProcessKeeps

\* Where a process may go from its first places.
Early(p, place) ==
  /\ proc[p].at \in {"start", "seed", "guard"} /\ proc[p].out = "" /\ place \in Places
  /\ command[p].do # "seed" => parse(File(p))
  /\ \/ place = "seed" /\ command[p].do # "check"
     \/ place = "guard" /\ command[p].do = "load"
     \/ place = "verify" /\ command[p].do = "check"
     \/ place = AfterUnit(p, 0) /\ command[p].do = "load"

\* A process that goes somewhere before it has written anything of its file.
LEMMA GoKeeps ==
  ASSUME IInv, NEW p \in Processes, NEW place, Go(p, place), Early(p, place),
         TablesOK', RowsStay, UNCHANGED <<tickets, next_id, command, foreign>>
  PROVE  IInv'
<1>. DEFINE me == [proc[p] EXCEPT !.at = place]
<1>1. proc \in [Processes -> Process] /\ proc[p] \in Process /\ TypeOK
  BY DEF IInv, TypeOK
<1>2. me \in Process /\ proc' = [proc EXCEPT ![p] = me] /\ proc'[p] = me
  BY <1>1 DEF Go, Process, Early
<1>3. PlaceOK(p) /\ proc[p].unit = 1 /\ proc[p].number = 1
  BY DEF IInv, PlaceOK, Early
<1>4. me.at = place /\ me.unit = 1 /\ me.number = 1 /\ me.out = ""
  BY <1>1, <1>3 DEF Process, Early
<1>. HIDE DEF me
<1>. PICK file : file = File(p)
  OBVIOUS
<1>. PICK units : units = Units(file)
  OBVIOUS
<1>5. File(p)' = file /\ Units(File(p))' = units /\ (command[p].do)' = command[p].do
  BY DEF File
<1>6. /\ Len(units) \in Nat /\ DOMAIN units = 1 .. Len(units)
      /\ file.tickets \in Seq(TicketSpec)
      /\ Len(file.tickets) \in Nat /\ DOMAIN file.tickets = 1 .. Len(file.tickets)
  BY <1>1, FilesHaveShape
<1>7. command[p].do = "load" /\ place = AfterUnit(p, 0) =>
        \/ place = "write" /\ 1 \in DOMAIN units
        \/ place = "create" /\ 1 \in DOMAIN file.tickets /\ Len(units) = 0
        \/ place = "verify" /\ Len(file.tickets) = 0 /\ Len(units) = 0
  <2>1. AfterUnit(p, 0) = IF 0 < Len(units) THEN "write"
                          ELSE IF file.tickets # <<>> THEN "create" ELSE "verify"
    BY DEF AfterUnit
  <2>2. file.tickets # <<>> => Len(file.tickets) # 0
    BY <1>6
  <2>. HIDE DEF AfterUnit
  <2>. QED  BY <1>6, <2>1, <2>2
<1>8. /\ proc'[p].unit = 1 /\ proc'[p].number = 1 /\ proc'[p].at = place
      /\ proc'[p].out = ""
  BY <1>2, <1>4
<1>9. PlaceOK(p)'
  <2>1. command'[p].do = command[p].do /\ (command[p].do # "seed" => parse(file))
    BY <1>5 DEF Early
  <2>2. CASE place = "seed" /\ command[p].do # "check"
    BY <1>5, <1>8, <2>1, <2>2 DEF PlaceOK
  <2>3. CASE place = "guard" /\ command[p].do = "load"
    BY <1>5, <1>8, <2>1, <2>3 DEF PlaceOK
  <2>4. CASE place = "verify" /\ command[p].do = "check"
    BY <1>5, <1>8, <2>1, <2>4 DEF PlaceOK
  <2>5. CASE command[p].do = "load" /\ place = "write" /\ 1 \in DOMAIN units
    BY <1>5, <1>8, <2>1, <2>5 DEF PlaceOK
  <2>6. CASE /\ command[p].do = "load" /\ place = "create"
             /\ 1 \in DOMAIN file.tickets /\ Len(units) = 0
    <3>1. proc'[p].unit > Len(Units(File(p)))'
      <4>1. 1 > Len(units)
        BY <2>6
      <4>. QED  BY <1>5, <1>8, <4>1
    <3>2. proc'[p].number \in DOMAIN (File(p).tickets)'
      BY <1>5, <1>8, <2>6
    <3>. QED  BY <1>5, <1>8, <2>1, <2>6, <3>1, <3>2 DEF PlaceOK
  <2>7. CASE /\ command[p].do = "load" /\ place = "verify"
             /\ Len(file.tickets) = 0 /\ Len(units) = 0
    <3>1. proc'[p].unit > Len(Units(File(p)))' /\ proc'[p].number > Len(File(p).tickets)'
      <4>1. 1 > Len(units) /\ 1 > Len(file.tickets)
        BY <2>7
      <4>. QED  BY <1>5, <1>8, <4>1
    <3>. QED  BY <1>5, <1>8, <2>1, <2>7, <3>1 DEF PlaceOK
  <2>. QED  BY <1>7, <2>2, <2>3, <2>4, <2>5, <2>6, <2>7 DEF Early
<1>10. RowsOwned(p)'
  <2>1. \A j \in DOMAIN units : ~(j < 1)
    BY <1>6
  <2>2. \A j \in DOMAIN Units(File(p))' : ~(j < proc'[p].unit)
    BY <1>5, <1>8, <2>1
  <2>. QED  BY <2>2 DEF RowsOwned
<1>11. TicketsOwned(p)'
  <2>1. \A t \in DOMAIN file.tickets : ~(t < 1)
    BY <1>6
  <2>2. \A t \in DOMAIN File(p)'.tickets : ~(t < proc'[p].number)
    BY <1>5, <1>8, <2>1
  <2>. QED  BY <2>2 DEF TicketsOwned
<1>12. TicketsStay
  BY DEF TicketsStay, Existing
<1>. QED  BY <1>2, <1>9, <1>10, <1>11, <1>12, ProcessKeeps

(* One lemma per action *)

\* Nothing is written.
LEMMA NothingStays ==
  ASSUME IInv, UNCHANGED database
  PROVE  TablesOK' /\ RowsStay /\ TicketsStay
BY DEF database, IInv, TypeOK, TablesOK, FreshOK, Existing, RowsStay, TicketsStay

\* Rows are inserted and no ticket is.
LEMMA RowsInserted ==
  ASSUME IInv, NEW keys, NEW who \in Writers, rows' = Inserted(keys, who),
         UNCHANGED <<tickets, next_id>>
  PROVE  /\ TablesOK' /\ RowsStay /\ TicketsStay
         /\ DOMAIN rows' = DOMAIN rows \cup keys
         /\ \A k \in keys \ DOMAIN rows : rows'[k] = who
<1>1. \A k \in DOMAIN rows : rows[k] \in Writers
  BY DEF IInv, TypeOK
<1>2. /\ RowsStay /\ DOMAIN rows' = DOMAIN rows \cup keys
      /\ \A k \in DOMAIN rows' : rows'[k] \in Writers
      /\ \A k \in keys \ DOMAIN rows : rows'[k] = who
  BY <1>1, InsertStays
<1>3. FreshOK' /\ TicketsStay
  BY DEF IInv, FreshOK, Existing, TicketsStay
<1>4. tickets' \in [1 .. MaxId -> Ticket \cup {Absent}] /\ next_id' \in 1 .. MaxId + 1
  BY DEF IInv, TypeOK
<1>. QED  BY <1>2, <1>3, <1>4 DEF TablesOK

LEMMA startKeeps ==
  ASSUME IInv, NEW p \in Processes, start(p)
  PROVE  IInv'
<1>1. /\ TablesOK' /\ RowsStay /\ TicketsStay
      /\ UNCHANGED <<tickets, next_id, command, foreign>>
      /\ proc[p].at = "start" /\ proc[p].out = ""
  BY NothingStays DEF start, At, database
<1>2. command[p].do \in {"seed", "load", "check"}
  BY FilesHaveShape DEF IInv, Command
<1>3. \/ End(p, "schema") \/ End(p, "seeded")
      \/ \E place : Go(p, place) /\ Early(p, place)
  BY <1>1, <1>2 DEF start, Seeded, Early, Places
<1>4. ASSUME NEW out \in {"schema", "seeded"}, End(p, out)
      PROVE  IInv'
  BY <1>1, <1>4, EndKeeps DEF Outcomes
<1>. QED  BY <1>1, <1>3, <1>4, GoKeeps

\* A process that is past its start has a file that parses.
LEMMA PastTheStart ==
  ASSUME IInv, NEW p \in Processes, proc[p].at \notin {"start", "seed"}
  PROVE  parse(File(p)) /\ command[p].do # "seed"
<1>1. proc[p].at \in Places
  BY DEF IInv, TypeOK, Process
<1>. QED  BY <1>1 DEF IInv, PlaceOK, Places

LEMMA seedKeeps ==
  ASSUME IInv, NEW p \in Processes, seed(p)
  PROVE  IInv'
<1>1. /\ UNCHANGED <<tickets, next_id, command, foreign>>
      /\ proc[p].at = "seed" /\ proc[p].out = ""
      /\ \/ End(p, "failed") /\ UNCHANGED rows
         \/ rows' = Inserted(SEED, p) /\ Seeded(p)
  BY DEF seed, At
<1>2. /\ command[p].do \in {"seed", "load", "check"} /\ command[p].do # "check"
      /\ command[p].do # "seed" => parse(File(p))
  BY <1>1, FilesHaveShape DEF IInv, PlaceOK, Command
<1>3. TablesOK' /\ RowsStay /\ TicketsStay
  BY <1>1, NothingStays, RowsInserted DEF Writers, database
<1>4. \/ End(p, "failed") \/ End(p, "seeded")
      \/ Go(p, "guard") /\ Early(p, "guard")
  BY <1>1, <1>2 DEF Seeded, Early, Places
<1>5. ASSUME NEW out \in {"failed", "seeded"}, End(p, out)
      PROVE  IInv'
  BY <1>1, <1>3, <1>5, EndKeeps DEF Outcomes
<1>. QED  BY <1>1, <1>3, <1>4, <1>5, GoKeeps

LEMMA guardKeeps ==
  ASSUME IInv, NEW p \in Processes, guard(p)
  PROVE  IInv'
<1>1. /\ TablesOK' /\ RowsStay /\ TicketsStay
      /\ UNCHANGED <<tickets, next_id, command, foreign>>
      /\ proc[p].at = "guard" /\ proc[p].out = ""
      /\ Go(p, AfterUnit(p, 0)) \/ End(p, "refused")
  BY NothingStays DEF guard, At, database
<1>2. /\ AfterUnit(p, 0) \in Places
      /\ command[p].do = "load" /\ parse(File(p))
  BY <1>1, PastTheStart DEF IInv, PlaceOK, AfterUnit, Places
<1>3. Early(p, AfterUnit(p, 0))
  BY <1>1, <1>2 DEF Early
<1>4. CASE End(p, "refused")
  BY <1>1, <1>4, EndKeeps DEF Outcomes
<1>. QED  BY <1>1, <1>3, <1>4, GoKeeps

LEMMA verifyKeeps ==
  ASSUME IInv, NEW p \in Processes, verify(p)
  PROVE  IInv'
<1>1. /\ TablesOK' /\ RowsStay /\ TicketsStay
      /\ UNCHANGED <<command, foreign>> /\ proc[p].at = "verify"
      /\ \E out \in {"line", "absent"} : End(p, out)
  BY NothingStays DEF verify, At
<1>. QED  BY <1>1, EndKeeps DEF Outcomes

\* A process that dies, an id lost with it at the most.
LEMMA failKeeps ==
  ASSUME IInv, NEW p \in Processes, fail(p)
  PROVE  IInv'
<1>1. /\ End(p, "failed") /\ UNCHANGED <<rows, tickets, command, foreign>>
      /\ next_id' = next_id \/ (next_id <= MaxId /\ next_id' = next_id + 1)
  BY DEF fail
<1>2. next_id \in 1 .. MaxId + 1 /\ MaxId \in Nat
  BY BoundsOK DEF IInv, TypeOK
<1>3. next_id' \in 1 .. MaxId + 1 /\ next_id <= next_id'
  BY <1>1, <1>2
<1>4. Existing' = Existing /\ Existing \subseteq 1 .. MaxId
  BY <1>1 DEF Existing
<1>5. FreshOK'
  BY <1>2, <1>3, <1>4 DEF IInv, FreshOK
<1>6. TablesOK' /\ RowsStay /\ TicketsStay
  BY <1>1, <1>3, <1>4, <1>5 DEF IInv, TypeOK, TablesOK, RowsStay, TicketsStay
<1>. QED  BY <1>1, <1>6, EndKeeps DEF Outcomes

\* A unit that is written is its process's, but for the grants.
LEMMA writeKeeps ==
  ASSUME IInv, NEW p \in Processes, write(p)
  PROVE  IInv'
<1>. PICK file : file = File(p)
  OBVIOUS
<1>. PICK units : units = Units(file)
  OBVIOUS
<1>. PICK u : u = proc[p].unit
  OBVIOUS
<1>1. /\ UNCHANGED <<tickets, next_id, command, foreign>>
      /\ proc[p].at = "write" /\ proc[p].out = ""
      /\ rows' = Inserted(units[u], p)
      /\ \/ End(p, "partly")
         \/ /\ \A k \in units[u] : k[1] # "rights" => ~Has(k)
            /\ proc' = [proc EXCEPT ![p].unit = u + 1, ![p].at = AfterUnit(p, u)]
  BY DEF write, At
<1>2. CASE End(p, "partly")
  <2>1. TablesOK' /\ RowsStay /\ TicketsStay
    <3>1. p \in Writers /\ UNCHANGED <<tickets, next_id>>
      BY <1>1 DEF Writers
    <3>. QED  BY <1>1, <3>1, RowsInserted
  <2>. QED  BY <1>1, <1>2, <2>1, EndKeeps DEF Outcomes
<1>3. CASE /\ \A k \in units[u] : k[1] # "rights" => ~Has(k)
           /\ proc' = [proc EXCEPT ![p].unit = u + 1, ![p].at = AfterUnit(p, u)]
  <2>. DEFINE place == AfterUnit(p, u)
              me == [proc[p] EXCEPT !.unit = u + 1, !.at = place]
  <2>1. TypeOK /\ proc \in [Processes -> Process] /\ proc[p] \in Process /\ u \in Nat
    BY DEF IInv, TypeOK, Process
  <2>2. /\ Len(units) \in Nat /\ DOMAIN units = 1 .. Len(units)
        /\ file.tickets \in Seq(TicketSpec)
        /\ Len(file.tickets) \in Nat /\ DOMAIN file.tickets = 1 .. Len(file.tickets)
    BY <2>1, FilesHaveShape
  <2>3. /\ PlaceOK(p) /\ RowsOwned(p) /\ u \in DOMAIN units /\ proc[p].number = 1
        /\ command[p].do = "load" /\ parse(file)
    BY <1>1 DEF IInv, PlaceOK
  <2>4. \/ place = "write" /\ u + 1 \in DOMAIN units
        \/ place = "create" /\ 1 \in DOMAIN file.tickets /\ u + 1 > Len(units)
        \/ place = "verify" /\ Len(file.tickets) = 0 /\ u + 1 > Len(units)
    <3>1. place = IF u < Len(units) THEN "write"
                  ELSE IF file.tickets # <<>> THEN "create" ELSE "verify"
      BY DEF AfterUnit
    <3>2. file.tickets # <<>> => Len(file.tickets) # 0
      BY <2>2
    <3>. HIDE DEF place
    <3>. QED  BY <2>2, <2>3, <3>1, <3>2
  <2>5. place \in Places
    BY <2>4 DEF Places
  <2>. HIDE DEF place
  <2>6. me \in Process /\ proc' = [proc EXCEPT ![p] = me] /\ proc'[p] = me
    <3>1. proc' = [proc EXCEPT ![p].unit = u + 1, ![p].at = place]
      BY <1>3 DEF place
    <3>2. u + 1 \in Nat
      BY <2>1
    <3>3. me \in Process
      <4>. DEFINE next == u + 1
      <4>1. next \in Nat
        BY <3>2
      <4>. HIDE DEF next
      <4>2. [proc[p] EXCEPT !.unit = next, !.at = place] \in Process
        BY <2>1, <2>5, <4>1 DEF Process
      <4>. QED  BY <4>2 DEF next
    <3>. QED  BY <2>1, <3>1, <3>3
  <2>7. /\ proc'[p].unit = u + 1 /\ proc'[p].number = 1 /\ proc'[p].at = place
        /\ proc'[p].out = ""
    BY <1>1, <2>1, <2>3, <2>6 DEF Process
  <2>8. /\ TablesOK' /\ RowsStay /\ TicketsStay
        /\ DOMAIN rows' = DOMAIN rows \cup units[u]
        /\ \A k \in units[u] \ DOMAIN rows : rows'[k] = p
    <3>1. rows' = Inserted(units[u], p) /\ p \in Writers /\ UNCHANGED <<tickets, next_id>>
      BY <1>1, <1>3 DEF Writers
    <3>. QED  BY <3>1, RowsInserted
  <2>9. File(p)' = file /\ Units(File(p))' = units /\ command'[p].do = "load"
    BY <1>1, <2>3 DEF File
  <2>10. PlaceOK(p)'
    <3>1. CASE place = "write" /\ u + 1 \in DOMAIN units
      BY <2>3, <2>7, <2>9, <3>1 DEF PlaceOK
    <3>2. CASE place = "create" /\ 1 \in DOMAIN file.tickets /\ u + 1 > Len(units)
      <4>1. proc'[p].unit > Len(Units(File(p)))' /\ proc'[p].number \in DOMAIN (File(p).tickets)'
        BY <2>7, <2>9, <3>2
      <4>. QED  BY <2>3, <2>7, <2>9, <3>2, <4>1 DEF PlaceOK
    <3>3. CASE place = "verify" /\ Len(file.tickets) = 0 /\ u + 1 > Len(units)
      <4>1. proc'[p].unit > Len(Units(File(p)))' /\ proc'[p].number > Len(File(p).tickets)'
        <5>1. 1 > Len(file.tickets)
          BY <3>3
        <5>. QED  BY <2>7, <2>9, <3>3, <5>1
      <4>. QED  BY <2>3, <2>7, <2>9, <3>3, <4>1 DEF PlaceOK
    <3>. QED  BY <2>4, <3>1, <3>2, <3>3
  <2>11. RowsOwned(p)'
    <3>. SUFFICES ASSUME NEW j \in DOMAIN units, j < u + 1, NEW k \in units[j]
                  PROVE  k \in DOMAIN rows' /\ (k[1] # "rights" => rows'[k] = p)
      BY <2>7, <2>9 DEF RowsOwned, Has
    <3>1. CASE j < u
      BY <2>3, <2>8, <3>1 DEF RowsOwned, RowsStay, Has
    <3>2. CASE j = u
      BY <1>3, <2>8, <3>2 DEF Has
    <3>. QED  BY <2>1, <2>2, <3>1, <3>2
  <2>12. TicketsOwned(p)'
    <3>1. \A t \in DOMAIN file.tickets : ~(t < 1)
      BY <2>2
    <3>2. \A t \in DOMAIN File(p)'.tickets : ~(t < proc'[p].number)
      BY <2>7, <2>9, <3>1
    <3>. QED  BY <3>2 DEF TicketsOwned
  <2>. QED  BY <1>1, <2>6, <2>8, <2>10, <2>11, <2>12, ProcessKeeps
<1>. QED  BY <1>1, <1>2, <1>3

\* A ticket of the file, and what parse found in it.
LEMMA SpecHasShape ==
  ASSUME IInv, NEW p \in Processes, proc[p].at \in {"create", "stamp", "apply"}
  PROVE  /\ SpecOf(p) \in TicketSpec /\ SpecOf(p).id = proc[p].number
         /\ Len(SpecOf(p).steps) \in Nat
         /\ \A k \in 1 .. Len(SpecOf(p).steps) :
              /\ SpecOf(p).steps[k] \in Step
              /\ SpecOf(p).steps[k].type = "status" => SpecOf(p).steps[k].status \in STEP_STATUSES
<1>. PICK file : file = File(p)
  OBVIOUS
<1>. PICK n : n = proc[p].number
  OBVIOUS
<1>1. n \in DOMAIN file.tickets
  BY DEF IInv, PlaceOK
<1>2. parse(file)
  BY PastTheStart
<1>3. file.tickets \in Seq(TicketSpec)
  BY FilesHaveShape DEF IInv
<1>. PICK spec : spec = file.tickets[n]
  OBVIOUS
<1>4. spec = SpecOf(p) /\ spec \in TicketSpec /\ ticket_spec(spec, n)
  BY <1>1, <1>2, <1>3 DEF SpecOf, parse
<1>5. spec.steps \in Seq(Step)
  BY <1>4 DEF TicketSpec
<1>. PICK steps : steps = spec.steps
  OBVIOUS
<1>6. Len(steps) \in Nat /\ DOMAIN steps = 1 .. Len(steps) /\ \A k \in 1 .. Len(steps) : steps[k] \in Step
  BY <1>5
<1>7. spec.id = n /\ \A k \in DOMAIN steps : steps[k].type = "status" => steps[k].status \in STEP_STATUSES
  BY <1>4 DEF ticket_spec
<1>. QED  BY <1>4, <1>6, <1>7

LEMMA NewTicketIsTicket ==
  ASSUME NEW p \in Writers, NEW spec, spec.subject \in STRING, spec.queue \in STRING,
         spec.owner \in STRING, spec.creator \in STRING
  PROVE  /\ NewTicket(p, spec) \in Ticket /\ NewTicket(p, spec).who = p
         /\ ObjectOf(NewTicket(p, spec)) \in Held
<1>. DEFINE row == NewTicket(p, spec)
            entry == [type |-> "Create", at |-> Clock, by |-> spec.creator, who |-> p]
<1>1. Clock \in Nat /\ NoDate \in Nat /\ "new" \in STATUSES
  BY BoundsOK DEF NoDate, STATUSES
<1>2. entry \in Row
  BY <1>1 DEF Row
<1>. HIDE DEF entry
<1>3. <<entry>> \in Seq(Row)
  BY <1>2
<1>. PICK log : log = <<entry>>
  OBVIOUS
<1>4. row = [subject |-> spec.subject, queue |-> spec.queue, owner |-> spec.owner,
             status |-> "new", created |-> Clock, started |-> NoDate, resolved |-> NoDate,
             last_updated |-> Clock, last_updated_by |-> spec.creator, values |-> {},
             log |-> log, who |-> p]
  BY DEF NewTicket, entry
<1>. HIDE DEF row
<1>5. row \in Ticket /\ row.who = p
  BY <1>1, <1>3, <1>4 DEF Ticket
<1>6. ObjectOf(row) \in Held
  BY <1>5 DEF ObjectOf, Held, Ticket
<1>. QED  BY <1>5, <1>6 DEF row

\* Every unit is written when the first ticket is created.
LEMMA UnitsAreDone ==
  ASSUME NEW p \in Processes, RowsOwned(p), RowsStay, command' = command,
         proc'[p].unit = proc[p].unit
  PROVE  RowsOwned(p)'
<1>. PICK units : units = Units(File(p))
  OBVIOUS
<1>1. Units(File(p))' = units
  BY DEF File
<1>. PICK me : me = proc[p]
  OBVIOUS
<1>. QED  BY <1>1 DEF RowsOwned, RowsStay, Has

\* A ticket that is created is stamped next, when its id is the file's.
LEMMA createKeeps ==
  ASSUME IInv, NEW p \in Processes, create(p)
  PROVE  IInv'
<1>. PICK file : file = File(p)
  OBVIOUS
<1>. PICK spec : spec = SpecOf(p)
  OBVIOUS
<1>. PICK row : row = NewTicket(p, spec)
  OBVIOUS
<1>. PICK object : object = ObjectOf(row)
  OBVIOUS
<1>1. /\ UNCHANGED <<rows, command, foreign>> /\ next_id <= MaxId
      /\ proc[p].at = "create" /\ proc[p].out = ""
      /\ \/ End(p, "partly") /\ UNCHANGED <<tickets, next_id>>
         \/ /\ tickets' = [tickets EXCEPT ![next_id] = row] /\ next_id' = next_id + 1
            /\ \/ End(p, "partly")
               \/ /\ next_id = spec.id
                  /\ proc' = [proc EXCEPT ![p].at = "stamp", ![p].id = next_id, ![p].step = 0,
                                ![p].ticket = object, ![p].before = <<NoDate, NoDate>>]
  BY DEF create, At, Created
<1>2. CASE End(p, "partly") /\ UNCHANGED <<tickets, next_id>>
  BY <1>1, <1>2, NothingStays, EndKeeps DEF Outcomes, database
<1>3. CASE tickets' = [tickets EXCEPT ![next_id] = row] /\ next_id' = next_id + 1
  <2>1. TypeOK /\ FreshOK /\ PlaceOK(p) /\ RowsOwned(p) /\ TicketsOwned(p)
    BY DEF IInv
  <2>2. /\ tickets \in [1 .. MaxId -> Ticket \cup {Absent}] /\ next_id \in 1 .. MaxId + 1
        /\ proc \in [Processes -> Process] /\ proc[p] \in Process
    BY <2>1 DEF TypeOK
  <2>3. spec \in TicketSpec /\ spec.id = proc[p].number /\ Len(spec.steps) \in Nat
    BY <1>1, SpecHasShape
  <2>4. row \in Ticket /\ row.who = p /\ object \in Held
    <3>1. p \in Writers
      BY DEF Writers
    <3>2. /\ spec.subject \in STRING /\ spec.queue \in STRING
          /\ spec.owner \in STRING /\ spec.creator \in STRING
      BY <2>3 DEF TicketSpec
    <3>. QED  BY <3>1, <3>2, NewTicketIsTicket
  <2>5. /\ TicketsStay /\ FreshOK'
        /\ tickets' \in [1 .. MaxId -> Ticket \cup {Absent}] /\ next_id' \in 1 .. MaxId + 1
        /\ next_id \in Existing' /\ tickets'[next_id] = row
    BY <1>1, <1>3, <2>1, <2>2, <2>4, CreateStays
  <2>6. RowsStay /\ TablesOK'
    BY <1>1, <2>1, <2>5 DEF TypeOK, TablesOK, RowsStay
  <2>7. CASE End(p, "partly")
    BY <1>1, <2>5, <2>6, <2>7, EndKeeps DEF Outcomes
  <2>8. CASE /\ next_id = spec.id
             /\ proc' = [proc EXCEPT ![p].at = "stamp", ![p].id = next_id, ![p].step = 0,
                           ![p].ticket = object, ![p].before = <<NoDate, NoDate>>]
    <3>. DEFINE me == [proc[p] EXCEPT !.at = "stamp", !.id = next_id, !.step = 0,
                         !.ticket = object, !.before = <<NoDate, NoDate>>]
    <3>1. next_id \in Nat /\ NoDate \in Nat /\ "stamp" \in Places
      BY <2>2 DEF NoDate, Places
    <3>. DEFINE undated == <<NoDate, NoDate>>
    <3>2. undated \in Nat \X Nat
      BY <3>1
    <3>. HIDE DEF undated
    <3>. DEFINE stamped == [proc[p] EXCEPT !.at = "stamp", !.id = next_id, !.step = 0,
                              !.ticket = object, !.before = undated]
    <3>3. /\ stamped \in Process /\ stamped.at = "stamp" /\ stamped.id = next_id /\ stamped.step = 0
          /\ stamped.ticket = object /\ stamped.unit = proc[p].unit
          /\ stamped.number = proc[p].number /\ stamped.out = proc[p].out
      BY <2>2, <2>4, <3>1, <3>2 DEF Process
    <3>4. me = stamped
      BY DEF undated
    <3>. HIDE DEF stamped
    <3>5. proc' = [proc EXCEPT ![p] = stamped] /\ proc'[p] = stamped
      BY <2>2, <2>8, <3>4
    <3>6. File(p)' = file /\ Units(File(p))' = Units(file) /\ command'[p] = command[p]
      BY <1>1 DEF File
    <3>7. file.tickets[proc[p].number] = spec
      BY DEF SpecOf
    <3>8. PlaceOK(p)'
      <4>1. /\ parse(file) /\ command[p].do = "load" /\ proc[p].number \in DOMAIN file.tickets
            /\ proc[p].unit > Len(Units(file))
        BY <1>1, <2>1, PastTheStart DEF PlaceOK
      <4>2. /\ next_id \in Existing' /\ proc'[p].id = proc'[p].number
            /\ tickets'[next_id].who = p
        BY <2>3, <2>4, <2>5, <2>8, <3>3, <3>5
      <4>3. proc'[p].step \in 0 .. Len(File(p)'.tickets[proc'[p].number].steps)
        <5>1. 0 \in 0 .. Len(spec.steps)
          BY <2>3
        <5>. QED  BY <3>3, <3>5, <3>6, <3>7, <5>1
      <4>4. proc'[p].unit > Len(Units(File(p)))' /\ proc'[p].number \in DOMAIN (File(p).tickets)'
        BY <3>3, <3>5, <3>6, <4>1
      <4>5. /\ proc'[p].at = "stamp" /\ proc'[p].out = "" /\ proc'[p].id = next_id
            /\ proc'[p].ticket \in Held
        BY <1>1, <2>4, <3>3, <3>5
      <4>6. parse(File(p)') /\ command'[p].do = "load"
        BY <3>6, <4>1
      <4>. QED  BY <4>2, <4>3, <4>4, <4>5, <4>6 DEF PlaceOK
    <3>9. RowsOwned(p)'
      BY <1>1, <2>1, <2>6, <3>3, <3>5, UnitsAreDone
    <3>10. TicketsOwned(p)'
      BY <2>1, <2>5, <3>3, <3>5, <3>6 DEF TicketsOwned, TicketsStay
    <3>. QED  BY <1>1, <2>5, <2>6, <3>3, <3>5, <3>8, <3>9, <3>10, ProcessKeeps
  <2>. QED  BY <1>1, <2>7, <2>8, <1>2
<1>. QED  BY <1>1, <1>2, <1>3

\* An UPDATE of a ticket leaves one, and says nothing of who made it.
LEMMA UpdatedIsTicket ==
  ASSUME NEW now \in Ticket, NEW was \in Held, NEW row \in Held
  PROVE  /\ Updated(now, was, row) \in Ticket /\ Updated(now, was, row).who = now.who
         /\ Updated(now, was, row).log = now.log
<1>1. Updated(now, was, row) \in Ticket
  BY DEF Updated, Held, Ticket
<1>2. Updated(now, was, row).who = now.who /\ Updated(now, was, row).log = now.log
  BY DEF Updated, Held, Ticket
<1>. QED  BY <1>1, <1>2

LEMMA LoggedIsTicket ==
  ASSUME NEW new \in Ticket, NEW values \in SUBSET (STRING \X STRING), NEW log \in Seq(Row)
  PROVE  /\ [new EXCEPT !.log = log] \in Ticket
         /\ [new EXCEPT !.log = log].who = new.who
         /\ [new EXCEPT !.values = values, !.log = log] \in Ticket
         /\ [new EXCEPT !.values = values, !.log = log].who = new.who
BY DEF Ticket

\* Where a process may go that has a ticket of the file open.
Onward(p, me) ==
  \/ /\ me.number = proc[p].number /\ me.id = proc[p].id /\ me.ticket \in Held
     /\ me.step \in 0 .. Len(SpecOf(p).steps)
     /\ (me.at = "stamp" \/ (me.at = "apply" /\ me.step # 0))
  \/ /\ me.number = proc[p].number + 1
     /\ \/ me.at = "create" /\ proc[p].number < Len(File(p).tickets)
        \/ me.at = "verify" /\ ~(proc[p].number < Len(File(p).tickets))

\* A process that writes its ticket and goes on.
LEMMA OnwardKeeps ==
  ASSUME IInv, NEW p \in Processes, proc[p].at \in {"stamp", "apply"},
         NEW row \in Ticket, row.who = tickets[proc[p].id].who,
         tickets' = [tickets EXCEPT ![proc[p].id] = row],
         UNCHANGED <<rows, next_id, command, foreign>>,
         NEW me \in Process, proc' = [proc EXCEPT ![p] = me],
         me.unit = proc[p].unit, me.out = proc[p].out, Onward(p, me)
  PROVE  IInv'
<1>. PICK file : file = File(p)
  OBVIOUS
<1>. PICK n : n = proc[p].number
  OBVIOUS
<1>. PICK id : id = proc[p].id
  OBVIOUS
<1>. PICK length : length = Len(file.tickets[n].steps)
  OBVIOUS
<1>1. TypeOK /\ FreshOK /\ PlaceOK(p) /\ RowsOwned(p) /\ TicketsOwned(p)
  BY DEF IInv
<1>2. tickets \in [1 .. MaxId -> Ticket \cup {Absent}] /\ proc \in [Processes -> Process]
  BY <1>1 DEF TypeOK
<1>3. /\ id \in Existing /\ id = n /\ tickets[id].who = p /\ n \in DOMAIN file.tickets
      /\ proc[p].unit > Len(Units(file)) /\ proc[p].out # "line"
  BY <1>1 DEF PlaceOK
<1>4. parse(file) /\ command[p].do = "load"
  <2>1. parse(file)
    BY PastTheStart
  <2>. QED  BY <1>1, <2>1 DEF PlaceOK
<1>. PICK many : many = Len(file.tickets)
  OBVIOUS
<1>5. n \in Nat /\ many \in Nat /\ DOMAIN file.tickets = 1 .. many
  <2>1. many \in Nat /\ DOMAIN file.tickets = 1 .. many
    BY <1>1, FilesHaveShape
  <2>. QED  BY <1>3, <2>1
<1>6. /\ TicketsStay /\ FreshOK'
      /\ tickets' \in [1 .. MaxId -> Ticket \cup {Absent}]
  BY <1>1, <1>2, <1>3, UpdateStays
<1>7. TablesOK' /\ RowsStay
  BY <1>1, <1>6 DEF TypeOK, TablesOK, RowsStay
<1>8. proc'[p] = me
  BY <1>2
<1>9. File(p)' = file /\ Units(File(p))' = Units(file) /\ command'[p].do = "load"
  BY <1>4 DEF File
<1>10. RowsOwned(p)'
  BY <1>1, <1>7, <1>8, UnitsAreDone
<1>11. id \in Existing' /\ tickets'[id].who = p
  BY <1>3, <1>6 DEF TicketsStay
<1>12. proc'[p].unit > Len(Units(File(p)))' /\ parse(File(p)')
      /\ proc'[p].out # "line"
  BY <1>3, <1>4, <1>8, <1>9
<1>13. Len(SpecOf(p).steps) = length
  BY DEF SpecOf
<1>14. CASE /\ me.number = n /\ me.id = id /\ me.ticket \in Held
            /\ me.step \in 0 .. length
            /\ (me.at = "stamp" \/ (me.at = "apply" /\ me.step # 0))
  <2>1. PlaceOK(p)'
    <3>1. /\ me.number \in DOMAIN (File(p).tickets)' /\ me.id = me.number
          /\ me.id \in Existing' /\ tickets'[me.id].who = p
          /\ me.step \in 0 .. Len(File(p)'.tickets[me.number].steps)
      BY <1>3, <1>9, <1>11, <1>14
    <3>2. proc'[p].at = "stamp" \/ (proc'[p].at = "apply" /\ proc'[p].step # 0)
      BY <1>8, <1>14
    <3>. QED  BY <1>8, <1>9, <1>12, <1>14, <3>1, <3>2 DEF PlaceOK
  <2>2. TicketsOwned(p)'
    BY <1>1, <1>6, <1>8, <1>9, <1>14 DEF TicketsOwned, TicketsStay
  <2>. QED  BY <1>6, <1>7, <1>10, <2>1, <2>2, ProcessKeeps
<1>15. CASE /\ me.number = n + 1
            /\ \/ me.at = "create" /\ n < many
               \/ me.at = "verify" /\ ~(n < many)
  <2>1. PlaceOK(p)'
    <3>1. CASE me.at = "create" /\ n < many
      <4>1. n + 1 \in DOMAIN file.tickets
        BY <1>5, <3>1
      <4>2. proc'[p].number \in DOMAIN (File(p).tickets)'
        BY <1>8, <1>9, <1>15, <4>1
      <4>. QED  BY <1>8, <1>9, <1>12, <3>1, <4>2 DEF PlaceOK
    <3>2. CASE me.at = "verify" /\ ~(n < many)
      <4>1. n + 1 > many
        BY <1>5, <3>2
      <4>2. proc'[p].number > Len(File(p).tickets)'
        BY <1>8, <1>9, <1>15, <4>1
      <4>. QED  BY <1>8, <1>9, <1>12, <3>2, <4>2 DEF PlaceOK
    <3>. QED  BY <1>15, <3>1, <3>2
  <2>2. TicketsOwned(p)'
    <3>. SUFFICES ASSUME NEW t \in DOMAIN file.tickets, t < n + 1
                  PROVE  t \in Existing' /\ tickets'[t].who = p
      BY <1>8, <1>9, <1>15 DEF TicketsOwned
    <3>1. CASE t = n
      BY <1>3, <1>11, <3>1
    <3>2. CASE t < n
      BY <1>1, <1>6, <3>2 DEF TicketsOwned, TicketsStay
    <3>3. t \in Nat
      BY <1>5
    <3>. QED  BY <1>5, <3>1, <3>2, <3>3
  <2>. QED  BY <1>6, <1>7, <1>10, <2>1, <2>2, ProcessKeeps
<1>16. Onward(p, me)
  OBVIOUS
<1>. QED  BY <1>13, <1>14, <1>15, <1>16 DEF Onward

\* A step's page leaves a status there is and dates that are dates.
LEMMA TargetIsStatus ==
  ASSUME NEW status \in STATUSES, NEW step \in Step,
         step.type = "status" => step.status \in STEP_STATUSES
  PROVE  Target(status, step) \in STATUSES
BY DEF Target, Step, STEP_STATUSES, STATUSES

LEMMA MovedIsHeld ==
  ASSUME NEW held \in Held, NEW target \in STATUSES, NEW actor \in STRING
  PROVE  [held EXCEPT !.status = target,
                      !.started = StartedAfter(held.status, target, @, Clock),
                      !.resolved = ResolvedAfter(held.status, target, @, Clock),
                      !.last_updated = Clock, !.last_updated_by = actor] \in Held
<1>1. held.started \in Nat /\ held.resolved \in Nat /\ Clock \in Nat /\ NoDate \in Nat
  BY BoundsOK DEF Held, NoDate
<1>. PICK started : started = StartedAfter(held.status, target, held.started, Clock)
  OBVIOUS
<1>. PICK resolved : resolved = ResolvedAfter(held.status, target, held.resolved, Clock)
  OBVIOUS
<1>2. started \in Nat /\ resolved \in Nat
  BY <1>1 DEF StartedAfter, ResolvedAfter
<1>. QED  BY <1>1, <1>2 DEF Held

LEMMA ValuesArePairs ==
  ASSUME NEW values \in SUBSET (STRING \X STRING), NEW step \in Step
  PROVE  WithValue(values, step) \in SUBSET (STRING \X STRING)
BY DEF WithValue, Step

\* What a process has open.
LEMMA OpenTicket ==
  ASSUME IInv, NEW p \in Processes, proc[p].at \in {"stamp", "apply"}
  PROVE  /\ proc[p] \in Process /\ proc[p].id \in Existing /\ tickets[proc[p].id] \in Ticket
         /\ proc[p].ticket \in Held /\ proc[p].step \in 0 .. Len(SpecOf(p).steps)
         /\ proc[p].at = "apply" => proc[p].step # 0
         /\ proc[p].step # 0 =>
              /\ StepOf(p) \in Step
              /\ StepOf(p).type = "status" => StepOf(p).status \in STEP_STATUSES
<1>1. TypeOK /\ PlaceOK(p)
  BY DEF IInv
<1>2. proc[p] \in Process
  BY <1>1 DEF TypeOK
<1>3. proc[p].id \in Existing /\ proc[p].ticket \in Held
  BY <1>1 DEF PlaceOK
<1>4. tickets[proc[p].id] \in Ticket
  BY <1>1, <1>3 DEF TypeOK, Existing
<1>5. proc[p].step \in 0 .. Len(SpecOf(p).steps)
  BY <1>1 DEF PlaceOK, SpecOf
<1>6. proc[p].at = "apply" => proc[p].step # 0
  BY <1>1 DEF PlaceOK
<1>7. ASSUME proc[p].step # 0
      PROVE  /\ StepOf(p) \in Step
             /\ StepOf(p).type = "status" => StepOf(p).status \in STEP_STATUSES
  <2>. PICK k : k = proc[p].step
    OBVIOUS
  <2>. PICK spec : spec = SpecOf(p)
    OBVIOUS
  <2>1. /\ Len(spec.steps) \in Nat
        /\ \A i \in 1 .. Len(spec.steps) :
             /\ spec.steps[i] \in Step
             /\ spec.steps[i].type = "status" => spec.steps[i].status \in STEP_STATUSES
    BY SpecHasShape
  <2>2. k \in 1 .. Len(spec.steps)
    BY <1>5, <1>7, <2>1
  <2>. QED  BY <2>1, <2>2 DEF StepOf
<1>. QED  BY <1>2, <1>3, <1>4, <1>5, <1>6, <1>7

\* A step that its page writes is stamped next.
LEMMA applyKeeps ==
  ASSUME IInv, NEW p \in Processes, apply_step(p)
  PROVE  IInv'
<1>. DEFINE step == StepOf(p)
            held == proc[p].ticket
            row == tickets[proc[p].id]
            target == Target(held.status, step)
            Entry(type) == <<[type |-> type, at |-> Clock, by |-> step.actor, who |-> p]>>
            entries == (IF step.type = "status" THEN <<>> ELSE Entry(TypeNamed[step.type]))
                         \o (IF target = held.status THEN <<>> ELSE Entry("Status"))
            new == IF entries = <<>> THEN held
                   ELSE [held EXCEPT
                          !.status = target,
                          !.started = StartedAfter(held.status, target, @, Clock),
                          !.resolved = ResolvedAfter(held.status, target, @, Clock),
                          !.last_updated = Clock, !.last_updated_by = step.actor]
            values == IF step.type = "custom_field" THEN WithValue(row.values, step)
                      ELSE row.values
            written == [Updated(row, held, new) EXCEPT !.values = values, !.log = @ \o entries]
            dates == <<held.started, held.resolved>>
            me == [proc[p] EXCEPT !.at = "stamp", !.ticket = new, !.before = dates]
<1>1. /\ UNCHANGED <<rows, next_id, command, foreign>> /\ proc[p].at = "apply"
      /\ \/ End(p, "partly") /\ UNCHANGED tickets
         \/ /\ tickets' = [tickets EXCEPT ![proc[p].id] = written]
            /\ proc' = [proc EXCEPT ![p].at = "stamp", ![p].ticket = new, ![p].before = dates]
  BY DEF apply_step, At
<1>2. /\ proc[p] \in Process /\ row \in Ticket /\ held \in Held
      /\ proc[p].step \in 0 .. Len(SpecOf(p).steps) /\ step \in Step
      /\ step.type = "status" => step.status \in STEP_STATUSES
  BY <1>1, OpenTicket
<1>3. target \in STATUSES
  BY <1>2, TargetIsStatus DEF Held
<1>4. new \in Held
  <2>1. step.actor \in STRING
    BY <1>2 DEF Step
  <2>. HIDE DEF entries, target, held, step
  <2>. QED  BY <1>2, <1>3, <2>1, MovedIsHeld
<1>5. values \in SUBSET (STRING \X STRING)
  BY <1>2, ValuesArePairs DEF Ticket
<1>6. entries \in Seq(Row)
  <2>1. ASSUME NEW type \in {"Correspond", "Comment", "Status", "CustomField"}
        PROVE  Entry(type) \in Seq(Row)
    <3>1. [type |-> type, at |-> Clock, by |-> step.actor, who |-> p] \in Row
      BY <1>2, BoundsOK DEF Row, Step, Writers
    <3>. QED  BY <3>1
  <2>2. step.type # "status" => TypeNamed[step.type] \in {"Correspond", "Comment", "CustomField"}
    BY <1>2 DEF TypeNamed, Step
  <2>3. (IF step.type = "status" THEN <<>> ELSE Entry(TypeNamed[step.type])) \in Seq(Row)
    <3>. HIDE DEF Entry
    <3>. QED  BY <2>1, <2>2
  <2>4. (IF target = held.status THEN <<>> ELSE Entry("Status")) \in Seq(Row)
    <3>. HIDE DEF Entry, target
    <3>. QED  BY <2>1
  <2>. HIDE DEF Entry, target
  <2>. QED  BY <2>3, <2>4
<1>. HIDE DEF entries, new, values, target, step
<1>7. written \in Ticket /\ written.who = row.who
  <2>. PICK updated : updated = Updated(row, held, new)
    OBVIOUS
  <2>1. updated \in Ticket /\ updated.who = row.who /\ updated.log = row.log
    <3>. HIDE DEF row, held
    <3>. QED  BY <1>2, <1>4, UpdatedIsTicket
  <2>. PICK log : log = row.log \o entries
    OBVIOUS
  <2>2. log \in Seq(Row)
    BY <1>2, <1>6 DEF Ticket
  <2>. PICK pairs : pairs = values
    OBVIOUS
  <2>3. written = [updated EXCEPT !.values = pairs, !.log = log]
    BY <2>1
  <2>4. /\ [updated EXCEPT !.values = pairs, !.log = log] \in Ticket
        /\ [updated EXCEPT !.values = pairs, !.log = log].who = updated.who
    <3>1. updated \in Ticket /\ pairs \in SUBSET (STRING \X STRING) /\ log \in Seq(Row)
      BY <1>5, <2>1, <2>2
    <3>. HIDE DEF written
    <3>. QED  BY ONLY <3>1, LoggedIsTicket
  <2>. HIDE DEF row, written
  <2>. QED  BY <2>1, <2>3, <2>4
<1>8. dates \in Nat \X Nat
  BY <1>2 DEF Held
<1>9. /\ me \in Process /\ me.at = "stamp" /\ me.ticket = new /\ me.unit = proc[p].unit
      /\ me.number = proc[p].number /\ me.id = proc[p].id /\ me.step = proc[p].step
      /\ me.out = proc[p].out
  <2>1. "stamp" \in Places
    BY DEF Places
  <2>. HIDE DEF dates, held
  <2>. QED  BY <1>2, <1>4, <1>8, <2>1 DEF Process
<1>10. Onward(p, me)
  <2>. HIDE DEF me, held, row
  <2>1. me.step \in 0 .. Len(SpecOf(p).steps) /\ me.ticket \in Held
    BY <1>2, <1>4, <1>9
  <2>2. me.number = proc[p].number /\ me.id = proc[p].id /\ me.at = "stamp"
    BY <1>9
  <2>. QED  BY <2>1, <2>2 DEF Onward
<1>11. CASE End(p, "partly") /\ UNCHANGED tickets
  <2>1. TablesOK' /\ RowsStay /\ TicketsStay
    BY <1>1, <1>11, NothingStays DEF database
  <2>. QED  BY <1>1, <1>11, <2>1, EndKeeps DEF Outcomes
<1>12. CASE /\ tickets' = [tickets EXCEPT ![proc[p].id] = written]
            /\ proc' = [proc EXCEPT ![p].at = "stamp", ![p].ticket = new, ![p].before = dates]
  <2>1. proc' = [proc EXCEPT ![p] = me]
    <3>1. proc \in [Processes -> Process]
      BY DEF IInv, TypeOK
    <3>. HIDE DEF dates, held
    <3>. QED  BY <1>12, <3>1
  <2>. HIDE DEF me, written
  <2>. QED  BY <1>1, <1>7, <1>9, <1>10, <1>12, <2>1, OnwardKeeps
<1>. QED  BY <1>1, <1>11, <1>12

LEMMA RestampedIsHeld ==
  ASSUME NEW held \in Held, NEW before \in Nat \X Nat, NEW at \in Nat, NEW actor \in STRING
  PROVE  [held EXCEPT !.started = Restamped(@, before[1], at),
                      !.resolved = Restamped(@, before[2], at),
                      !.last_updated = at, !.last_updated_by = actor] \in Held
<1>1. held.started \in Nat /\ held.resolved \in Nat
  BY DEF Held
<1>. PICK started : started = Restamped(held.started, before[1], at)
  OBVIOUS
<1>. PICK resolved : resolved = Restamped(held.resolved, before[2], at)
  OBVIOUS
<1>2. started \in Nat /\ resolved \in Nat
  BY <1>1 DEF Restamped
<1>. QED  BY <1>2 DEF Held

\* Restamping moves the times of a history and nothing else.
LEMMA RestampedHistory ==
  ASSUME NEW log \in Seq(Row), NEW mark, NEW at \in Nat
  PROVE  [i \in DOMAIN log |-> IF i > mark THEN [log[i] EXCEPT !.at = at] ELSE log[i]] \in Seq(Row)
<1>1. Len(log) \in Nat /\ DOMAIN log = 1 .. Len(log) /\ \A i \in 1 .. Len(log) : log[i] \in Row
  OBVIOUS
<1>2. \A entry \in Row : [entry EXCEPT !.at = at] \in Row
  BY DEF Row
<1>3. [i \in 1 .. Len(log) |-> IF i > mark THEN [log[i] EXCEPT !.at = at] ELSE log[i]]
        \in [1 .. Len(log) -> Row]
  BY <1>1, <1>2
<1>. QED  BY <1>1, <1>3

\* A ticket that is stamped gets its next step; after the last, the next ticket
\* is created.
LEMMA stampKeeps ==
  ASSUME IInv, NEW p \in Processes, stamp(p)
  PROVE  IInv'
<1>. DEFINE birth == proc[p].step = 0
            at == IF birth THEN SpecOf(p).created ELSE StepOf(p).at
            actor == IF birth THEN SpecOf(p).creator ELSE StepOf(p).actor
            held == IF birth THEN [proc[p].ticket EXCEPT !.created = at] ELSE proc[p].ticket
            row == tickets[proc[p].id]
            new == [held EXCEPT !.started = Restamped(@, proc[p].before[1], at),
                                !.resolved = Restamped(@, proc[p].before[2], at),
                                !.last_updated = at, !.last_updated_by = actor]
            log == [i \in DOMAIN row.log |->
                      IF i > proc[p].mark THEN [row.log[i] EXCEPT !.at = at] ELSE row.log[i]]
            written == [Updated(row, proc[p].ticket, new) EXCEPT !.log = log]
            Step1 == [proc[p] EXCEPT !.at = "apply", !.step = @ + 1, !.ticket = new,
                                     !.mark = Len(log)]
            Next1 == [proc[p] EXCEPT !.at = IF proc[p].number < Len(File(p).tickets)
                                            THEN "create" ELSE "verify",
                                     !.number = @ + 1, !.step = 0, !.ticket = None, !.mark = 0,
                                     !.before = <<NoDate, NoDate>>]
            me == IF proc[p].step < Len(SpecOf(p).steps) THEN Step1 ELSE Next1
<1>1. /\ UNCHANGED <<rows, next_id, command, foreign>> /\ proc[p].at = "stamp"
      /\ tickets' = [tickets EXCEPT ![proc[p].id] = written]
      /\ proc' = [proc EXCEPT ![p] = me]
  BY DEF stamp, At
<1>2. /\ proc[p] \in Process /\ row \in Ticket /\ proc[p].ticket \in Held
      /\ proc[p].step \in 0 .. Len(SpecOf(p).steps)
      /\ proc[p].step # 0 => StepOf(p) \in Step
  BY <1>1, OpenTicket
<1>3. SpecOf(p) \in TicketSpec /\ Len(SpecOf(p).steps) \in Nat
  BY <1>1, SpecHasShape
<1>4. at \in Nat /\ actor \in STRING
  BY <1>2, <1>3 DEF TicketSpec, Step
<1>. HIDE DEF at, actor
<1>5. held \in Held
  BY <1>2, <1>4 DEF Held
<1>. HIDE DEF held
<1>6. proc[p].before \in Nat \X Nat /\ row.log \in Seq(Row)
  BY <1>2 DEF Process, Ticket
<1>7. new \in Held
  BY <1>4, <1>5, <1>6, RestampedIsHeld
<1>. HIDE DEF new
<1>8. log \in Seq(Row)
  <2>. PICK old : old = row.log
    OBVIOUS
  <2>. PICK mark : mark = proc[p].mark
    OBVIOUS
  <2>1. log = [i \in DOMAIN old |-> IF i > mark THEN [old[i] EXCEPT !.at = at] ELSE old[i]]
    OBVIOUS
  <2>. HIDE DEF log
  <2>. QED  BY <1>4, <1>6, <2>1, RestampedHistory
<1>. HIDE DEF log
<1>9. written \in Ticket /\ written.who = row.who
  <2>. PICK updated : updated = Updated(row, proc[p].ticket, new)
    OBVIOUS
  <2>1. updated \in Ticket /\ updated.who = row.who
    <3>. HIDE DEF row
    <3>. QED  BY <1>2, <1>7, UpdatedIsTicket
  <2>. PICK rows1 : rows1 = log
    OBVIOUS
  <2>2. written = [updated EXCEPT !.log = rows1]
    OBVIOUS
  <2>3. [updated EXCEPT !.log = rows1] \in Ticket /\ [updated EXCEPT !.log = rows1].who = updated.who
    BY <1>8, <2>1 DEF Ticket
  <2>. HIDE DEF row, written
  <2>. QED  BY <2>1, <2>2, <2>3
<1>. HIDE DEF written
<1>10. /\ me \in Process /\ me.unit = proc[p].unit /\ me.out = proc[p].out
       /\ Onward(p, me)
  <2>. PICK k : k = proc[p].step
    OBVIOUS
  <2>. PICK length : length = Len(SpecOf(p).steps)
    OBVIOUS
  <2>1. k \in 0 .. length /\ length \in Nat
    BY <1>2, <1>3
  <2>2. CASE k < length
    <3>. PICK next : next = k + 1
      OBVIOUS
    <3>. PICK mark : mark = Len(log)
      OBVIOUS
    <3>1. next \in Nat /\ next # 0 /\ next \in 0 .. length
      BY <2>1, <2>2
    <3>2. mark \in Nat
      BY <1>8
    <3>3. me = [proc[p] EXCEPT !.at = "apply", !.step = next, !.ticket = new, !.mark = mark]
      BY <2>2
    <3>. HIDE DEF me
    <3>4. /\ me \in Process /\ me.unit = proc[p].unit /\ me.out = proc[p].out
          /\ me.at = "apply" /\ me.step = next /\ me.ticket = new
          /\ me.number = proc[p].number /\ me.id = proc[p].id
      <4>1. "apply" \in Places
        BY DEF Places
      <4>. QED  BY <1>2, <1>7, <3>1, <3>2, <3>3, <4>1 DEF Process
    <3>5. me.step \in 0 .. Len(SpecOf(p).steps) /\ me.ticket \in Held
      BY <1>7, <3>1, <3>4
    <3>6. me.at = "apply" /\ me.step # 0
      BY <3>1, <3>4
    <3>. QED  BY <3>4, <3>5, <3>6 DEF Onward
  <2>3. CASE ~(k < length)
    <3>. DEFINE place == IF proc[p].number < Len(File(p).tickets) THEN "create" ELSE "verify"
                undated == <<NoDate, NoDate>>
    <3>1. proc[p].number + 1 \in Nat
      <4>. PICK n : n = proc[p].number
        OBVIOUS
      <4>1. n \in Nat
        BY <1>2 DEF Process
      <4>. QED  BY <4>1
    <3>2. place \in Places /\ undated \in Nat \X Nat
      BY DEF Places, NoDate
    <3>. PICK next : next = proc[p].number + 1
      OBVIOUS
    <3>3. me = [proc[p] EXCEPT !.at = place, !.number = next, !.step = 0, !.ticket = None,
                               !.mark = 0, !.before = undated]
      BY <2>3
    <3>. HIDE DEF me, place, undated
    <3>4. /\ me \in Process /\ me.unit = proc[p].unit /\ me.out = proc[p].out
          /\ me.at = place /\ me.number = next
      BY <1>2, <3>1, <3>2, <3>3 DEF Process
    <3>5. \/ place = "create" /\ proc[p].number < Len(File(p).tickets)
          \/ place = "verify" /\ ~(proc[p].number < Len(File(p).tickets))
      BY DEF place
    <3>. QED  BY <3>4, <3>5 DEF Onward
  <2>. QED  BY <2>2, <2>3
<1>. HIDE DEF me
<1>. PICK ticket : ticket = written
  OBVIOUS
<1>. PICK went : went = me
  OBVIOUS
<1>11. /\ ticket \in Ticket /\ ticket.who = tickets[proc[p].id].who
       /\ tickets' = [tickets EXCEPT ![proc[p].id] = ticket]
       /\ went \in Process /\ proc' = [proc EXCEPT ![p] = went]
       /\ went.unit = proc[p].unit /\ went.out = proc[p].out /\ Onward(p, went)
  BY <1>1, <1>9, <1>10
<1>. QED  BY <1>1, <1>11, OnwardKeeps

\* Nothing the app does takes anything from a process.
LEMMA AppKeeps ==
  ASSUME IInv, TablesOK', RowsStay, TicketsStay, UNCHANGED <<command, proc>>,
         foreign' \in 0 .. MaxForeign
  PROVE  IInv'
<1>1. TypeOK' /\ FreshOK'
  BY DEF IInv, TypeOK, TablesOK
<1>2. ASSUME NEW q \in Processes
      PROVE  PlaceOK(q)' /\ RowsOwned(q)' /\ TicketsOwned(q)'
  <2>1. command' = command /\ proc'[q] = proc[q]
    OBVIOUS
  <2>2. PlaceOK(q) /\ RowsOwned(q) /\ TicketsOwned(q)
    BY DEF IInv
  <2>. QED  BY <2>1, <2>2, OthersKeep
<1>. QED  BY <1>1, <1>2 DEF IInv

LEMMA AppCounts ==
  ASSUME IInv, App
  PROVE  UNCHANGED <<command, proc>> /\ foreign' \in 0 .. MaxForeign
<1>1. foreign \in 0 .. MaxForeign /\ MaxForeign \in Nat
  BY BoundsOK DEF IInv, TypeOK
<1>. QED  BY <1>1 DEF App

LEMMA app_makesKeeps ==
  ASSUME IInv, app_makes
  PROVE  IInv'
<1>1. UNCHANGED <<command, proc, tickets, next_id>> /\ foreign' \in 0 .. MaxForeign
  BY AppCounts DEF app_makes
<1>. PICK k \in Squatted : rows' = Inserted({k}, "app")
  BY DEF app_makes
<1>2. TablesOK' /\ RowsStay /\ TicketsStay
  <2>. PICK keys : keys = {k}
    OBVIOUS
  <2>1. "app" \in Writers /\ rows' = Inserted(keys, "app")
    BY DEF Writers
  <2>. QED  BY <1>1, <2>1, RowsInserted
<1>. QED  BY <1>1, <1>2, AppKeeps

LEMMA app_createsKeeps ==
  ASSUME IInv, app_creates
  PROVE  IInv'
<1>. DEFINE other == [subject |-> "other", queue |-> "General", owner |-> "Nobody", creator |-> "root"]
            row == NewTicket("app", other)
<1>1. /\ UNCHANGED <<command, proc, rows>> /\ foreign' \in 0 .. MaxForeign
      /\ next_id <= MaxId /\ next_id' = next_id + 1
      /\ tickets' = [tickets EXCEPT ![next_id] = row]
  BY AppCounts DEF app_creates
<1>2. row \in Ticket
  <2>1. /\ other.subject \in STRING /\ other.queue \in STRING
        /\ other.owner \in STRING /\ other.creator \in STRING
    BY NamesAreStrings
  <2>2. "app" \in Writers
    BY DEF Writers
  <2>. HIDE DEF other
  <2>. QED  BY <2>1, <2>2, NewTicketIsTicket
<1>. HIDE DEF row
<1>3. TypeOK /\ FreshOK
  BY DEF IInv
<1>4. tickets \in [1 .. MaxId -> Ticket \cup {Absent}] /\ next_id \in 1 .. MaxId + 1
  BY <1>3 DEF TypeOK
<1>5. /\ TicketsStay /\ FreshOK'
      /\ tickets' \in [1 .. MaxId -> Ticket \cup {Absent}] /\ next_id' \in 1 .. MaxId + 1
  BY <1>1, <1>2, <1>3, <1>4, CreateStays
<1>6. RowsStay /\ TablesOK'
  BY <1>1, <1>3, <1>5 DEF TypeOK, TablesOK, RowsStay
<1>. QED  BY <1>1, <1>5, <1>6, AppKeeps

\* Somebody wrote a row of the history in the app.
FromApp(row) == \E i \in DOMAIN row.log : row.log[i].who = "app"

\* What the app changes is a ticket still, and shows who changed it.
LEMMA TouchedIsTicket ==
  ASSUME IInv, app_touches
  PROVE  \E t \in Existing : \E row \in Ticket :
           row.who = tickets[t].who /\ FromApp(row) /\ tickets' = [tickets EXCEPT ![t] = row]
<1>. DEFINE Base(t) == [tickets[t] EXCEPT !.last_updated = Clock, !.last_updated_by = "root"]
            Moved(t, status) ==
              [Base(t) EXCEPT !.status = status,
                 !.started = StartedAfter(Base(t).status, status, @, Clock),
                 !.resolved = ResolvedAfter(Base(t).status, status, @, Clock)]
            Said(new, type) ==
              [new EXCEPT !.log = Append(@, [type |-> type, at |-> Clock, by |-> "root", who |-> "app"])]
<1>1. PICK t \in Existing :
        \/ \E type \in {"Comment", "Set"} : tickets' = [tickets EXCEPT ![t] = Said(Base(t), type)]
        \/ \E status \in transitions(Base(t).status) :
             tickets' = [tickets EXCEPT ![t] = Said(Moved(t, status), "Status")]
  BY DEF app_touches
<1>2. tickets[t] \in Ticket /\ Clock \in Nat
  BY BoundsOK DEF IInv, TypeOK, Existing
<1>3. Base(t) \in Ticket /\ Base(t).who = tickets[t].who
  <2>. PICK old : old = tickets[t]
    OBVIOUS
  <2>1. "root" \in STRING
    BY NamesAreStrings
  <2>2. /\ [old EXCEPT !.last_updated = Clock, !.last_updated_by = "root"] \in Ticket
        /\ [old EXCEPT !.last_updated = Clock, !.last_updated_by = "root"].who = old.who
    BY ONLY <1>2, <2>1, old = tickets[t] DEF Ticket
  <2>. QED  BY <2>2
<1>4. ASSUME NEW new \in Ticket, NEW type \in {"Comment", "Set", "Status"}
      PROVE  /\ Said(new, type) \in Ticket /\ Said(new, type).who = new.who
             /\ FromApp(Said(new, type))
  <2>. PICK entry : entry = [type |-> type, at |-> Clock, by |-> "root", who |-> "app"]
    OBVIOUS
  <2>1. entry \in Row
    <3>1. "app" \in Writers /\ "root" \in STRING
      BY NamesAreStrings DEF Writers
    <3>. QED  BY <1>2, <3>1 DEF Row
  <2>2. Append(new.log, entry) \in Seq(Row)
    <3>1. new.log \in Seq(Row)
      BY DEF Ticket
    <3>. HIDE DEF Said, Base, Moved
    <3>. QED  BY <2>1, <3>1
  <2>. PICK log : log = Append(new.log, entry)
    OBVIOUS
  <2>3. Said(new, type) = [new EXCEPT !.log = log]
    OBVIOUS
  <2>4. /\ [new EXCEPT !.log = log] \in Ticket /\ [new EXCEPT !.log = log].who = new.who
        /\ [new EXCEPT !.log = log].log = log
    BY <2>2 DEF Ticket
  <2>5. \E i \in DOMAIN log : log[i].who = "app"
    <3>1. new.log \in Seq(Row)
      BY DEF Ticket
    <3>. PICK old : old = new.log
      OBVIOUS
    <3>. PICK last : last = Len(old) + 1
      OBVIOUS
    <3>2. old \in Seq(Row) /\ entry \in Row /\ log = Append(old, entry) /\ last = Len(old) + 1
      BY <2>1, <3>1
    <3>3. last \in DOMAIN log /\ log[last] = entry
      BY ONLY <3>2
    <3>. HIDE DEF Said, Base, Moved
    <3>. QED  BY <3>3
  <2>. HIDE DEF Said
  <2>. QED  BY <2>3, <2>4, <2>5 DEF FromApp
<1>5. ASSUME NEW status \in transitions(Base(t).status)
      PROVE  Moved(t, status) \in Ticket /\ Moved(t, status).who = tickets[t].who
  <2>. PICK base : base = Base(t)
    OBVIOUS
  <2>1. status \in STATUSES
    BY DEF transitions, TRANSITIONS, STATUSES, Active
  <2>2. base \in Ticket /\ base.who = tickets[t].who /\ base.started \in Nat /\ base.resolved \in Nat
    BY <1>3 DEF Ticket
  <2>. PICK started : started = StartedAfter(base.status, status, base.started, Clock)
    OBVIOUS
  <2>. PICK resolved : resolved = ResolvedAfter(base.status, status, base.resolved, Clock)
    OBVIOUS
  <2>3. started \in Nat /\ resolved \in Nat
    BY <1>2, <2>2 DEF StartedAfter, ResolvedAfter, NoDate
  <2>. HIDE DEF Base
  <2>4. Moved(t, status) = [base EXCEPT !.status = status, !.started = started,
                                        !.resolved = resolved]
    OBVIOUS
  <2>5. /\ [base EXCEPT !.status = status, !.started = started, !.resolved = resolved] \in Ticket
        /\ [base EXCEPT !.status = status, !.started = started, !.resolved = resolved].who = base.who
    BY <2>1, <2>2, <2>3 DEF Ticket
  <2>. HIDE DEF Moved
  <2>. QED  BY <2>2, <2>4, <2>5
<1>. HIDE DEF Base, Moved, Said
<1>6. CASE \E type \in {"Comment", "Set"} : tickets' = [tickets EXCEPT ![t] = Said(Base(t), type)]
  BY <1>3, <1>4, <1>6
<1>7. CASE \E status \in transitions(Base(t).status) :
             tickets' = [tickets EXCEPT ![t] = Said(Moved(t, status), "Status")]
  BY <1>4, <1>5, <1>7
<1>. QED  BY <1>1, <1>6, <1>7

LEMMA app_touchesKeeps ==
  ASSUME IInv, app_touches
  PROVE  IInv'
<1>1. UNCHANGED <<command, proc, rows, next_id>> /\ foreign' \in 0 .. MaxForeign
  BY AppCounts DEF app_touches
<1>2. TypeOK /\ FreshOK
  BY DEF IInv
<1>3. tickets \in [1 .. MaxId -> Ticket \cup {Absent}]
  BY <1>2 DEF TypeOK
<1>4. \E t \in Existing : \E row \in Ticket :
        row.who = tickets[t].who /\ tickets' = [tickets EXCEPT ![t] = row]
  BY TouchedIsTicket
<1>5. TicketsStay /\ FreshOK' /\ tickets' \in [1 .. MaxId -> Ticket \cup {Absent}]
  BY <1>1, <1>2, <1>3, <1>4, UpdateStays
<1>6. RowsStay /\ TablesOK'
  BY <1>1, <1>2, <1>5 DEF TypeOK, TablesOK, RowsStay
<1>. QED  BY <1>1, <1>5, <1>6, AppKeeps

(* The invariant *)

LEMMA InitKeeps == Init => IInv
<1>. SUFFICES ASSUME Init
              PROVE  IInv
  OBVIOUS
<1>1. Existing = {} /\ MaxId \in Nat /\ MaxForeign \in Nat
  BY BoundsOK DEF Init, Existing
<1>2. \A p \in Processes :
        /\ proc[p] \in Process /\ proc[p].at = "start" /\ proc[p].unit = 1 /\ proc[p].number = 1
        /\ proc[p].out # "line"
  BY DEF Init, Process, Places, NoDate
<1>3. proc \in [Processes -> Process]
  <2>1. proc = [p \in Processes |-> proc[p]]
    BY DEF Init
  <2>. QED  BY <1>2, <2>1
<1>4. TypeOK
  <2>1. \A k \in DOMAIN rows : rows[k] \in Writers
    <3>1. rows = <<>>
      BY DEF Init
    <3>2. DOMAIN rows = {}
      BY ONLY <3>1
    <3>. QED  BY <3>2
  <2>2. tickets \in [1 .. MaxId -> Ticket \cup {Absent}]
    BY DEF Init
  <2>3. next_id \in 1 .. MaxId + 1 /\ foreign \in 0 .. MaxForeign /\ command \in Commands
    <3>1. next_id = 1 /\ foreign = 0 /\ command \in Commands
      BY DEF Init
    <3>. QED  BY ONLY <1>1, <3>1
  <2>. QED  BY <1>3, <2>1, <2>2, <2>3 DEF TypeOK
<1>5. FreshOK
  BY <1>1 DEF FreshOK
<1>6. ASSUME NEW p \in Processes
      PROVE  PlaceOK(p) /\ RowsOwned(p) /\ TicketsOwned(p)
  <2>. PICK file : file = File(p)
    OBVIOUS
  <2>. PICK units : units = Units(file)
    OBVIOUS
  <2>1. /\ Len(units) \in Nat /\ DOMAIN units = 1 .. Len(units)
        /\ Len(file.tickets) \in Nat /\ DOMAIN file.tickets = 1 .. Len(file.tickets)
    BY <1>4, FilesHaveShape
  <2>2. \A j \in DOMAIN units : ~(j < 1)
    BY <2>1
  <2>3. \A t \in DOMAIN file.tickets : ~(t < 1)
    BY <2>1
  <2>4. PlaceOK(p)
    BY <1>2 DEF PlaceOK
  <2>5. RowsOwned(p)
    BY <1>2, <2>2 DEF RowsOwned
  <2>6. TicketsOwned(p)
    BY <1>2, <2>3 DEF TicketsOwned
  <2>. QED  BY <2>4, <2>5, <2>6
<1>. QED  BY <1>4, <1>5, <1>6 DEF IInv

LEMMA NextKeeps == IInv /\ [Next]_vars => IInv'
<1>. SUFFICES ASSUME IInv, [Next]_vars
              PROVE  IInv'
  OBVIOUS
<1>1. CASE UNCHANGED vars
  <2>1. UNCHANGED <<command, proc>> /\ foreign' \in 0 .. MaxForeign
    BY <1>1 DEF vars, IInv, TypeOK
  <2>2. TablesOK' /\ RowsStay /\ TicketsStay
    BY <1>1, NothingStays DEF vars, database
  <2>. QED  BY <2>1, <2>2, AppKeeps
<1>2. ASSUME NEW p \in Processes,
             \/ start(p) \/ seed(p) \/ guard(p) \/ write(p) \/ create(p) \/ apply_step(p)
             \/ stamp(p) \/ verify(p) \/ fail(p)
      PROVE  IInv'
  BY <1>2, startKeeps, seedKeeps, guardKeeps, writeKeeps, createKeeps, applyKeeps,
     stampKeeps, verifyKeeps, failKeeps
<1>. QED
  BY <1>1, <1>2, app_makesKeeps, app_createsKeeps, app_touchesKeeps DEF Next

(* The theorems *)

\* The tables keep their shape, no id is handed out twice, and a load that is
\* at a unit or a ticket of its file has written everything before it, in
\* _write and in the loop over the tickets (fixture.py:768, 900).
THEOREM Invariant == Spec => []IInv
BY InitKeeps, NextKeeps, PTL DEF Spec

\* The tables and the processes have the types the module gives them.
THEOREM TypeCorrect == Spec => []TypeOK
<1>1. IInv => TypeOK
  BY DEF IInv
<1>. QED  BY <1>1, Invariant, PTL

\* A load prints its line past its last unit and its last ticket, when all
\* that is before it is its own: however many loads run at once, and whatever
\* the app makes or a cut-short load has left, the rows and the tickets the
\* line counts were written by that load (the unique keys under _write,
\* fixture.py:768, and the id at fixture.py:908).
THEOREM LinesAreOwn == Spec => []LineIsItsOwn
<1>1. ASSUME IInv
      PROVE  LineIsItsOwn
  <2>. SUFFICES ASSUME NEW p \in Processes, proc[p].out = "line", command[p].do = "load"
                PROVE  /\ \A k \in Objects(File(p)) : k[1] # "rights" => rows[k] = p
                       /\ \A t \in DOMAIN File(p).tickets : tickets[t].who = p
    BY DEF LineIsItsOwn
  <2>. PICK file : file = File(p)
    OBVIOUS
  <2>. PICK units : units = Units(file)
    OBVIOUS
  <2>1. TypeOK /\ PlaceOK(p) /\ RowsOwned(p) /\ TicketsOwned(p)
    BY <1>1 DEF IInv
  <2>2. /\ Len(units) \in Nat /\ DOMAIN units = 1 .. Len(units)
        /\ Len(file.tickets) \in Nat /\ DOMAIN file.tickets = 1 .. Len(file.tickets)
    BY <2>1, FilesHaveShape
  <2>3. proc[p].unit \in Nat /\ proc[p].number \in Nat
    BY <2>1 DEF TypeOK, Process
  <2>4. proc[p].unit > Len(units) /\ proc[p].number > Len(file.tickets)
    BY <2>1 DEF PlaceOK
  <2>5. ASSUME NEW k \in Objects(file), k[1] # "rights"
        PROVE  rows[k] = p
    <3>. PICK j \in DOMAIN units : k \in units[j]
      BY DEF Objects, ToSet
    <3>1. j < proc[p].unit
      BY <2>2, <2>3, <2>4
    <3>. QED  BY <2>1, <2>5, <3>1 DEF RowsOwned
  <2>6. ASSUME NEW t \in DOMAIN file.tickets
        PROVE  tickets[t].who = p
    <3>1. t < proc[p].number
      BY <2>2, <2>3, <2>4
    <3>. QED  BY <2>1, <3>1 DEF TicketsOwned
  <2>. QED  BY <2>5, <2>6
<1>. QED  BY <1>1, Invariant, PTL
==============================================================================
