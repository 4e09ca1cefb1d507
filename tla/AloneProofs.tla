----------------------------- MODULE AloneProofs -----------------------------
(***************************************************************************)
(* Proofs about a load on a side of its own: it prints its line exactly    *)
(* when the steps of its file can be taken one after the other and lead to *)
(* the status verify looks for.  And about the line of a load or a check   *)
(* among others: it stands for the file.                                   *)
(***************************************************************************)
EXTENDS LoadProofs

(* What a step does *)

\* A process that ends where it is.
Same(p) ==
  /\ proc'[p].at = proc[p].at /\ proc'[p].unit = proc[p].unit /\ proc'[p].step = proc[p].step
  /\ proc'[p].number = proc[p].number /\ proc'[p].id = proc[p].id

LEMMA EndIs ==
  ASSUME IInv, NEW p \in Processes, NEW out, End(p, out)
  PROVE  Same(p) /\ proc'[p].out = out
<1>. PICK old : old = proc[p]
  OBVIOUS
<1>1. old \in Process /\ proc'[p] = [old EXCEPT !.out = out]
  BY DEF IInv, TypeOK, End
<1>. PICK new : new = proc'[p]
  OBVIOUS
<1>2. /\ new.at = old.at /\ new.unit = old.unit /\ new.step = old.step
      /\ new.number = old.number /\ new.id = old.id /\ new.out = out
  BY ONLY <1>1, new = proc'[p] DEF Process
<1>. QED  BY <1>2 DEF Same

LEMMA GoIs ==
  ASSUME IInv, NEW p \in Processes, NEW place, Go(p, place)
  PROVE  /\ proc'[p].at = place /\ proc'[p].unit = proc[p].unit /\ proc'[p].step = proc[p].step
         /\ proc'[p].number = proc[p].number /\ proc'[p].id = proc[p].id
         /\ proc'[p].out = proc[p].out
<1>. PICK old : old = proc[p]
  OBVIOUS
<1>1. old \in Process /\ proc'[p] = [old EXCEPT !.at = place]
  BY DEF IInv, TypeOK, Go
<1>. PICK new : new = proc'[p]
  OBVIOUS
<1>2. /\ new.at = place /\ new.unit = old.unit /\ new.step = old.step
      /\ new.number = old.number /\ new.id = old.id /\ new.out = old.out
  BY ONLY <1>1, new = proc'[p] DEF Process
<1>. QED  BY <1>2

\* No row and no ticket is q's but those that were.
NotBy(q) ==
  /\ \A k \in DOMAIN rows' : rows'[k] = q => k \in DOMAIN rows /\ rows[k] = q
  /\ \A t \in Existing' : tickets'[t].who = q => t \in Existing /\ tickets[t].who = q

\* What is there stays, and what is new has the next id.
LEMMA StepsOnly ==
  ASSUME IInv, [Next]_vars
  PROVE  /\ RowsStay /\ TicketsStay /\ command' = command
         /\ next_id \in Nat /\ next_id' \in Nat /\ next_id <= next_id'
         /\ \A t \in Existing' : t \in Existing \/ t = next_id
         /\ foreign' = 0 => foreign = 0
<1>1. /\ tickets \in [1 .. MaxId -> Ticket \cup {Absent}] /\ next_id \in 1 .. MaxId + 1
      /\ FreshOK /\ foreign \in Nat /\ MaxId \in Nat
      /\ \A k \in DOMAIN rows : rows[k] \in Writers
  BY BoundsOK DEF IInv, TypeOK
<1>2. IInv'
  BY NextKeeps
<1>. DEFINE Counted == foreign' = 0 => foreign = 0
            Goal == /\ RowsStay /\ TicketsStay /\ command' = command
                    /\ next_id \in Nat /\ next_id' \in Nat /\ next_id <= next_id'
                    /\ \A t \in Existing' : t \in Existing \/ t = next_id
                    /\ Counted
<1>. HIDE DEF Goal, Counted
<1>3. ASSUME UNCHANGED <<rows, tickets, command>>, next_id' = next_id \/ next_id' = next_id + 1,
             Counted
      PROVE  Goal
  BY <1>1, <1>3 DEF RowsStay, TicketsStay, Existing, Goal
<1>4. ASSUME NEW keys, NEW who \in Writers, rows' = Inserted(keys, who),
             UNCHANGED <<tickets, next_id, command>>, Counted
      PROVE  Goal
  <2>1. RowsStay
    BY <1>1, <1>4, InsertStays
  <2>. QED  BY <1>1, <1>4, <2>1 DEF TicketsStay, Existing, Goal
<1>5. ASSUME NEW row, tickets' = [tickets EXCEPT ![next_id] = row], next_id' = next_id + 1,
             next_id <= MaxId, UNCHANGED <<rows, command>>, Counted
      PROVE  Goal
  <2>1. next_id \in 1 .. MaxId /\ \A t \in Existing : t \in Nat /\ t < next_id
    BY <1>1, <1>5 DEF FreshOK, Existing
  <2>2. \A t \in 1 .. MaxId : t # next_id => tickets'[t] = tickets[t]
    BY <1>1, <1>5
  <2>3. TicketsStay
    BY <2>1, <2>2 DEF TicketsStay, Existing
  <2>4. \A t \in Existing' : t \in Existing \/ t = next_id
    BY <2>2 DEF Existing
  <2>. QED  BY <1>1, <1>5, <2>3, <2>4 DEF RowsStay, Goal
<1>6. ASSUME NEW t \in Existing, NEW row, tickets' = [tickets EXCEPT ![t] = row],
             t \in Existing', tickets'[t].who = tickets[t].who,
             UNCHANGED <<rows, next_id, command>>, Counted
      PROVE  Goal
  <2>1. \A u \in 1 .. MaxId : u # t => tickets'[u] = tickets[u]
    BY <1>1, <1>6 DEF Existing
  <2>2. TicketsStay /\ \A u \in Existing' : u \in Existing
    BY <1>6, <2>1 DEF TicketsStay, Existing
  <2>. QED  BY <1>1, <1>6, <2>2 DEF RowsStay, Goal
<1>7. CASE UNCHANGED vars
  <2>1. UNCHANGED <<rows, tickets, command>> /\ next_id' = next_id /\ foreign' = foreign
    BY <1>7 DEF vars
  <2>2. Counted
    BY <2>1 DEF Counted
  <2>. QED  BY <1>3, <2>1, <2>2 DEF Goal
<1>8. ASSUME NEW p \in Processes, start(p) \/ guard(p) \/ verify(p)
      PROVE  Goal
  BY <1>3, <1>8 DEF start, guard, verify, database, Counted
<1>9. ASSUME NEW p \in Processes, fail(p)
      PROVE  Goal
  BY <1>3, <1>9 DEF fail, Counted
<1>10. ASSUME NEW p \in Processes, seed(p) \/ write(p)
       PROVE  Goal
  <2>1. p \in Writers /\ UNCHANGED <<tickets, next_id, command, foreign>>
    BY <1>10 DEF seed, write, Writers
  <2>2. rows' = rows \/ \E keys : rows' = Inserted(keys, p)
    BY <1>10 DEF seed, write
  <2>. QED  BY <1>3, <1>4, <2>1, <2>2 DEF Counted
<1>11. ASSUME NEW p \in Processes, create(p)
       PROVE  Goal
  <2>1. UNCHANGED <<rows, command, foreign>> /\ next_id <= MaxId
    BY <1>11 DEF create
  <2>2. \/ UNCHANGED <<tickets, next_id>>
        \/ \E row : tickets' = [tickets EXCEPT ![next_id] = row] /\ next_id' = next_id + 1
    BY <1>11 DEF create, Created
  <2>. QED  BY <1>3, <1>5, <2>1, <2>2 DEF Counted
<1>12. ASSUME NEW p \in Processes, apply_step(p) \/ stamp(p)
       PROVE  Goal
  <2>. PICK id : id = proc[p].id
    OBVIOUS
  <2>1. UNCHANGED <<rows, next_id, command, foreign>> /\ proc[p].at \in {"apply", "stamp"}
    BY <1>12 DEF apply_step, stamp, At
  <2>2. \/ UNCHANGED tickets
        \/ /\ \E row : tickets' = [tickets EXCEPT ![id] = row]
           /\ proc'[p].id = id
           /\ proc'[p].at \in {"stamp", "apply"} \/ proc'[p].number = proc[p].number + 1
    <3>1. proc \in [Processes -> Process] /\ proc[p] \in Process
      BY DEF IInv, TypeOK
    <3>2. CASE apply_step(p)
      <4>1. \/ UNCHANGED tickets
            \/ /\ \E row : tickets' = [tickets EXCEPT ![id] = row]
               /\ \E new, dates : proc' = [proc EXCEPT ![p].at = "stamp", ![p].ticket = new,
                                                       ![p].before = dates]
        BY <3>2 DEF apply_step
      <4>2. ASSUME NEW new, NEW dates,
                   proc' = [proc EXCEPT ![p].at = "stamp", ![p].ticket = new, ![p].before = dates]
            PROVE  proc'[p].at = "stamp" /\ proc'[p].id = id
        <5>. PICK old : old = proc[p]
          OBVIOUS
        <5>1. old \in Process /\ proc'[p] = [old EXCEPT !.at = "stamp", !.ticket = new, !.before = dates]
          BY <3>1, <4>2
        <5>2. proc'[p].at = "stamp" /\ proc'[p].id = old.id
          BY ONLY <5>1 DEF Process
        <5>. QED  BY <5>2
      <4>. QED  BY <4>1, <4>2
    <3>3. CASE stamp(p)
      <4>1. /\ \E row : tickets' = [tickets EXCEPT ![id] = row]
            /\ \E step, new, mark, place, number, undated :
                 \/ proc' = [proc EXCEPT ![p] =
                      [proc[p] EXCEPT !.at = "apply", !.step = step, !.ticket = new, !.mark = mark]]
                 \/ /\ number = proc[p].number + 1
                    /\ proc' = [proc EXCEPT ![p] =
                         [proc[p] EXCEPT !.at = place, !.number = number, !.step = 0, !.ticket = None,
                                         !.mark = 0, !.before = undated]]
        BY <3>3 DEF stamp
      <4>. PICK step, new, mark, place, number, undated :
             \/ proc' = [proc EXCEPT ![p] =
                  [proc[p] EXCEPT !.at = "apply", !.step = step, !.ticket = new, !.mark = mark]]
             \/ /\ number = proc[p].number + 1
                /\ proc' = [proc EXCEPT ![p] =
                     [proc[p] EXCEPT !.at = place, !.number = number, !.step = 0, !.ticket = None,
                                     !.mark = 0, !.before = undated]]
        BY <4>1
      <4>2. ASSUME proc' = [proc EXCEPT ![p] =
                     [proc[p] EXCEPT !.at = "apply", !.step = step, !.ticket = new, !.mark = mark]]
            PROVE  proc'[p].at \in {"stamp", "apply"} /\ proc'[p].id = id
        <5>. PICK old : old = proc[p]
          OBVIOUS
        <5>1. /\ old \in Process
              /\ proc'[p] = [old EXCEPT !.at = "apply", !.step = step, !.ticket = new, !.mark = mark]
          BY <3>1, <4>2
        <5>2. proc'[p].at = "apply" /\ proc'[p].id = old.id
          BY ONLY <5>1 DEF Process
        <5>. QED  BY <5>2
      <4>3. ASSUME number = proc[p].number + 1,
                   proc' = [proc EXCEPT ![p] =
                     [proc[p] EXCEPT !.at = place, !.number = number, !.step = 0, !.ticket = None,
                                     !.mark = 0, !.before = undated]]
            PROVE  proc'[p].number = proc[p].number + 1 /\ proc'[p].id = id
        <5>. PICK old : old = proc[p]
          OBVIOUS
        <5>1. /\ old \in Process
              /\ proc'[p] = [old EXCEPT !.at = place, !.number = number, !.step = 0, !.ticket = None,
                                        !.mark = 0, !.before = undated]
          BY <3>1, <4>3
        <5>2. proc'[p].number = number /\ proc'[p].id = old.id
          BY ONLY <5>1 DEF Process
        <5>. QED  BY <4>3, <5>2
      <4>. QED  BY <4>1, <4>2, <4>3
    <3>. QED  BY <1>12, <3>2, <3>3
  <2>3. /\ id \in Existing /\ tickets[id].who = p /\ id = proc[p].number
        /\ proc[p].number \in DOMAIN File(p).tickets /\ id \in Nat
    BY <2>1 DEF IInv, PlaceOK, Existing
  <2>4. CASE /\ \E row : tickets' = [tickets EXCEPT ![id] = row]
             /\ proc'[p].id = id
             /\ proc'[p].at \in {"stamp", "apply"} \/ proc'[p].number = proc[p].number + 1
    <3>1. id \in Existing' /\ tickets'[id].who = p
      <4>1. PlaceOK(p)' /\ TicketsOwned(p)'
        BY <1>2 DEF IInv
      <4>2. File(p)' = File(p)
        BY <2>1 DEF File
      <4>3. CASE proc'[p].at \in {"stamp", "apply"}
        BY <2>4, <4>1, <4>3 DEF PlaceOK
      <4>4. CASE proc'[p].number = proc[p].number + 1
        <5>1. id < proc'[p].number /\ id \in DOMAIN (File(p).tickets)'
          BY <2>3, <4>2, <4>4
        <5>. QED  BY <4>1, <5>1 DEF TicketsOwned
      <4>. QED  BY <2>4, <4>3, <4>4
    <3>. QED  BY <1>6, <2>1, <2>3, <2>4, <3>1 DEF Counted
  <2>. QED  BY <1>3, <2>1, <2>2, <2>4 DEF Counted
<1>13. CASE app_makes \/ app_creates \/ app_touches
  <2>1. command' = command /\ Counted
    <3>1. command' = command /\ foreign' = foreign + 1
      BY <1>13 DEF app_makes, app_creates, app_touches, App
    <3>. QED  BY <1>1, <3>1 DEF Goal, Counted
  <2>2. CASE app_makes
    <3>1. "app" \in Writers
      BY DEF Writers
    <3>2. UNCHANGED <<tickets, next_id, command>> /\ \E keys : rows' = Inserted(keys, "app")
      BY <2>1, <2>2 DEF app_makes
    <3>. QED  BY <1>4, <2>1, <3>1, <3>2 DEF Goal, Counted
  <2>3. CASE app_creates
    <3>1. /\ UNCHANGED <<rows, command>> /\ next_id' = next_id + 1 /\ next_id <= MaxId
          /\ \E row : tickets' = [tickets EXCEPT ![next_id] = row]
      BY <2>1, <2>3 DEF app_creates
    <3>. QED  BY <1>5, <2>1, <3>1 DEF Goal, Counted
  <2>4. CASE app_touches
    <3>1. PICK t \in Existing, row \in Ticket :
            row.who = tickets[t].who /\ tickets' = [tickets EXCEPT ![t] = row]
      BY <2>4, TouchedIsTicket
    <3>2. tickets'[t] = row /\ t \in Existing'
      BY <1>1, <3>1, AbsentIsNoTicket DEF Existing
    <3>3. UNCHANGED <<rows, next_id, command>>
      BY <2>1, <2>4 DEF app_touches
    <3>. QED  BY <1>6, <2>1, <3>1, <3>2, <3>3 DEF Goal, Counted
  <2>. QED  BY <1>13, <2>2, <2>3, <2>4
<1>. QED  BY <1>7, <1>8, <1>9, <1>10, <1>11, <1>12, <1>13 DEF Next, Goal, Counted

\* What is new is whose step it was.
AllNewBy(who) ==
  /\ \A k \in DOMAIN rows' : k \in DOMAIN rows \/ rows'[k] = who
  /\ \A t \in Existing' : t \in Existing \/ tickets'[t].who = who

LEMMA NewIsOwn ==
  ASSUME IInv, NEW p \in Processes,
         \/ start(p) \/ seed(p) \/ guard(p) \/ write(p) \/ create(p) \/ apply_step(p)
         \/ stamp(p) \/ verify(p) \/ fail(p)
  PROVE  AllNewBy(p)
<1>1. /\ tickets \in [1 .. MaxId -> Ticket \cup {Absent}] /\ next_id \in 1 .. MaxId + 1
      /\ MaxId \in Nat
  BY BoundsOK DEF IInv, TypeOK
<1>2. CASE start(p) \/ guard(p) \/ verify(p) \/ fail(p)
  BY <1>2 DEF start, guard, verify, fail, database, AllNewBy, Existing
<1>3. CASE seed(p) \/ write(p)
  <2>1. UNCHANGED tickets /\ (rows' = rows \/ \E keys : rows' = Inserted(keys, p))
    BY <1>3 DEF seed, write
  <2>. QED  BY <2>1 DEF AllNewBy, Existing, Inserted, Has
<1>4. CASE create(p)
  <2>. PICK new : new = NewTicket(p, SpecOf(p))
    OBVIOUS
  <2>1. /\ UNCHANGED rows /\ next_id <= MaxId
        /\ UNCHANGED tickets \/ tickets' = [tickets EXCEPT ![next_id] = new]
    BY <1>4 DEF create, Created
  <2>2. new.who = p
    BY DEF NewTicket
  <2>3. next_id \in 1 .. MaxId
    BY <1>1, <2>1
  <2>. QED  BY <1>1, <2>1, <2>2, <2>3 DEF AllNewBy, Existing
<1>5. CASE apply_step(p) \/ stamp(p)
  <2>. PICK id : id = proc[p].id
    OBVIOUS
  <2>1. /\ UNCHANGED rows
        /\ UNCHANGED tickets \/ \E row : tickets' = [tickets EXCEPT ![id] = row]
        /\ proc[p].at \in {"apply", "stamp"}
    BY <1>5 DEF apply_step, stamp, At
  <2>2. id \in Existing
    BY <2>1 DEF IInv, PlaceOK
  <2>. QED  BY <1>1, <2>1, <2>2 DEF AllNewBy, Existing
<1>. QED  BY <1>2, <1>3, <1>4, <1>5

LEMMA NewIsTheApps ==
  ASSUME IInv, app_makes \/ app_creates \/ app_touches
  PROVE  AllNewBy("app")
<1>1. /\ tickets \in [1 .. MaxId -> Ticket \cup {Absent}] /\ next_id \in 1 .. MaxId + 1
      /\ MaxId \in Nat
  BY BoundsOK DEF IInv, TypeOK
<1>2. CASE app_makes
  <2>1. UNCHANGED tickets /\ \E keys : rows' = Inserted(keys, "app")
    BY <1>2 DEF app_makes
  <2>. QED  BY <2>1 DEF AllNewBy, Existing, Inserted, Has
<1>3. CASE app_creates
  <2>1. UNCHANGED rows /\ next_id <= MaxId
        /\ \E row : row.who = "app" /\ tickets' = [tickets EXCEPT ![next_id] = row]
    BY <1>3 DEF app_creates, NewTicket
  <2>2. next_id \in 1 .. MaxId
    BY <1>1, <2>1
  <2>. QED  BY <1>1, <2>1, <2>2 DEF AllNewBy, Existing
<1>4. CASE app_touches
  <2>1. PICK t \in Existing, row \in Ticket :
          row.who = tickets[t].who /\ tickets' = [tickets EXCEPT ![t] = row]
    BY <1>4, TouchedIsTicket
  <2>2. UNCHANGED rows
    BY <1>4 DEF app_touches
  <2>. QED  BY <1>1, <2>1, <2>2 DEF AllNewBy, Existing
<1>. QED  BY <1>2, <1>3, <1>4

\* A step is another's, or nobody's.
LEMMA NotByOthers ==
  ASSUME RowsStay, TicketsStay, NEW q \in Processes, NEW who, who # q, AllNewBy(who)
  PROVE  NotBy(q)
<1>1. \A k \in DOMAIN rows' : rows'[k] = q => k \in DOMAIN rows /\ rows[k] = q
  BY DEF RowsStay, AllNewBy
<1>2. \A t \in Existing' : tickets'[t].who = q => t \in Existing /\ tickets[t].who = q
  BY DEF TicketsStay, AllNewBy
<1>. QED  BY <1>1, <1>2 DEF NotBy

\* Who is alone has been.
LEMMA AloneBefore ==
  ASSUME NEW p \in Processes, RowsStay, TicketsStay, next_id \in Nat, next_id' \in Nat,
         next_id <= next_id', \A t \in Existing' : t \in Existing \/ t = next_id,
         foreign' = 0 => foreign = 0, Alone(p)'
  PROVE  Alone(p)
<1>1. foreign = 0
  BY DEF Alone
<1>2. \A k \in DOMAIN rows \ SEED : rows[k] = p
  BY DEF Alone, RowsStay
<1>3. ASSUME NEW t \in 1 .. next_id - 1
      PROVE  t \in Existing /\ tickets[t].who = p
  <2>. PICK n \in Nat, m \in Nat : n = next_id /\ m = next_id'
    OBVIOUS
  <2>0. t \in 1 .. n - 1 /\ n <= m
    BY <1>3
  <2>1. t \in 1 .. m - 1 /\ t # n
    BY ONLY <2>0, n \in Nat, m \in Nat
  <2>2. t \in Existing' /\ tickets'[t].who = p
    BY <2>1 DEF Alone
  <2>. QED  BY <2>1, <2>2 DEF TicketsStay
<1>. QED  BY <1>1, <1>2, <1>3 DEF Alone

\* What is known of a process, but what it has played.
Told(q) == RowsFrom(q) /\ TicketsFrom(q) /\ GuardStands(q) /\ PlayedSoFar(q)

\* Others leave a process what is known of it.
LEMMA OthersTold ==
  ASSUME RowsStay, command' = command, NEW q \in Processes, proc'[q] = proc[q], NotBy(q),
         Alone(q)' => Alone(q), Told(q)
  PROVE  Told(q)'
<1>. PICK me : me = proc[q]
  OBVIOUS
<1>. PICK file : file = File(q)
  OBVIOUS
<1>. PICK spec : spec = SpecOf(q)
  OBVIOUS
<1>1. proc'[q] = me /\ File(q)' = file /\ SpecOf(q)' = spec /\ command'[q] = command[q]
  BY DEF File, SpecOf
<1>2. RowsFrom(q)'
  BY <1>1 DEF Told, RowsFrom, NotBy
<1>3. TicketsFrom(q)'
  BY <1>1 DEF Told, TicketsFrom, NotBy
<1>4. GuardStands(q)'
  BY <1>1 DEF Told, GuardStands, Guarded, RowsStay, Has
<1>5. PlayedSoFar(q)'
  BY <1>1 DEF Told, PlayedSoFar
<1>. QED  BY <1>2, <1>3, <1>4, <1>5 DEF Told

(* The parts of what has been played *)

Behind(p) ==
  \A t \in DOMAIN File(p).tickets : t < proc[p].number =>
    /\ Owned(File(p), File(p).tickets[t])
    /\ \A k \in DOMAIN File(p).tickets[t].steps : Playable(File(p).tickets[t], k)

Opened(p) ==
  proc[p].at \in {"stamp", "apply"} =>
    /\ Owned(File(p), SpecOf(p))
    /\ \A k \in DOMAIN SpecOf(p).steps :
         k < proc[p].step \/ (k = proc[p].step /\ proc[p].at = "stamp") => Playable(SpecOf(p), k)

Ended(p) ==
  proc[p].out \in {"line", "partly", "absent"} => (proc[p].out = "line" <=> Plays(File(p)))

LEMMA PlayedIs ==
  ASSUME NEW p \in Processes
  PROVE  /\ PlayedSoFar(p) <=>
              (command[p].do = "load" /\ Alone(p) => Behind(p) /\ Opened(p) /\ Ended(p))
         /\ PlayedSoFar(p)' <=>
              (command'[p].do = "load" /\ Alone(p)' => Behind(p)' /\ Opened(p)' /\ Ended(p)')
<1>. PICK me : me = proc[p]
  OBVIOUS
<1>. PICK file, file1 : file = File(p) /\ file1 = File(p)'
  OBVIOUS
<1>. PICK spec, spec1 : spec = SpecOf(p) /\ spec1 = SpecOf(p)'
  OBVIOUS
<1>. QED  BY DEF PlayedSoFar, Behind, Opened, Ended

\* A running process that leaves the tickets and its place in them alone.
LEMMA QuietTold ==
  ASSUME NEW p \in Processes, Told(p), RowsStay, UNCHANGED <<tickets, command>>,
         Alone(p)' => Alone(p), proc[p].out = "", proc'[p].number = proc[p].number,
         \/ proc'[p].at = proc[p].at /\ proc'[p].step = proc[p].step
         \/ proc[p].at \notin {"stamp", "apply"} /\ proc'[p].at \notin {"stamp", "apply"},
         RowsFrom(p)', GuardStands(p)',
         command[p].do = "load" /\ Alone(p) /\ Behind(p) /\ Opened(p) /\ Ended(p) => Ended(p)'
  PROVE  Told(p)'
<1>. PICK me : me = proc[p]
  OBVIOUS
<1>. PICK went : went = proc'[p]
  OBVIOUS
<1>. PICK file : file = File(p)
  OBVIOUS
<1>. PICK spec : spec = SpecOf(p)
  OBVIOUS
<1>1. File(p)' = file /\ SpecOf(p)' = spec /\ command'[p] = command[p] /\ Existing' = Existing
  BY DEF File, SpecOf, Existing
<1>2. TicketsFrom(p)'
  <2>. SUFFICES ASSUME NEW t \in Existing, tickets[t].who = p
                PROVE  t < went.number \/ (t = went.number /\ went.at \in {"stamp", "apply"})
    BY <1>1 DEF TicketsFrom
  <2>1. t < me.number \/ (t = me.number /\ me.at \in {"stamp", "apply"})
    BY DEF Told, TicketsFrom
  <2>. QED  BY <2>1
<1>3. Behind(p) => Behind(p)'
  BY <1>1 DEF Behind
<1>4. Opened(p) => Opened(p)'
  BY <1>1 DEF Opened
<1>5. PlayedSoFar(p)
  BY DEF Told
<1>6. PlayedSoFar(p)'
  <2>. HIDE DEF Behind, Opened, Ended, Alone, PlayedSoFar
  <2>1. command[p].do = "load" /\ Alone(p) => Behind(p) /\ Opened(p) /\ Ended(p)
    BY <1>5, PlayedIs
  <2>2. PlayedSoFar(p)' <=>
          (command'[p].do = "load" /\ Alone(p)' => Behind(p)' /\ Opened(p)' /\ Ended(p)')
    BY PlayedIs
  <2>. QED  BY <1>1, <1>3, <1>4, <2>1, <2>2
<1>. QED  BY <1>2, <1>6 DEF Told

(* The places before the first ticket *)

LEMMA StaysFrom ==
  ASSUME NEW p \in Processes, RowsFrom(p), command' = command,
         proc'[p].unit = proc[p].unit, proc[p].out = "",
         \A k \in DOMAIN rows' : rows'[k] = p => k \in SEED \/ (k \in DOMAIN rows /\ rows[k] = p)
  PROVE  RowsFrom(p)'
<1>. PICK me : me = proc[p]
  OBVIOUS
<1>. PICK units : units = Units(File(p))
  OBVIOUS
<1>1. Units(File(p))' = units
  BY DEF File
<1>. QED  BY <1>1 DEF RowsFrom

LEMMA StillStands ==
  ASSUME NEW p \in Processes, GuardStands(p), command' = command, RowsStay,
         Guarded(p)' => Guarded(p)
  PROVE  GuardStands(p)'
<1>. PICK file : file = File(p)
  OBVIOUS
<1>1. File(p)' = file
  BY DEF File
<1>. QED  BY <1>1 DEF GuardStands, RowsStay, Has

\* A process that ends without a word on whether the file plays.
LEMMA EndTold ==
  ASSUME IInv, NEW p \in Processes, Told(p), RowsStay, command' = command,
         UNCHANGED <<rows, tickets>>, Alone(p)' => Alone(p), proc[p].out = "",
         NEW out, End(p, out),
         command[p].do = "load" /\ Alone(p) /\ Behind(p) /\ Opened(p) => Ended(p)'
  PROVE  Told(p)'
<1>1. Same(p)
  BY EndIs
<1>2. RowsFrom(p)'
  BY <1>1, StaysFrom DEF Told, Same
<1>3. Guarded(p)' => Guarded(p)
  BY <1>1 DEF Guarded, Same
<1>4. GuardStands(p)'
  BY <1>3, StillStands DEF Told
<1>. HIDE DEF Told, Behind, Opened, Ended, Alone, Guarded, RowsFrom, GuardStands
<1>5. /\ proc'[p].number = proc[p].number
      /\ proc'[p].at = proc[p].at /\ proc'[p].step = proc[p].step
  BY <1>1 DEF Same
<1>. QED  BY <1>2, <1>4, <1>5, QuietTold

\* An end that is none of these is no word at all.
LEMMA EndsOtherwise ==
  ASSUME IInv, NEW p \in Processes, NEW out \in {"schema", "seeded", "refused", "failed"}, End(p, out)
  PROVE  Ended(p)'
<1>1. proc'[p].out = out
  BY EndIs
<1>. PICK plays : plays = Plays(File(p))'
  OBVIOUS
<1>. QED  BY <1>1 DEF Ended

LEMMA GoTold ==
  ASSUME IInv, NEW p \in Processes, Told(p), RowsStay, UNCHANGED <<tickets, command>>,
         Alone(p)' => Alone(p), proc[p].out = "",
         NEW place, Go(p, place), place \notin {"stamp", "apply"},
         proc[p].at \notin {"stamp", "apply"}, GuardStands(p)',
         \A k \in DOMAIN rows' : rows'[k] = p => k \in SEED \/ (k \in DOMAIN rows /\ rows[k] = p)
  PROVE  Told(p)'
<1>1. /\ proc'[p].at = place /\ proc'[p].unit = proc[p].unit /\ proc'[p].step = proc[p].step
      /\ proc'[p].number = proc[p].number /\ proc'[p].id = proc[p].id
      /\ proc'[p].out = proc[p].out
  BY GoIs
<1>2. RowsFrom(p)'
  BY <1>1, StaysFrom DEF Told
<1>3. Ended(p) => Ended(p)'
  <2>1. File(p)' = File(p)
    BY DEF File
  <2>. PICK file : file = File(p)
    OBVIOUS
  <2>. QED  BY <1>1, <2>1 DEF Ended
<1>4. proc[p].at \notin {"stamp", "apply"} /\ proc'[p].at \notin {"stamp", "apply"}
  BY <1>1
<1>. HIDE DEF Told, Behind, Opened, Ended, Alone, Guarded, RowsFrom, GuardStands
<1>. QED  BY <1>1, <1>2, <1>3, <1>4, QuietTold

\* What every step lets one go on from.
Onwards(p) ==
  /\ RowsStay /\ TicketsStay /\ command' = command /\ (Alone(p)' => Alone(p))

LEMMA GoesOn ==
  ASSUME IInv, [Next]_vars, NEW p \in Processes
  PROVE  Onwards(p)
<1>1. /\ RowsStay /\ TicketsStay /\ command' = command
      /\ next_id \in Nat /\ next_id' \in Nat /\ next_id <= next_id'
      /\ \A t \in Existing' : t \in Existing \/ t = next_id
      /\ foreign' = 0 => foreign = 0
  BY StepsOnly
<1>. QED  BY <1>1, AloneBefore DEF Onwards

LEMMA startTold ==
  ASSUME IInv, NEW p \in Processes, Onwards(p), Told(p), start(p)
  PROVE  Told(p)'
<1>1. /\ UNCHANGED <<rows, tickets, command>> /\ proc[p].at = "start" /\ proc[p].out = ""
      /\ \/ \E out \in {"schema", "seeded"} : End(p, out)
         \/ command[p].do = "check" /\ Go(p, "verify")
         \/ \E place \in {"seed", "guard"} : Go(p, place)
  BY DEF start, Seeded, At, database
<1>2. CASE \E out \in {"schema", "seeded"} : End(p, out)
  BY <1>1, <1>2, EndsOtherwise, EndTold DEF Onwards
<1>3. ASSUME NEW place \in {"verify", "seed", "guard"}, Go(p, place),
             place = "verify" => command[p].do = "check"
      PROVE  Told(p)'
  <2>1. proc'[p].at = place
    BY <1>3, GoIs
  <2>2. ~Guarded(p)'
    BY <1>1, <1>3, <2>1 DEF Guarded
  <2>3. GuardStands(p)'
    BY <2>2 DEF GuardStands
  <2>. QED  BY <1>1, <1>3, <2>3, GoTold DEF Onwards
<1>. QED  BY <1>1, <1>2, <1>3

LEMMA seedTold ==
  ASSUME IInv, NEW p \in Processes, Onwards(p), Told(p), seed(p)
  PROVE  Told(p)'
<1>1. /\ UNCHANGED <<tickets, command>> /\ proc[p].at = "seed" /\ proc[p].out = ""
      /\ \/ End(p, "failed") /\ UNCHANGED rows
         \/ rows' = Inserted(SEED, p) /\ (End(p, "seeded") \/ Go(p, "guard"))
  BY DEF seed, Seeded, At
<1>2. CASE End(p, "failed") /\ UNCHANGED rows
  BY <1>1, <1>2, EndsOtherwise, EndTold DEF Onwards
<1>3. CASE rows' = Inserted(SEED, p)
  <2>1. \A k \in DOMAIN rows' : rows'[k] = p => k \in SEED \/ (k \in DOMAIN rows /\ rows[k] = p)
    <3>. HIDE DEF SEED
    <3>. QED  BY <1>3 DEF Inserted, Has
  <2>2. CASE Go(p, "guard")
    <3>1. proc'[p].at = "guard"
      BY <2>2, GoIs
    <3>2. GuardStands(p)'
      BY <3>1 DEF GuardStands, Guarded
    <3>. QED  BY <1>1, <2>1, <2>2, <3>2, GoTold DEF Onwards
  <2>3. CASE End(p, "seeded")
    <3>1. Same(p)
      BY <2>3, EndIs
    <3>2. RowsFrom(p)'
      BY <1>1, <2>1, <3>1, StaysFrom DEF Told, Onwards, Same
    <3>3. ~Guarded(p)'
      BY <1>1, <3>1 DEF Guarded, Same
    <3>4. GuardStands(p)'
      BY <3>3 DEF GuardStands
    <3>5. Ended(p)'
      BY <2>3, EndsOtherwise
    <3>6. /\ proc'[p].number = proc[p].number
          /\ proc'[p].at = proc[p].at /\ proc'[p].step = proc[p].step
      BY <3>1 DEF Same
    <3>. HIDE DEF Told, Behind, Opened, Ended, Alone, Guarded, RowsFrom, GuardStands, RowsStay
    <3>. QED  BY <1>1, <3>2, <3>4, <3>5, <3>6, QuietTold DEF Onwards
  <2>. QED  BY <1>1, <1>2, <1>3, <2>2, <2>3
<1>. QED  BY <1>1, <1>2, <1>3

\* The seed has come before whoever is past it.
LEMMA SeedIsThere ==
  ASSUME SeededOK, NEW p \in Processes, proc[p].at = "guard" \/ Guarded(p)
  PROVE  SEED \subseteq DOMAIN rows
BY DEF SeededOK

LEMMA UnitsAre ==
  ASSUME TypeOK, NEW p \in Processes, parse(File(p))
  PROVE  /\ \A i, j \in DOMAIN Units(File(p)) : \A k \in Units(File(p))[i] \cap Units(File(p))[j] :
              i = j \/ k[1] = "rights"
         /\ {k \in Objects(File(p)) : k[1] = "queues"} =
              {<<"queues", q.name>> : q \in {x \in ToSet(File(p).queues) : ~x.existing}}
         /\ \A k : k \in Objects(File(p)) <=>
              \E j \in DOMAIN Units(File(p)) : k \in Units(File(p))[j]
<1>1. command \in Commands
  BY DEF TypeOK
<1>. PICK file : file = File(p)
  OBVIOUS
<1>. PICK units : units = Units(file)
  OBVIOUS
<1>2. /\ \A i, j \in DOMAIN units : \A k \in units[i] \cap units[j] : i = j \/ k[1] = "rights"
      /\ {k \in Objects(file) : k[1] = "queues"} =
           {<<"queues", q.name>> : q \in {x \in ToSet(file.queues) : ~x.existing}}
  <2>1. file = command[p].file /\ units = Units(file) /\ parse(file)
    BY DEF File
  <2>. DEFINE Fit(f) ==
         LET us == Units(f)
         IN  /\ us \in Seq(SUBSET Seq(STRING))
             /\ parse(f) =>
                  /\ \A i, j \in DOMAIN us : \A k \in us[i] \cap us[j] : i = j \/ k[1] = "rights"
                  /\ {k \in Objects(f) : k[1] = "queues"} =
                       {<<"queues", q.name>> : q \in {x \in ToSet(f.queues) : ~x.existing}}
  <2>2. \A c \in Commands : \A q \in Processes : Fit(c[q].file)
    BY UnitsOK, Zenon
  <2>3. Fit(file)
    <3>. HIDE DEF Fit
    <3>. QED  BY <1>1, <2>1, <2>2
  <2>. HIDE DEF Units, parse, Objects
  <2>. QED  BY <2>1, <2>3
<1>3. \A k : k \in Objects(file) <=> \E j \in DOMAIN units : k \in units[j]
  BY DEF Objects, ToSet
<1>. QED  BY <1>2, <1>3

LEMMA guardTold ==
  ASSUME IInv, SeededOK, NEW p \in Processes, Onwards(p), Told(p), guard(p)
  PROVE  Told(p)'
<1>1. /\ UNCHANGED <<rows, tickets, command>> /\ proc[p].at = "guard" /\ proc[p].out = ""
      /\ \/ End(p, "refused")
         \/ guarded(File(p)) /\ Go(p, AfterUnit(p, 0))
  BY DEF guard, At, database
<1>2. CASE End(p, "refused")
  BY <1>1, <1>2, EndsOtherwise, EndTold DEF Onwards
<1>3. CASE guarded(File(p)) /\ Go(p, AfterUnit(p, 0))
  <2>. PICK file : file = File(p)
    OBVIOUS
  <2>1. File(p)' = file
    BY <1>1 DEF File
  <2>2. parse(file) /\ TypeOK
    BY <1>1, PastTheStart DEF IInv
  <2>3. SEED \subseteq DOMAIN rows
    BY <1>1, SeedIsThere
  <2>4. ASSUME NEW k \in Objects(file), k[1] # "rights", k \in SEED
        PROVE  FALSE
    <3>1. Has(k) /\ k[1] \in {"users", "groups", "queues"}
      BY <2>3, <2>4 DEF SEED, Has
    <3>2. k[1] = "queues"
      BY <1>3, <3>1 DEF guarded
    <3>3. PICK q \in ToSet(file.queues) : ~q.existing /\ k = <<"queues", q.name>>
      <4>1. {x \in Objects(file) : x[1] = "queues"} =
              {<<"queues", q.name>> : q \in {x \in ToSet(file.queues) : ~x.existing}}
        BY <2>2, UnitsAre
      <4>2. k \in {x \in Objects(file) : x[1] = "queues"}
        BY <3>2
      <4>. QED  BY <4>1, <4>2
    <3>4. q.existing = Has(<<"queues", q.name>>)
      BY <1>3 DEF guarded
    <3>. QED  BY <3>1, <3>3, <3>4
  <2>5. \A q \in ToSet(file.queues) : q.existing => Has(<<"queues", q.name>>)
    BY <1>3 DEF guarded
  <2>6. GuardStands(p)'
    BY <1>1, <2>1, <2>4, <2>5 DEF GuardStands, Has
  <2>7. AfterUnit(p, 0) \notin {"stamp", "apply"}
    BY DEF AfterUnit
  <2>8. \A k \in DOMAIN rows' : rows'[k] = p => k \in SEED \/ (k \in DOMAIN rows /\ rows[k] = p)
    BY <1>1
  <2>. PICK place : place = AfterUnit(p, 0)
    OBVIOUS
  <2>9. proc[p].at \notin {"stamp", "apply"} /\ Go(p, place) /\ place \notin {"stamp", "apply"}
    BY <1>1, <1>3, <2>7
  <2>. HIDE DEF Told, Alone, RowsStay, SEED
  <2>. QED  BY <1>1, <2>6, <2>8, <2>9, GoTold DEF Onwards
<1>. QED  BY <1>1, <1>2, <1>3

\* A load that is alone finds none of its rows there.
LEMMA AloneFindsNothing ==
  ASSUME IInv, NEW p \in Processes, Told(p), proc[p].at = "write", proc[p].out = "", Alone(p),
         NEW k \in Units(File(p))[proc[p].unit], k[1] # "rights"
  PROVE  ~Has(k)
<1>. SUFFICES ASSUME Has(k)
              PROVE  FALSE
  OBVIOUS
<1>. PICK units : units = Units(File(p))
  OBVIOUS
<1>. PICK u : u = proc[p].unit
  OBVIOUS
<1>1. parse(File(p)) /\ TypeOK /\ u \in DOMAIN units
  BY PastTheStart DEF IInv, PlaceOK
<1>2. k \in Objects(File(p))
  BY <1>1, UnitsAre
<1>3. k \notin SEED
  BY <1>2 DEF Told, GuardStands, Guarded
<1>4. rows[k] = p
  BY <1>3 DEF Alone, Has
<1>5. PICK j \in DOMAIN units : j < u /\ k \in units[j]
  <2>1. \E j \in DOMAIN units : /\ j < u \/ (j = u /\ proc[p].out # "")
                               /\ k \in units[j]
    BY <1>3, <1>4 DEF Told, RowsFrom, Has
  <2>. QED  BY <2>1
<1>6. j = u
  BY <1>1, <1>5, UnitsAre
<1>7. u \in Nat
  BY DEF IInv, TypeOK, Process
<1>. QED  BY ONLY <1>5, <1>6, <1>7

LEMMA writeTold ==
  ASSUME IInv, NEW p \in Processes, Onwards(p), Told(p), write(p)
  PROVE  Told(p)'
<1>. PICK units : units = Units(File(p))
  OBVIOUS
<1>. PICK u : u = proc[p].unit
  OBVIOUS
<1>1. /\ UNCHANGED <<tickets, command>> /\ proc[p].at = "write" /\ proc[p].out = ""
      /\ rows' = Inserted(units[u], p)
      /\ \/ End(p, "partly") /\ \E k \in units[u] : k[1] # "rights" /\ Has(k)
         \/ proc' = [proc EXCEPT ![p].unit = u + 1, ![p].at = AfterUnit(p, u)]
  BY DEF write, At
<1>2. \A k \in DOMAIN rows' : rows'[k] = p => (k \in DOMAIN rows /\ rows[k] = p) \/ k \in units[u]
  BY <1>1 DEF Inserted, Has
<1>3. CASE End(p, "partly") /\ \E k \in units[u] : k[1] # "rights" /\ Has(k)
  <2>1. ~Alone(p)
    BY <1>1, <1>3, AloneFindsNothing
  <2>2. Same(p) /\ proc'[p].out = "partly"
    BY <1>3, EndIs
  <2>3. u \in DOMAIN units /\ Units(File(p))' = units
    BY <1>1 DEF IInv, PlaceOK, File
  <2>4. RowsFrom(p)'
    <3>. SUFFICES ASSUME NEW k \in DOMAIN rows', rows'[k] = p, k \notin SEED
                  PROVE  \E j \in DOMAIN units : (j < u \/ j = u) /\ k \in units[j]
      BY <2>2, <2>3 DEF RowsFrom, Same
    <3>1. CASE k \in units[u]
      BY <2>3, <3>1
    <3>2. CASE k \in DOMAIN rows /\ rows[k] = p
      BY <3>2 DEF Told, RowsFrom
    <3>. QED  BY <1>2, <3>1, <3>2
  <2>5. GuardStands(p)'
    <3>1. Guarded(p)
      BY <1>1 DEF Guarded
    <3>. QED  BY <1>1, <3>1, StillStands DEF Told, Onwards
  <2>6. /\ proc'[p].number = proc[p].number
        /\ proc'[p].at = proc[p].at /\ proc'[p].step = proc[p].step
    BY <2>2 DEF Same
  <2>. HIDE DEF Told, Behind, Opened, Ended, Alone, Guarded, RowsFrom, GuardStands, RowsStay
  <2>. QED  BY <1>1, <2>1, <2>4, <2>5, <2>6, QuietTold DEF Onwards
<1>4. CASE proc' = [proc EXCEPT ![p].unit = u + 1, ![p].at = AfterUnit(p, u)]
  <2>. PICK me : me = proc[p]
    OBVIOUS
  <2>. PICK place : place = AfterUnit(p, u)
    OBVIOUS
  <2>. PICK v : v = u + 1
    OBVIOUS
  <2>. PICK went : went = proc'[p]
    OBVIOUS
  <2>1. me \in Process /\ went = [me EXCEPT !.unit = v, !.at = place]
    BY <1>4 DEF IInv, TypeOK
  <2>2. /\ went.unit = v /\ went.at = place /\ went.number = me.number /\ went.step = me.step
        /\ went.out = me.out /\ me.unit \in Nat
    BY ONLY <2>1 DEF Process
  <2>3. place \notin {"stamp", "apply"}
    BY DEF AfterUnit
  <2>4. u \in DOMAIN units /\ Units(File(p))' = units /\ u \in Nat
    BY <1>1, <2>2 DEF IInv, PlaceOK, File
  <2>5. RowsFrom(p)'
    <3>. SUFFICES ASSUME NEW k \in DOMAIN rows', rows'[k] = p, k \notin SEED
                  PROVE  \E j \in DOMAIN units : j < v /\ k \in units[j]
      BY <2>2, <2>4 DEF RowsFrom
    <3>2. CASE k \in units[u]
      <4>1. u < v
        BY <2>4
      <4>. QED  BY <2>4, <3>2, <4>1
    <3>3. CASE k \in DOMAIN rows /\ rows[k] = p
      <4>1. PICK j \in DOMAIN units : j < u /\ k \in units[j]
        BY <1>1, <3>3 DEF Told, RowsFrom
      <4>2. j < v
        <5>1. TypeOK
          BY DEF IInv
        <5>2. j \in Nat
          BY <5>1, FilesHaveShape
        <5>. QED  BY <2>4, <4>1, <5>2
      <4>. QED  BY <4>1, <4>2
    <3>. QED  BY <1>2, <3>2, <3>3
  <2>6. Guarded(p)
    BY <1>1 DEF Guarded
  <2>7. GuardStands(p)'
    BY <1>1, <2>6, StillStands DEF Told, Onwards
  <2>8. Ended(p) => Ended(p)'
    <3>1. File(p)' = File(p)
      BY <1>1 DEF File
    <3>. PICK file : file = File(p)
      OBVIOUS
    <3>. QED  BY <2>2, <3>1 DEF Ended
  <2>9. proc'[p].number = proc[p].number /\ proc[p].at \notin {"stamp", "apply"}
        /\ proc'[p].at \notin {"stamp", "apply"}
    BY <1>1, <2>2, <2>3
  <2>. HIDE DEF Told, Behind, Opened, Ended, Alone, Guarded, RowsFrom, GuardStands, RowsStay
  <2>. QED  BY <1>1, <2>5, <2>7, <2>8, <2>9, QuietTold DEF Onwards
<1>. QED  BY <1>1, <1>3, <1>4

(* Creating *)

\* What is there once the objects are, when nobody else has written.
LEMMA AloneRows ==
  ASSUME IInv, SeededOK, NEW p \in Processes, Told(p), Alone(p), Guarded(p), parse(File(p)),
         proc[p].unit > Len(Units(File(p)))
  PROVE  DOMAIN rows = SEED \cup Objects(File(p))
<1>. PICK units : units = Units(File(p))
  OBVIOUS
<1>. PICK u : u = proc[p].unit
  OBVIOUS
<1>1. TypeOK /\ u \in Nat /\ Len(units) \in Nat /\ DOMAIN units = 1 .. Len(units)
  BY FilesHaveShape DEF IInv, TypeOK, Process
<1>2. SEED \subseteq DOMAIN rows
  BY SeedIsThere
<1>3. \A k : k \in Objects(File(p)) <=> \E j \in DOMAIN units : k \in units[j]
  BY <1>1, UnitsAre
<1>4. ASSUME NEW k \in Objects(File(p))
      PROVE  k \in DOMAIN rows
  <2>1. PICK j \in DOMAIN units : k \in units[j]
    BY <1>3
  <2>2. j < u
    BY <1>1
  <2>. QED  BY <2>1, <2>2 DEF IInv, RowsOwned, Has
<1>5. ASSUME NEW k \in DOMAIN rows, k \notin SEED
      PROVE  k \in Objects(File(p))
  <2>1. rows[k] = p
    BY <1>5 DEF Alone
  <2>2. \E j \in DOMAIN units : k \in units[j]
    BY <1>5, <2>1 DEF Told, RowsFrom
  <2>. QED  BY <1>3, <2>2
<1>. HIDE DEF SEED
<1>. QED  BY <1>2, <1>4, <1>5

\* The database hands out the id the file counts on.
LEMMA AloneId ==
  ASSUME IInv, NEW p \in Processes, Told(p), Alone(p), At(p, "create")
  PROVE  next_id = proc[p].number
<1>. PICK n : n = proc[p].number
  OBVIOUS
<1>. PICK file : file = File(p)
  OBVIOUS
<1>1. /\ TypeOK /\ n \in Nat /\ next_id \in Nat /\ next_id >= 1
      /\ Len(file.tickets) \in Nat /\ DOMAIN file.tickets = 1 .. Len(file.tickets)
      /\ n \in DOMAIN file.tickets
  <2>1. TypeOK /\ PlaceOK(p) /\ proc[p].at = "create"
    BY DEF IInv, At
  <2>2. n \in Nat /\ next_id \in 1 .. MaxId + 1 /\ MaxId \in Nat
    BY <2>1, BoundsOK DEF TypeOK, Process
  <2>3. n \in DOMAIN file.tickets
    BY <2>1 DEF PlaceOK
  <2>. QED  BY <2>1, <2>2, <2>3, FilesHaveShape
<1>2. ASSUME NEW t \in 1 .. next_id - 1
      PROVE  t < n
  <2>1. t \in Existing /\ tickets[t].who = p
    BY DEF Alone
  <2>2. /\ ~(proc[p].at \in {"stamp", "apply"})
        /\ ~(proc[p].at = "create" /\ proc[p].out # "")
    BY DEF At
  <2>. QED  BY <2>1, <2>2 DEF Told, TicketsFrom
<1>3. next_id <= n
  <2>1. CASE next_id = 1
    BY <1>1, <2>1
  <2>2. CASE next_id # 1
    <3>1. next_id - 1 \in 1 .. next_id - 1
      BY <1>1, <2>2
    <3>2. next_id - 1 < n
      BY <1>2, <3>1
    <3>. QED  BY <1>1, <3>2
  <2>. QED  BY <2>1, <2>2
<1>4. n <= next_id
  <2>1. CASE n = 1
    BY <1>1, <2>1
  <2>2. CASE n # 1
    <3>1. n - 1 \in DOMAIN file.tickets /\ n - 1 < n
      BY <1>1, <2>2
    <3>2. n - 1 \in Existing
      BY <3>1 DEF IInv, TicketsOwned
    <3>3. n - 1 < next_id
      BY <3>2 DEF IInv, FreshOK
    <3>. QED  BY <1>1, <3>3
  <2>. QED  BY <2>1, <2>2
<1>. QED  BY <1>1, <1>3, <1>4

\* A file does not play when one of its tickets has an owner who may not own.
LEMMA UnownedIsStuck ==
  ASSUME NEW file, NEW t \in DOMAIN file.tickets, ~Owned(file, file.tickets[t])
  PROVE  ~Plays(file)
<1>1. file.tickets[t] \in ToSet(file.tickets)
  BY DEF ToSet
<1>. QED  BY <1>1 DEF Plays, Owned

LEMMA StepIsStuck ==
  ASSUME NEW file, NEW t \in DOMAIN file.tickets, NEW k \in DOMAIN file.tickets[t].steps,
         ~Playable(file.tickets[t], k)
  PROVE  ~Plays(file)
<1>1. file.tickets[t] \in ToSet(file.tickets)
  BY DEF ToSet
<1>. QED  BY <1>1 DEF Plays

\* A process that ends because the file does not play.
LEMMA StuckIsRight ==
  ASSUME IInv, NEW p \in Processes, command' = command, End(p, "partly"), ~Plays(File(p))
  PROVE  Ended(p)'
<1>1. proc'[p].out = "partly" /\ File(p)' = File(p)
  BY EndIs DEF File
<1>. PICK file : file = File(p)
  OBVIOUS
<1>. HIDE DEF Plays
<1>. QED  BY <1>1 DEF Ended

LEMMA createTold ==
  ASSUME IInv, SeededOK, NEW p \in Processes, Onwards(p), Told(p), create(p)
  PROVE  Told(p)'
<1>. PICK file : file = File(p)
  OBVIOUS
<1>. PICK n : n = proc[p].number
  OBVIOUS
<1>. PICK spec : spec = SpecOf(p)
  OBVIOUS
<1>. PICK row : row = NewTicket(p, spec)
  OBVIOUS
<1>. PICK object : object = ObjectOf(row)
  OBVIOUS
<1>1. /\ UNCHANGED <<rows, command>> /\ next_id <= MaxId /\ At(p, "create")
      /\ proc[p].at = "create" /\ proc[p].out = ""
      /\ \/ ~may_own(file, DOMAIN rows, spec) /\ End(p, "partly") /\ UNCHANGED <<tickets, next_id>>
         \/ /\ may_own(file, DOMAIN rows, spec)
            /\ next_id' = next_id + 1
            /\ \/ next_id # spec.id /\ End(p, "partly")
               \/ /\ next_id = spec.id
                  /\ proc' = [proc EXCEPT ![p].at = "stamp", ![p].id = next_id, ![p].step = 0,
                                ![p].ticket = object, ![p].before = <<NoDate, NoDate>>]
  BY DEF create, At, Created
<1>2. /\ TypeOK /\ PlaceOK(p) /\ parse(file) /\ command[p].do = "load"
      /\ n \in DOMAIN file.tickets /\ proc[p].unit > Len(Units(file))
  BY <1>1, PastTheStart DEF IInv, PlaceOK
<1>3. spec = file.tickets[n] /\ spec.id = n
  BY <1>1, SpecHasShape DEF SpecOf
<1>4. Alone(p) => (may_own(file, DOMAIN rows, spec) <=> Owned(file, spec))
  <2>1. Guarded(p)
    BY <1>1 DEF Guarded
  <2>. QED  BY <1>2, <2>1, AloneRows DEF Owned
<1>5. Alone(p) => next_id = n
  BY <1>1, AloneId
<1>6. File(p)' = file /\ Guarded(p)
  BY <1>1 DEF File, Guarded
<1>7. CASE ~may_own(file, DOMAIN rows, spec) /\ End(p, "partly") /\ UNCHANGED <<tickets, next_id>>
  <2>1. Alone(p) => Ended(p)'
    BY <1>1, <1>2, <1>3, <1>4, <1>7, UnownedIsStuck, StuckIsRight
  <2>. HIDE DEF Told, Alone, RowsStay, Behind, Opened, Ended
  <2>. QED  BY <1>1, <1>7, <2>1, EndTold DEF Onwards
<1>8. ASSUME NEW t \in Existing', tickets'[t].who = p
      PROVE  t < n \/ t = next_id
  <2>1. CASE t \in Existing
    <3>1. tickets[t].who = p
      BY <1>8, <2>1 DEF Onwards, TicketsStay
    <3>2. /\ ~(proc[p].at \in {"stamp", "apply"})
          /\ ~(proc[p].at = "create" /\ proc[p].out # "")
      BY <1>1 DEF At
    <3>. QED  BY <2>1, <3>1, <3>2 DEF Told, TicketsFrom
  <2>2. CASE t \notin Existing
    <3>1. \A u \in Existing' : u \in Existing \/ u = next_id
      BY <1>1, StepsOnly DEF Next
    <3>. QED  BY <2>2, <3>1
  <2>. QED  BY <2>1, <2>2
<1>9. CASE next_id # spec.id /\ End(p, "partly")
  <2>1. Same(p) /\ proc'[p].out = "partly"
    BY <1>9, EndIs
  <2>2. RowsFrom(p)'
    BY <1>1, <2>1, StaysFrom DEF Told, Same
  <2>3. GuardStands(p)'
    BY <1>1, <1>6, StillStands DEF Told, Onwards
  <2>4. TicketsFrom(p)'
    <3>1. proc'[p].at = "create" /\ proc'[p].out # ""
      BY <1>1, <2>1 DEF Same
    <3>. QED  BY <3>1 DEF TicketsFrom
  <2>5. ~Alone(p)'
    BY <1>3, <1>5, <1>9 DEF Onwards
  <2>6. PlayedSoFar(p)'
    BY <2>5, PlayedIs
  <2>. QED  BY <2>2, <2>3, <2>4, <2>6 DEF Told
<1>10. CASE /\ may_own(file, DOMAIN rows, spec) /\ next_id = spec.id
            /\ proc' = [proc EXCEPT ![p].at = "stamp", ![p].id = next_id, ![p].step = 0,
                          ![p].ticket = object, ![p].before = <<NoDate, NoDate>>]
  <2>. PICK me : me = proc[p]
    OBVIOUS
  <2>. PICK went : went = proc'[p]
    OBVIOUS
  <2>. PICK undated : undated = <<NoDate, NoDate>>
    OBVIOUS
  <2>1. /\ me \in Process
        /\ went = [me EXCEPT !.at = "stamp", !.id = next_id, !.step = 0, !.ticket = object,
                             !.before = undated]
    BY <1>10 DEF IInv, TypeOK
  <2>2. /\ went.at = "stamp" /\ went.step = 0 /\ went.number = me.number /\ went.unit = me.unit
        /\ went.out = me.out
    BY ONLY <2>1 DEF Process
  <2>3. SpecOf(p)' = spec
    BY <1>6, <1>3, <2>2 DEF SpecOf
  <2>4. RowsFrom(p)'
    BY <1>1, <2>2, StaysFrom DEF Told
  <2>5. GuardStands(p)'
    BY <1>1, <1>6, StillStands DEF Told, Onwards
  <2>6. TicketsFrom(p)'
    <3>1. \A t \in Existing' : tickets'[t].who = p => t < n \/ t = n
      BY <1>3, <1>8, <1>10
    <3>. QED  BY <2>2, <3>1 DEF TicketsFrom
  <2>7. ASSUME Alone(p)'
        PROVE  Behind(p)' /\ Opened(p)' /\ Ended(p)'
    <3>1. Alone(p) /\ PlayedSoFar(p)
      BY <2>7 DEF Onwards, Told
    <3>2. Behind(p) /\ Opened(p) /\ Ended(p)
      BY <1>2, <3>1, PlayedIs
    <3>3. Behind(p)'
      BY <1>6, <2>2, <3>2 DEF Behind
    <3>4. Opened(p)'
      <4>1. Owned(file, spec)
        BY <1>4, <1>10, <3>1
      <4>2. Len(spec.steps) \in Nat /\ DOMAIN spec.steps = 1 .. Len(spec.steps)
        <5>1. spec \in TicketSpec
          BY <1>1, SpecHasShape
        <5>2. spec.steps \in Seq(Step)
          BY <5>1 DEF TicketSpec
        <5>. QED  BY <5>2
      <4>3. \A k \in DOMAIN spec.steps : ~(k < 0) /\ k # 0
        BY <4>2
      <4>. QED  BY <1>6, <2>2, <2>3, <4>1, <4>3 DEF Opened
    <3>5. Ended(p)'
      BY <1>6, <2>2, <3>2 DEF Ended
    <3>. QED  BY <3>3, <3>4, <3>5
  <2>8. PlayedSoFar(p)'
    BY <2>7, PlayedIs
  <2>. QED  BY <2>4, <2>5, <2>6, <2>8 DEF Told
<1>. QED  BY <1>1, <1>7, <1>9, <1>10

(* A ticket that is open *)

\* A field has one value.
LEMMA OneValueEach ==
  ASSUME NEW spec, NEW n, NEW x \in ValuesAfter(spec, n), NEW y \in ValuesAfter(spec, n),
         x[1] = y[1]
  PROVE  x = y
<1>. PICK steps : steps = spec.steps
  OBVIOUS
<1>1. PICK j \in SetBy(spec, n) : x = <<steps[j].field, steps[j].value>>
  BY DEF ValuesAfter
<1>2. PICK k \in SetBy(spec, n) : y = <<steps[k].field, steps[k].value>>
  BY DEF ValuesAfter
<1>3. steps[j].field = steps[k].field
  BY <1>1, <1>2
<1>4. j \in Nat /\ k \in Nat /\ j <= k /\ k <= j
  BY <1>3 DEF SetBy
<1>5. j = k
  BY <1>4
<1>. QED  BY <1>1, <1>2, <1>5

\* Setting a field changes nothing exactly when it has that value.
LEMMA SetAgain ==
  ASSUME NEW spec, NEW n, NEW step
  PROVE  WithValue(ValuesAfter(spec, n), step) = ValuesAfter(spec, n)
           <=> <<step.field, step.value>> \in ValuesAfter(spec, n)
<1>. PICK x : x = <<step.field, step.value>>
  OBVIOUS
<1>. PICK V : V = ValuesAfter(spec, n)
  OBVIOUS
<1>1. WithValue(V, step) = {y \in V : y[1] # x[1]} \cup {x}
  BY DEF WithValue
<1>2. x \in V => \A y \in V : y[1] = x[1] => y = x
  BY OneValueEach
<1>. QED  BY <1>1, <1>2

\* The page refuses a step exactly when it cannot be played.
Refused(p) ==
  LET status == proc[p].ticket.status
      target == Target(status, StepOf(p))
      values == tickets[proc[p].id].values
  IN  \/ target # status /\ ~may_change(status, target)
      \/ StepOf(p).type = "custom_field" /\ WithValue(values, StepOf(p)) = values

LEMMA RefusedIsUnplayable ==
  ASSUME IInv, NoAppOK, NEW p \in Processes, OpenIsSaid(p), proc[p].at = "apply", Alone(p)
  PROVE  Refused(p) <=> ~Playable(SpecOf(p), proc[p].step)
<1>. PICK me : me = proc[p]
  OBVIOUS
<1>. PICK spec : spec = SpecOf(p)
  OBVIOUS
<1>. PICK n : n = me.step
  OBVIOUS
<1>. PICK row : row = tickets[me.id]
  OBVIOUS
<1>. PICK step : step = StepOf(p)
  OBVIOUS
<1>1. me.id \in Existing /\ n \in 0 .. Len(spec.steps) /\ n # 0 /\ step = spec.steps[n]
  BY OpenTicket DEF StepOf
<1>2. ~Touched(me.id)
  BY <1>1 DEF Alone, NoAppOK
<1>3. me.ticket = ObjectOf(row) /\ Follows(row, spec, n - 1, Times(spec))
  BY <1>2 DEF OpenIsSaid
<1>4. SpecOK(spec)
  <2>1. TypeOK /\ parse(File(p)) /\ me.number \in DOMAIN File(p).tickets
    BY PastTheStart DEF IInv, PlaceOK
  <2>. QED  BY <2>1, SpecsAreOK DEF SpecOf
<1>5. n \in 1 .. Len(spec.steps)
  BY <1>1, <1>4 DEF SpecOK
<1>. PICK before, after : before = StatusAfter(spec, n - 1) /\ after = StatusAfter(spec, n)
  OBVIOUS
<1>6. me.ticket.status = before /\ after = Target(before, step)
  <2>1. me.ticket.status = row.status
    BY <1>3 DEF ObjectOf
  <2>2. row.status = before
    BY <1>3 DEF Follows
  <2>. QED  BY <1>1, <1>4, <1>5, <2>1, <2>2, StatusStep
<1>. PICK V : V = ValuesAfter(spec, n - 1)
  OBVIOUS
<1>7. row.values = V /\ (WithValue(V, step) = V <=> <<step.field, step.value>> \in V)
  BY <1>3, SetAgain DEF Follows
<1>8. Refused(p) <=> \/ after # before /\ ~may_change(before, after)
                     \/ step.type = "custom_field" /\ <<step.field, step.value>> \in V
  BY <1>6, <1>7 DEF Refused
<1>9. Playable(spec, n) <=>
        /\ after # before => may_change(before, after)
        /\ step.type = "custom_field" => <<step.field, step.value>> \notin V
  BY <1>1 DEF Playable, Leaves
<1>. QED  BY <1>8, <1>9

Running(p) == proc[p].out = ""

\* A process that has written the ticket it has open and goes on.
LEMMA OpenTold ==
  ASSUME IInv, IInv', NEW p \in Processes, Onwards(p), Told(p), UNCHANGED <<rows, next_id>>,
         \A t \in Existing' : t \in Existing \/ t = next_id,
         proc[p].at \in {"stamp", "apply"}, proc'[p].unit = proc[p].unit, Running(p),
         \/ proc'[p].number = proc[p].number /\ proc'[p].at \in {"stamp", "apply"}
         \/ proc'[p].number = proc[p].number + 1,
         PlayedSoFar(p)'
  PROVE  Told(p)'
<1>1. RowsFrom(p)'
  BY StaysFrom DEF Told, Onwards, Running
<1>2. Guarded(p)
  BY DEF Guarded
<1>3. GuardStands(p)'
  BY <1>2, StillStands DEF Told, Onwards
<1>4. TicketsFrom(p)'
  <2>. PICK n : n = proc[p].number
    OBVIOUS
  <2>. PICK went : went = proc'[p]
    OBVIOUS
  <2>. SUFFICES ASSUME NEW t \in Existing', tickets'[t].who = p
                PROVE  t < went.number \/ (t = went.number /\ went.at \in {"stamp", "apply"})
    BY DEF TicketsFrom
  <2>1. t \in Nat /\ n \in Nat
    <3>1. t \in Nat
      BY BoundsOK DEF Existing
    <3>2. proc[p] \in Process
      BY DEF IInv, TypeOK
    <3>. QED  BY <3>1, <3>2 DEF Process
  <2>2. t \in Existing
    <3>1. t < next_id' /\ next_id' = next_id /\ next_id \in Nat
      BY DEF IInv, FreshOK, TypeOK
    <3>. QED  BY <2>1, <3>1
  <2>3. tickets[t].who = p
    BY <2>2 DEF Onwards, TicketsStay
  <2>4. t < n \/ t = n
    <3>1. ~(proc[p].at = "create")
      OBVIOUS
    <3>. QED  BY <2>2, <2>3, <3>1 DEF Told, TicketsFrom
  <2>. QED  BY <2>1, <2>4
<1>. QED  BY <1>1, <1>3, <1>4 DEF Told

LEMMA applyTold ==
  ASSUME IInv, IInv', NoAppOK, NEW p \in Processes, Onwards(p),
         \A t \in Existing' : t \in Existing \/ t = next_id,
         OpenIsSaid(p), Told(p), apply_step(p)
  PROVE  Told(p)'
<1>. PICK n : n = proc[p].number
  OBVIOUS
<1>. PICK k : k = proc[p].step
  OBVIOUS
<1>. PICK file : file = File(p)
  OBVIOUS
<1>. PICK spec : spec = SpecOf(p)
  OBVIOUS
<1>1. /\ UNCHANGED <<rows, next_id, command>> /\ proc[p].at = "apply" /\ proc[p].out = ""
      /\ \/ Refused(p) /\ End(p, "partly") /\ UNCHANGED tickets
         \/ /\ ~Refused(p)
            /\ \E new, dates : proc' = [proc EXCEPT ![p].at = "stamp", ![p].ticket = new,
                                                    ![p].before = dates]
  <2>. DEFINE step == StepOf(p)
              held == proc[p].ticket
              row == tickets[proc[p].id]
              target == Target(held.status, step)
              Wrote(type) == <<[type |-> type, at |-> Clock, by |-> step.actor, who |-> p]>>
              entries == (IF step.type = "status" THEN <<>> ELSE Wrote(TypeNamed[step.type]))
                           \o (IF target = held.status THEN <<>> ELSE Wrote("Status"))
              new == IF entries = <<>> THEN held
                     ELSE [held EXCEPT
                            !.status = target,
                            !.started = StartedAfter(held.status, target, @, Clock),
                            !.resolved = ResolvedAfter(held.status, target, @, Clock),
                            !.last_updated = Clock, !.last_updated_by = step.actor]
              values == IF step.type = "custom_field" THEN WithValue(row.values, step)
                        ELSE row.values
              dates == <<held.started, held.resolved>>
              refused == \/ target # held.status /\ ~may_change(held.status, target)
                         \/ step.type = "custom_field" /\ values = row.values
  <2>1. /\ UNCHANGED <<rows, next_id, command>> /\ proc[p].at = "apply" /\ proc[p].out = ""
        /\ \/ refused /\ End(p, "partly") /\ UNCHANGED tickets
           \/ /\ ~refused
              /\ proc' = [proc EXCEPT ![p].at = "stamp", ![p].ticket = new, ![p].before = dates]
    BY DEF apply_step, At
  <2>2. Refused(p) <=> refused
    BY DEF Refused
  <2>. HIDE DEF new, dates, refused, Refused
  <2>. QED  BY <2>1, <2>2
<1>2. /\ n \in DOMAIN file.tickets /\ spec = file.tickets[n] /\ command[p].do = "load"
      /\ parse(file) /\ TypeOK
  BY <1>1, PastTheStart DEF IInv, PlaceOK, SpecOf
<1>3. k \in DOMAIN spec.steps /\ DOMAIN spec.steps = 1 .. Len(spec.steps)
  <2>1. SpecOK(spec)
    BY <1>2, SpecsAreOK
  <2>2. k \in 0 .. Len(spec.steps) /\ k # 0
    BY <1>1, OpenTicket
  <2>. QED  BY <2>1, <2>2 DEF SpecOK
<1>4. Alone(p) => (Refused(p) <=> ~Playable(spec, k))
  BY <1>1, RefusedIsUnplayable
<1>5. File(p)' = file
  BY <1>1 DEF File
<1>6. CASE Refused(p) /\ End(p, "partly") /\ UNCHANGED tickets
  <2>1. Alone(p) => Ended(p)'
    BY <1>1, <1>2, <1>3, <1>4, <1>6, StepIsStuck, StuckIsRight
  <2>. HIDE DEF Told, Alone, RowsStay, Behind, Opened, Ended
  <2>. QED  BY <1>1, <1>6, <2>1, EndTold DEF Onwards
<1>7. CASE /\ ~Refused(p)
           /\ \E new, dates : proc' = [proc EXCEPT ![p].at = "stamp", ![p].ticket = new,
                                                   ![p].before = dates]
  <2>. PICK me : me = proc[p]
    OBVIOUS
  <2>. PICK went : went = proc'[p]
    OBVIOUS
  <2>. PICK new, dates : proc' = [proc EXCEPT ![p].at = "stamp", ![p].ticket = new, ![p].before = dates]
    BY <1>7
  <2>1. me \in Process /\ went = [me EXCEPT !.at = "stamp", !.ticket = new, !.before = dates]
    BY DEF IInv, TypeOK
  <2>2. /\ went.at = "stamp" /\ went.step = me.step /\ went.number = me.number
        /\ went.unit = me.unit /\ went.out = me.out
    BY ONLY <2>1 DEF Process
  <2>3. SpecOf(p)' = spec
    BY <1>2, <1>5, <2>2 DEF SpecOf
  <2>4. ASSUME Alone(p)'
        PROVE  Behind(p)' /\ Opened(p)' /\ Ended(p)'
    <3>1. Alone(p) /\ PlayedSoFar(p)
      BY <2>4 DEF Onwards, Told
    <3>2. Behind(p) /\ Opened(p) /\ Ended(p)
      BY <1>2, <3>1, PlayedIs
    <3>3. Behind(p)'
      BY <1>5, <2>2, <3>2 DEF Behind
    <3>4. Opened(p)'
      <4>1. Playable(spec, k)
        BY <1>4, <1>7, <3>1
      <4>2. /\ Owned(file, spec)
            /\ \A j \in DOMAIN spec.steps : j < k => Playable(spec, j)
        BY <1>1, <3>2 DEF Opened
      <4>. HIDE DEF Playable, Owned
      <4>. QED  BY <1>5, <2>2, <2>3, <4>1, <4>2 DEF Opened
    <3>5. Ended(p)'
      BY <1>5, <2>2, <3>2 DEF Ended
    <3>. QED  BY <3>3, <3>4, <3>5
  <2>5. PlayedSoFar(p)'
    BY <2>4, PlayedIs
  <2>6. /\ proc[p].at \in {"stamp", "apply"} /\ proc'[p].unit = proc[p].unit
        /\ proc'[p].number = proc[p].number /\ proc'[p].at \in {"stamp", "apply"}
        /\ Running(p)
    BY <1>1, <2>2 DEF Running
  <2>. HIDE DEF Told, Onwards, PlayedSoFar
  <2>. QED  BY <1>1, <2>5, <2>6, OpenTold
<1>. QED  BY <1>1, <1>6, <1>7

LEMMA stampTold ==
  ASSUME IInv, IInv', NEW p \in Processes, Onwards(p),
         \A t \in Existing' : t \in Existing \/ t = next_id, Told(p), stamp(p)
  PROVE  Told(p)'
<1>. PICK n : n = proc[p].number
  OBVIOUS
<1>. PICK k : k = proc[p].step
  OBVIOUS
<1>. PICK file : file = File(p)
  OBVIOUS
<1>. PICK spec : spec = SpecOf(p)
  OBVIOUS
<1>. PICK me : me = proc[p]
  OBVIOUS
<1>. PICK went : went = proc'[p]
  OBVIOUS
<1>. DEFINE birth == proc[p].step = 0
            at == IF birth THEN SpecOf(p).created ELSE StepOf(p).at
            held == IF birth THEN [proc[p].ticket EXCEPT !.created = at] ELSE proc[p].ticket
            row == tickets[proc[p].id]
            new == [held EXCEPT !.started = Restamped(@, proc[p].before[1], at),
                                !.resolved = Restamped(@, proc[p].before[2], at),
                                !.last_updated = at,
                                !.last_updated_by = IF birth THEN SpecOf(p).creator
                                                    ELSE StepOf(p).actor]
            log == [i \in DOMAIN row.log |->
                      IF i > proc[p].mark THEN [row.log[i] EXCEPT !.at = at] ELSE row.log[i]]
            place == IF proc[p].number < Len(File(p).tickets) THEN "create" ELSE "verify"
            mark == Len(log)
            undated == <<NoDate, NoDate>>
            Step1 == [proc[p] EXCEPT !.at = "apply", !.step = @ + 1, !.ticket = new, !.mark = mark]
            Next1 == [proc[p] EXCEPT !.at = place, !.number = @ + 1, !.step = 0, !.ticket = None,
                                     !.mark = 0, !.before = undated]
<1>0. Running(p)
  BY DEF stamp, At, Running
<1>1. /\ UNCHANGED <<rows, next_id, command>> /\ proc[p].at = "stamp"
      /\ proc' = [proc EXCEPT ![p] = IF proc[p].step < Len(SpecOf(p).steps) THEN Step1 ELSE Next1]
  BY DEF stamp, At
<1>. HIDE DEF new, mark, place, undated
<1>2. /\ n \in DOMAIN file.tickets /\ spec = file.tickets[n] /\ command[p].do = "load"
      /\ parse(file) /\ TypeOK
  BY <1>1, PastTheStart DEF IInv, PlaceOK, SpecOf
<1>3. /\ Len(spec.steps) \in Nat /\ DOMAIN spec.steps = 1 .. Len(spec.steps)
      /\ k \in 0 .. Len(spec.steps)
  <2>1. SpecOK(spec)
    BY <1>2, SpecsAreOK
  <2>2. k \in 0 .. Len(spec.steps)
    BY <1>1, OpenTicket
  <2>. QED  BY <2>1, <2>2 DEF SpecOK
<1>4. File(p)' = file
  BY <1>1 DEF File
<1>5. me \in Process /\ DOMAIN file.tickets \subseteq Nat /\ n \in Nat
  <2>1. me \in Process
    BY DEF IInv, TypeOK
  <2>. QED  BY <1>2, <2>1, FilesHaveShape
<1>6. went = (IF k < Len(spec.steps) THEN Step1 ELSE Next1) /\ place \in {"create", "verify"}
  <2>1. proc \in [Processes -> Process]
    BY DEF IInv, TypeOK
  <2>2. place \in {"create", "verify"}
    BY DEF place
  <2>. HIDE DEF Step1, Next1
  <2>. QED  BY <1>1, <2>1, <2>2
<1>7. ASSUME PlayedSoFar(p)', went.unit = me.unit,
             \/ went.number = n /\ went.at \in {"stamp", "apply"}
             \/ went.number = n + 1
      PROVE  Told(p)'
  <2>. HIDE DEF Told, Onwards, PlayedSoFar
  <2>. QED  BY <1>0, <1>1, <1>7, OpenTold
<1>8. ASSUME Alone(p)'
      PROVE  Behind(p) /\ Opened(p) /\ Ended(p)
  <2>1. Alone(p) /\ PlayedSoFar(p)
    BY <1>8 DEF Onwards, Told
  <2>. QED  BY <1>2, <2>1, PlayedIs
<1>9. CASE k < Len(spec.steps)
  <2>. PICK step, object, high : step = me.step + 1 /\ object = new /\ high = mark
    OBVIOUS
  <2>1. me \in Process /\ went = [me EXCEPT !.at = "apply", !.step = step, !.ticket = object, !.mark = high]
    BY <1>5, <1>6, <1>9
  <2>2. /\ went.at = "apply" /\ went.step = step /\ went.number = me.number
        /\ went.unit = me.unit /\ went.out = me.out
    BY ONLY <2>1 DEF Process
  <2>3. SpecOf(p)' = spec
    BY <1>2, <1>4, <2>2 DEF SpecOf
  <2>4. ASSUME Alone(p)'
        PROVE  Behind(p)' /\ Opened(p)' /\ Ended(p)'
    <3>1. Behind(p)'
      BY <1>4, <1>8, <2>2, <2>4 DEF Behind
    <3>2. Opened(p)'
      <4>1. /\ Owned(file, spec)
            /\ \A j \in DOMAIN spec.steps : j < k \/ j = k => Playable(spec, j)
        BY <1>1, <1>8, <2>4 DEF Opened
      <4>2. \A j \in DOMAIN spec.steps : j < k + 1 => j < k \/ j = k
        BY <1>3
      <4>. HIDE DEF Playable, Owned
      <4>. QED  BY <1>4, <2>2, <2>3, <4>1, <4>2 DEF Opened
    <3>3. Ended(p)'
      BY <1>4, <1>8, <2>2, <2>4 DEF Ended
    <3>. QED  BY <3>1, <3>2, <3>3
  <2>5. PlayedSoFar(p)'
    BY <2>4, PlayedIs
  <2>. QED  BY <1>7, <2>2, <2>5
<1>10. CASE ~(k < Len(spec.steps))
  <2>. PICK number, there, before : number = me.number + 1 /\ there = place /\ before = undated
    OBVIOUS
  <2>1. me \in Process /\ went = [me EXCEPT !.at = there, !.number = number, !.step = 0, !.ticket = None, !.mark = 0,
                          !.before = before]
    BY <1>5, <1>6, <1>10
  <2>2. /\ went.at = there /\ went.number = number
        /\ went.unit = me.unit /\ went.out = me.out
    BY ONLY <2>1 DEF Process
  <2>3. ASSUME Alone(p)'
        PROVE  Behind(p)' /\ Opened(p)' /\ Ended(p)'
    <3>1. Behind(p)'
      <4>1. /\ Owned(file, spec)
            /\ \A j \in DOMAIN spec.steps : j < k \/ j = k => Playable(spec, j)
        BY <1>1, <1>8, <2>3 DEF Opened
      <4>2. \A j \in DOMAIN spec.steps : j < k \/ j = k
        BY <1>3, <1>10
      <4>3. \A t \in DOMAIN file.tickets : t < n + 1 => t < n \/ t = n
        BY <1>5
      <4>4. Behind(p)
        BY <1>8, <2>3
      <4>. HIDE DEF Playable, Owned
      <4>. QED  BY <1>2, <1>4, <2>2, <4>1, <4>2, <4>3, <4>4 DEF Behind
    <3>2. Opened(p)'
      BY <1>6, <2>2 DEF Opened
    <3>3. Ended(p)'
      BY <1>4, <1>8, <2>2, <2>3 DEF Ended
    <3>. QED  BY <3>1, <3>2, <3>3
  <2>4. PlayedSoFar(p)'
    BY <2>3, PlayedIs
  <2>. QED  BY <1>7, <2>2, <2>4
<1>. QED  BY <1>9, <1>10

(* What verify counts *)

LEMMA SameCount ==
  ASSUME NEW S, NEW T, IsFiniteSet(S), NEW f \in [S -> T],
         \A x, y \in S : f[x] = f[y] => x = y, \A y \in T : \E x \in S : f[x] = y
  PROVE  Cardinality(T) = Cardinality(S)
<1>1. f \in Surjection(S, T)
  BY DEF Surjection
<1>2. f \in Injection(S, T)
  BY DEF Injection, IsInjective
<1>. QED  BY <1>1, <1>2, FS_Surjection

\* The places in a sequence of sets.
Pairs(N, A) == UNION {{<<t, k>> : k \in A[t]} : t \in 1 .. N}

LEMMA PairsAre ==
  ASSUME NEW N, NEW A, NEW x
  PROVE  x \in Pairs(N, A) <=> \E t \in 1 .. N : \E k \in A[t] : x = <<t, k>>
BY DEF Pairs

LEMMA PairsAreFinite ==
  ASSUME NEW N \in Nat, NEW A, \A t \in 1 .. N : IsFiniteSet(A[t])
  PROVE  IsFiniteSet(Pairs(N, A))
<1>. DEFINE P == [t \in 1 .. N |-> {<<t, k>> : k \in A[t]}]
            S == {P[t] : t \in 1 .. N}
<1>1. IsFiniteSet(S)
  <2>1. P \in Surjection(1 .. N, S)
    BY DEF Surjection
  <2>2. IsFiniteSet(1 .. N)
    BY FS_Interval
  <2>. HIDE DEF P, S
  <2>. QED  BY <2>1, <2>2, FS_Surjection
<1>2. ASSUME NEW t \in 1 .. N
      PROVE  IsFiniteSet(P[t])
  <2>. DEFINE f == [k \in A[t] |-> <<t, k>>]
  <2>1. f \in Surjection(A[t], P[t])
    BY DEF Surjection
  <2>. HIDE DEF f, P
  <2>. QED  BY <2>1, FS_Surjection
<1>3. IsFiniteSet(UNION S)
  <2>1. \A T \in S : IsFiniteSet(T)
    <3>. HIDE DEF P
    <3>. QED  BY <1>2
  <2>. HIDE DEF S
  <2>. QED  BY <1>1, <2>1, FS_UNION
<1>4. S = {{<<t, k>> : k \in A[t]} : t \in 1 .. N}
  OBVIOUS
<1>. QED  BY <1>3, <1>4 DEF Pairs

LEMMA TypesNamed ==
  /\ DOMAIN TypeNamed = {"correspond", "comment", "custom_field"}
  /\ \A x \in DOMAIN TypeNamed : TypeNamed[x] \notin {"Create", "Status"}
  /\ \A x, y \in DOMAIN TypeNamed : TypeNamed[x] = TypeNamed[y] => x = y
BY DEF TypeNamed

\* A row is one step's.
LEMMA TellsOnce ==
  ASSUME NEW entry, NEW i \in Nat, NEW spec, NEW k \in Nat, NEW when, Tells(entry, i, spec, k, when),
         NEW j \in Nat \ {0}, RowsTo(spec, j - 1) < i, i <= RowsTo(spec, j)
  PROVE  k = j
<1>. PICK a, b : a = RowsTo(spec, j - 1) /\ b = RowsTo(spec, j)
  OBVIOUS
<1>1. a \in Nat \ {0} /\ b \in Nat
  BY RowsToIs
<1>2. RowsTo(spec, k) \in Nat /\ (k # 0 => RowsTo(spec, k - 1) \in Nat)
  BY RowsToIs
<1>3. i <= RowsTo(spec, k) /\ (k # 0 => RowsTo(spec, k - 1) < i) /\ (k = 0 => i = 1)
  BY TellsWhere
<1>4. k # 0
  BY <1>1, <1>3
<1>5. ~(k < j)
  <2>. SUFFICES ASSUME k < j
                PROVE  FALSE
    OBVIOUS
  <2>1. RowsTo(spec, k) <= a
    BY RowsGrow
  <2>. QED  BY <1>1, <1>2, <1>3, <2>1
<1>6. ~(j < k)
  <2>. SUFFICES ASSUME j < k
                PROVE  FALSE
    OBVIOUS
  <2>1. k - 1 \in Nat /\ j <= k - 1
    OBVIOUS
  <2>2. b <= RowsTo(spec, k - 1)
    BY <2>1, RowsGrow
  <2>. QED  BY <1>1, <1>2, <1>3, <1>4, <2>2
<1>. QED  BY <1>5, <1>6

\* The row a message step leaves, its first.
RowAt(spec, k) == RowsTo(spec, k - 1) + 1

\* Of a history that is the file's after n steps, the first row is the one of
\* the creation, and the rows of a kind are those these steps left.
LEMMA HistoryCounts ==
  ASSUME NEW spec, SpecOK(spec), NEW n \in 0 .. Len(spec.steps), NEW when,
         NEW log, DOMAIN log = 1 .. Len(log), History(log, spec, n, when)
  PROVE  /\ 1 \in DOMAIN log
         /\ \A i \in DOMAIN log : log[i].type = "Create" <=> i = 1
         /\ \A kind \in DOMAIN TypeNamed :
              /\ \A k \in 1 .. n : spec.steps[k].type = kind =>
                   RowAt(spec, k) \in DOMAIN log /\ log[RowAt(spec, k)].type = TypeNamed[kind]
              /\ \A i \in DOMAIN log : log[i].type = TypeNamed[kind] =>
                   \E k \in 1 .. n : spec.steps[k].type = kind /\ i = RowAt(spec, k)
              /\ \A j, k \in 1 .. n :
                   spec.steps[j].type = kind /\ spec.steps[k].type = kind /\ RowAt(spec, j) = RowAt(spec, k)
                     => j = k
<1>. PICK last : last = RowsTo(spec, n)
  OBVIOUS
<1>1. n \in Nat /\ \A k \in 1 .. n : spec.steps[k] \in Step
  BY DEF SpecOK
<1>2. last \in Nat \ {0} /\ DOMAIN log = 1 .. last /\ 1 \in DOMAIN log
  BY <1>1, RowsToIs DEF History
<1>3. \A i \in DOMAIN log : \E k \in 0 .. n : Tells(log[i], i, spec, k, when)
  BY DEF History
<1>4. ASSUME NEW k \in 1 .. n, NEW m, m \in DOMAIN RowsOf(spec, k)
      PROVE  /\ RowsOf(spec, k)[m] # "Create"
             /\ \A kind \in DOMAIN TypeNamed :
                  RowsOf(spec, k)[m] = TypeNamed[kind] => m = 1 /\ spec.steps[k].type = kind
  <2>. PICK type : type = spec.steps[k].type
    OBVIOUS
  <2>. PICK r : r = RowsOf(spec, k)
    OBVIOUS
  <2>1. type = "status" \/ type \in DOMAIN TypeNamed
    BY <1>1, TypesNamed DEF Step
  <2>2. /\ Len(r) \in Nat /\ DOMAIN r = 1 .. Len(r)
        /\ Len(r) = (IF type = "status" THEN 0 ELSE 1) + (IF Leaves(spec, k) THEN 1 ELSE 0)
        /\ type # "status" => r[1] = TypeNamed[type] /\ (Leaves(spec, k) => r[2] = "Status")
        /\ type = "status" /\ Leaves(spec, k) => r[1] = "Status"
    BY RowsOfIs
  <2>3. CASE type = "status"
    <3>1. r[m] = "Status"
      BY <1>4, <2>2, <2>3
    <3>. QED  BY <3>1, TypesNamed
  <2>4. CASE type # "status"
    <3>1. m = 1 \/ (m = 2 /\ Leaves(spec, k))
      BY <1>4, <2>2, <2>4
    <3>2. m = 2 /\ Leaves(spec, k) => r[m] = "Status"
      BY <2>2, <2>4
    <3>3. m = 1 => r[m] = TypeNamed[type]
      BY <2>2, <2>4
    <3>4. type \in DOMAIN TypeNamed
      BY <2>1, <2>4
    <3>. QED  BY <3>1, <3>2, <3>3, <3>4, TypesNamed
  <2>. QED  BY <2>3, <2>4
<1>5. ASSUME NEW i \in DOMAIN log, NEW k \in 0 .. n, Tells(log[i], i, spec, k, when), k # 0
      PROVE  /\ i # 1 /\ log[i].type # "Create" /\ k \in 1 .. n
             /\ \A kind \in DOMAIN TypeNamed : log[i].type = TypeNamed[kind] =>
                  i = RowAt(spec, k) /\ spec.steps[k].type = kind
  <2>. PICK m : m = i - RowsTo(spec, k - 1)
    OBVIOUS
  <2>1. k \in 1 .. n /\ RowsTo(spec, k - 1) \in Nat \ {0} /\ i \in Nat
    BY <1>1, <1>2, <1>5, RowsToIs
  <2>2. m \in DOMAIN RowsOf(spec, k) /\ log[i].type = RowsOf(spec, k)[m]
    BY <1>5 DEF Tells
  <2>3. m \in Nat \ {0}
    BY <2>2, RowsOfIs
  <2>4. i = RowsTo(spec, k - 1) + m
    BY <2>1
  <2>. QED  BY <1>4, <2>1, <2>2, <2>3, <2>4 DEF RowAt
<1>6. ASSUME NEW i \in DOMAIN log, NEW k \in 0 .. n, Tells(log[i], i, spec, k, when), k = 0
      PROVE  i = 1 /\ log[i].type = "Create"
  BY <1>6 DEF Tells
<1>7. \A i \in DOMAIN log : log[i].type = "Create" <=> i = 1
  BY <1>3, <1>5, <1>6
<1>8. ASSUME NEW kind \in DOMAIN TypeNamed, NEW i \in DOMAIN log, log[i].type = TypeNamed[kind]
      PROVE  \E k \in 1 .. n : spec.steps[k].type = kind /\ i = RowAt(spec, k)
  <2>. PICK k \in 0 .. n : Tells(log[i], i, spec, k, when)
    BY <1>3
  <2>1. k # 0
    BY <1>6, <1>8, TypesNamed
  <2>. QED  BY <1>1, <1>5, <1>8, <2>1
<1>9. ASSUME NEW kind \in DOMAIN TypeNamed, NEW k \in 1 .. n, spec.steps[k].type = kind
      PROVE  /\ RowAt(spec, k) \in DOMAIN log /\ log[RowAt(spec, k)].type = TypeNamed[kind]
             /\ RowsTo(spec, k - 1) < RowAt(spec, k) /\ RowAt(spec, k) <= RowsTo(spec, k)
  <2>. PICK i, a : i = RowAt(spec, k) /\ a = RowsTo(spec, k - 1)
    OBVIOUS
  <2>1. k \in Nat \ {0} /\ k \in 1 .. n /\ k <= n /\ a \in Nat /\ i = a + 1
    BY <1>1, RowsToIs DEF RowAt
  <2>2. kind # "status"
    BY TypesNamed
  <2>3. RowsTo(spec, k) = a + Len(RowsOf(spec, k)) /\ Len(RowsOf(spec, k)) \in Nat \ {0}
    <3>1. k \in Nat \ {0} /\ spec.steps[k].type # "status"
      BY <1>9, <2>1, <2>2
    <3>2. Len(RowsOf(spec, k)) \in Nat \ {0}
      BY ONLY <3>1, RowsOfIs
    <3>3. RowsTo(spec, k) = RowsTo(spec, k - 1) + Len(RowsOf(spec, k))
      BY ONLY <3>1, RowsStep
    <3>. QED  BY <3>2, <3>3
  <2>4. RowsTo(spec, k) <= last /\ RowsTo(spec, k) \in Nat
    <3>1. n \in Nat /\ k \in Nat /\ k <= n
      BY <1>1, <2>1
    <3>. QED  BY <3>1, RowsGrow, RowsToIs
  <2>5. i \in DOMAIN log /\ i \in Nat /\ a < i /\ i <= RowsTo(spec, k)
    BY <1>2, <2>1, <2>3, <2>4
  <2>. PICK j \in 0 .. n : Tells(log[i], i, spec, j, when)
    BY <1>3, <2>5
  <2>6. j = k
    BY <1>1, <2>1, <2>5, TellsOnce
  <2>7. log[i].type = RowsOf(spec, k)[i - a]
    BY <2>1, <2>6 DEF Tells
  <2>8. i - a = 1
    BY <2>1
  <2>9. RowsOf(spec, k)[1] = TypeNamed[kind]
    BY <1>9, <2>2, RowsOfIs
  <2>. QED  BY <2>5, <2>7, <2>8, <2>9
<1>10. ASSUME NEW kind \in DOMAIN TypeNamed, NEW j \in 1 .. n, NEW k \in 1 .. n,
              spec.steps[j].type = kind, spec.steps[k].type = kind, RowAt(spec, j) = RowAt(spec, k)
       PROVE  j = k
  <2>. PICK i : i = RowAt(spec, j)
    OBVIOUS
  <2>1. /\ i \in DOMAIN log /\ RowsTo(spec, j - 1) < i /\ i <= RowsTo(spec, j)
        /\ RowsTo(spec, k - 1) < i /\ i <= RowsTo(spec, k)
    BY <1>9, <1>10
  <2>2. i \in Nat /\ j \in Nat \ {0} /\ k \in Nat \ {0}
    BY <1>1, <1>2, <2>1
  <2>. PICK m \in 0 .. n : Tells(log[i], i, spec, m, when)
    BY <1>3, <2>1
  <2>3. m \in Nat
    BY <1>1
  <2>. QED  BY <2>1, <2>2, <2>3, TellsOnce
<1>. QED  BY <1>2, <1>7, <1>8, <1>9, <1>10

\* Each A[t] is finite, and g[t] takes it one to one onto B[t].
Paired(N, A, B, g) ==
  \A t \in 1 .. N :
    /\ IsFiniteSet(A[t])
    /\ \A k \in A[t] : g[t][k] \in B[t]
    /\ \A j, k \in A[t] : g[t][j] = g[t][k] => j = k
    /\ \A i \in B[t] : \E k \in A[t] : g[t][k] = i

LEMMA PairsCount ==
  ASSUME NEW N \in Nat, NEW A, NEW B, NEW g, Paired(N, A, B, g)
  PROVE  Cardinality(Pairs(N, B)) = Cardinality(Pairs(N, A))
<1>. USE DEF Paired
<1>. PICK S, T : S = Pairs(N, A) /\ T = Pairs(N, B)
  OBVIOUS
<1>1. \A x : x \in S <=> \E t \in 1 .. N : \E k \in A[t] : x = <<t, k>>
  BY PairsAre
<1>2. \A x : x \in T <=> \E t \in 1 .. N : \E i \in B[t] : x = <<t, i>>
  BY PairsAre
<1>3. IsFiniteSet(S)
  BY PairsAreFinite
<1>. DEFINE f == [x \in S |-> <<x[1], g[x[1]][x[2]]>>]
<1>4. \A t \in 1 .. N : \A k \in A[t] : <<t, k>> \in S /\ f[<<t, k>>] = <<t, g[t][k]>>
  BY <1>1
<1>5. DOMAIN f = S /\ f = [x \in S |-> f[x]]
  OBVIOUS
<1>. HIDE DEF f
<1>6. \A x \in S : f[x] \in T
  BY <1>1, <1>2, <1>4
<1>7. f \in [S -> T]
  BY <1>5, <1>6
<1>8. ASSUME NEW x \in S, NEW y \in S, f[x] = f[y]
      PROVE  x = y
  <2>1. PICK t \in 1 .. N : \E j \in A[t] : x = <<t, j>>
    BY <1>1
  <2>2. PICK u \in 1 .. N : \E k \in A[u] : y = <<u, k>>
    BY <1>1
  <2>. PICK j \in A[t] : x = <<t, j>>
    BY <2>1
  <2>. PICK k \in A[u] : y = <<u, k>>
    BY <2>2
  <2>3. f[x] = <<t, g[t][j]>> /\ f[y] = <<u, g[u][k]>>
    BY <1>4
  <2>. PICK a, b : a = g[t][j] /\ b = g[u][k]
    OBVIOUS
  <2>4. t = u /\ g[t][j] = g[t][k]
    <3>1. <<t, a>> = <<u, b>>
      BY <1>8, <2>3
    <3>2. t = u /\ a = b
      BY ONLY <3>1
    <3>. QED  BY <3>2
  <2>5. j = k
    BY <2>4
  <2>. QED  BY <2>4, <2>5
<1>9. ASSUME NEW y \in T
      PROVE  \E x \in S : f[x] = y
  <2>1. PICK t \in 1 .. N : \E i \in B[t] : y = <<t, i>>
    BY <1>2
  <2>. PICK i \in B[t] : y = <<t, i>>
    BY <2>1
  <2>2. PICK k \in A[t] : g[t][k] = i
    OBVIOUS
  <2>. QED  BY <1>4, <2>2
<1>10. Cardinality(T) = Cardinality(S)
  BY <1>3, <1>7, <1>8, <1>9, SameCount
<1>. QED  BY <1>10

\* The rows of a type in the histories; of each ticket, the steps of a kind up
\* to the one it is at.
RowsNamed(N, logs, type) ==
  [t \in 1 .. N |-> {x \in DOMAIN logs[t] : logs[t][x].type = type}]

StepsNamed(N, specs, ns, kind) ==
  [t \in 1 .. N |-> {x \in 1 .. ns[t] : specs[t].steps[x].type = kind}]

LEMMA CountOfIs ==
  ASSUME NEW file, NEW type, NEW N \in Nat, Existing \cap DOMAIN file.tickets = 1 .. N,
         NEW logs, \A t \in 1 .. N : logs[t] = tickets[t].log
  PROVE  CountOf(file, type) = Cardinality(Pairs(N, RowsNamed(N, logs, type)))
<1>. PICK A : A = RowsNamed(N, logs, type)
  OBVIOUS
<1>1. \A t \in 1 .. N : A[t] = {x \in DOMAIN tickets[t].log : tickets[t].log[x].type = type}
  BY DEF RowsNamed
<1>2. Pairs(N, A) =
        UNION {{<<t, i>> : i \in {x \in DOMAIN tickets[t].log : tickets[t].log[x].type = type}} :
                 t \in 1 .. N}
  BY <1>1 DEF Pairs
<1>. QED  BY <1>2 DEF CountOf

LEMMA StepsOfIs ==
  ASSUME NEW file, NEW kind, NEW N \in Nat, DOMAIN file.tickets = 1 .. N,
         NEW ns, \A t \in 1 .. N : DOMAIN file.tickets[t].steps = 1 .. ns[t]
  PROVE  steps_of(file, kind) = Cardinality(Pairs(N, StepsNamed(N, file.tickets, ns, kind)))
<1>. PICK A : A = StepsNamed(N, file.tickets, ns, kind)
  OBVIOUS
<1>1. \A t \in 1 .. N : A[t] =
        {x \in DOMAIN file.tickets[t].steps : file.tickets[t].steps[x].type = kind}
  BY DEF StepsNamed
<1>2. Pairs(N, A) =
        UNION {{<<i, k>> : k \in {x \in DOMAIN file.tickets[i].steps :
                                   file.tickets[i].steps[x].type = kind}} : i \in 1 .. N}
  BY <1>1 DEF Pairs
<1>. QED  BY <1>2 DEF steps_of

LEMMA OneEach ==
  ASSUME NEW N \in Nat, NEW A, \A t \in 1 .. N : \A i : i \in A[t] <=> i = 1
  PROVE  Cardinality(Pairs(N, A)) = N
<1>. PICK C : C = Pairs(N, A)
  OBVIOUS
<1>. DEFINE f == [t \in 1 .. N |-> <<t, 1>>]
<1>1. \A x : x \in C <=> \E t \in 1 .. N : x = <<t, 1>>
  BY PairsAre
<1>2. f \in [1 .. N -> C]
  BY <1>1
<1>3. \A t, u \in 1 .. N : f[t] = f[u] => t = u
  OBVIOUS
<1>4. \A y \in C : \E t \in 1 .. N : f[t] = y
  BY <1>1
<1>5. IsFiniteSet(1 .. N) /\ Cardinality(1 .. N) = N
  BY FS_Interval
<1>. HIDE DEF f
<1>6. Cardinality(C) = Cardinality(1 .. N)
  BY <1>2, <1>3, <1>4, <1>5, SameCount
<1>. QED  BY <1>5, <1>6

\* The rows of a type are those the first n steps left, step k's at at[k].
RowsTell(log, steps, n, at, kind, type) ==
  /\ n \in Nat
  /\ \A k \in 1 .. n : steps[k].type = kind => at[k] \in DOMAIN log /\ log[at[k]].type = type
  /\ \A i \in DOMAIN log : log[i].type = type =>
       \E k \in 1 .. n : steps[k].type = kind /\ i = at[k]
  /\ \A j, k \in 1 .. n :
       steps[j].type = kind /\ steps[k].type = kind /\ at[j] = at[k] => j = k

\* A history that is the file's has as many rows of a kind as these steps.
LEMMA KindsCount ==
  ASSUME NEW N \in Nat, NEW specs, NEW logs, NEW ns, NEW at, NEW kind, NEW type,
         \A t \in 1 .. N : RowsTell(logs[t], specs[t].steps, ns[t], at[t], kind, type)
  PROVE  Cardinality(Pairs(N, RowsNamed(N, logs, type))) =
           Cardinality(Pairs(N, StepsNamed(N, specs, ns, kind)))
<1>. PICK A, B : A = StepsNamed(N, specs, ns, kind) /\ B = RowsNamed(N, logs, type)
  OBVIOUS
<1>1. \A t \in 1 .. N : \A k : k \in A[t] <=> k \in 1 .. ns[t] /\ specs[t].steps[k].type = kind
  BY DEF StepsNamed
<1>2. \A t \in 1 .. N : \A i : i \in B[t] <=> i \in DOMAIN logs[t] /\ logs[t][i].type = type
  BY DEF RowsNamed
<1>3. ASSUME NEW t \in 1 .. N
      PROVE  IsFiniteSet(A[t])
  <2>. PICK n, S : n = ns[t] /\ S = A[t]
    OBVIOUS
  <2>1. n \in Nat /\ S \in SUBSET (1 .. n)
    BY <1>1 DEF RowsTell
  <2>2. IsFiniteSet(1 .. n)
    BY ONLY <2>1, FS_Interval
  <2>3. IsFiniteSet(S)
    BY <2>1, <2>2, FS_Subset
  <2>. QED  BY <2>3
<1>4. Paired(N, A, B, at)
  BY <1>1, <1>2, <1>3 DEF RowsTell, Paired
<1>5. N \in Nat
  OBVIOUS
<1>6. Cardinality(Pairs(N, B)) = Cardinality(Pairs(N, A))
  BY ONLY <1>4, <1>5, PairsCount
<1>. QED  BY <1>6

\* The history of a ticket is the file's up to step n, whenever it was written.
ToldTo(t, spec, n) ==
  /\ t \in Existing /\ SpecOK(spec) /\ n \in 0 .. Len(spec.steps)
  /\ DOMAIN tickets[t].log = 1 .. Len(tickets[t].log)
  /\ \E when : History(tickets[t].log, spec, n, when)

LEMMA CountsAre ==
  ASSUME NEW file, NEW N \in Nat, DOMAIN file.tickets = 1 .. N, NEW ns,
         \A t \in 1 .. N : ToldTo(t, file.tickets[t], ns[t])
  PROVE  /\ CountOf(file, "Create") = N
         /\ \A kind \in DOMAIN TypeNamed :
              CountOf(file, TypeNamed[kind]) = Cardinality(Pairs(N, StepsNamed(N, file.tickets, ns, kind)))
<1>. PICK specs : specs = file.tickets
  OBVIOUS
<1>. PICK logs : logs = [t \in 1 .. N |-> tickets[t].log]
  OBVIOUS
<1>1. Existing \cap DOMAIN file.tickets = 1 .. N /\ \A t \in 1 .. N : logs[t] = tickets[t].log
  BY DEF ToldTo
<1>. PICK at : at = [t \in 1 .. N |-> [k \in 1 .. ns[t] |-> RowAt(specs[t], k)]]
  OBVIOUS
<1>2. ASSUME NEW t \in 1 .. N
      PROVE  /\ \A i : i \in DOMAIN logs[t] /\ logs[t][i].type = "Create" <=> i = 1
             /\ \A kind \in DOMAIN TypeNamed :
                  RowsTell(logs[t], specs[t].steps, ns[t], at[t], kind, TypeNamed[kind])
  <2>. PICK spec, log, n : spec = specs[t] /\ log = logs[t] /\ n = ns[t]
    OBVIOUS
  <2>0. \E when : History(log, spec, n, when)
    BY <1>1 DEF ToldTo
  <2>. PICK when : History(log, spec, n, when)
    BY <2>0
  <2>1. /\ SpecOK(spec) /\ DOMAIN log = 1 .. Len(log) /\ n \in 0 .. Len(spec.steps)
        /\ History(log, spec, n, when)
    BY <1>1 DEF ToldTo
  <2>2. /\ 1 \in DOMAIN log
        /\ \A i \in DOMAIN log : log[i].type = "Create" <=> i = 1
        /\ \A kind \in DOMAIN TypeNamed :
             /\ \A k \in 1 .. n : spec.steps[k].type = kind =>
                  RowAt(spec, k) \in DOMAIN log /\ log[RowAt(spec, k)].type = TypeNamed[kind]
             /\ \A i \in DOMAIN log : log[i].type = TypeNamed[kind] =>
                  \E k \in 1 .. n : spec.steps[k].type = kind /\ i = RowAt(spec, k)
             /\ \A j, k \in 1 .. n :
                  spec.steps[j].type = kind /\ spec.steps[k].type = kind /\ RowAt(spec, j) = RowAt(spec, k)
                    => j = k
    BY ONLY <2>1, HistoryCounts
  <2>3. n \in Nat
    BY ONLY <2>1 DEF SpecOK
  <2>4. \A k \in 1 .. n : at[t][k] = RowAt(spec, k)
    OBVIOUS
  <2>5. /\ \A i : i \in DOMAIN log /\ log[i].type = "Create" <=> i = 1
        /\ \A kind \in DOMAIN TypeNamed : RowsTell(log, spec.steps, n, at[t], kind, TypeNamed[kind])
    BY ONLY <2>2, <2>3, <2>4 DEF RowsTell
  <2>. QED  BY <2>5
<1>3. CountOf(file, "Create") = N
  <2>. PICK A : A = RowsNamed(N, logs, "Create")
    OBVIOUS
  <2>1. \A t \in 1 .. N : \A i : i \in A[t] <=> i \in DOMAIN logs[t] /\ logs[t][i].type = "Create"
    BY ONLY A = RowsNamed(N, logs, "Create") DEF RowsNamed
  <2>2. \A t \in 1 .. N : \A i : i \in A[t] <=> i = 1
    BY ONLY <1>2, <2>1
  <2>3. Cardinality(Pairs(N, A)) = N
    BY ONLY N \in Nat, <2>2, OneEach
  <2>4. CountOf(file, "Create") = Cardinality(Pairs(N, A))
    BY <1>1, CountOfIs
  <2>. QED  BY <2>3, <2>4
<1>4. ASSUME NEW kind \in DOMAIN TypeNamed
      PROVE  CountOf(file, TypeNamed[kind]) = Cardinality(Pairs(N, StepsNamed(N, specs, ns, kind)))
  <2>. PICK type : type = TypeNamed[kind]
    OBVIOUS
  <2>1. CountOf(file, type) = Cardinality(Pairs(N, RowsNamed(N, logs, type)))
    BY <1>1, CountOfIs
  <2>2. Cardinality(Pairs(N, RowsNamed(N, logs, type)))
          = Cardinality(Pairs(N, StepsNamed(N, specs, ns, kind)))
    <3>1. \A t \in 1 .. N : RowsTell(logs[t], specs[t].steps, ns[t], at[t], kind, type)
      BY <1>2
    <3>2. N \in Nat
      OBVIOUS
    <3>. QED  BY ONLY <3>1, <3>2, KindsCount
  <2>. QED  BY <2>1, <2>2
<1>. QED  BY <1>3, <1>4

\* Tickets that are the file's make its counts come out.
LEMMA CountsAgree ==
  ASSUME NEW file, NEW N \in Nat, Len(file.tickets) = N, DOMAIN file.tickets = 1 .. N,
         \A t \in 1 .. N :
           /\ t \in Existing /\ SpecOK(file.tickets[t])
           /\ DOMAIN tickets[t].log = 1 .. Len(tickets[t].log)
           /\ History(tickets[t].log, file.tickets[t], Len(file.tickets[t].steps),
                      Times(file.tickets[t]))
  PROVE  counts_agree(file)
<1>. PICK ns : ns = [t \in 1 .. N |-> Len(file.tickets[t].steps)]
  OBVIOUS
<1>1. ASSUME NEW t \in 1 .. N
      PROVE  ToldTo(t, file.tickets[t], ns[t]) /\ DOMAIN file.tickets[t].steps = 1 .. ns[t]
  <2>. PICK spec, n : spec = file.tickets[t] /\ n = Len(spec.steps)
    OBVIOUS
  <2>1. n \in Nat /\ DOMAIN spec.steps = 1 .. n /\ ns[t] = n
    BY DEF SpecOK
  <2>. QED  BY <2>1 DEF ToldTo
<1>2. /\ CountOf(file, "Create") = N
      /\ \A kind \in DOMAIN TypeNamed :
           CountOf(file, TypeNamed[kind]) = Cardinality(Pairs(N, StepsNamed(N, file.tickets, ns, kind)))
  <2>1. N \in Nat /\ DOMAIN file.tickets = 1 .. N /\ \A t \in 1 .. N : ToldTo(t, file.tickets[t], ns[t])
    BY <1>1
  <2>. QED  BY ONLY <2>1, CountsAre
<1>3. \A kind : steps_of(file, kind) = Cardinality(Pairs(N, StepsNamed(N, file.tickets, ns, kind)))
  BY <1>1, StepsOfIs
<1>. QED  BY <1>2, <1>3 DEF counts_agree

\* What verify finds of the rows, when nobody else has written.
LEMMA RowsAreFound ==
  ASSUME IInv, SeededOK, NEW p \in Processes, Told(p), Alone(p), Guarded(p), parse(File(p)),
         proc[p].unit > Len(Units(File(p)))
  PROVE  /\ NamesOf(File(p).queues) \subseteq {k[2] : k \in {x \in DOMAIN rows : x[1] = "queues"}}
         /\ Objects(File(p)) \cup {<<"users", "Nobody">>} \subseteq DOMAIN rows
<1>. PICK file : file = File(p)
  OBVIOUS
<1>. PICK there : there = DOMAIN rows
  OBVIOUS
<1>1. there = SEED \cup Objects(file)
  BY AloneRows
<1>2. <<"users", "Nobody">> \in SEED
  BY DEF SEED
<1>3. ASSUME NEW name \in NamesOf(file.queues)
      PROVE  <<"queues", name>> \in there
  <2>1. PICK i \in DOMAIN file.queues : file.queues[i].name = name
    BY <1>3 DEF NamesOf
  <2>. PICK q : q = file.queues[i]
    OBVIOUS
  <2>2. q \in ToSet(file.queues) /\ q.name = name
    BY <2>1 DEF ToSet
  <2>3. CASE q.existing
    BY <2>2, <2>3 DEF Told, GuardStands, Has
  <2>4. CASE ~q.existing
    <3>1. {k \in Objects(file) : k[1] = "queues"} =
            {<<"queues", x.name>> : x \in {y \in ToSet(file.queues) : ~y.existing}}
      BY UnitsAre DEF IInv
    <3>2. <<"queues", q.name>> \in {k \in Objects(file) : k[1] = "queues"}
      BY <2>2, <2>4, <3>1
    <3>. QED  BY <1>1, <2>2, <3>2
  <2>. QED  BY <2>3, <2>4
<1>4. ASSUME NEW name, <<"queues", name>> \in there
      PROVE  name \in {k[2] : k \in {x \in there : x[1] = "queues"}}
  <2>. PICK k : k = <<"queues", name>>
    OBVIOUS
  <2>1. k[1] = "queues" /\ k[2] = name
    OBVIOUS
  <2>. QED  BY <1>4, <2>1
<1>. QED  BY <1>1, <1>2, <1>3, <1>4

\* And of the tickets.
LEMMA TicketsAreFound ==
  ASSUME IInv, NoAppOK, NEW p \in Processes, DoneIsSaid(p), Alone(p), parse(File(p)),
         proc[p].number > Len(File(p).tickets)
  PROVE  \A t \in DOMAIN File(p).tickets :
           /\ t \in Existing /\ SpecOK(File(p).tickets[t])
           /\ DOMAIN tickets[t].log = 1 .. Len(tickets[t].log)
           /\ AsSaid(tickets[t], File(p).tickets[t])
<1>. PICK file : file = File(p)
  OBVIOUS
<1>1. /\ TypeOK /\ Len(file.tickets) \in Nat /\ DOMAIN file.tickets = 1 .. Len(file.tickets)
      /\ proc[p].number \in Nat
  BY FilesHaveShape DEF IInv, TypeOK, Process
<1>. TAKE t \in DOMAIN file.tickets
<1>2. t < proc[p].number
  BY <1>1
<1>3. t \in Existing
  BY <1>2 DEF IInv, TicketsOwned
<1>4. ~Touched(t)
  BY <1>3 DEF NoAppOK, Alone
<1>5. AsSaid(tickets[t], file.tickets[t])
  BY <1>2, <1>4 DEF DoneIsSaid
<1>6. SpecOK(file.tickets[t])
  BY <1>1, SpecsAreOK
<1>7. tickets[t] \in Ticket
  BY <1>1, <1>3 DEF TypeOK, Existing
<1>8. tickets[t].log \in Seq(Row)
  BY <1>7 DEF Ticket
<1>. PICK log : log = tickets[t].log
  OBVIOUS
<1>9. DOMAIN log = 1 .. Len(log)
  BY <1>8
<1>. QED  BY <1>3, <1>5, <1>6, <1>9

\* verify looks for nothing more than that the statuses come out.
LEMMA FoundIsSettled ==
  ASSUME NEW file, DOMAIN file.tickets = 1 .. Len(file.tickets), Len(file.tickets) \in Nat,
         NamesOf(file.queues) \subseteq {k[2] : k \in {x \in DOMAIN rows : x[1] = "queues"}},
         Objects(file) \cup {<<"users", "Nobody">>} \subseteq DOMAIN rows,
         \A t \in DOMAIN file.tickets :
           /\ t \in Existing /\ SpecOK(file.tickets[t])
           /\ DOMAIN tickets[t].log = 1 .. Len(tickets[t].log)
           /\ AsSaid(tickets[t], file.tickets[t])
  PROVE  verified(file) <=>
           \A t \in DOMAIN file.tickets :
             final_status(file.tickets[t]) = StatusAfter(file.tickets[t], Len(file.tickets[t].steps))
<1>. PICK specs : specs = file.tickets
  OBVIOUS
<1>1. ASSUME NEW t \in DOMAIN specs
      PROVE  /\ tickets[t].subject = specs[t].subject /\ tickets[t].queue = specs[t].queue
             /\ tickets[t].owner = specs[t].owner
             /\ tickets[t].status = StatusAfter(specs[t], Len(specs[t].steps))
             /\ final_values(specs[t]) \subseteq tickets[t].values
             /\ History(tickets[t].log, specs[t], Len(specs[t].steps), Times(specs[t]))
  BY <1>1 DEF AsSaid, Follows, final_values
<1>2. counts_agree(file)
  <2>. PICK N : N = Len(file.tickets)
    OBVIOUS
  <2>1. N \in Nat /\ Len(file.tickets) = N /\ DOMAIN file.tickets = 1 .. N
    OBVIOUS
  <2>2. \A t \in 1 .. N :
          /\ t \in Existing /\ SpecOK(file.tickets[t])
          /\ DOMAIN tickets[t].log = 1 .. Len(tickets[t].log)
          /\ History(tickets[t].log, file.tickets[t], Len(file.tickets[t].steps), Times(file.tickets[t]))
    BY <1>1, <2>1
  <2>. QED  BY ONLY <2>1, <2>2, CountsAgree
<1>3. verified(file) <=>
        \A t \in DOMAIN specs :
          /\ t \in Existing
          /\ tickets[t].subject = specs[t].subject /\ tickets[t].queue = specs[t].queue
          /\ tickets[t].owner = specs[t].owner /\ tickets[t].status = final_status(specs[t])
          /\ final_values(specs[t]) \subseteq tickets[t].values
  BY <1>2 DEF verified
<1>. QED  BY <1>1, <1>3

LEMMA verifyTold ==
  ASSUME IInv, SeededOK, NoAppOK, NEW p \in Processes, Onwards(p), DoneIsSaid(p), Told(p), verify(p)
  PROVE  Told(p)'
<1>. PICK file : file = File(p)
  OBVIOUS
<1>. PICK out : out = IF verified(file) THEN "line" ELSE "absent"
  OBVIOUS
<1>1. /\ proc[p].at = "verify" /\ proc[p].out = "" /\ UNCHANGED <<rows, tickets, command>>
      /\ End(p, out)
  BY DEF verify, At, database
<1>2. ASSUME command[p].do = "load", Alone(p), Behind(p)
      PROVE  Ended(p)'
  <2>1. /\ parse(file) /\ Guarded(p) /\ proc[p].unit > Len(Units(file))
        /\ proc[p].number > Len(file.tickets)
    BY <1>1, <1>2 DEF IInv, PlaceOK, Guarded
  <2>2. /\ Len(file.tickets) \in Nat /\ DOMAIN file.tickets = 1 .. Len(file.tickets)
        /\ proc[p].number \in Nat
    BY FilesHaveShape DEF IInv, TypeOK, Process
  <2>3. verified(file) <=>
          \A t \in DOMAIN file.tickets :
            final_status(file.tickets[t]) = StatusAfter(file.tickets[t], Len(file.tickets[t].steps))
    <3>1. /\ NamesOf(file.queues) \subseteq {k[2] : k \in {x \in DOMAIN rows : x[1] = "queues"}}
          /\ Objects(file) \cup {<<"users", "Nobody">>} \subseteq DOMAIN rows
      BY <1>2, <2>1, RowsAreFound
    <3>2. \A t \in DOMAIN file.tickets :
            /\ t \in Existing /\ SpecOK(file.tickets[t])
            /\ DOMAIN tickets[t].log = 1 .. Len(tickets[t].log)
            /\ AsSaid(tickets[t], file.tickets[t])
      BY <1>2, <2>1, TicketsAreFound
    <3>. QED  BY ONLY <2>2, <3>1, <3>2, FoundIsSettled
  <2>4. \A t \in DOMAIN file.tickets :
          /\ Owned(file, file.tickets[t])
          /\ \A k \in DOMAIN file.tickets[t].steps : Playable(file.tickets[t], k)
    BY <1>2, <2>1, <2>2 DEF Behind
  <2>5. verified(file) <=> Plays(file)
    <3>. HIDE DEF Playable
    <3>. QED  BY <2>3, <2>4 DEF Plays, ToSet, Owned
  <2>6. proc'[p].out = out /\ File(p)' = file
    BY <1>1, EndIs DEF File
  <2>. QED  BY <2>5, <2>6 DEF Ended
<1>. HIDE DEF Told, Behind, Opened, Ended, Alone, RowsStay
<1>. QED  BY <1>1, <1>2, EndTold DEF Onwards

LEMMA failTold ==
  ASSUME IInv, NEW p \in Processes, Onwards(p), Told(p), fail(p)
  PROVE  Told(p)'
<1>1. proc[p].out = "" /\ UNCHANGED <<rows, tickets, command>> /\ End(p, "failed")
  BY DEF fail
<1>2. Ended(p)'
  BY <1>1, EndsOtherwise
<1>. HIDE DEF Told, Behind, Opened, Ended, Alone, RowsStay
<1>. QED  BY <1>1, <1>2, EndTold DEF Onwards

(* The seed comes first *)

LEMMA SeededKeeps ==
  ASSUME IInv, SeededOK, [Next]_vars
  PROVE  SeededOK'
<1>1. RowsStay /\ command' = command
  BY StepsOnly
<1>2. DOMAIN rows # {} => SEED \subseteq DOMAIN rows' /\ DOMAIN rows' # {}
  BY <1>1 DEF SeededOK, RowsStay
<1>3. users_exist => DOMAIN rows # {}
  BY DEF users_exist
<1>. HIDE DEF SEED
<1>4. ASSUME UNCHANGED vars \/ app_makes \/ app_creates \/ app_touches
      PROVE  SeededOK'
  <2>1. proc' = proc /\ (rows' = rows \/ users_exist)
    BY <1>4 DEF vars, app_makes, app_creates, app_touches, App
  <2>2. DOMAIN rows' # {} => SEED \subseteq DOMAIN rows'
    BY <1>2, <1>3, <2>1 DEF SeededOK
  <2>3. \A q \in Processes : proc'[q].at = "guard" \/ Guarded(q)' => DOMAIN rows' # {}
    BY <1>1, <1>2, <2>1 DEF SeededOK, Guarded
  <2>. QED  BY <2>2, <2>3 DEF SeededOK
<1>5. ASSUME NEW p \in Processes,
             \/ start(p) \/ seed(p) \/ guard(p) \/ write(p) \/ create(p) \/ apply_step(p)
             \/ stamp(p) \/ verify(p) \/ fail(p)
      PROVE  SeededOK'
  <2>1. \A q \in Processes : q # p => proc'[q] = proc[q]
    BY <1>5, StepIsItsOwn
  <2>2. CASE start(p) \/ fail(p) \/ verify(p)
    <3>1. /\ rows' = rows
          /\ \/ proc'[p].at = proc[p].at
             \/ proc'[p].at = "verify" /\ command[p].do = "check"
             \/ users_exist \/ proc'[p].at = "seed"
      <4>1. CASE \E out : End(p, out)
        BY <2>2, <4>1, EndIs DEF Same, start, fail, verify, database
      <4>2. CASE \E place : Go(p, place) /\
                   (users_exist \/ place = "seed" \/ (place = "verify" /\ command[p].do = "check"))
        BY <2>2, <4>2, GoIs DEF start, fail, verify, database
      <4>. QED  BY <2>2, <4>1, <4>2 DEF start, Seeded, fail, verify
    <3>2. DOMAIN rows' # {} => SEED \subseteq DOMAIN rows'
      BY <3>1 DEF SeededOK
    <3>3. \A q \in Processes : proc'[q].at = "guard" \/ Guarded(q)' => DOMAIN rows' # {}
      BY <1>1, <1>3, <2>1, <3>1 DEF SeededOK, Guarded
    <3>. QED  BY <3>2, <3>3 DEF SeededOK
  <2>3. CASE seed(p)
    <3>1. CASE rows' = rows /\ \E out : End(p, out)
      <4>1. proc'[p].at = proc[p].at
        BY <3>1, EndIs DEF Same
      <4>2. DOMAIN rows' # {} => SEED \subseteq DOMAIN rows'
        BY <3>1 DEF SeededOK
      <4>3. \A q \in Processes : proc'[q].at = "guard" \/ Guarded(q)' => DOMAIN rows' # {}
        BY <1>1, <2>1, <3>1, <4>1 DEF SeededOK, Guarded
      <4>. QED  BY <4>2, <4>3 DEF SeededOK
    <3>2. CASE rows' = Inserted(SEED, p)
      <4>1. SEED \subseteq DOMAIN rows'
        BY <3>2 DEF Inserted
      <4>2. SEED # {}
        BY DEF SEED
      <4>. QED  BY <4>1, <4>2 DEF SeededOK
    <3>. QED  BY <2>3, <3>1, <3>2 DEF seed
  <2>4. CASE guard(p) \/ write(p) \/ create(p) \/ apply_step(p) \/ stamp(p)
    <3>1. proc[p].at \in {"guard", "write", "create", "apply", "stamp"}
      BY <2>4 DEF guard, write, create, apply_step, stamp, At
    <3>2. DOMAIN rows # {}
      BY <3>1 DEF SeededOK, Guarded
    <3>. QED  BY <1>2, <3>2 DEF SeededOK
  <2>. QED  BY <1>5, <2>2, <2>3, <2>4
<1>. QED  BY <1>4, <1>5 DEF Next

(* Without the app no ticket is touched *)

Clean(log) == \A i \in DOMAIN log : log[i].who # "app"

LEMMA CleanJoined ==
  ASSUME NEW a \in Seq(Row), NEW b \in Seq(Row), Clean(a), Clean(b)
  PROVE  Clean(a \o b)
<1>1. a \o b \in Seq(Row) /\ Len(a \o b) = Len(a) + Len(b)
  OBVIOUS
<1>2. ASSUME NEW i \in 1 .. Len(a) + Len(b)
      PROVE  \/ i \in DOMAIN a /\ (a \o b)[i] = a[i]
             \/ i - Len(a) \in DOMAIN b /\ (a \o b)[i] = b[i - Len(a)]
  BY <1>2
<1>. QED  BY <1>1, <1>2 DEF Clean

\* Updated takes the history as it is.
LEMMA UpdatedLog ==
  ASSUME NEW now \in Ticket, NEW was, NEW new, "log" \notin DOMAIN new, NEW values, NEW log
  PROVE  /\ Updated(now, was, new).log = now.log
         /\ [Updated(now, was, new) EXCEPT !.log = log].log = log
         /\ [Updated(now, was, new) EXCEPT !.values = values, !.log = log].log = log
<1>. PICK row : row = Updated(now, was, new)
  OBVIOUS
<1>1. "log" \in DOMAIN now /\ "values" \in DOMAIN now
  BY DEF Ticket
<1>2. row = [c \in DOMAIN now |-> IF c \in DOMAIN new THEN IF new[c] # was[c] THEN new[c] ELSE now[c]
                                  ELSE now[c]]
  BY DEF Updated
<1>3. DOMAIN row = DOMAIN now /\ row.log = now.log
  BY <1>1, <1>2
<1>4. [row EXCEPT !.log = log].log = log /\ [row EXCEPT !.values = values, !.log = log].log = log
  BY <1>1, <1>3
<1>. QED  BY <1>3, <1>4

LEMMA createClean ==
  ASSUME IInv, NEW p \in Processes, create(p), \A t \in Existing : Clean(tickets[t].log)
  PROVE  \A t \in Existing' : Clean(tickets'[t].log)
<1>. PICK new : new = NewTicket(p, SpecOf(p))
  OBVIOUS
<1>1. next_id <= MaxId /\ (UNCHANGED tickets \/ tickets' = [tickets EXCEPT ![next_id] = new])
  BY DEF create, Created
<1>2. Clean(new.log)
  <2>. PICK entry : entry = [type |-> "Create", at |-> Clock, by |-> SpecOf(p).creator, who |-> p]
    OBVIOUS
  <2>1. new.log = <<entry>>
    BY DEF NewTicket
  <2>2. entry.who # "app"
    BY AppIsNoProcess
  <2>. QED  BY <2>1, <2>2 DEF Clean
<1>3. \A t \in Existing' : tickets'[t] = new \/ (t \in Existing /\ tickets'[t] = tickets[t])
  BY <1>1 DEF IInv, TypeOK, Existing
<1>. QED  BY <1>2, <1>3

LEMMA applyClean ==
  ASSUME IInv, NEW p \in Processes, apply_step(p), \A t \in Existing : Clean(tickets[t].log)
  PROVE  \A t \in Existing' : Clean(tickets'[t].log)
<1>. DEFINE step == StepOf(p)
            held == proc[p].ticket
            row == tickets[proc[p].id]
            target == Target(held.status, step)
            Wrote(type) == <<[type |-> type, at |-> Clock, by |-> step.actor, who |-> p]>>
            first == IF step.type = "status" THEN <<>> ELSE Wrote(TypeNamed[step.type])
            second == IF target = held.status THEN <<>> ELSE Wrote("Status")
            entries == first \o second
            new == IF entries = <<>> THEN held
                   ELSE [held EXCEPT
                          !.status = target,
                          !.started = StartedAfter(held.status, target, @, Clock),
                          !.resolved = ResolvedAfter(held.status, target, @, Clock),
                          !.last_updated = Clock, !.last_updated_by = step.actor]
            values == IF step.type = "custom_field" THEN WithValue(row.values, step)
                      ELSE row.values
            written == [Updated(row, held, new) EXCEPT !.values = values, !.log = @ \o entries]
<1>. PICK id : id = proc[p].id
  OBVIOUS
<1>1. /\ proc[p].at = "apply"
      /\ UNCHANGED tickets \/ tickets' = [tickets EXCEPT ![id] = written]
  BY DEF apply_step, At
<1>2. /\ id \in Existing /\ row \in Ticket /\ held \in Held /\ step \in Step
      /\ tickets \in [1 .. MaxId -> Ticket \cup {Absent}]
  BY <1>1, OpenTicket DEF IInv, TypeOK
<1>3. ASSUME NEW type \in {"Correspond", "Comment", "Status", "CustomField"}
      PROVE  Wrote(type) \in Seq(Row) /\ Clean(Wrote(type))
  <2>. PICK entry : entry = [type |-> type, at |-> Clock, by |-> step.actor, who |-> p]
    OBVIOUS
  <2>1. entry \in Row /\ entry.who # "app"
    BY <1>2, BoundsOK, AppIsNoProcess DEF Row, Step, Writers
  <2>2. <<entry>> \in Seq(Row) /\ Clean(<<entry>>)
    BY ONLY <2>1 DEF Clean
  <2>. QED  BY <2>2
<1>4. <<>> \in Seq(Row) /\ Clean(<<>>)
  BY DEF Clean
<1>5. step.type # "status" => TypeNamed[step.type] \in {"Correspond", "Comment", "CustomField"}
  BY <1>2 DEF TypeNamed, Step
<1>6. first \in Seq(Row) /\ Clean(first) /\ second \in Seq(Row) /\ Clean(second)
  <2>. HIDE DEF Wrote, target
  <2>. QED  BY <1>3, <1>4, <1>5
<1>. PICK log : log = row.log
  OBVIOUS
<1>7. log \in Seq(Row) /\ Clean(log)
  BY <1>2 DEF Ticket
<1>8. entries \in Seq(Row) /\ Clean(entries)
  <2>1. first \o second \in Seq(Row)
    <3>. HIDE DEF first, second
    <3>. QED  BY <1>6
  <2>2. Clean(first \o second)
    <3>. HIDE DEF first, second
    <3>. QED  BY <1>6, CleanJoined
  <2>. QED  BY <2>1, <2>2
<1>9. Clean(log \o entries)
  <2>. HIDE DEF entries
  <2>. QED  BY <1>7, <1>8, CleanJoined
<1>10. "log" \notin DOMAIN new
  <2>. HIDE DEF entries, target, step
  <2>. QED  BY <1>2 DEF Held
<1>11. Clean(written.log)
  <2>. PICK object : object = new
    OBVIOUS
  <2>. PICK pairs : pairs = values
    OBVIOUS
  <2>. PICK more : more = entries
    OBVIOUS
  <2>. PICK updated : updated = Updated(row, held, object)
    OBVIOUS
  <2>. PICK longer : longer = log \o more
    OBVIOUS
  <2>1. updated.log = log /\ [updated EXCEPT !.values = pairs, !.log = longer].log = longer
    <3>. HIDE DEF new, values, entries, held, row
    <3>. QED  BY <1>2, <1>10, UpdatedLog
  <2>2. written = [updated EXCEPT !.values = pairs, !.log = longer]
    BY <2>1
  <2>. HIDE DEF written
  <2>. QED  BY <1>9, <2>1, <2>2
<1>. HIDE DEF written
<1>12. \A t \in Existing' : tickets'[t] = written \/ (t \in Existing /\ tickets'[t] = tickets[t])
  BY <1>1, <1>2 DEF Existing
<1>. QED  BY <1>11, <1>12

LEMMA stampClean ==
  ASSUME IInv, NEW p \in Processes, stamp(p), \A t \in Existing : Clean(tickets[t].log)
  PROVE  \A t \in Existing' : Clean(tickets'[t].log)
<1>. DEFINE birth == proc[p].step = 0
            at == IF birth THEN SpecOf(p).created ELSE StepOf(p).at
            actor == IF birth THEN SpecOf(p).creator ELSE StepOf(p).actor
            held == IF birth THEN [proc[p].ticket EXCEPT !.created = at] ELSE proc[p].ticket
            row == tickets[proc[p].id]
            new == [held EXCEPT !.started = Restamped(@, proc[p].before[1], at),
                                !.resolved = Restamped(@, proc[p].before[2], at),
                                !.last_updated = at, !.last_updated_by = actor]
            log == [i \in DOMAIN row.log |->
                      IF i > proc[p].mark THEN [row.log[i] EXCEPT !.at = at] ELSE row.log[i]]
            written == [Updated(row, proc[p].ticket, new) EXCEPT !.log = log]
<1>. PICK id : id = proc[p].id
  OBVIOUS
<1>1. /\ proc[p].at = "stamp" /\ tickets' = [tickets EXCEPT ![id] = written]
  BY DEF stamp, At
<1>2. /\ id \in Existing /\ row \in Ticket /\ proc[p].ticket \in Held
      /\ tickets \in [1 .. MaxId -> Ticket \cup {Absent}]
  BY <1>1, OpenTicket DEF IInv, TypeOK
<1>3. "log" \notin DOMAIN new
  <2>. HIDE DEF at, actor
  <2>. QED  BY <1>2 DEF Held
<1>4. Clean(log)
  <2>. PICK old : old = row.log
    OBVIOUS
  <2>. PICK time : time = at
    OBVIOUS
  <2>1. old \in Seq(Row) /\ Clean(old)
    BY <1>2 DEF Ticket
  <2>2. ASSUME NEW i \in DOMAIN old
        PROVE  [old[i] EXCEPT !.at = time].who # "app"
    <3>. PICK entry : entry = old[i]
      OBVIOUS
    <3>1. entry \in Row /\ entry.who # "app"
      BY <2>1 DEF Clean
    <3>. QED  BY <3>1 DEF Row
  <2>3. \A i \in DOMAIN old : log[i].who # "app"
    <3>. HIDE DEF at
    <3>. QED  BY <2>1, <2>2 DEF Clean
  <2>. QED  BY <2>3 DEF Clean
<1>5. Clean(written.log)
  <2>. PICK object : object = new
    OBVIOUS
  <2>. PICK dated : dated = log
    OBVIOUS
  <2>. PICK was : was = proc[p].ticket
    OBVIOUS
  <2>. PICK now : now = row
    OBVIOUS
  <2>1. now \in Ticket /\ "log" \notin DOMAIN object
    BY <1>2, <1>3
  <2>2. [Updated(now, was, object) EXCEPT !.log = dated].log = dated
    BY ONLY <2>1, UpdatedLog
  <2>3. written = [Updated(now, was, object) EXCEPT !.log = dated]
    BY DEF written
  <2>. HIDE DEF written, log
  <2>. QED  BY <1>4, <2>2, <2>3
<1>. HIDE DEF written
<1>6. \A t \in Existing' : tickets'[t] = written \/ (t \in Existing /\ tickets'[t] = tickets[t])
  BY <1>1, <1>2 DEF Existing
<1>. QED  BY <1>5, <1>6

LEMMA NoAppKeeps ==
  ASSUME IInv, NoAppOK, [Next]_vars
  PROVE  NoAppOK'
<1>. SUFFICES ASSUME foreign' = 0
              PROVE  \A t \in Existing' : Clean(tickets'[t].log)
  BY DEF NoAppOK, Touched, Clean
<1>1. foreign = 0 /\ foreign' # foreign + 1
  BY StepsOnly
<1>2. \A t \in Existing : Clean(tickets[t].log)
  BY <1>1 DEF NoAppOK, Touched, Clean
<1>3. CASE UNCHANGED vars
  BY <1>2, <1>3 DEF vars, Existing
<1>4. ~(app_makes \/ app_creates \/ app_touches)
  BY <1>1 DEF app_makes, app_creates, app_touches, App
<1>5. ASSUME NEW p \in Processes,
             start(p) \/ seed(p) \/ guard(p) \/ write(p) \/ verify(p) \/ fail(p)
      PROVE  tickets' = tickets
  BY <1>5 DEF start, seed, guard, write, verify, fail, database
<1>. QED  BY <1>2, <1>3, <1>4, <1>5, createClean, applyClean, stampClean DEF Next, Existing

(* The invariant *)

LEMMA InitAlone == Init => AloneInv
<1>. SUFFICES ASSUME Init
              PROVE  AloneInv
  OBVIOUS
<1>1. SaidInv
  BY InitSaid
<1>2. DOMAIN rows = {} /\ Existing = {}
  <2>1. DOMAIN rows = {}
    <3>1. rows = <<>>
      BY DEF Init
    <3>. QED  BY ONLY <3>1
  <2>2. \A t \in 1 .. MaxId : tickets[t] = Absent
    BY DEF Init
  <2>. QED  BY <2>1, <2>2 DEF Existing
<1>3. ASSUME NEW p \in Processes
      PROVE  /\ proc[p].at = "start" /\ proc[p].number = 1 /\ proc[p].unit = 1
             /\ proc[p].out \notin {"line", "partly", "absent"}
  BY DEF Init
<1>4. SeededOK /\ NoAppOK
  BY <1>2, <1>3 DEF SeededOK, NoAppOK, Guarded
<1>5. ASSUME NEW p \in Processes
      PROVE  RowsFrom(p) /\ TicketsFrom(p) /\ GuardStands(p) /\ PlayedSoFar(p)
  <2>. PICK file : file = File(p)
    OBVIOUS
  <2>1. DOMAIN file.tickets = 1 .. Len(file.tickets) /\ Len(file.tickets) \in Nat
    BY <1>1, FilesHaveShape DEF SaidInv, IInv
  <2>2. \A t \in DOMAIN file.tickets : ~(t < 1)
    BY <2>1
  <2>3. PlayedSoFar(p)
    BY <1>3, <2>2 DEF PlayedSoFar
  <2>. QED  BY <1>2, <1>3, <2>3 DEF RowsFrom, TicketsFrom, GuardStands, Guarded
<1>. QED  BY <1>1, <1>4, <1>5 DEF AloneInv

LEMMA NextAlone == AloneInv /\ [Next]_vars => AloneInv'
<1>. SUFFICES ASSUME AloneInv, [Next]_vars
              PROVE  AloneInv'
  OBVIOUS
<1>1. SaidInv /\ SaidInv' /\ SeededOK /\ NoAppOK /\ SeededOK' /\ NoAppOK'
  BY NextSaid, SeededKeeps, NoAppKeeps DEF AloneInv, SaidInv
<1>2. IInv /\ IInv'
  BY <1>1 DEF SaidInv
<1>. SUFFICES ASSUME NEW q \in Processes
              PROVE  Told(q)'
  BY <1>1 DEF AloneInv, Told
<1>3. Told(q) /\ OpenIsSaid(q) /\ DoneIsSaid(q) /\ Onwards(q)
  BY <1>2, GoesOn DEF AloneInv, SaidInv, Told
<1>4. /\ RowsStay /\ TicketsStay /\ command' = command
      /\ \A t \in Existing' : t \in Existing \/ t = next_id
      /\ Alone(q)' => Alone(q)
  BY <1>2, <1>3, StepsOnly DEF Onwards
<1>. HIDE DEF Told, Alone, RowsStay, TicketsStay
<1>5. CASE UNCHANGED vars
  <2>1. rows' = rows /\ tickets' = tickets /\ proc'[q] = proc[q]
    BY <1>5 DEF vars
  <2>2. NotBy(q)
    BY <2>1 DEF NotBy, Existing
  <2>. QED  BY <1>3, <1>4, <2>1, <2>2, OthersTold
<1>6. CASE app_makes \/ app_creates \/ app_touches
  <2>1. proc'[q] = proc[q]
    BY <1>2, <1>6, AppLeavesItsName
  <2>2. NotBy(q)
    BY <1>2, <1>4, <1>6, NewIsTheApps, NotByOthers, AppIsNoProcess
  <2>. QED  BY <1>3, <1>4, <2>1, <2>2, OthersTold
<1>7. ASSUME NEW p \in Processes,
             \/ start(p) \/ seed(p) \/ guard(p) \/ write(p) \/ create(p) \/ apply_step(p)
             \/ stamp(p) \/ verify(p) \/ fail(p)
      PROVE  Told(q)'
  <2>1. CASE q # p
    <3>1. proc'[q] = proc[q]
      BY <1>2, <1>7, <2>1, StepIsItsOwn
    <3>2. NotBy(q)
      BY <1>2, <1>4, <1>7, <2>1, NewIsOwn, NotByOthers
    <3>. QED  BY <1>3, <1>4, <3>1, <3>2, OthersTold
  <2>2. CASE q = p
    <3>1. CASE start(q) \/ seed(q) \/ guard(q) \/ write(q)
      BY <1>1, <1>2, <1>3, <3>1, startTold, seedTold, guardTold, writeTold
    <3>2. CASE create(q)
      BY <1>1, <1>2, <1>3, <3>2, createTold
    <3>3. CASE apply_step(q)
      BY <1>1, <1>2, <1>3, <1>4, <3>3, applyTold
    <3>4. CASE stamp(q)
      BY <1>1, <1>2, <1>3, <1>4, <3>4, stampTold
    <3>5. CASE verify(q) \/ fail(q)
      BY <1>1, <1>2, <1>3, <3>5, verifyTold, failTold
    <3>. QED  BY <1>7, <2>2, <3>1, <3>2, <3>3, <3>4, <3>5
  <2>. QED  BY <2>1, <2>2
<1>. QED  BY <1>5, <1>6, <1>7 DEF Next

(* The theorems *)

\* A load that has written everything there is but the seed, nobody else having
\* written, has come where it is by steps that can be played, and when it has
\* ended by itself it has ended as its file decides (the loop over the tickets
\* and verify, fixture.py:900, 991).
THEOREM AloneInvariant == Spec => []AloneInv
BY InitAlone, NextAlone, PTL DEF Spec

\* On a side of its own a file loads whole and is found, or stops half-way or is
\* not found, exactly as its steps decide: an owner who may not own, a move the
\* lifecycle refuses, a value set twice, and a ticket that only a reply has
\* opened (fixture.py:231, 313, 928).  What verify counts are as many rows of
\* each kind as the file has steps of it.
THEOREM LoadsAsTheyPlay == Spec => []LoadsWhatPlays
<1>1. AloneInv => LoadsWhatPlays
  BY DEF AloneInv, PlayedSoFar, LoadsWhatPlays
<1>. QED  BY <1>1, AloneInvariant, PTL

----------------------------------------------------------------------------
(* The line of a check *)

\* A step of a process changes no ticket of another's.
LEMMA OnlyItsOwn ==
  ASSUME IInv, NEW p \in Processes,
         \/ start(p) \/ seed(p) \/ guard(p) \/ write(p) \/ create(p) \/ apply_step(p)
         \/ stamp(p) \/ verify(p) \/ fail(p)
  PROVE  \A t \in Existing : tickets[t].who # p => tickets'[t] = tickets[t]
<1>1. tickets \in [1 .. MaxId -> Ticket \cup {Absent}] /\ next_id \in Nat
      /\ \A t \in Existing : t \in 1 .. MaxId /\ ~(t = next_id)
  <2>1. next_id \in Nat /\ \A t \in Existing : t \in Nat /\ t < next_id
    BY BoundsOK DEF IInv, TypeOK, FreshOK, Existing
  <2>. QED  BY <2>1 DEF IInv, TypeOK, Existing
<1>2. CASE start(p) \/ seed(p) \/ guard(p) \/ write(p) \/ verify(p) \/ fail(p)
  BY <1>2 DEF start, seed, guard, write, verify, fail, database
<1>3. CASE create(p)
  BY <1>1, <1>3 DEF create, Created
<1>4. CASE apply_step(p) \/ stamp(p)
  <2>. PICK id : id = proc[p].id
    OBVIOUS
  <2>1. /\ UNCHANGED tickets \/ \E row : tickets' = [tickets EXCEPT ![id] = row]
        /\ proc[p].at \in {"apply", "stamp"}
    BY <1>4 DEF apply_step, stamp, At
  <2>2. tickets[id].who = p
    BY <2>1 DEF IInv, PlaceOK
  <2>. QED  BY <1>1, <2>1, <2>2
<1>. QED  BY <1>2, <1>3, <1>4

LEMMA AppShowsOn ==
  ASSUME IInv, AppShows, [Next]_vars
  PROVE  AppShows'
<1>1. TicketsStay /\ tickets \in [1 .. MaxId -> Ticket \cup {Absent}] /\ MaxId \in Nat
  BY StepsOnly, BoundsOK DEF IInv, TypeOK
<1>2. CASE UNCHANGED vars
  BY <1>2 DEF vars, AppShows, Existing, Touched
<1>3. CASE app_makes
  BY <1>3 DEF app_makes, AppShows, Existing, Touched
<1>4. CASE app_creates
  <2>. DEFINE other == [subject |-> "other", queue |-> "General", owner |-> "Nobody", creator |-> "root"]
  <2>. PICK row : row = NewTicket("app", other)
    OBVIOUS
  <2>1. next_id \in 1 .. MaxId /\ tickets' = [tickets EXCEPT ![next_id] = row]
    BY <1>4, BoundsOK DEF app_creates, IInv, TypeOK
  <2>2. \E i \in DOMAIN row.log : row.log[i].who = "app"
    <3>. PICK entry : entry = [type |-> "Create", at |-> Clock, by |-> "root", who |-> "app"]
      OBVIOUS
    <3>1. row.log = <<entry>> /\ entry.who = "app"
      BY DEF NewTicket
    <3>2. 1 \in DOMAIN row.log /\ row.log[1].who = "app"
      BY <3>1
    <3>. QED  BY <3>2
  <2>. HIDE DEF other
  <2>3. \A t \in Existing' : tickets'[t] = row \/ (t \in Existing /\ tickets'[t] = tickets[t])
    BY <1>1, <2>1 DEF Existing
  <2>. QED  BY <2>2, <2>3 DEF AppShows, Touched
<1>5. CASE app_touches
  <2>1. PICK t \in Existing, row \in Ticket :
          row.who = tickets[t].who /\ FromApp(row) /\ tickets' = [tickets EXCEPT ![t] = row]
    BY <1>5, TouchedIsTicket
  <2>2. \A u \in Existing' : tickets'[u] = row \/ (u \in Existing /\ tickets'[u] = tickets[u])
    BY <1>1, <2>1 DEF Existing
  <2>. QED  BY <2>1, <2>2 DEF AppShows, Touched, FromApp
<1>6. ASSUME NEW p \in Processes,
             \/ start(p) \/ seed(p) \/ guard(p) \/ write(p) \/ create(p) \/ apply_step(p)
             \/ stamp(p) \/ verify(p) \/ fail(p)
      PROVE  AppShows'
  <2>. SUFFICES ASSUME NEW t \in Existing', tickets'[t].who = "app"
                PROVE  Touched(t)'
    BY DEF AppShows
  <2>1. AllNewBy(p) /\ p # "app"
    BY <1>6, NewIsOwn, AppIsNoProcess
  <2>2. t \in Existing /\ tickets[t].who = "app"
    BY <1>1, <2>1 DEF AllNewBy, TicketsStay
  <2>3. tickets'[t] = tickets[t]
    BY <1>6, <2>1, <2>2, OnlyItsOwn
  <2>. QED  BY <2>2, <2>3 DEF AppShows, Touched
<1>. QED  BY <1>2, <1>3, <1>4, <1>5, <1>6 DEF Next

\* Others leave it clear whose a ticket is.
LEMMA OthersWhose ==
  ASSUME IInv, [Next]_vars, NEW q \in Processes, proc'[q] = proc[q], NotBy(q), Kept(q), WhoseOK(q)
  PROVE  WhoseOK(q)'
<1>1. command' = command
  BY StepsOnly
<1>. PICK me, file, spec : me = proc[q] /\ file = File(q) /\ spec = SpecOf(q)
  OBVIOUS
<1>2. proc'[q] = me /\ File(q)' = file /\ SpecOf(q)' = spec
  BY <1>1 DEF File, SpecOf
<1>3. ASSUME NEW t \in Existing', tickets'[t].who = q, ~Touched(t)'
      PROVE  t \in Existing /\ tickets[t].who = q /\ ~Touched(t) /\ tickets'[t] = tickets[t]
  <2>1. t \in Existing /\ tickets[t].who = q
    BY <1>3 DEF NotBy
  <2>2. tickets'[t] = tickets[t]
    BY <1>3, <2>1 DEF Kept
  <2>. QED  BY <1>3, <2>1, <2>2 DEF Touched
<1>. QED  BY <1>1, <1>2, <1>3 DEF WhoseOK

\* A process that stays with its ticket, or ends, changes none.
LEMMA QuietWhose ==
  ASSUME IInv, NEW p \in Processes, WhoseOK(p), UNCHANGED <<tickets, command>>,
         proc[p].out = "", proc'[p].number = proc[p].number,
         proc'[p].at = proc[p].at \/ proc[p].at \notin {"stamp", "apply"}
  PROVE  WhoseOK(p)'
<1>. PICK me, went, file, spec : me = proc[p] /\ went = proc'[p] /\ file = File(p) /\ spec = SpecOf(p)
  OBVIOUS
<1>1. File(p)' = file /\ SpecOf(p)' = spec /\ Existing' = Existing /\ \A t : Touched(t)' = Touched(t)
  BY DEF File, SpecOf, Existing, Touched
<1>. QED  BY <1>1 DEF WhoseOK

LEMMA QuietStepsWhose ==
  ASSUME IInv, NEW p \in Processes, WhoseOK(p),
         start(p) \/ seed(p) \/ guard(p) \/ write(p) \/ verify(p) \/ fail(p)
  PROVE  WhoseOK(p)'
<1>1. UNCHANGED <<tickets, command>> /\ proc[p].out = ""
  BY DEF start, seed, guard, write, verify, fail, At, database
<1>2. CASE \E out : End(p, out)
  <2>1. proc'[p].at = proc[p].at /\ proc'[p].number = proc[p].number
    BY <1>2, EndIs DEF Same
  <2>. QED  BY <1>1, <2>1, QuietWhose
<1>3. CASE proc[p].at \notin {"stamp", "apply"} /\ \E place : Go(p, place)
  <2>1. proc'[p].number = proc[p].number
    BY <1>3, GoIs
  <2>. QED  BY <1>1, <1>3, <2>1, QuietWhose
<1>4. CASE write(p) /\ ~(\E out : End(p, out))
  <2>. PICK old : old = proc[p]
    OBVIOUS
  <2>. PICK place, unit : place = AfterUnit(p, old.unit) /\ unit = old.unit + 1
    OBVIOUS
  <2>1. old \in Process /\ proc'[p] = [old EXCEPT !.unit = unit, !.at = place] /\ old.at = "write"
    BY <1>4 DEF write, At, IInv, TypeOK
  <2>. PICK new : new = proc'[p]
    OBVIOUS
  <2>2. new = [old EXCEPT !.unit = unit, !.at = place]
    BY <2>1
  <2>3. new.number = old.number
    BY ONLY <2>1, <2>2 DEF Process
  <2>. QED  BY <1>1, <2>1, <2>3, QuietWhose
<1>. QED  BY <1>2, <1>3, <1>4 DEF start, seed, guard, write, verify, fail, Seeded, At

\* A ticket of the file, or the one that got another number.
LEMMA createWhose ==
  ASSUME IInv, NEW p \in Processes, WhoseOK(p), create(p)
  PROVE  WhoseOK(p)'
<1>. PICK me, file, spec, new : me = proc[p] /\ file = File(p) /\ spec = SpecOf(p)
                                  /\ new = NewTicket(p, spec)
  OBVIOUS
<1>1. /\ me.at = "create" /\ me.out = "" /\ command' = command
      /\ command[p].do = "load" /\ me.number \in DOMAIN file.tickets /\ TypeOK /\ parse(file)
  BY PastTheStart DEF create, At, IInv, PlaceOK
<1>2. spec.id = me.number
  BY <1>1, SpecsAreOK DEF SpecOf
<1>3. new.who = p /\ new.subject = spec.subject
  BY DEF NewTicket
<1>4. ASSUME NEW t \in Existing, tickets[t].who = p, ~Touched(t)
      PROVE  t \in DOMAIN file.tickets /\ t < me.number
  BY <1>1, <1>4 DEF WhoseOK
<1>5. CASE UNCHANGED tickets /\ End(p, "partly")
  BY <1>1, <1>5, QuietWhose, EndIs DEF Same
<1>6. CASE /\ next_id <= MaxId /\ tickets' = [tickets EXCEPT ![next_id] = new]
           /\ IF next_id # spec.id THEN End(p, "partly")
              ELSE proc' = [proc EXCEPT ![p].at = "stamp", ![p].id = next_id, ![p].step = 0,
                            ![p].ticket = ObjectOf(new), ![p].before = <<NoDate, NoDate>>]
  <2>. PICK went : went = proc'[p]
    OBVIOUS
  <2>1. /\ went.number = me.number
        /\ IF next_id # spec.id THEN went.at = "create" /\ went.out # "" ELSE went.at = "stamp"
    <3>1. CASE next_id # spec.id
      <4>1. End(p, "partly")
        BY <1>6, <3>1
      <4>2. went.at = me.at /\ went.number = me.number /\ went.out = "partly"
        BY <4>1, EndIs DEF Same
      <4>3. went.at = "create" /\ went.number = me.number /\ went.out # ""
        BY ONLY <1>1, <4>2
      <4>. QED  BY <3>1, <4>3
    <3>2. CASE next_id = spec.id
      <4>. PICK object, dates, id : object = ObjectOf(new) /\ dates = <<NoDate, NoDate>> /\ id = next_id
        OBVIOUS
      <4>1. me \in Process /\ went = [me EXCEPT !.at = "stamp", !.id = id, !.step = 0,
                                                !.ticket = object, !.before = dates]
        BY <1>6, <3>2 DEF IInv, TypeOK
      <4>2. went.number = me.number /\ went.at = "stamp"
        BY ONLY <4>1 DEF Process
      <4>. QED  BY <3>2, <4>2
    <3>. QED  BY <3>1, <3>2
  <2>2. File(p)' = file /\ SpecOf(p)' = spec
    BY <1>1, <2>1 DEF File, SpecOf
  <2>3. tickets'[next_id] = new /\ \A t \in Existing' : t = next_id \/ (t \in Existing /\ tickets'[t] = tickets[t])
    BY <1>6 DEF IInv, TypeOK, Existing
  <2>. SUFFICES ASSUME NEW t \in Existing', tickets'[t].who = p, ~Touched(t)'
                PROVE  \/ /\ t \in DOMAIN file.tickets
                          /\ t < went.number \/ (t = went.number /\ went.at = "stamp")
                       \/ /\ went.at = "create" /\ went.out # ""
                          /\ t # went.number /\ tickets'[t].subject = spec.subject
    BY <1>1, <2>2 DEF WhoseOK
  <2>4. CASE t = next_id
    BY <1>1, <1>2, <1>3, <2>1, <2>3, <2>4
  <2>5. CASE t \in Existing /\ tickets'[t] = tickets[t]
    <3>1. ~Touched(t)
      BY <2>5 DEF Touched
    <3>. QED  BY <1>4, <2>1, <2>5, <3>1
  <2>. QED  BY <2>3, <2>4, <2>5
<1>. QED  BY <1>5, <1>6 DEF create, Created

LEMMA applyWhose ==
  ASSUME IInv, NEW p \in Processes, WhoseOK(p), apply_step(p) \/ stamp(p)
  PROVE  WhoseOK(p)'
<1>. PICK me, went, file, id : me = proc[p] /\ went = proc'[p] /\ file = File(p) /\ id = proc[p].id
  OBVIOUS
<1>1. /\ me.at \in {"stamp", "apply"} /\ me.out = "" /\ command' = command
      /\ UNCHANGED tickets \/ \E row : tickets' = [tickets EXCEPT ![id] = row]
      /\ me \in Process /\ tickets \in [1 .. MaxId -> Ticket \cup {Absent}]
  BY DEF apply_step, stamp, At, IInv, TypeOK
<1>2. /\ command[p].do = "load" /\ id \in Existing /\ id = me.number /\ me.number \in DOMAIN file.tickets
      /\ me.number \in Nat
  BY <1>1 DEF IInv, PlaceOK, Process
<1>3. CASE UNCHANGED tickets /\ End(p, "partly")
  BY <1>1, <1>3, QuietWhose, EndIs DEF Same
<1>4. CASE ~(UNCHANGED tickets /\ End(p, "partly"))
  <2>1. \/ went.number = me.number /\ went.at \in {"stamp", "apply"}
        \/ went.number = me.number + 1
    <3>1. CASE apply_step(p)
      <4>1. \E new, dates :
              proc' = [proc EXCEPT ![p].at = "stamp", ![p].ticket = new, ![p].before = dates]
        BY <1>4, <3>1 DEF apply_step
      <4>. PICK new, dates :
             proc' = [proc EXCEPT ![p].at = "stamp", ![p].ticket = new, ![p].before = dates]
        BY <4>1
      <4>2. me \in Process /\ went = [me EXCEPT !.at = "stamp", !.ticket = new, !.before = dates]
        BY <1>1 DEF IInv, TypeOK
      <4>3. went.number = me.number /\ went.at = "stamp"
        BY ONLY <4>2 DEF Process
      <4>. QED  BY <4>3
    <3>2. CASE stamp(p)
      <4>. DEFINE on(new, mark) == [me EXCEPT !.at = "apply", !.step = @ + 1, !.ticket = new, !.mark = mark]
                  off == [me EXCEPT !.at = IF me.number < Len(File(p).tickets) THEN "create" ELSE "verify",
                                    !.number = @ + 1, !.step = 0, !.ticket = None, !.mark = 0,
                                    !.before = <<NoDate, NoDate>>]
      <4>1. (\E new, mark : went = on(new, mark)) \/ went = off
        BY <3>2 DEF stamp, IInv, TypeOK
      <4>2. ASSUME NEW new, NEW mark, went = on(new, mark)
            PROVE  went.number = me.number /\ went.at = "apply"
        <5>1. me \in Process /\ went = on(new, mark)
          BY <1>1, <4>2
        <5>. QED  BY ONLY <5>1 DEF Process
      <4>3. ASSUME went = off
            PROVE  went.number = me.number + 1
        <5>. PICK place : place = IF me.number < Len(File(p).tickets) THEN "create" ELSE "verify"
          OBVIOUS
        <5>. PICK dates : dates = <<NoDate, NoDate>>
          OBVIOUS
        <5>1. me \in Process /\ went = [me EXCEPT !.at = place, !.number = @ + 1, !.step = 0,
                                                  !.ticket = None, !.mark = 0, !.before = dates]
          BY <1>1, <4>3
        <5>. QED  BY ONLY <5>1 DEF Process
      <4>. HIDE DEF on, off
      <4>. QED  BY <4>1, <4>2, <4>3
    <3>. QED  BY <3>1, <3>2
  <2>2. File(p)' = file
    BY <1>1 DEF File
  <2>3. \A t \in Existing' : t = id \/ (t \in Existing /\ tickets'[t] = tickets[t])
    BY <1>1 DEF Existing
  <2>. SUFFICES ASSUME NEW t \in Existing', tickets'[t].who = p, ~Touched(t)'
                PROVE  /\ t \in DOMAIN file.tickets
                       /\ t < went.number \/ (t = went.number /\ went.at \in {"stamp", "apply"})
    BY <1>1, <1>2, <2>2 DEF WhoseOK
  <2>4. CASE t = id
    BY <1>2, <2>1, <2>4
  <2>5. CASE t \in Existing /\ tickets'[t] = tickets[t]
    <3>1. ~Touched(t)
      BY <2>5 DEF Touched
    <3>2. t \in DOMAIN file.tickets /\ (t < me.number \/ t = me.number)
      BY <1>1, <2>5, <3>1 DEF WhoseOK
    <3>3. t \in Nat
      BY <2>5, BoundsOK DEF Existing
    <3>. QED  BY <1>2, <2>1, <3>2, <3>3
  <2>. QED  BY <2>3, <2>4, <2>5
<1>. QED  BY <1>3, <1>4

LEMMA NextWhose == WhoseInv /\ [Next]_vars => WhoseInv'
<1>. SUFFICES ASSUME WhoseInv, [Next]_vars
              PROVE  WhoseInv'
  OBVIOUS
<1>1. SaidInv /\ SaidInv' /\ IInv /\ AppShows'
  BY NextSaid, AppShowsOn DEF WhoseInv, SaidInv
<1>2. RowsStay /\ TicketsStay
  BY <1>1, StepsOnly
<1>. SUFFICES ASSUME NEW q \in Processes
              PROVE  WhoseOK(q)'
  BY <1>1 DEF WhoseInv
<1>3. WhoseOK(q)
  BY DEF WhoseInv
<1>4. CASE UNCHANGED vars
  <2>1. proc'[q] = proc[q] /\ NotBy(q) /\ Kept(q)
    BY <1>4 DEF vars, NotBy, Kept, Existing
  <2>. QED  BY <1>1, <1>3, <2>1, OthersWhose
<1>5. CASE app_makes \/ app_creates \/ app_touches
  <2>1. proc'[q] = proc[q] /\ NotBy(q) /\ Kept(q)
    BY <1>1, <1>2, <1>5, AppLeavesItsName, NewIsTheApps, NotByOthers, AppIsNoProcess
  <2>. QED  BY <1>1, <1>3, <2>1, OthersWhose
<1>6. ASSUME NEW p \in Processes,
             \/ start(p) \/ seed(p) \/ guard(p) \/ write(p) \/ create(p) \/ apply_step(p)
             \/ stamp(p) \/ verify(p) \/ fail(p)
      PROVE  WhoseOK(q)'
  <2>1. CASE q # p
    <3>1. proc'[q] = proc[q] /\ Kept(q)
      BY <1>1, <1>6, <2>1, StepIsItsOwn
    <3>2. NotBy(q)
      BY <1>1, <1>2, <1>6, <2>1, NewIsOwn, NotByOthers
    <3>. QED  BY <1>1, <1>3, <3>1, <3>2, OthersWhose
  <2>2. CASE q = p
    BY <1>1, <1>3, <1>6, <2>2, QuietStepsWhose, createWhose, applyWhose
  <2>. QED  BY <2>1, <2>2
<1>. QED  BY <1>4, <1>5, <1>6 DEF Next

LEMMA InitWhose == Init => WhoseInv
<1>. SUFFICES ASSUME Init
              PROVE  WhoseInv
  OBVIOUS
<1>1. \A t \in 1 .. MaxId : tickets[t] = Absent
  BY DEF Init
<1>. QED  BY <1>1, InitSaid DEF WhoseInv, AppShows, WhoseOK, Existing

\* When all that is left are status steps, the last of them is the status that
\* verify looks for.
LEMMA SettledStatus ==
  ASSUME NEW spec, SpecOK(spec), NEW n \in 0 .. Len(spec.steps), n # Len(spec.steps),
         \A k \in n + 1 .. Len(spec.steps) : spec.steps[k].type = "status"
  PROVE  StatusAfter(spec, Len(spec.steps)) = final_status(spec)
<1>. PICK last, steps : last = Len(spec.steps) /\ steps = spec.steps
  OBVIOUS
<1>1. last \in Nat \ {0} /\ DOMAIN steps = 1 .. last /\ steps[last].type = "status"
  BY DEF SpecOK
<1>. PICK moves : moves = {k \in DOMAIN steps : steps[k].type = "status"}
  OBVIOUS
<1>2. moves \in SUBSET Nat /\ moves # {} /\ last \in moves /\ \A k \in moves : k <= last
  BY <1>1
<1>3. Max(moves) = last
  <2>1. Max(moves) \in moves /\ \A k \in moves : k <= Max(moves)
    BY <1>1, <1>2, MaxIsLargest
  <2>. QED  BY <1>2, <2>1
<1>4. final_status(spec) = steps[last].status
  BY <1>2, <1>3 DEF final_status
<1>5. LastMove(spec, last) = last
  <2>1. /\ LastMove(spec, last) \in 0 .. last
        /\ \A k \in 1 .. last : spec.steps[k].type = "status" => k <= LastMove(spec, last)
    BY <1>1, LastMoveIs
  <2>2. last <= LastMove(spec, last)
    BY <1>1, <2>1
  <2>. QED  BY <1>1, <2>1, <2>2
<1>6. last + 1 .. last = {}
  BY <1>1
<1>. QED  BY <1>1, <1>4, <1>5, <1>6, StatusIs

LEMMA BackInTime ==
  ASSUME NEW spec, NEW n \in 0 .. Len(spec.steps)
  PROVE  But(spec, n, Times(spec)[n]) = Times(spec)
<1>. PICK times : times = Times(spec)
  OBVIOUS
<1>1. times = [k \in 0 .. Len(spec.steps) |-> times[k]]
  BY DEF Times
<1>2. [times EXCEPT ![n] = times[n]] = times
  BY ONLY <1>1, n \in 0 .. Len(spec.steps)
<1>. QED  BY <1>2 DEF But

\* When the counts come out, no message of the file is missing.
LEMMA CountsTell ==
  ASSUME NEW file, NEW N \in Nat, DOMAIN file.tickets = 1 .. N, NEW ns,
         \A t \in 1 .. N : ToldTo(t, file.tickets[t], ns[t]), counts_agree(file)
  PROVE  \A t \in 1 .. N : \A k \in ns[t] + 1 .. Len(file.tickets[t].steps) :
           file.tickets[t].steps[k].type = "status"
<1>. PICK specs : specs = file.tickets
  OBVIOUS
<1>. PICK all : all = [t \in 1 .. N |-> Len(specs[t].steps)]
  OBVIOUS
<1>1. ASSUME NEW t \in 1 .. N
      PROVE  /\ all[t] \in Nat /\ all[t] = Len(specs[t].steps) /\ DOMAIN specs[t].steps = 1 .. all[t]
             /\ ns[t] \in Nat /\ ns[t] <= all[t]
             /\ \A k \in 1 .. all[t] : specs[t].steps[k] \in Step
  <2>. PICK spec, n, m : spec = specs[t] /\ n = Len(spec.steps) /\ m = ns[t]
    OBVIOUS
  <2>1. /\ n \in Nat /\ DOMAIN spec.steps = 1 .. n /\ all[t] = n /\ m \in 0 .. n
        /\ \A k \in 1 .. n : spec.steps[k] \in Step
    BY DEF ToldTo, SpecOK
  <2>. QED  BY <2>1
<1>2. ASSUME NEW kind \in DOMAIN TypeNamed, NEW t \in 1 .. N, NEW k \in 1 .. all[t],
             specs[t].steps[k].type = kind
      PROVE  k <= ns[t]
  <2>. PICK A, B : A = StepsNamed(N, specs, ns, kind) /\ B = StepsNamed(N, specs, all, kind)
    OBVIOUS
  <2>1. \A u \in 1 .. N : \A j : j \in A[u] <=> j \in 1 .. ns[u] /\ specs[u].steps[j].type = kind
    BY DEF StepsNamed
  <2>2. \A u \in 1 .. N : \A j : j \in B[u] <=> j \in 1 .. all[u] /\ specs[u].steps[j].type = kind
    BY DEF StepsNamed
  <2>. PICK S, T : S = Pairs(N, A) /\ T = Pairs(N, B)
    OBVIOUS
  <2>3. Cardinality(S) = Cardinality(T)
    <3>1. N \in Nat /\ DOMAIN file.tickets = 1 .. N /\ \A u \in 1 .. N : ToldTo(u, file.tickets[u], ns[u])
      OBVIOUS
    <3>2. \A x \in DOMAIN TypeNamed :
            CountOf(file, TypeNamed[x]) = Cardinality(Pairs(N, StepsNamed(N, file.tickets, ns, x)))
      BY ONLY <3>1, CountsAre
    <3>3. N \in Nat /\ DOMAIN file.tickets = 1 .. N /\ \A u \in 1 .. N : DOMAIN file.tickets[u].steps = 1 .. all[u]
      BY <1>1
    <3>4. steps_of(file, kind) = Cardinality(Pairs(N, StepsNamed(N, file.tickets, all, kind)))
      BY ONLY <3>3, StepsOfIs
    <3>. QED  BY <3>2, <3>4 DEF counts_agree
  <2>4. \A x : x \in S <=> \E u \in 1 .. N : \E j \in A[u] : x = <<u, j>>
    BY PairsAre
  <2>5. \A x : x \in T <=> \E u \in 1 .. N : \E j \in B[u] : x = <<u, j>>
    <3>1. T = Pairs(N, B)
      OBVIOUS
    <3>. QED  BY ONLY <3>1, PairsAre
  <2>6. \A u \in 1 .. N : \A j \in A[u] : j \in B[u]
    <3>1. \A u \in 1 .. N : ns[u] \in Nat /\ all[u] \in Nat /\ ns[u] <= all[u]
      BY <1>1
    <3>. QED  BY ONLY <3>1, <2>1, <2>2
  <2>7. S \in SUBSET T
    BY ONLY <2>4, <2>5, <2>6
  <2>8. IsFiniteSet(T)
    <3>1. ASSUME NEW u \in 1 .. N
          PROVE  IsFiniteSet(B[u])
      <4>. PICK n, R : n = all[u] /\ R = B[u]
        OBVIOUS
      <4>1. n \in Nat /\ R \in SUBSET (1 .. n)
        BY <1>1, <2>2
      <4>2. IsFiniteSet(1 .. n)
        BY ONLY <4>1, FS_Interval
      <4>3. IsFiniteSet(R)
        BY ONLY <4>1, <4>2, FS_Subset
      <4>. QED  BY <4>3
    <3>2. N \in Nat /\ \A u \in 1 .. N : IsFiniteSet(B[u])
      BY <3>1
    <3>. QED  BY ONLY <3>2, T = Pairs(N, B), PairsAreFinite
  <2>9. S = T
    BY ONLY <2>3, <2>7, <2>8, FS_Subset
  <2>10. <<t, k>> \in T
    BY <1>2, <2>2, <2>5
  <2>11. k \in A[t]
    <3>1. PICK u \in 1 .. N : \E j \in A[u] : <<t, k>> = <<u, j>>
      BY <2>4, <2>9, <2>10
    <3>. QED  BY <3>1
  <2>. QED  BY <1>1, <2>1, <2>11
<1>3. ASSUME NEW t \in 1 .. N, NEW k \in ns[t] + 1 .. all[t]
      PROVE  specs[t].steps[k].type = "status"
  <2>1. k \in 1 .. all[t] /\ ~(k <= ns[t])
    BY <1>1, <1>3
  <2>2. specs[t].steps[k].type \in {"status", "correspond", "comment", "custom_field"}
    BY <1>1, <2>1 DEF Step
  <2>. QED  BY <1>2, <2>1, <2>2, TypesNamed
<1>. QED  BY <1>1, <1>3

\* The ticket after n steps of the file's; it is not left at that unless whoever
\* wrote it is not through with it.
Stands(t, spec, n) ==
  /\ n \in 0 .. Len(spec.steps)
  /\ \E at \in {Clock, Times(spec)[n]} : Follows(tickets[t], spec, n, But(spec, n, at))
  /\ (AsSaid(tickets[t], spec) /\ n = Len(spec.steps)) \/ Unfinished(t)

\* A ticket behind its load.
LEMMA DoneStands ==
  ASSUME NEW t, NEW spec, SpecOK(spec), AsSaid(tickets[t], spec)
  PROVE  Stands(t, spec, Len(spec.steps))
<1>. PICK n : n = Len(spec.steps)
  OBVIOUS
<1>1. n \in 0 .. Len(spec.steps)
  BY DEF SpecOK
<1>2. But(spec, n, Times(spec)[n]) = Times(spec)
  BY ONLY <1>1, BackInTime
<1>3. Follows(tickets[t], spec, n, Times(spec))
  BY DEF AsSaid
<1>. QED  BY <1>1, <1>2, <1>3 DEF Stands

\* The ticket a load has open.
LEMMA OpenStands ==
  ASSUME SaidInv, NEW q \in Processes, proc[q].at \in {"stamp", "apply"}, ~Touched(proc[q].id),
         tickets[proc[q].id].who = q, SpecOK(SpecOf(q))
  PROVE  \E n : Stands(proc[q].id, SpecOf(q), n)
<1>. PICK me, spec, t : me = proc[q] /\ spec = SpecOf(q) /\ t = proc[q].id
  OBVIOUS
<1>1. OpenIsSaid(q) /\ me \in Process /\ me.step \in 0 .. Len(spec.steps) /\ Unfinished(t)
  <2>1. OpenIsSaid(q) /\ me \in Process
    BY DEF SaidInv, IInv, TypeOK
  <2>2. me.step \in 0 .. Len(spec.steps)
    BY DEF SaidInv, IInv, PlaceOK, SpecOf
  <2>. QED  BY <2>1, <2>2 DEF Unfinished
<1>2. CASE me.at = "stamp"
  <2>. PICK n : n = me.step
    OBVIOUS
  <2>1. n \in 0 .. Len(spec.steps) /\ Follows(tickets[t], spec, n, But(spec, n, Clock))
    BY <1>1, <1>2 DEF OpenIsSaid, But
  <2>. QED  BY <1>1, <2>1 DEF Stands
<1>3. CASE me.at = "apply"
  <2>. PICK n : n = me.step - 1
    OBVIOUS
  <2>1. n \in 0 .. Len(spec.steps)
    <3>1. me.step # 0
      BY <1>3 DEF SaidInv, IInv, PlaceOK
    <3>2. Len(spec.steps) \in Nat
      BY DEF SpecOK
    <3>. QED  BY ONLY <1>1, <3>1, <3>2, n = me.step - 1
  <2>2. Follows(tickets[t], spec, n, Times(spec))
    BY <1>1, <1>3 DEF OpenIsSaid
  <2>3. But(spec, n, Times(spec)[n]) = Times(spec)
    BY ONLY <2>1, BackInTime
  <2>. QED  BY <1>1, <2>1, <2>2, <2>3 DEF Stands
<1>. QED  BY <1>2, <1>3

\* A ticket that a check looks for and that nobody has touched.
LEMMA CheckedStands ==
  ASSUME WhoseInv, SubjectsTell, NEW p \in Processes, command[p].do = "check", parse(File(p)),
         NEW t \in DOMAIN File(p).tickets, t \in Existing, ~Touched(t),
         tickets[t].subject = File(p).tickets[t].subject
  PROVE  \E n : Stands(t, File(p).tickets[t], n)
<1>. PICK spec, q : spec = File(p).tickets[t] /\ q = tickets[t].who
  OBVIOUS
<1>1. SaidInv /\ IInv /\ TypeOK /\ command \in Commands
  BY DEF WhoseInv, SaidInv, IInv, TypeOK
<1>2. q \in Processes
  <2>1. tickets[t] \in Ticket
    BY <1>1 DEF TypeOK, Existing
  <2>2. q \in Writers
    BY <2>1 DEF Ticket
  <2>. QED  BY <2>2 DEF WhoseInv, AppShows, Writers
<1>. PICK me, said : me = proc[q] /\ said = File(q).tickets
  OBVIOUS
<1>3. /\ command[q].do = "load"
      /\ \/ t \in DOMAIN said /\ (t < me.number \/ (t = me.number /\ me.at \in {"stamp", "apply"}))
         \/ /\ me.at = "create" /\ me.out # ""
            /\ t # me.number /\ tickets[t].subject = SpecOf(q).subject
  BY <1>2 DEF WhoseInv, WhoseOK
<1>4. \A u \in DOMAIN said : spec.subject = said[u].subject => t = u /\ spec = said[u]
  BY <1>1, <1>2, <1>3 DEF SubjectsTell, File
<1>5. me.at \in {"stamp", "apply", "create"} => me.number \in DOMAIN said /\ SpecOf(q) = said[me.number]
  BY <1>1, <1>2 DEF IInv, PlaceOK, SpecOf
<1>6. SpecOK(spec)
  BY <1>1, SpecsAreOK
<1>7. CASE t \in DOMAIN said /\ t < me.number
  <2>1. AsSaid(tickets[t], said[t])
    BY <1>1, <1>2, <1>7 DEF SaidInv, DoneIsSaid
  <2>2. tickets[t].subject = said[t].subject
    BY <2>1 DEF AsSaid, Follows
  <2>3. AsSaid(tickets[t], spec)
    BY <1>4, <1>7, <2>1, <2>2
  <2>4. Stands(t, spec, Len(spec.steps))
    BY ONLY <1>6, <2>3, DoneStands
  <2>. QED  BY <2>4
<1>8. CASE t = me.number /\ me.at \in {"stamp", "apply"}
  <2>1. t = me.id /\ tickets[me.id].who = q
    BY <1>1, <1>2, <1>8 DEF IInv, PlaceOK
  <2>2. tickets[t].subject = SpecOf(q).subject
    BY <1>1, <1>2, <1>8, <2>1 DEF SaidInv, OpenIsSaid, Follows
  <2>3. SpecOf(q) = spec
    BY <1>4, <1>5, <1>8, <2>2
  <2>. QED  BY <1>1, <1>2, <1>6, <1>8, <2>1, <2>3, OpenStands
<1>9. CASE me.at = "create" /\ t # me.number /\ tickets[t].subject = SpecOf(q).subject
  BY <1>4, <1>5, <1>9
<1>. QED  BY <1>3, <1>7, <1>8, <1>9

LEMMA StandsTold ==
  ASSUME TypeOK, NEW t \in Existing, NEW spec, SpecOK(spec), NEW n, Stands(t, spec, n)
  PROVE  ToldTo(t, spec, n)
<1>1. DOMAIN tickets[t].log = 1 .. Len(tickets[t].log)
  <2>1. tickets[t] \in Ticket
    BY DEF TypeOK, Existing
  <2>2. tickets[t].log \in Seq(Row)
    BY <2>1 DEF Ticket
  <2>. PICK log : log = tickets[t].log
    OBVIOUS
  <2>. QED  BY <2>2
<1>2. \E when : History(tickets[t].log, spec, n, when)
  BY DEF Stands, Follows
<1>. QED  BY <1>1, <1>2 DEF ToldTo, Stands

\* Verify's counts and its statuses leave only status steps undone.
LEMMA StandsAlmost ==
  ASSUME NEW t, NEW spec, SpecOK(spec), NEW n, Stands(t, spec, n),
         \A k \in n + 1 .. Len(spec.steps) : spec.steps[k].type = "status",
         tickets[t].status = final_status(spec)
  PROVE  AsSaid(tickets[t], spec) \/ (Unfinished(t) /\ AlmostAsSaid(tickets[t], spec))
<1>. SUFFICES ASSUME ~AsSaid(tickets[t], spec)
              PROVE  Unfinished(t) /\ AlmostAsSaid(tickets[t], spec)
  OBVIOUS
<1>1. n \in 0 .. Len(spec.steps) /\ Unfinished(t)
  BY DEF Stands
<1>2. \E at \in {Clock, Times(spec)[n]} : Follows(tickets[t], spec, n, [Times(spec) EXCEPT ![n] = at])
  BY DEF Stands, But
<1>3. StatusAfter(spec, n) = StatusAfter(spec, Len(spec.steps))
  <2>1. CASE n = Len(spec.steps)
    BY <2>1
  <2>2. CASE n # Len(spec.steps)
    <3>1. StatusAfter(spec, Len(spec.steps)) = final_status(spec)
      BY <1>1, <2>2, SettledStatus
    <3>2. tickets[t].status = StatusAfter(spec, n)
      BY <1>2 DEF Follows
    <3>. QED  BY <3>1, <3>2
  <2>. QED  BY <2>1, <2>2
<1>. QED  BY <1>1, <1>2, <1>3 DEF AlmostAsSaid

LEMMA CheckIsTheFile ==
  ASSUME WhoseInv, SubjectsTell, NEW p \in Processes, command[p].do = "check", parse(File(p)),
         verified(File(p)), \A t \in DOMAIN File(p).tickets : ~Touched(t)
  PROVE  \A t \in DOMAIN File(p).tickets :
           \/ AsSaid(tickets[t], File(p).tickets[t])
           \/ Unfinished(t) /\ AlmostAsSaid(tickets[t], File(p).tickets[t])
<1>. PICK file, specs : file = File(p) /\ specs = file.tickets
  OBVIOUS
<1>. PICK N : N = Len(specs)
  OBVIOUS
<1>1. TypeOK /\ N \in Nat /\ DOMAIN specs = 1 .. N
  BY FilesHaveShape DEF WhoseInv, SaidInv, IInv, TypeOK
<1>. PICK ns : ns = [t \in 1 .. N |-> CHOOSE n : Stands(t, specs[t], n)]
  OBVIOUS
<1>2. ASSUME NEW t \in 1 .. N
      PROVE  t \in Existing /\ tickets[t].subject = specs[t].subject /\ tickets[t].status = final_status(specs[t])
  BY <1>1 DEF verified
<1>3. ASSUME NEW t \in 1 .. N
      PROVE  SpecOK(specs[t]) /\ Stands(t, specs[t], ns[t])
  <2>1. SpecOK(specs[t])
    BY <1>1, SpecsAreOK
  <2>2. t \in DOMAIN File(p).tickets /\ t \in Existing /\ ~Touched(t) /\ tickets[t].subject = File(p).tickets[t].subject
    BY <1>1, <1>2
  <2>3. \E n : Stands(t, specs[t], n)
    BY <2>2, CheckedStands
  <2>4. ns[t] = CHOOSE n : Stands(t, specs[t], n)
    OBVIOUS
  <2>. QED  BY <2>1, <2>3, <2>4
<1>4. \A t \in 1 .. N : ToldTo(t, file.tickets[t], ns[t])
  BY <1>1, <1>2, <1>3, StandsTold
<1>5. counts_agree(file)
  BY DEF verified
<1>6. \A t \in 1 .. N : \A k \in ns[t] + 1 .. Len(file.tickets[t].steps) : file.tickets[t].steps[k].type = "status"
  <2>1. N \in Nat /\ DOMAIN file.tickets = 1 .. N
    BY <1>1
  <2>. QED  BY ONLY <1>4, <1>5, <2>1, CountsTell
<1>. SUFFICES ASSUME NEW t \in 1 .. N
              PROVE  AsSaid(tickets[t], specs[t]) \/ (Unfinished(t) /\ AlmostAsSaid(tickets[t], specs[t]))
  BY <1>1
<1>. QED  BY <1>2, <1>3, <1>6, StandsAlmost

\* A line is printed by a verify that finds everything.
LEMMA LineIsFound ==
  ASSUME IInv, [Next]_vars, NEW p \in Processes, At(p, "verify"), proc'[p].out = "line"
  PROVE  verified(File(p)) /\ parse(File(p))
<1>1. parse(File(p)) /\ proc[p].at = "verify" /\ proc[p].out = ""
  BY PastTheStart DEF At
<1>2. proc'[p] # proc[p]
  BY <1>1
<1>3. \A q \in Processes \ {p} :
        ~(\/ start(q) \/ seed(q) \/ guard(q) \/ write(q) \/ create(q) \/ apply_step(q)
          \/ stamp(q) \/ verify(q) \/ fail(q))
  BY <1>2, StepIsItsOwn
<1>4. ~(app_makes \/ app_creates \/ app_touches \/ UNCHANGED vars)
  BY <1>2 DEF app_makes, app_creates, app_touches, App, vars
<1>5. ~(start(p) \/ seed(p) \/ guard(p) \/ write(p) \/ create(p) \/ apply_step(p) \/ stamp(p))
  BY <1>1 DEF start, seed, guard, write, create, apply_step, stamp, At
<1>6. ~fail(p)
  <2>1. fail(p) => End(p, "failed")
    BY DEF fail
  <2>2. fail(p) => proc'[p].out = "failed"
    BY <2>1, EndIs
  <2>. QED  BY <2>2
<1>7. verify(p)
  BY <1>3, <1>4, <1>5, <1>6 DEF Next
<1>8. verified(File(p))
  <2>1. End(p, IF verified(File(p)) THEN "line" ELSE "absent")
    BY <1>7 DEF verify
  <2>. PICK out : out = IF verified(File(p)) THEN "line" ELSE "absent"
    OBVIOUS
  <2>2. proc'[p].out = out
    BY <2>1, EndIs
  <2>. QED  BY <2>2
<1>. QED  BY <1>1, <1>8

LEMMA LoadIsTheFile ==
  ASSUME SaidInv, NEW p \in Processes, command[p].do = "load", proc[p].at = "verify",
         \A t \in DOMAIN File(p).tickets : ~Touched(t)
  PROVE  \A t \in DOMAIN File(p).tickets : AsSaid(tickets[t], File(p).tickets[t])
<1>1. /\ proc[p].number > Len(File(p).tickets) /\ proc[p].number \in Nat /\ DoneIsSaid(p)
      /\ Len(File(p).tickets) \in Nat /\ DOMAIN File(p).tickets = 1 .. Len(File(p).tickets)
  BY FilesHaveShape DEF SaidInv, IInv, TypeOK, PlaceOK, Process
<1>2. \A t \in DOMAIN File(p).tickets : t < proc[p].number
  BY <1>1
<1>. QED  BY <1>1, <1>2 DEF DoneIsSaid

\* Whose each ticket is, at every step (why the line of a check, which has
\* written nothing, stands for what some load wrote: fixture.py:953).
THEOREM WhoseTickets == Spec => []WhoseInv
<1>1. Init => WhoseInv
  BY InitWhose
<1>2. WhoseInv /\ [Next]_vars => WhoseInv'
  BY NextWhose
<1>. QED  BY <1>1, <1>2, PTL DEF Spec

\* The line means what README.md:174 says, a load's and a check's alike
\* (fixture.py:953, 991), where a check's subjects tell its tickets from every
\* load's: that verify could not see a ticket of another file under the same
\* subject is the one thing the line does not rule out.
THEOREM LinesAreTheFile == SubjectsTell => (Spec => LineIsTheFile)
<1>. SUFFICES ASSUME SubjectsTell
              PROVE  Spec => LineIsTheFile
  OBVIOUS
<1>1. Spec => []WhoseInv
  BY WhoseTickets
<1>2. WhoseInv /\ [Next]_vars =>
        [\A p \in Processes :
           LET said == File(p).tickets
           IN  At(p, "verify") /\ proc'[p].out = "line" /\ (\A t \in DOMAIN said : ~Touched(t)) =>
                 \A t \in DOMAIN said :
                   \/ AsSaid(tickets[t], said[t])
                   \/ /\ command[p].do = "check" /\ Unfinished(t)
                      /\ AlmostAsSaid(tickets[t], said[t])]_vars
  <2>. SUFFICES ASSUME WhoseInv, [Next]_vars, NEW p \in Processes, At(p, "verify"), proc'[p].out = "line",
                       \A t \in DOMAIN File(p).tickets : ~Touched(t)
                PROVE  \A t \in DOMAIN File(p).tickets :
                         \/ AsSaid(tickets[t], File(p).tickets[t])
                         \/ /\ command[p].do = "check" /\ Unfinished(t)
                            /\ AlmostAsSaid(tickets[t], File(p).tickets[t])
    OBVIOUS
  <2>1. SaidInv /\ IInv
    BY DEF WhoseInv, SaidInv
  <2>2. verified(File(p)) /\ parse(File(p)) /\ proc[p].at = "verify" /\ command[p].do \in {"load", "check"}
    <3>1. verified(File(p)) /\ parse(File(p))
      BY <2>1, LineIsFound
    <3>2. proc[p].at = "verify"
      BY DEF At
    <3>3. command[p].do # "seed"
      BY <2>1, <3>2, PastTheStart
    <3>4. command \in [Processes -> Command]
      BY <2>1, CommandsOK DEF IInv, TypeOK
    <3>5. command[p].do \in {"seed", "load", "check"}
      BY <3>4 DEF Command
    <3>. QED  BY ONLY <3>1, <3>2, <3>3, <3>5
  <2>3. CASE command[p].do = "load"
    BY <2>1, <2>2, <2>3, LoadIsTheFile
  <2>4. CASE command[p].do = "check"
    BY <2>2, <2>4, CheckIsTheFile
  <2>. QED  BY <2>2, <2>3, <2>4
<1>. QED  BY <1>1, <1>2, PTL DEF Spec, LineIsTheFile
==============================================================================
