-------------------------- MODULE CustomFieldsProofs --------------------------
(***************************************************************************)
(* Theorems about CustomFields, and about the lists of Search over its     *)
(* tables.  A ticket's values and its history move together because every  *)
(* change carries the value it was decided on, and the keys of the table   *)
(* refuse it when that value is gone.                                      *)
(***************************************************************************)
EXTENDS CustomFields, FiniteSetTheorems, WellFoundedInduction, TLAPS

----------------------------------------------------------------------------
(* What is in hand *)

\* A job is one of four records, told apart by what it does.
LEMMA JobForms ==
  ASSUME NEW j \in Job
  PROVE  /\ j.do \in {"pairs", "ticket", "create", "field"}
         /\ j.do = "pairs" =>
              /\ j.add \in SUBSET Pair /\ j.remove \in SUBSET Pair /\ j.posted \in SUBSET Pair
              /\ j.fresh \in BOOLEAN
         /\ j.do = "ticket" =>
              /\ j.ticket \in Tickets /\ j.changes \in SUBSET Change /\ j.queue \in Queues
              /\ j.moves \in BOOLEAN /\ j.fresh \in BOOLEAN
         /\ j.do = "create" =>
              /\ j.ticket \in Tickets /\ j.changes \in SUBSET Change /\ j.row \in TicketRow
         /\ j.do = "field" =>
              /\ j.id \in Fields /\ j.was \in FieldRow \cup {Absent} /\ j.row \in FieldRow
  BY DEF Job

\* So is a page.
LEMMA PageForms ==
  ASSUME NEW pg \in Page
  PROVE  /\ pg.side \in {"field", "queue", "ticket"}
         /\ pg.side = "field" => pg.id \in Fields
         /\ pg.side = "queue" => pg.id \in Queues
         /\ pg.side # "ticket" => pg.offered \in SUBSET Pair /\ pg.ticked \in SUBSET Pair
         /\ pg.side = "ticket" =>
              /\ pg.id \in Tickets /\ pg.user \in Users /\ pg.queue \in Queues
              /\ pg.inputs \in Partial(Fields, Values \cup {NoValue})
  BY DEF Page

\* A function in Partial has a domain among S and values in T.
LEMMA PartialIs ==
  ASSUME NEW S, NEW T, NEW g
  PROVE  g \in Partial(S, T) <=> DOMAIN g \in SUBSET S /\ g \in [DOMAIN g -> T]
  BY DEF Partial

\* What is in hand stays good as long as its slot is not touched, no field and
\* no ticket goes away, and the id of a ticket to be stays free.
LEMMA JobsStand ==
  ASSUME IInv,
         \A x \in Slots : job'[x] # None => job'[x] = job[x] /\ page'[x] = page[x],
         \A f \in Fields : fields[f] # Absent => fields'[f] # Absent,
         \A t \in Tickets : tickets[t] # Absent => tickets'[t] # Absent,
         \A x \in Slots : job'[x] # None /\ job'[x].do = "create" =>
            (tickets[job'[x].ticket] = Absent => tickets'[job'[x].ticket] = Absent)
  PROVE  \A s \in Slots : job'[s] # None => InHand(s)'
<1>. TAKE s \in Slots
<1>. HAVE job'[s] # None
<1>1. job'[s] = job[s] /\ page'[s] = page[s] /\ job[s] # None /\ job[s] \in Job /\ InHand(s)
  BY DEF IInv, TypeOK
<1>2. \A c \in Change : c.field \in Fields
  BY DEF Change
<1>3. \A p \in Pair : p[2] \in Fields
  BY DEF Pair
<1>4. CASE job[s].do = "pairs"
  <2>1. PairsInHand(job[s], page[s]) /\ job[s].add \in SUBSET Pair
    BY <1>1, <1>4, JobForms DEF InHand
  <2>2. PairsInHand(job[s], page[s])'
    BY <1>1, <1>3, <2>1 DEF PairsInHand
  <2>. QED BY <1>1, <1>4, <2>2 DEF InHand
<1>5. CASE job[s].do = "ticket"
  <2>1. BasicsInHand(job[s], page[s]) /\ job[s].changes \in SUBSET Change
    BY <1>1, <1>5, JobForms DEF InHand
  <2>2. BasicsInHand(job[s], page[s])'
    BY <1>1, <1>2, <2>1 DEF BasicsInHand, Existing
  <2>. QED BY <1>1, <1>5, <2>2 DEF InHand
<1>6. CASE job[s].do = "create"
  <2>1. CreateInHand(s) /\ job[s].changes \in SUBSET Change
    BY <1>1, <1>6, JobForms DEF InHand
  <2>2. CreateInHand(s)'
    BY <1>1, <1>2, <1>6, <2>1 DEF CreateInHand
  <2>. QED BY <1>1, <1>6, <2>2 DEF InHand
<1>7. CASE job[s].do = "field"
  <2>1. job[s].id \in Fields
    BY <1>1, <1>7, JobForms
  <2>. QED BY <1>1, <1>7, <2>1 DEF InHand
<1>. QED BY <1>1, <1>4, <1>5, <1>6, <1>7, JobForms

\* A request that begins leaves the tables and the pages alone.
LEMMA BeginKeeps ==
  ASSUME IInv, NEW s \in Slots, NEW write \in Job, job[s] = None, Begin(s, write), InHand(s)'
  PROVE  IInv'
<1>1. /\ job' = [job EXCEPT ![s] = write] /\ begun' = begun + 1
      /\ UNCHANGED <<rights, tickets, disabled, fields, carried, values, log, page>>
  BY DEF Begin, tables
<1>2. job \in [Slots -> Job \cup {None}] /\ begun \in Nat
  BY DEF IInv, TypeOK
<1>3. TypeOK'
  BY <1>1, <1>2 DEF IInv, TypeOK
<1>4. HistoryAgrees' /\ FieldsStand'
  BY <1>1 DEF IInv, HistoryAgrees, FieldsStand, Existing
<1>5. ASSUME NEW x \in Slots \ {s}, job'[x] # None
      PROVE  InHand(x)'
  <2>1. job'[x] = job[x] /\ job[x] \in Job /\ InHand(x) /\ job'[s] = write
    BY <1>1, <1>2, <1>5 DEF IInv
  <2>2. job[x].do = "pairs" => PairsInHand(job[x], page[x])'
    BY <1>1, <2>1 DEF InHand, PairsInHand
  <2>3. job[x].do = "ticket" => BasicsInHand(job[x], page[x])'
    BY <1>1, <2>1 DEF InHand, BasicsInHand, Existing
  <2>4. job[x].do = "create" => CreateInHand(x)'
    <3>1. SUFFICES ASSUME job[x].do = "create" PROVE CreateInHand(x)'
      OBVIOUS
    <3>2. CreateInHand(x)
      BY <2>1, <3>1 DEF InHand
    <3>3. write # None /\ write.do = "create" => write.ticket # job[x].ticket
      <4>1. SUFFICES ASSUME write # None, write.do = "create" PROVE write.ticket # job[x].ticket
        OBVIOUS
      <4>2. CreateInHand(s)'
        BY <2>1, <4>1 DEF InHand
      <4>. QED BY <1>5, <2>1, <3>1, <4>2 DEF CreateInHand
    <3>4. \A y \in Slots \ {x} :
            job'[y] # None /\ job'[y].do = "create" => job'[y].ticket # job[x].ticket
      BY <1>1, <1>2, <3>2, <3>3 DEF CreateInHand
    <3>. QED BY <1>1, <2>1, <3>2, <3>4 DEF CreateInHand
  <2>. QED BY <1>1, <2>1, <2>2, <2>3, <2>4 DEF InHand
<1>. QED BY <1>3, <1>4, <1>5 DEF IInv

\* A write that ends frees its slot.
LEMMA DoneIs ==
  ASSUME TypeOK, NEW s \in Slots, Done(s)
  PROVE  /\ job' \in [Slots -> Job \cup {None}] /\ page' \in [Slots -> Page \cup {None}]
         /\ begun' \in Nat /\ job'[s] = None
         /\ \A x \in Slots : job'[x] # None => x # s /\ job'[x] = job[x] /\ page'[x] = page[x]
  BY DEF Done, TypeOK

----------------------------------------------------------------------------
(* Values and their history *)

\* A change a request decides on is about a field that is there and was sent.
LEMMA ChangesAre ==
  ASSUME TypeOK, NEW t \in Tickets, NEW q \in Queues, NEW sent \in Partial(Fields, Typed),
         NEW c \in apply_values(t, q, sent)
  PROVE  /\ c \in Change /\ fields[c.field] # Absent
         /\ c.field \in DOMAIN sent /\ c.new = Cleaned[sent[c.field]]
<1>1. PICK f \in queue_fields(q) \cap DOMAIN sent :
        c = [field |-> f, name |-> fields[f].name, old |-> values[t][f], new |-> Cleaned[sent[f]]]
  BY DEF apply_values
<1>2. f \in Fields /\ fields[f] # Absent
  BY DEF queue_fields, all_fields
<1>3. fields[f].name \in FieldNames
  BY <1>2 DEF TypeOK, FieldRow
<1>4. values[t][f] \in Values \cup {NoValue}
  BY <1>2 DEF TypeOK
<1>5. Cleaned[sent[f]] \in Values \cup {NoValue}
  BY <1>1, PartialIs, FieldConstants
<1>. QED BY <1>1, <1>2, <1>3, <1>4, <1>5 DEF Change

\* One more row of a history that agrees with its value.
LEMMA OneMoreRow ==
  ASSUME NEW rows \in Seq(Row), NEW value, NEW row \in Row,
         LET Before(i) == IF i = 1 THEN NoValue ELSE rows[i - 1].new
         IN  /\ value = Before(Len(rows) + 1)
             /\ \A i \in DOMAIN rows :
                  /\ rows[i].old = NoValue => Before(i) = NoValue
                  /\ rows[i].old # NoValue /\ rows[i].new # NoValue => Before(i) # NoValue,
         row.old = NoValue => value = NoValue,
         row.old # NoValue /\ row.new # NoValue => value # NoValue
  PROVE  LET more == rows \o <<row>>
             Before(i) == IF i = 1 THEN NoValue ELSE more[i - 1].new
         IN  /\ row.new = Before(Len(more) + 1)
             /\ \A i \in DOMAIN more :
                  /\ more[i].old = NoValue => Before(i) = NoValue
                  /\ more[i].old # NoValue /\ more[i].new # NoValue => Before(i) # NoValue
<1>. DEFINE more == rows \o <<row>>
            n == Len(rows)
            Before(i) == IF i = 1 THEN NoValue ELSE rows[i - 1].new
            After(i) == IF i = 1 THEN NoValue ELSE more[i - 1].new
<1>1. /\ n \in Nat /\ DOMAIN rows = 1 .. n /\ more \in Seq(Row) /\ Len(more) = n + 1
      /\ DOMAIN more = 1 .. n + 1 /\ more[n + 1] = row /\ \A i \in 1 .. n : more[i] = rows[i]
  OBVIOUS
<1>. HIDE DEF more, n
<1>2. \A i \in 1 .. n + 1 : After(i) = Before(i)
  BY <1>1
<1>3. value = Before(n + 1) /\ row.new = After(n + 2)
  BY <1>1 DEF n
<1>4. ASSUME NEW i \in 1 .. n + 1
      PROVE  /\ more[i].old = NoValue => After(i) = NoValue
             /\ more[i].old # NoValue /\ more[i].new # NoValue => After(i) # NoValue
  <2>1. CASE i = n + 1
    BY <1>1, <1>2, <1>3, <2>1
  <2>2. CASE i \in 1 .. n
    BY <1>1, <1>2, <2>2
  <2>. QED BY <1>1, <2>1, <2>2
<1>. QED BY <1>1, <1>3, <1>4 DEF more

\* Two changes that fit a ticket keep its values typed and its history true,
\* and change no value but as they say.
LEMMA WriteKeeps ==
  ASSUME TypeOK, HistoryAgrees, NEW t \in Tickets, NEW changes \in SUBSET Change,
         \A c \in changes : Fits(t, c), WriteValues(t, changes)
  PROVE  /\ values' \in [Tickets -> [Fields -> Values \cup {NoValue}]]
         /\ log' \in [Tickets -> [Fields -> Seq(Row)]]
         /\ HistoryAgrees'
         /\ \A x \in Tickets, f \in Fields :
              values'[x][f] # values[x][f] => x = t /\ \E c \in changes : c.field = f
         /\ \A f \in Fields :
              \/ (\A c \in changes : c.field # f) /\ values'[t][f] = values[t][f]
              \/ \E c \in changes : c.field = f /\ values'[t][f] = c.new
<1>. DEFINE Moved(f) == \E c \in changes : c.field = f
            The(f) == CHOOSE c \in changes : c.field = f
<1>1. /\ values \in [Tickets -> [Fields -> Values \cup {NoValue}]]
      /\ log \in [Tickets -> [Fields -> Seq(Row)]]
  BY DEF TypeOK
<1>2. ASSUME NEW f \in Fields, Moved(f)
      PROVE  /\ The(f) \in changes /\ The(f).field = f /\ The(f).new \in Values \cup {NoValue}
             /\ RowOf(The(f)) \in Row
             /\ RowOf(The(f)).old = The(f).old /\ RowOf(The(f)).new = The(f).new
  <2>1. The(f) \in changes /\ The(f).field = f
    BY <1>2
  <2>. HIDE DEF The
  <2>. QED BY <2>1 DEF Change, Row, RowOf
<1>3. /\ DOMAIN values' = Tickets /\ DOMAIN log' = Tickets
      /\ \A x \in Tickets \ {t} : values'[x] = values[x] /\ log'[x] = log[x]
      /\ values'[t] = [f \in Fields |-> IF Moved(f) THEN The(f).new ELSE values[t][f]]
      /\ log'[t] = [f \in Fields |->
                      log[t][f] \o (IF Moved(f) THEN <<RowOf(The(f))>> ELSE <<>>)]
      /\ values' = [x \in Tickets |-> values'[x]] /\ log' = [x \in Tickets |-> log'[x]]
  BY <1>1 DEF WriteValues
<1>. HIDE DEF Moved, The
<1>4. ASSUME NEW f \in Fields
      PROVE  /\ values'[t][f] = IF Moved(f) THEN The(f).new ELSE values[t][f]
             /\ log'[t][f] = IF Moved(f) THEN log[t][f] \o <<RowOf(The(f))>> ELSE log[t][f]
             /\ values'[t][f] \in Values \cup {NoValue} /\ log'[t][f] \in Seq(Row)
  <2>1. log[t][f] \in Seq(Row) /\ values[t][f] \in Values \cup {NoValue}
    BY <1>1
  <2>2. CASE Moved(f)
    <3>1. The(f).new \in Values \cup {NoValue} /\ RowOf(The(f)) \in Row
      BY <1>2, <2>2
    <3>2. values'[t][f] = The(f).new /\ log'[t][f] = log[t][f] \o <<RowOf(The(f))>>
      BY <1>3, <2>2
    <3>. QED BY <2>1, <2>2, <3>1, <3>2
  <2>3. CASE ~Moved(f)
    <3>1. values'[t][f] = values[t][f] /\ log'[t][f] = log[t][f] \o <<>>
      BY <1>3, <2>3
    <3>. QED BY <2>1, <2>3, <3>1
  <2>. QED BY <2>2, <2>3
<1>5. values' \in [Tickets -> [Fields -> Values \cup {NoValue}]]
  <2>1. values'[t] \in [Fields -> Values \cup {NoValue}]
    BY <1>3, <1>4
  <2>. QED BY <1>1, <1>3, <2>1
<1>6. log' \in [Tickets -> [Fields -> Seq(Row)]]
  <2>1. log'[t] \in [Fields -> Seq(Row)]
    BY <1>3, <1>4
  <2>. QED BY <1>1, <1>3, <2>1
<1>7. HistoryAgrees'
  <2>. DEFINE Agree(rows, value) ==
                LET Before(i) == IF i = 1 THEN NoValue ELSE rows[i - 1].new
                IN  /\ value = Before(Len(rows) + 1)
                    /\ \A i \in DOMAIN rows :
                         /\ rows[i].old = NoValue => Before(i) = NoValue
                         /\ rows[i].old # NoValue /\ rows[i].new # NoValue => Before(i) # NoValue
  <2>1. \A x \in Tickets, f \in Fields : Agree(log[x][f], values[x][f])
    BY DEF HistoryAgrees
  <2>2. SUFFICES ASSUME NEW x \in Tickets, NEW f \in Fields
                 PROVE  Agree(log'[x][f], values'[x][f])
    BY DEF HistoryAgrees
  <2>3. CASE x # t \/ ~Moved(f)
    <3>1. log'[x][f] = log[x][f] /\ values'[x][f] = values[x][f]
      BY <1>3, <1>4, <2>3
    <3>. QED BY <2>1, <3>1
  <2>4. CASE x = t /\ Moved(f)
    <3>1. /\ The(f) \in changes /\ The(f).field = f /\ RowOf(The(f)) \in Row
          /\ RowOf(The(f)).old = The(f).old /\ RowOf(The(f)).new = The(f).new
      BY <1>2, <2>4
    <3>2. Fits(t, The(f))
      BY <3>1
    <3>3. /\ The(f).old = NoValue => values[t][f] = NoValue
          /\ The(f).old # NoValue /\ The(f).new # NoValue => values[t][f] # NoValue
      BY <3>1, <3>2 DEF Fits
    <3>4. log[t][f] \in Seq(Row) /\ Agree(log[t][f], values[t][f])
      BY <1>1, <2>1
    <3>5. Agree(log[t][f] \o <<RowOf(The(f))>>, RowOf(The(f)).new)
      <4>. HIDE DEF Agree
      <4>1. /\ RowOf(The(f)).old = NoValue => values[t][f] = NoValue
            /\ RowOf(The(f)).old # NoValue /\ RowOf(The(f)).new # NoValue => values[t][f] # NoValue
        BY <3>1, <3>3
      <4>. QED BY <3>1, <3>4, <4>1, OneMoreRow DEF Agree
    <3>. HIDE DEF Agree
    <3>. QED BY <1>4, <2>4, <3>1, <3>5
  <2>. QED BY <2>3, <2>4
<1>8. \A x \in Tickets, f \in Fields : values'[x][f] # values[x][f] => x = t /\ Moved(f)
  BY <1>3, <1>4
<1>9. ASSUME NEW f \in Fields
      PROVE  \/ (\A c \in changes : c.field # f) /\ values'[t][f] = values[t][f]
             \/ \E c \in changes : c.field = f /\ values'[t][f] = c.new
  BY <1>2, <1>4 DEF Moved
<1>. QED BY <1>5, <1>6, <1>7, <1>8, <1>9 DEF Moved

----------------------------------------------------------------------------
(* One step at a time *)

\* The tables begin in order, and nobody has anything in hand.
LEMMA InitOK == Init => IInv
<1>. SUFFICES ASSUME Init PROVE IInv
  OBVIOUS
<1>1. TypeOK
  <2>1. log \in [Tickets -> [Fields -> Seq(Row)]]
    BY DEF Init, NoRows
  <2>. QED BY <2>1, StartOK DEF Init, TypeOK, Pair
<1>2. HistoryAgrees
  BY DEF Init, NoRows, HistoryAgrees
<1>3. FieldsStand
  BY StartOK DEF Init, FieldsStand
<1>4. \A s \in Slots : job[s] = None
  BY DEF Init
<1>. QED BY <1>1, <1>2, <1>3, <1>4 DEF IInv

\* A page of boxes offers pairs and ticks some of them.
LEMMA BoxesAre ==
  ASSUME TypeOK, NEW side \in {"field", "queue"}, NEW id,
         side = "field" => id \in Fields, side = "queue" => id \in Queues
  PROVE  LET pg == applies_to_page(side, id)
         IN  /\ pg \in Page /\ pg.side = side /\ pg.ticked \subseteq pg.offered
             /\ \A p \in pg.offered : IF side = "field" THEN p[2] = id ELSE fields[p[2]] # Absent
<1>. DEFINE pg == applies_to_page(side, id)
<1>1. CASE side = "field"
  <2>1. pg = [side |-> "field", id |-> id, offered |-> queue_boxes(id),
              ticked |-> queue_boxes(id) \cap carried]
    BY <1>1 DEF applies_to_page
  <2>2. queue_boxes(id) \subseteq Pair /\ \A p \in queue_boxes(id) : p[2] = id
    BY <1>1 DEF queue_boxes, enabled_queues, Pair
  <2>. QED BY <1>1, <2>1, <2>2 DEF Page
<1>2. CASE side = "queue"
  <2>1. pg = [side |-> "queue", id |-> id, offered |-> field_boxes(id),
              ticked |-> field_boxes(id) \cap carried]
    BY <1>2 DEF applies_to_page
  <2>2. field_boxes(id) \subseteq Pair /\ \A p \in field_boxes(id) : fields[p[2]] # Absent
    BY <1>2 DEF field_boxes, all_fields, Pair
  <2>. QED BY <1>2, <2>1, <2>2 DEF Page
<1>. QED BY <1>1, <1>2

\* A form of a ticket has inputs for values of the fields its queue carries.
LEMMA InputsAre ==
  ASSUME TypeOK, NEW u \in Users, NEW t \in Existing
  PROVE  /\ basics_form(u, t) \in Page
         /\ tickets[t].queue \in Queues
<1>1. t \in Tickets /\ tickets[t] \in TicketRow
  BY DEF TypeOK, Existing
<1>2. tickets[t].queue \in Queues
  BY <1>1 DEF TicketRow
<1>3. \A q : queue_fields(q) \subseteq Fields
  BY DEF queue_fields, all_fields
<1>4. ticket_values(t) \in Partial(Fields, Values \cup {NoValue})
  <2>. DEFINE shown == ticket_values(t)
              carries == queue_fields(tickets[t].queue)
  <2>1. \A f \in Fields : values[t][f] \in Values \cup {NoValue}
    BY <1>1 DEF TypeOK
  <2>2. carries \in SUBSET Fields /\ shown = [f \in carries |-> values[t][f]]
    BY <1>3 DEF ticket_values
  <2>. HIDE DEF shown, carries
  <2>3. DOMAIN shown = carries /\ shown \in [carries -> Values \cup {NoValue}]
    BY <2>1, <2>2
  <2>4. shown \in Partial(Fields, Values \cup {NoValue})
    BY <2>2, <2>3, PartialIs
  <2>. QED BY <2>4 DEF shown
<1>5. [f \in {} |-> NoValue] \in Partial(Fields, Values \cup {NoValue})
  BY PartialIs
<1>. QED BY <1>1, <1>2, <1>4, <1>5 DEF basics_form, Page

\* Opening a page.
LEMMA OpenKeeps == ASSUME IInv, NEW s \in Slots, open_page(s) PROVE IInv'
<1>1. /\ job[s] = None
      /\ UNCHANGED <<rights, tickets, disabled, fields, carried, values, log, job, begun>>
  BY DEF open_page, tables
<1>2. PICK pg \in Page : page' = [page EXCEPT ![s] = pg]
  <2>1. TypeOK /\ SignedIn \subseteq Users
    BY DEF IInv, SignedIn
  <2>2. ASSUME NEW f \in Fields, page' = [page EXCEPT ![s] = applies_to_page("field", f)]
        PROVE  \E pg \in Page : page' = [page EXCEPT ![s] = pg]
    BY <2>1, <2>2, BoxesAre
  <2>3. ASSUME NEW q \in Queues, page' = [page EXCEPT ![s] = applies_to_page("queue", q)]
        PROVE  \E pg \in Page : page' = [page EXCEPT ![s] = pg]
    BY <2>1, <2>3, BoxesAre
  <2>4. ASSUME NEW u \in SignedIn, NEW t \in Existing,
               page' = [page EXCEPT ![s] = basics_form(u, t)]
        PROVE  \E pg \in Page : page' = [page EXCEPT ![s] = pg]
    BY <2>1, <2>4, InputsAre
  <2>. QED BY <2>2, <2>3, <2>4 DEF open_page
<1>3. TypeOK' /\ HistoryAgrees' /\ FieldsStand'
  BY <1>1, <1>2 DEF IInv, TypeOK, HistoryAgrees, FieldsStand, Existing
<1>4. \A x \in Slots : job'[x] # None => job'[x] = job[x] /\ page'[x] = page[x]
  BY <1>1, <1>2 DEF IInv, TypeOK
<1>5. \A x \in Slots : job'[x] # None => InHand(x)'
  BY <1>1, <1>4, JobsStand
<1>. QED BY <1>3, <1>5 DEF IInv

\* Posting a page of boxes.
LEMMA BoxesKeep == ASSUME IInv, NEW s \in Slots, save_applies_to(s) PROVE IInv'
<1>. DEFINE pg == page[s]
            now == applies_to_page(pg.side, pg.id)
<1>1. /\ job[s] = None /\ pg # None /\ pg.side # "ticket" /\ Shown(pg) = now
      /\ IF pg.side = "field" THEN fields[pg.id] # Absent ELSE TRUE
  BY DEF save_applies_to, Free, Shown, AdministersField
<1>2. pg \in Page /\ TypeOK
  BY <1>1 DEF IInv, TypeOK
<1>3. /\ pg.side \in {"field", "queue"} /\ pg.offered \in SUBSET Pair /\ pg.ticked \in SUBSET Pair
      /\ pg.side = "field" => pg.id \in Fields
      /\ pg.side = "queue" => pg.id \in Queues
  BY <1>1, <1>2, PageForms
<1>4. /\ now \in Page /\ now.side = pg.side /\ now.ticked \subseteq now.offered
      /\ \A p \in now.offered : fields[p[2]] # Absent
  <2>. HIDE DEF pg
  <2>1. /\ now \in Page /\ now.side = pg.side /\ now.ticked \subseteq now.offered
        /\ \A p \in now.offered :
             IF pg.side = "field" THEN p[2] = pg.id ELSE fields[p[2]] # Absent
    BY <1>2, <1>3, BoxesAre
  <2>. HIDE DEF now
  <2>. QED BY <1>1, <2>1
<1>5. now.offered \in SUBSET Pair /\ now.ticked \in SUBSET Pair
  BY <1>1, <1>4, PageForms
<1>6. PICK posted \in Forms(pg) :
        LET wanted == now.offered \cap posted
        IN  Begin(s, [do |-> "pairs", add |-> wanted \ now.ticked, remove |-> now.ticked \ wanted,
                      posted |-> posted, fresh |-> now = pg])
  BY <1>1 DEF save_applies_to
<1>. DEFINE wanted == now.offered \cap posted
            write == [do |-> "pairs", add |-> wanted \ now.ticked, remove |-> now.ticked \ wanted,
                      posted |-> posted, fresh |-> now = pg]
<1>7. posted \subseteq pg.offered \cup pg.ticked
  BY DEF Forms
<1>8. write \in Job
  <2>1. posted \in SUBSET Pair
    BY <1>3, <1>7
  <2>. HIDE DEF now, pg
  <2>. QED BY <1>5, <2>1 DEF Job
<1>9. PICK j \in Job : j = write /\ Begin(s, j)
  BY <1>6, <1>8
<1>10. job'[s] = j /\ page' = page /\ fields' = fields
  BY <1>9, <1>2 DEF Begin, tables, TypeOK, IInv
<1>11. /\ j.do = "pairs" /\ j.posted = posted /\ j.add = wanted \ now.ticked
       /\ j.remove = now.ticked \ wanted /\ j.fresh = (now = pg)
  BY <1>9
<1>. HIDE DEF now
<1>12. j.fresh => /\ j.posted \subseteq pg.offered
                  /\ j.add = j.posted \ pg.ticked /\ j.remove = pg.ticked \ j.posted
  <2>1. SUFFICES ASSUME now = pg
                 PROVE  /\ posted \subseteq pg.offered
                        /\ wanted \ now.ticked = posted \ pg.ticked
                        /\ now.ticked \ wanted = pg.ticked \ posted
    BY <1>11
  <2>2. now.offered = pg.offered /\ now.ticked = pg.ticked /\ pg.ticked \subseteq pg.offered
    BY <1>4, <2>1
  <2>. HIDE DEF pg
  <2>. QED BY <1>7, <2>2
<1>13. \A p \in j.add : fields[p[2]] # Absent
  BY <1>4, <1>11
<1>14. InHand(s)'
  <2>1. PairsInHand(j, page[s])'
    BY <1>1, <1>10, <1>12, <1>13 DEF PairsInHand
  <2>. QED BY <1>10, <1>11, <2>1 DEF InHand
<1>. QED BY <1>1, <1>9, <1>14, BeginKeeps

----------------------------------------------------------------------------
(* Tickets and fields begin *)

\* What a form may send: its inputs, or none when the user may not set any.
LEMMA SentIs ==
  ASSUME NEW posted \in Partial(Fields, Typed), NEW may \in BOOLEAN
  PROVE  LET sent == IF may THEN posted ELSE [f \in {} |-> NoValue]
         IN  /\ sent \in Partial(Fields, Typed) /\ DOMAIN sent \subseteq DOMAIN posted
             /\ \A f \in DOMAIN sent : sent[f] = posted[f]
<1>1. [f \in {} |-> NoValue] \in Partial(Fields, Typed)
  BY PartialIs
<1>. QED BY <1>1

\* Posting the basics form.
LEMMA BasicsKeep == ASSUME IInv, NEW s \in Slots, ticket_basics_save(s) PROVE IInv'
<1>. DEFINE pg == page[s]
            u == pg.user
            t == pg.id
<1>1. job[s] = None /\ pg # None /\ pg.side = "ticket" /\ modify_ticket(u, t)
  BY DEF ticket_basics_save, Free
<1>2. pg \in Page /\ TypeOK
  BY <1>1 DEF IInv, TypeOK
<1>3. /\ u \in Users /\ pg.queue \in Queues /\ t \in Existing /\ t \in Tickets
      /\ pg.inputs \in Partial(Fields, Values \cup {NoValue})
  BY <1>1, <1>2, PageForms DEF modify_ticket, Opens
<1>4. PICK posted \in Typings(pg.inputs), q \in {pg.queue} \cup queues_for_create(u) :
        LET changes == Save(u, t, posted, q)
            moves == q # tickets[t].queue
        IN  Begin(s, [do |-> "ticket", ticket |-> t, changes |-> changes, queue |-> q,
                      moves |-> moves, posted |-> posted, fresh |-> Shown(pg) = pg])
  BY <1>1 DEF ticket_basics_save
<1>. DEFINE may == may_set_custom_fields(u, t)
            sent == IF may THEN posted ELSE [f \in {} |-> NoValue]
            changes == Save(u, t, posted, q)
            moves == q # tickets[t].queue
            fresh == Shown(pg) = pg
<1>5. posted \in Partial(Fields, Typed) /\ DOMAIN posted = DOMAIN pg.inputs
  <2>1. posted \in [DOMAIN pg.inputs -> Typed]
    BY DEF Typings
  <2>2. DOMAIN pg.inputs \in SUBSET Fields
    BY <1>3, PartialIs
  <2>. HIDE DEF pg
  <2>. QED BY <2>1, <2>2, PartialIs
<1>6. q \in Queues /\ tickets[t].queue \in Queues
  <2>1. q \in Queues
    BY <1>3 DEF queues_for_create, enabled_queues
  <2>. QED BY <1>2, <1>3, <2>1, InputsAre
<1>7. changes = apply_values(t, tickets[t].queue, sent)
  BY DEF Save
<1>8. /\ sent \in Partial(Fields, Typed) /\ DOMAIN sent \subseteq DOMAIN posted
      /\ \A f \in DOMAIN sent : sent[f] = posted[f]
  <2>1. may \in BOOLEAN
    BY DEF may_set_custom_fields, HoldsOn, Acl!has_right
  <2>. HIDE DEF may
  <2>. QED BY <1>5, <2>1, SentIs
<1>. HIDE DEF sent
<1>9. ASSUME NEW c \in changes
      PROVE  /\ c \in Change /\ fields[c.field] # Absent
             /\ c.field \in DOMAIN pg.inputs /\ c.new = Cleaned[posted[c.field]]
  <2>. HIDE DEF pg, changes
  <2>1. /\ c \in Change /\ fields[c.field] # Absent
        /\ c.field \in DOMAIN sent /\ c.new = Cleaned[sent[c.field]]
    BY <1>2, <1>3, <1>6, <1>7, <1>8, ChangesAre
  <2>. QED BY <1>5, <1>8, <2>1
<1>10. fresh => /\ pg.queue = tickets[t].queue
                /\ \A f \in DOMAIN pg.inputs :
                     Cleaned[posted[f]] # pg.inputs[f] => \E c \in changes : c.field = f
  <2>1. SUFFICES ASSUME fresh
                 PROVE  /\ pg.queue = tickets[t].queue
                        /\ \A f \in DOMAIN pg.inputs :
                             Cleaned[posted[f]] # pg.inputs[f] => \E c \in changes : c.field = f
    OBVIOUS
  <2>2. /\ pg.queue = tickets[t].queue
        /\ pg.inputs = IF may THEN ticket_values(t) ELSE [f \in {} |-> NoValue]
    <3>1. pg = basics_form(u, t)
      BY <1>1, <2>1 DEF Shown
    <3>2. /\ basics_form(u, t).queue = tickets[t].queue
          /\ basics_form(u, t).inputs = IF may THEN ticket_values(t) ELSE [f \in {} |-> NoValue]
      BY DEF basics_form
    <3>. QED BY <3>1, <3>2
  <2>3. ASSUME NEW f \in DOMAIN pg.inputs, Cleaned[posted[f]] # pg.inputs[f]
        PROVE  \E c \in changes : c.field = f
    <3>1. may
      BY <2>2, <2>3
    <3>2. sent = posted /\ pg.inputs = ticket_values(t)
      BY <2>2, <3>1 DEF sent
    <3>. HIDE DEF may, pg
    <3>3. f \in queue_fields(tickets[t].queue) /\ pg.inputs[f] = values[t][f] /\ f \in DOMAIN sent
      BY <1>5, <2>3, <3>2 DEF ticket_values
    <3>4. [field |-> f, name |-> fields[f].name, old |-> values[t][f], new |-> Cleaned[sent[f]]]
            \in apply_values(t, tickets[t].queue, sent)
      BY <2>3, <3>2, <3>3 DEF apply_values
    <3>. QED BY <1>7, <3>4
  <2>. QED BY <2>2, <2>3
<1>. HIDE DEF changes, moves, fresh
<1>11. PICK j \in Job :
         /\ j = [do |-> "ticket", ticket |-> t, changes |-> changes, queue |-> q,
                 moves |-> moves, posted |-> posted, fresh |-> fresh]
         /\ Begin(s, j)
  <2>. DEFINE write == [do |-> "ticket", ticket |-> t, changes |-> changes, queue |-> q,
                        moves |-> moves, posted |-> posted, fresh |-> fresh]
  <2>1. changes \in SUBSET Change /\ moves \in BOOLEAN /\ fresh \in BOOLEAN
    BY <1>9 DEF moves, fresh
  <2>2. write \in Job
    <3>. HIDE DEF pg
    <3>. QED BY <1>3, <1>5, <1>6, <2>1 DEF Job
  <2>3. Begin(s, write)
    BY <1>4 DEF changes, moves, fresh
  <2>. QED BY <2>2, <2>3
<1>12. job'[s] = j /\ page' = page /\ fields' = fields /\ tickets' = tickets
  BY <1>2, <1>11 DEF Begin, tables, TypeOK, IInv
<1>13. BasicsInHand(j, page[s])'
  <2>1. /\ j.do = "ticket" /\ j.ticket = t /\ j.changes = changes /\ j.queue = q
        /\ j.moves = moves /\ j.posted = posted /\ j.fresh = fresh
    BY <1>11
  <2>2. j.fresh => (~j.moves => j.queue = pg.queue)
    BY <1>10, <2>1 DEF moves
  <2>3. Existing' = Existing
    BY <1>12 DEF Existing
  <2>. QED BY <1>1, <1>3, <1>5, <1>9, <1>10, <1>12, <2>1, <2>2, <2>3 DEF BasicsInHand
<1>14. InHand(s)'
  <2>1. j.do = "ticket"
    BY <1>11
  <2>. QED BY <1>12, <1>13, <2>1 DEF InHand
<1>. QED BY <1>1, <1>11, <1>14, BeginKeeps

\* Posting the create form.
LEMMA CreateKeeps == ASSUME IInv, NEW s \in Slots, ticket_create(s) PROVE IInv'
<1>1. job[s] = None /\ page[s] = None /\ TypeOK
  BY DEF ticket_create, Free, IInv
<1>2. PICK u \in SignedIn, t \in Tickets, D \in SUBSET Fields :
        \E q \in queues_for_create(u), typed \in [D -> Typed] : \E owner \in owner_choices(q) :
          /\ UnusedTicket(t)
          /\ LET sent == IF Holds(u, "ModifyCustomField", q) THEN typed ELSE [f \in {} |-> NoValue]
             IN  Begin(s, [do |-> "create", ticket |-> t, changes |-> apply_values(t, q, sent),
                           row |-> [queue |-> q, owner |-> owner, requestor |-> u, status |-> "new",
                                    priority |-> 0, created |-> Today]])
  BY DEF ticket_create
<1>3. PICK q \in queues_for_create(u), typed \in [D -> Typed] : \E owner \in owner_choices(q) :
        /\ UnusedTicket(t)
        /\ LET sent == IF Holds(u, "ModifyCustomField", q) THEN typed ELSE [f \in {} |-> NoValue]
           IN  Begin(s, [do |-> "create", ticket |-> t, changes |-> apply_values(t, q, sent),
                         row |-> [queue |-> q, owner |-> owner, requestor |-> u, status |-> "new",
                                  priority |-> 0, created |-> Today]])
  BY <1>2
<1>4. PICK owner \in owner_choices(q) :
        /\ UnusedTicket(t)
        /\ LET sent == IF Holds(u, "ModifyCustomField", q) THEN typed ELSE [f \in {} |-> NoValue]
           IN  Begin(s, [do |-> "create", ticket |-> t, changes |-> apply_values(t, q, sent),
                         row |-> [queue |-> q, owner |-> owner, requestor |-> u, status |-> "new",
                                  priority |-> 0, created |-> Today]])
  BY <1>3
<1>. DEFINE may == Holds(u, "ModifyCustomField", q)
            sent == IF may THEN typed ELSE [f \in {} |-> NoValue]
            changes == apply_values(t, q, sent)
            row == [queue |-> q, owner |-> owner, requestor |-> u, status |-> "new",
                    priority |-> 0, created |-> Today]
<1>5. u \in Users /\ q \in Queues /\ owner \in Users
  BY SearchConstants DEF SignedIn, queues_for_create, enabled_queues, owner_choices
<1>6. sent \in Partial(Fields, Typed)
  <2>1. may \in BOOLEAN
    BY DEF Holds, Acl!has_right
  <2>2. typed \in Partial(Fields, Typed)
    BY PartialIs
  <2>. HIDE DEF may
  <2>. QED BY <2>1, <2>2, SentIs
<1>. HIDE DEF sent
<1>7. \A c \in changes : c \in Change /\ fields[c.field] # Absent
  BY <1>1, <1>5, <1>6, ChangesAre
<1>8. row \in TicketRow
  <2>1. Today \in Nat /\ "new" \in STATUSES
    BY FieldConstants DEF STATUSES
  <2>. QED BY <1>5, <2>1 DEF TicketRow
<1>. HIDE DEF changes, row
<1>9. PICK j \in Job :
        /\ j = [do |-> "create", ticket |-> t, changes |-> changes, row |-> row]
        /\ Begin(s, j)
  <2>1. [do |-> "create", ticket |-> t, changes |-> changes, row |-> row] \in Job
    BY <1>7, <1>8 DEF Job
  <2>2. Begin(s, [do |-> "create", ticket |-> t, changes |-> changes, row |-> row])
    BY <1>4 DEF sent, changes, row
  <2>. QED BY <2>1, <2>2
<1>10. /\ job' = [job EXCEPT ![s] = j] /\ job'[s] = j
      /\ page' = page /\ fields' = fields /\ tickets' = tickets
  BY <1>1, <1>9 DEF Begin, tables, TypeOK
<1>11. j.do = "create" /\ j.ticket = t /\ j.changes = changes
  BY <1>9
<1>12. CreateInHand(s)'
  <2>1. tickets[t] = Absent /\ \A x \in Slots : job[x] # None /\ job[x].do = "create" => job[x].ticket # t
    BY <1>4 DEF UnusedTicket
  <2>2. \A x \in Slots \ {s} : job'[x] = job[x]
    BY <1>1, <1>10 DEF TypeOK
  <2>. QED BY <1>1, <1>7, <1>10, <1>11, <2>1, <2>2 DEF CreateInHand
<1>13. InHand(s)'
  BY <1>10, <1>11, <1>12 DEF InHand
<1>. QED BY <1>1, <1>9, <1>13, BeginKeeps

\* Posting a field's form.
LEMMA FieldFormKeeps ==
  ASSUME IInv, NEW s \in Slots, create_field(s) \/ modify_field(s)
  PROVE  IInv'
<1>1. job[s] = None /\ TypeOK
  BY DEF create_field, modify_field, Free, IInv
<1>2. PICK f \in Fields, was \in FieldRow \cup {Absent}, row \in FieldRow :
        /\ was # Absent => fields[f] # Absent
        /\ Begin(s, [do |-> "field", id |-> f, was |-> was, row |-> row])
  <2>1. CASE create_field(s)
    BY <2>1 DEF create_field, Edited
  <2>2. CASE modify_field(s)
    <3>1. PICK f \in Fields : /\ AdministersField(f)
                              /\ \E row \in Edited(fields[f]) :
                                   Begin(s, [do |-> "field", id |-> f, was |-> fields[f], row |-> row])
      BY <2>2 DEF modify_field
    <3>2. fields[f] \in FieldRow /\ fields[f] # Absent
      BY <1>1, <3>1 DEF AdministersField, TypeOK
    <3>. QED BY <3>1, <3>2 DEF Edited
  <2>. QED BY <2>1, <2>2
<1>3. PICK j \in Job : j = [do |-> "field", id |-> f, was |-> was, row |-> row] /\ Begin(s, j)
  <2>1. [do |-> "field", id |-> f, was |-> was, row |-> row] \in Job
    BY DEF Job
  <2>. QED BY <1>2, <2>1
<1>4. job'[s] = j /\ fields' = fields
  BY <1>1, <1>3 DEF Begin, tables, TypeOK
<1>5. j.do = "field" /\ j.id = f /\ j.was = was
  BY <1>3
<1>6. InHand(s)'
  BY <1>2, <1>4, <1>5 DEF InHand
<1>. QED BY <1>1, <1>3, <1>6, BeginKeeps

----------------------------------------------------------------------------
(* Writes end *)

\* A commit of pairs.
LEMMA PairsKeep == ASSUME IInv, NEW s \in Slots, write_pairs(s) PROVE IInv'
<1>1. /\ job[s] # None /\ job[s].do = "pairs" /\ Done(s)
      /\ carried' = (carried \ job[s].remove) \cup job[s].add
      /\ UNCHANGED <<rights, tickets, disabled, fields, values, log>>
  BY DEF write_pairs
<1>2. TypeOK /\ FieldsStand /\ HistoryAgrees /\ job[s] \in Job /\ InHand(s)
  BY <1>1 DEF IInv, TypeOK
<1>3. /\ job[s].add \in SUBSET Pair /\ \A p \in job[s].add : fields[p[2]] # Absent
  BY <1>1, <1>2, JobForms DEF InHand, PairsInHand
<1>4. /\ job' \in [Slots -> Job \cup {None}] /\ page' \in [Slots -> Page \cup {None}]
      /\ begun' \in Nat
      /\ \A x \in Slots : job'[x] # None => x # s /\ job'[x] = job[x] /\ page'[x] = page[x]
  BY <1>1, <1>2, DoneIs
<1>5. TypeOK'
  BY <1>1, <1>2, <1>3, <1>4 DEF TypeOK
<1>6. HistoryAgrees' /\ FieldsStand'
  BY <1>1, <1>2, <1>3 DEF HistoryAgrees, FieldsStand, Existing
<1>7. \A x \in Slots : job'[x] # None => InHand(x)'
  BY <1>1, <1>4, JobsStand
<1>. QED BY <1>5, <1>6, <1>7 DEF IInv

\* A commit of a ticket's values, with its row.
LEMMA ValuesKeep ==
  ASSUME IInv, NEW s \in Slots, job[s] # None, Done(s),
         NEW t \in Tickets, NEW changes \in SUBSET Change, NEW row \in TicketRow,
         \A c \in changes : Fits(t, c) /\ fields[c.field] # Absent,
         WriteValues(t, changes),
         tickets' = tickets \/ tickets' = [tickets EXCEPT ![t] = row],
         tickets'[t] # Absent,
         \A x \in Slots \ {s} : job[x] # None /\ job[x].do = "create" => job[x].ticket # t,
         UNCHANGED <<rights, disabled, fields, carried>>
  PROVE  IInv'
<1>1. TypeOK /\ FieldsStand /\ HistoryAgrees
  BY DEF IInv
<1>2. /\ values' \in [Tickets -> [Fields -> Values \cup {NoValue}]]
      /\ log' \in [Tickets -> [Fields -> Seq(Row)]]
      /\ HistoryAgrees'
      /\ \A x \in Tickets, f \in Fields :
           values'[x][f] # values[x][f] => x = t /\ \E c \in changes : c.field = f
  BY <1>1, WriteKeeps
<1>3. /\ job' \in [Slots -> Job \cup {None}] /\ page' \in [Slots -> Page \cup {None}]
      /\ begun' \in Nat
      /\ \A x \in Slots : job'[x] # None => x # s /\ job'[x] = job[x] /\ page'[x] = page[x]
  BY <1>1, DoneIs
<1>4. /\ tickets' \in [Tickets -> TicketRow \cup {Absent}]
      /\ \A x \in Tickets \ {t} : tickets'[x] = tickets[x]
  BY <1>1 DEF TypeOK
<1>5. TypeOK'
  BY <1>1, <1>2, <1>3, <1>4 DEF TypeOK
<1>6. FieldsStand'
  <2>1. \A x \in Tickets : tickets[x] # Absent => tickets'[x] # Absent
    BY <1>4
  <2>2. ASSUME NEW x \in Tickets, NEW f \in Fields, values'[x][f] # NoValue
        PROVE  tickets'[x] # Absent /\ fields[f] # Absent
    <3>1. CASE values'[x][f] = values[x][f]
      BY <1>1, <2>1, <2>2, <3>1 DEF FieldsStand, Existing
    <3>2. CASE values'[x][f] # values[x][f]
      BY <1>2, <3>2
    <3>. QED BY <3>1, <3>2
  <2>. QED BY <1>1, <2>2 DEF FieldsStand, Existing
<1>7. \A x \in Slots : job'[x] # None => InHand(x)'
  <2>1. \A x \in Slots : job'[x] # None /\ job'[x].do = "create" => job'[x].ticket \in Tickets \ {t}
    <3>1. SUFFICES ASSUME NEW x \in Slots, job'[x] # None, job'[x].do = "create"
                   PROVE  job'[x].ticket \in Tickets \ {t}
      OBVIOUS
    <3>2. x # s /\ job'[x] = job[x] /\ job[x] \in Job
      BY <1>1, <1>3, <3>1 DEF TypeOK
    <3>. QED BY <3>1, <3>2, JobForms
  <2>2. \A x \in Tickets : tickets[x] # Absent => tickets'[x] # Absent
    BY <1>4
  <2>. QED BY <1>3, <1>4, <2>1, <2>2, JobsStand
<1>. QED BY <1>2, <1>5, <1>6, <1>7 DEF IInv

\* A commit of the basics form.
LEMMA CommitBasicsKeeps == ASSUME IInv, NEW s \in Slots, commit_basics(s) PROVE IInv'
<1>. DEFINE t == job[s].ticket
            row == IF job[s].moves THEN [tickets[t] EXCEPT !.queue = job[s].queue] ELSE tickets[t]
<1>1. /\ job[s] # None /\ job[s].do = "ticket" /\ Done(s)
      /\ \A c \in job[s].changes : Fits(t, c)
      /\ WriteValues(t, job[s].changes)
      /\ tickets' = IF job[s].moves THEN [tickets EXCEPT ![t].queue = job[s].queue] ELSE tickets
      /\ UNCHANGED <<rights, disabled, fields, carried>>
  BY DEF commit_basics
<1>2. TypeOK /\ job[s] \in Job /\ InHand(s)
  BY <1>1 DEF IInv, TypeOK
<1>3. t \in Tickets /\ job[s].changes \in SUBSET Change /\ job[s].queue \in Queues
  BY <1>1, <1>2, JobForms
<1>4. BasicsInHand(job[s], page[s])
  BY <1>1, <1>2 DEF InHand
<1>5. tickets[t] \in TicketRow /\ tickets[t] # Absent /\ tickets \in [Tickets -> TicketRow \cup {Absent}]
  BY <1>2, <1>3, <1>4 DEF BasicsInHand, Existing, TypeOK
<1>6. row \in TicketRow /\ row # Absent
  <2>1. row \in TicketRow
    BY <1>3, <1>5 DEF TicketRow
  <2>. HIDE DEF row
  <2>. QED BY <2>1, SearchConstants
<1>7. tickets'[t] = row /\ (tickets' = tickets \/ tickets' = [tickets EXCEPT ![t] = row])
  BY <1>1, <1>3, <1>5
<1>8. \A x \in Slots \ {s} : job[x] # None /\ job[x].do = "create" => job[x].ticket # t
  <2>1. SUFFICES ASSUME NEW x \in Slots \ {s}, job[x] # None, job[x].do = "create"
                 PROVE  job[x].ticket # t
    OBVIOUS
  <2>2. CreateInHand(x)
    BY <2>1 DEF IInv, InHand
  <2>. QED BY <1>5, <2>2 DEF CreateInHand
<1>9. \A c \in job[s].changes : Fits(t, c) /\ fields[c.field] # Absent
  BY <1>1, <1>4 DEF BasicsInHand
<1>10. /\ tickets' = tickets \/ tickets' = [tickets EXCEPT ![t] = row]
       /\ tickets'[t] # Absent
  BY <1>6, <1>7
<1>11. /\ job[s] # None /\ Done(s) /\ WriteValues(t, job[s].changes)
       /\ UNCHANGED <<rights, disabled, fields, carried>>
  BY <1>1
<1>12. row \in TicketRow
  BY <1>6
<1>. HIDE DEF row, t
<1>. QED BY <1>3, <1>8, <1>9, <1>10, <1>11, <1>12, ValuesKeep

\* A commit of the create form.
LEMMA CommitCreateKeeps == ASSUME IInv, NEW s \in Slots, commit_create(s) PROVE IInv'
<1>. DEFINE t == job[s].ticket
            row == job[s].row
<1>1. /\ job[s] # None /\ job[s].do = "create" /\ Done(s)
      /\ \A c \in job[s].changes : Fits(t, c)
      /\ WriteValues(t, job[s].changes)
      /\ tickets' = [tickets EXCEPT ![t] = row]
      /\ UNCHANGED <<rights, disabled, fields, carried>>
  BY DEF commit_create
<1>2. TypeOK /\ job[s] \in Job /\ InHand(s)
  BY <1>1 DEF IInv, TypeOK
<1>3. t \in Tickets /\ job[s].changes \in SUBSET Change /\ row \in TicketRow
  BY <1>1, <1>2, JobForms
<1>4. CreateInHand(s)
  BY <1>1, <1>2 DEF InHand
<1>5. tickets'[t] # Absent
  BY <1>1, <1>2, <1>3, SearchConstants DEF TypeOK
<1>6. \A x \in Slots \ {s} : job[x] # None /\ job[x].do = "create" => job[x].ticket # t
  BY <1>4 DEF CreateInHand
<1>7. \A c \in job[s].changes : Fits(t, c) /\ fields[c.field] # Absent
  BY <1>1, <1>4 DEF CreateInHand
<1>. HIDE DEF row, t
<1>. QED BY <1>1, <1>3, <1>5, <1>6, <1>7, ValuesKeep

\* A commit of a field.
LEMMA SaveFieldKeeps == ASSUME IInv, NEW s \in Slots, save_field(s) PROVE IInv'
<1>. DEFINE f == job[s].id
            row == Merged(fields[f], job[s].was, job[s].row)
<1>1. /\ job[s] # None /\ job[s].do = "field" /\ Done(s)
      /\ \A g \in Fields \ {f} : fields[g] # Absent => fields[g].name # row.name
      /\ fields' = [fields EXCEPT ![f] = row]
      /\ UNCHANGED <<rights, tickets, disabled, carried, values, log>>
  BY DEF save_field
<1>2. TypeOK /\ FieldsStand /\ HistoryAgrees /\ job[s] \in Job /\ InHand(s)
  BY <1>1 DEF IInv, TypeOK
<1>3. f \in Fields /\ job[s].was \in FieldRow \cup {Absent} /\ job[s].row \in FieldRow
  BY <1>1, <1>2, JobForms
<1>4. row \in FieldRow /\ row # Absent
  <2>1. CASE job[s].was = Absent
    <3>1. row = job[s].row
      BY <2>1 DEF Merged
    <3>. HIDE DEF row
    <3>. QED BY <1>3, <3>1, FieldConstants
  <2>2. CASE job[s].was # Absent
    <3>1. fields[f] \in FieldRow /\ job[s].was \in FieldRow
      BY <1>1, <1>2, <1>3, <2>2 DEF InHand, TypeOK
    <3>2. row = [c \in DOMAIN job[s].row |->
                   IF job[s].row[c] # job[s].was[c] THEN job[s].row[c] ELSE fields[f][c]]
      BY <2>2 DEF Merged
    <3>. HIDE DEF row
    <3>3. row = [name |-> row.name, disabled |-> row.disabled]
          /\ row.name \in FieldNames /\ row.disabled \in BOOLEAN
      BY <1>3, <3>1, <3>2 DEF FieldRow
    <3>4. row \in FieldRow
      BY <3>3 DEF FieldRow
    <3>. QED BY <3>4, FieldConstants
  <2>. QED BY <2>1, <2>2
<1>. HIDE DEF row
<1>5. /\ job' \in [Slots -> Job \cup {None}] /\ page' \in [Slots -> Page \cup {None}]
      /\ begun' \in Nat
      /\ \A x \in Slots : job'[x] # None => x # s /\ job'[x] = job[x] /\ page'[x] = page[x]
  BY <1>1, <1>2, DoneIs
<1>6. /\ fields' \in [Fields -> FieldRow \cup {Absent}] /\ fields'[f] = row
      /\ \A g \in Fields \ {f} : fields'[g] = fields[g]
  BY <1>1, <1>2, <1>3, <1>4 DEF TypeOK
<1>7. TypeOK'
  BY <1>1, <1>2, <1>5, <1>6 DEF TypeOK
<1>8. HistoryAgrees'
  BY <1>1, <1>2 DEF HistoryAgrees
<1>9. \A g \in Fields : fields[g] # Absent => fields'[g] # Absent
  BY <1>4, <1>6
<1>10. FieldsStand'
  <2>1. \A g, h \in Fields :
          g # h /\ fields'[g] # Absent /\ fields'[h] # Absent => fields'[g].name # fields'[h].name
    BY <1>1, <1>2, <1>3, <1>6 DEF FieldsStand
  <2>2. \A p \in carried : p[2] \in Fields
    BY <1>2 DEF TypeOK, Pair
  <2>. QED BY <1>1, <1>2, <1>9, <2>1, <2>2 DEF FieldsStand, Existing
<1>11. \A x \in Slots : job'[x] # None => InHand(x)'
  BY <1>1, <1>5, <1>9, JobsStand
<1>. QED BY <1>7, <1>8, <1>10, <1>11 DEF IInv

\* A write that comes to nothing.
LEMMA RollBackKeeps == ASSUME IInv, NEW s \in Slots, roll_back(s) PROVE IInv'
<1>1. Done(s) /\ UNCHANGED <<rights, tickets, disabled, fields, carried, values, log>>
  BY DEF roll_back, tables
<1>2. TypeOK /\ FieldsStand /\ HistoryAgrees
  BY DEF IInv
<1>3. /\ job' \in [Slots -> Job \cup {None}] /\ page' \in [Slots -> Page \cup {None}]
      /\ begun' \in Nat
      /\ \A x \in Slots : job'[x] # None => x # s /\ job'[x] = job[x] /\ page'[x] = page[x]
  BY <1>1, <1>2, DoneIs
<1>4. TypeOK' /\ HistoryAgrees' /\ FieldsStand'
  BY <1>1, <1>2, <1>3 DEF TypeOK, HistoryAgrees, FieldsStand, Existing
<1>5. \A x \in Slots : job'[x] # None => InHand(x)'
  BY <1>1, <1>3, JobsStand
<1>. QED BY <1>4, <1>5 DEF IInv

\* What other pages change meanwhile.
LEMMA EditsKeep == ASSUME IInv, save_queue \/ save_rights \/ ticket_update PROVE IInv'
<1>1. /\ begun' = begun + 1
      /\ UNCHANGED <<fields, carried, values, log, page, job>>
  BY DEF save_queue, save_rights, ticket_update, Edit
<1>2. TypeOK /\ FieldsStand /\ HistoryAgrees
  BY DEF IInv
<1>3. /\ rights' \subseteq Grantable \cup Start.rights /\ disabled' \subseteq Queues
      /\ tickets' \in [Tickets -> TicketRow \cup {Absent}]
      /\ \A t \in Tickets : tickets'[t] = Absent <=> tickets[t] = Absent
  <2>1. CASE save_queue
    BY <1>2, <2>1 DEF save_queue, TypeOK
  <2>2. CASE save_rights
    BY <1>2, <2>2 DEF save_rights, TypeOK
  <2>3. CASE ticket_update
    <3>1. PICK t \in Existing, u \in SignedIn :
            \/ \E status \in transitions(tickets[t].status) :
                 tickets' = [tickets EXCEPT ![t].status = status]
            \/ \E owner \in owner_choices(tickets[t].queue) \ {tickets[t].owner} :
                 tickets' = [tickets EXCEPT ![t].owner = owner]
      BY <2>3 DEF ticket_update
    <3>2. t \in Tickets /\ tickets[t] \in TicketRow /\ tickets \in [Tickets -> TicketRow \cup {Absent}]
      BY <1>2 DEF Existing, TypeOK
    <3>3. \A status \in transitions(tickets[t].status) :
            [tickets[t] EXCEPT !.status = status] \in TicketRow
      <4>1. \A status \in transitions(tickets[t].status) : status \in STATUSES
        BY DEF transitions, TRANSITIONS, STATUSES
      <4>. QED BY <3>2, <4>1 DEF TicketRow
    <3>4. \A owner \in owner_choices(tickets[t].queue) :
            [tickets[t] EXCEPT !.owner = owner] \in TicketRow
      <4>1. \A owner \in owner_choices(tickets[t].queue) : owner \in Users
        BY SearchConstants DEF owner_choices, SignedIn
      <4>. QED BY <3>2, <4>1 DEF TicketRow
    <3>5. PICK row \in TicketRow : tickets' = [tickets EXCEPT ![t] = row]
      BY <3>1, <3>3, <3>4
    <3>6. tickets[t] # Absent /\ row # Absent
      BY SearchConstants DEF Existing
    <3>. QED BY <1>2, <2>3, <3>2, <3>5, <3>6 DEF ticket_update, TypeOK
  <2>. QED BY <2>1, <2>2, <2>3
<1>4. TypeOK'
  BY <1>1, <1>2, <1>3 DEF TypeOK
<1>5. HistoryAgrees' /\ FieldsStand'
  BY <1>1, <1>2, <1>3 DEF HistoryAgrees, FieldsStand, Existing
<1>6. \A x \in Slots : job'[x] # None => InHand(x)'
  <2>1. \A x \in Slots : job[x] # None /\ job[x].do = "create" => job[x].ticket \in Tickets
    BY <1>2, JobForms DEF TypeOK
  <2>. QED BY <1>1, <1>3, <2>1, JobsStand
<1>. QED BY <1>4, <1>5, <1>6 DEF IInv

----------------------------------------------------------------------------
(* What holds of every run *)

\* Any step.
LEMMA StepKeeps == IInv /\ [Next]_vars => IInv'
<1>. SUFFICES ASSUME IInv, [Next]_vars PROVE IInv'
  OBVIOUS
<1>1. CASE UNCHANGED vars
  <2>1. /\ UNCHANGED <<rights, tickets, disabled, fields, carried, values, log, page, job, begun>>
    BY <1>1 DEF vars
  <2>2. TypeOK' /\ HistoryAgrees' /\ FieldsStand'
    BY <2>1 DEF IInv, TypeOK, HistoryAgrees, FieldsStand, Existing
  <2>3. \A x \in Slots : job'[x] # None => InHand(x)'
    BY <2>1, JobsStand
  <2>. QED BY <2>2, <2>3 DEF IInv
<1>2. ASSUME NEW s \in Slots,
             \/ open_page(s) \/ save_applies_to(s) \/ ticket_basics_save(s) \/ ticket_create(s)
             \/ create_field(s) \/ modify_field(s)
             \/ write_pairs(s) \/ commit_basics(s) \/ commit_create(s) \/ save_field(s)
             \/ roll_back(s)
      PROVE  IInv'
  BY <1>2, OpenKeeps, BoxesKeep, BasicsKeep, CreateKeeps, FieldFormKeeps, PairsKeep,
     CommitBasicsKeeps, CommitCreateKeeps, SaveFieldKeeps, RollBackKeeps
<1>3. CASE save_queue \/ save_rights \/ ticket_update
  BY <1>3, EditsKeep
<1>. QED BY <1>1, <1>2, <1>3 DEF Next

\* The inductive invariant.
THEOREM Invariant == Spec => []IInv
BY InitOK, StepKeeps, PTL DEF Spec

\* Every table, page and job keeps its shape: no form brings an uncleaned value
\* or a pair of something else into a table (customfields/service.py:415).
THEOREM TypeCorrect == Spec => []TypeOK
<1>1. IInv => TypeOK
  BY DEF IInv
<1>. QED BY <1>1, Invariant, PTL

\* A value and its history agree, however many browsers save side by side, with
\* no lock but the keys of the table (customfields/service.py:443).
THEOREM HistoryIsTrue == Spec => []HistoryAgrees
<1>1. IInv => HistoryAgrees
  BY DEF IInv
<1>. QED BY <1>1, Invariant, PTL

\* Names of fields stay apart, and pairs and values are about what is there
\* (customfields/service.py:184, the foreign keys of db/models.py:328-358).
THEOREM FieldsStayPut == Spec => []FieldsStand
<1>1. IInv => FieldsStand
  BY DEF IInv
<1>. QED BY <1>1, Invariant, PTL

\* Which steps change what the two action properties are about.
LEMMA WhoWrites ==
  ASSUME IInv, [Next]_vars, <<carried, values, tickets>>' # <<carried, values, tickets>>
  PROVE  \/ \E s \in Slots : write_pairs(s) \/ commit_basics(s) \/ commit_create(s)
         \/ ticket_update /\ UNCHANGED <<values, job>>
<1>1. CASE UNCHANGED vars
  BY <1>1 DEF vars
<1>2. ASSUME NEW s \in Slots,
             open_page(s) \/ save_applies_to(s) \/ ticket_basics_save(s) \/ ticket_create(s)
      PROVE  FALSE
  BY <1>2 DEF open_page, save_applies_to, ticket_basics_save, ticket_create, Begin, tables
<1>3. ASSUME NEW s \in Slots, create_field(s) \/ modify_field(s) \/ save_field(s) \/ roll_back(s)
      PROVE  FALSE
  BY <1>3 DEF create_field, modify_field, save_field, roll_back, Begin, tables
<1>4. CASE save_queue \/ save_rights
  BY <1>4 DEF save_queue, save_rights, Edit
<1>5. CASE ticket_update
  BY <1>5 DEF ticket_update, Edit
<1>. QED BY <1>1, <1>2, <1>3, <1>4, <1>5 DEF Next

\* What a job's write does to the values.
LEMMA WriteDoes ==
  ASSUME TypeOK, HistoryAgrees, NEW s \in Slots,
         job[s].ticket \in Tickets, job[s].changes \in SUBSET Change,
         \A c \in job[s].changes : Fits(job[s].ticket, c),
         WriteValues(job[s].ticket, job[s].changes)
  PROVE  /\ values' \in [Tickets -> [Fields -> Values \cup {NoValue}]]
         /\ \A x \in Tickets, f \in Fields :
              values'[x][f] # values[x][f] => x = job[s].ticket
         /\ \A f \in Fields :
              \/ /\ \A c \in job[s].changes : c.field # f
                 /\ values'[job[s].ticket][f] = values[job[s].ticket][f]
              \/ \E c \in job[s].changes : c.field = f /\ values'[job[s].ticket][f] = c.new
<1>1. PICK t \in Tickets, changes \in SUBSET Change :
        t = job[s].ticket /\ changes = job[s].changes
  OBVIOUS
<1>2. WriteValues(t, changes)
  BY <1>1 DEF WriteValues
<1>3. \A c \in changes : Fits(t, c)
  BY <1>1 DEF Fits
<1>4. /\ values' \in [Tickets -> [Fields -> Values \cup {NoValue}]]
      /\ \A x \in Tickets, f \in Fields : values'[x][f] # values[x][f] => x = t
      /\ \A f \in Fields :
           \/ (\A c \in changes : c.field # f) /\ values'[t][f] = values[t][f]
           \/ \E c \in changes : c.field = f /\ values'[t][f] = c.new
  BY <1>2, <1>3, WriteKeeps
<1>. QED BY <1>1, <1>4

\* No value of a ticket that is there is lost or changed but by a form that
\* had its input (customfields/service.py:409, FP F06, F07).
THEOREM NothingIsLost == Spec => ValuesSurvive
<1>. DEFINE Survives ==
       \A t \in Existing, f \in Fields :
         values'[t][f] # values[t][f] =>
           \E s \in Slots :
             /\ job[s] # None /\ job'[s] = None
             /\ page[s] # None /\ page[s].side = "ticket" /\ page[s].id = t
             /\ f \in DOMAIN page[s].inputs
             /\ values'[t][f] = Cleaned[job[s].posted[f]]
<1>1. ASSUME IInv, [Next]_vars
      PROVE  Survives
  <2>1. SUFFICES ASSUME NEW t \in Existing, NEW f \in Fields, values'[t][f] # values[t][f]
                 PROVE  \E s \in Slots :
                          /\ job[s] # None /\ job'[s] = None
                          /\ page[s] # None /\ page[s].side = "ticket" /\ page[s].id = t
                          /\ f \in DOMAIN page[s].inputs
                          /\ values'[t][f] = Cleaned[job[s].posted[f]]
    OBVIOUS
  <2>2. values' # values /\ TypeOK /\ HistoryAgrees /\ t \in Tickets
    BY <1>1, <2>1 DEF IInv, Existing
  <2>3. PICK s \in Slots : commit_basics(s) \/ commit_create(s)
    BY <1>1, <2>2, WhoWrites DEF write_pairs
  <2>4. /\ job[s] # None /\ Done(s) /\ WriteValues(job[s].ticket, job[s].changes)
        /\ \A c \in job[s].changes : Fits(job[s].ticket, c)
        /\ job[s].do = IF commit_basics(s) THEN "ticket" ELSE "create"
    BY <2>3 DEF commit_basics, commit_create
  <2>5. InHand(s) /\ job'[s] = None /\ job[s] \in Job
    BY <1>1, <2>2, <2>4, DoneIs DEF IInv, TypeOK
  <2>6. job[s].ticket \in Tickets /\ job[s].changes \in SUBSET Change
    BY <2>4, <2>5, JobForms
  <2>7. /\ t = job[s].ticket
        /\ \E c \in job[s].changes : c.field = f /\ values'[t][f] = c.new
    <3>1. /\ \A x \in Tickets, g \in Fields : values'[x][g] # values[x][g] => x = job[s].ticket
          /\ \A g \in Fields :
               \/ values'[job[s].ticket][g] = values[job[s].ticket][g]
               \/ \E c \in job[s].changes : c.field = g /\ values'[job[s].ticket][g] = c.new
      BY <2>2, <2>4, <2>6, WriteDoes
    <3>. QED BY <2>1, <2>2, <3>1
  <2>8. job[s].do = "ticket"
    BY <2>1, <2>4, <2>5, <2>7 DEF InHand, CreateInHand, Existing
  <2>. QED BY <2>4, <2>5, <2>7, <2>8 DEF InHand, BasicsInHand
<1>2. ASSUME IInv, [Next]_vars
      PROVE  [Survives]_vars
  BY <1>1, <1>2
<1>. QED BY <1>2, Invariant, PTL DEF ValuesSurvive, Spec

\* A form that is true when it is posted and when it commits becomes the truth
\* (customfields/router.py:240, 298, tickets/update.py:298), in all
\* interleavings with every other writer.
THEOREM FormsAreExact == Spec => SavesAreExact
<1>. DEFINE Exact ==
       \A s \in Slots :
         /\ job[s] # None /\ job'[s] = None /\ page[s] # None
         /\ <<carried, values, tickets>>' # <<carried, values, tickets>>
         /\ job[s].fresh /\ page[s] = Shown(page[s])
         => IF page[s].side = "ticket" THEN SavesItsInputs(s) ELSE SavesItsBoxes(s)
<1>1. ASSUME IInv, [Next]_vars
      PROVE  Exact
  <2>1. SUFFICES ASSUME NEW s \in Slots,
                        job[s] # None, job'[s] = None, page[s] # None,
                        <<carried, values, tickets>>' # <<carried, values, tickets>>,
                        job[s].fresh, page[s] = Shown(page[s])
                 PROVE  IF page[s].side = "ticket" THEN SavesItsInputs(s) ELSE SavesItsBoxes(s)
    OBVIOUS
  <2>2. TypeOK /\ HistoryAgrees /\ InHand(s) /\ job[s] \in Job /\ page[s] \in Page
    BY <1>1, <2>1 DEF IInv, TypeOK
  <2>3. write_pairs(s) \/ commit_basics(s)
    <3>1. ~(ticket_update /\ UNCHANGED <<values, job>>)
      BY <2>1
    <3>2. PICK x \in Slots : write_pairs(x) \/ commit_basics(x) \/ commit_create(x)
      BY <1>1, <2>1, <3>1, WhoWrites
    <3>3. x = s
      BY <2>1, <2>2, <3>2 DEF write_pairs, commit_basics, commit_create, Done, TypeOK
    <3>4. ~commit_create(s)
      BY <2>1, <2>2 DEF commit_create, InHand, CreateInHand
    <3>. QED BY <3>2, <3>3, <3>4
  <2>4. CASE write_pairs(s)
    <3>1. /\ PairsInHand(job[s], page[s])
          /\ carried' = (carried \ job[s].remove) \cup job[s].add
      BY <2>2, <2>4 DEF write_pairs, InHand
    <3>2. /\ page[s].side # "ticket" /\ job[s].posted \subseteq page[s].offered
          /\ job[s].add = job[s].posted \ page[s].ticked
          /\ job[s].remove = page[s].ticked \ job[s].posted
      BY <2>1, <3>1 DEF PairsInHand
    <3>3. page[s].ticked = page[s].offered \cap carried
      <4>1. page[s] = applies_to_page(page[s].side, page[s].id)
        BY <2>1, <3>2 DEF Shown
      <4>2. \A side, id : applies_to_page(side, id).ticked
                            = applies_to_page(side, id).offered \cap carried
        BY DEF applies_to_page
      <4>. QED BY <4>1, <4>2
    <3>. QED BY <3>1, <3>2, <3>3 DEF SavesItsBoxes
  <2>5. CASE commit_basics(s)
    <3>. DEFINE t == page[s].id
                typed == job[s].posted
    <3>1. /\ job[s].do = "ticket" /\ WriteValues(job[s].ticket, job[s].changes)
          /\ \A c \in job[s].changes : Fits(job[s].ticket, c)
          /\ tickets' = IF job[s].moves THEN [tickets EXCEPT ![job[s].ticket].queue = job[s].queue]
                        ELSE tickets
      BY <2>5 DEF commit_basics
    <3>2. BasicsInHand(job[s], page[s])
      BY <2>2, <3>1 DEF InHand
    <3>3. /\ page[s].side = "ticket" /\ t = job[s].ticket /\ t \in Tickets
          /\ tickets[t] # Absent
          /\ DOMAIN typed = DOMAIN page[s].inputs
          /\ \A c \in job[s].changes :
               c.field \in DOMAIN page[s].inputs /\ c.new = Cleaned[typed[c.field]]
          /\ ~job[s].moves => job[s].queue = page[s].queue
          /\ \A f \in DOMAIN page[s].inputs :
               Cleaned[typed[f]] # page[s].inputs[f] => \E c \in job[s].changes : c.field = f
      BY <2>1, <3>2 DEF BasicsInHand, Existing
    <3>4. job[s].changes \in SUBSET Change /\ DOMAIN page[s].inputs \in SUBSET Fields
      BY <2>2, <3>1, <3>3, JobForms, PageForms, PartialIs
    <3>5. /\ page[s].queue = tickets[t].queue
          /\ \A f \in DOMAIN page[s].inputs : page[s].inputs[f] = values[t][f]
      <4>1. page[s] = basics_form(page[s].user, t)
        BY <2>1, <3>3 DEF Shown
      <4>2. \A u : basics_form(u, t).queue = tickets[t].queue
                   /\ \A f \in DOMAIN basics_form(u, t).inputs :
                        basics_form(u, t).inputs[f] = values[t][f]
        BY DEF basics_form, ticket_values
      <4>. QED BY <4>1, <4>2
    <3>6. tickets' = [tickets EXCEPT ![t].queue = job[s].queue]
      <4>1. CASE job[s].moves
        BY <3>1, <3>3, <4>1
      <4>2. CASE ~job[s].moves
        <5>1. job[s].queue = tickets[t].queue /\ tickets' = tickets
          BY <3>1, <3>3, <3>5, <4>2
        <5>2. tickets[t] \in TicketRow /\ tickets \in [Tickets -> TicketRow \cup {Absent}]
          BY <2>2, <3>3 DEF TypeOK
        <5>3. [tickets[t] EXCEPT !.queue = tickets[t].queue] = tickets[t]
          BY <5>2 DEF TicketRow
        <5>. QED BY <5>1, <5>2, <5>3
      <4>. QED BY <4>1, <4>2
    <3>7. /\ values' \in [Tickets -> [Fields -> Values \cup {NoValue}]]
          /\ \A x \in Tickets, f \in Fields :
               values'[x][f] # values[x][f] => x = job[s].ticket
          /\ \A f \in Fields :
               \/ /\ \A c \in job[s].changes : c.field # f
                  /\ values'[job[s].ticket][f] = values[job[s].ticket][f]
               \/ \E c \in job[s].changes : c.field = f /\ values'[job[s].ticket][f] = c.new
      <4>1. job[s].ticket \in Tickets
        BY <3>3
      <4>. QED BY <2>2, <3>1, <3>4, <4>1, WriteDoes
    <3>8. /\ values \in [Tickets -> [Fields -> Values \cup {NoValue}]]
          /\ \A x \in Tickets \ {t} : \A f \in Fields : values'[x][f] = values[x][f]
      BY <2>2, <3>3, <3>7 DEF TypeOK
    <3>9. ASSUME NEW f \in Fields
          PROVE  values'[t][f] = IF f \in DOMAIN typed THEN Cleaned[typed[f]] ELSE values[t][f]
      <4>1. \/ (\A c \in job[s].changes : c.field # f) /\ values'[t][f] = values[t][f]
            \/ \E c \in job[s].changes : c.field = f /\ values'[t][f] = c.new
        BY <3>3, <3>7
      <4>. QED BY <3>3, <3>5, <4>1
    <3>10. values' = [values EXCEPT ![t] = [f \in Fields |->
                       IF f \in DOMAIN typed THEN Cleaned[typed[f]] ELSE @[f]]]
      <4>. DEFINE new == [f \in Fields |-> IF f \in DOMAIN typed THEN Cleaned[typed[f]]
                                           ELSE values[t][f]]
      <4>1. values'[t] = new
        BY <3>3, <3>7, <3>9
      <4>2. \A x \in Tickets \ {t} : values'[x] = values[x]
        BY <3>7, <3>8
      <4>. HIDE DEF new
      <4>3. values' = [values EXCEPT ![t] = new]
        BY <3>3, <3>7, <3>8, <4>1, <4>2
      <4>. QED BY <4>3 DEF new
    <3>. QED BY <3>3, <3>6, <3>10 DEF SavesItsInputs
  <2>. QED BY <2>3, <2>4, <2>5
<1>2. ASSUME IInv, [Next]_vars
      PROVE  [Exact]_vars
  BY <1>1, <1>2
<1>. QED BY <1>2, Invariant, PTL DEF SavesAreExact, Spec

----------------------------------------------------------------------------
(* Lists *)

Reaching == {g \in rights : g.right \in {"ShowTicket", "SuperUser"}}

\* A grant to `who` that shows the tickets of a queue.
ShownTo(who, q) == \E g \in Reaching : g.who = who /\ g.object \in {"system", q}

\* The roles of a ticket, as principals.
LEMMA RolesAsPrincipals ==
  ASSUME NEW u, NEW t, NEW who
  PROVE  who \in {"group"} \X Roles(u, t) <=>
           \/ who = <<"group", "Owner">> /\ tickets[t].owner = u
           \/ who = <<"group", "Requestor">> /\ tickets[t].requestor = u
<1>1. CASE tickets[t].owner = u /\ tickets[t].requestor = u
  <2>1. Roles(u, t) = {"Owner", "Requestor"}
    BY <1>1 DEF Roles
  <2>. QED BY <1>1, <2>1
<1>2. CASE tickets[t].owner = u /\ tickets[t].requestor # u
  <2>1. Roles(u, t) = {"Owner"}
    BY <1>2 DEF Roles
  <2>. QED BY <1>2, <2>1
<1>3. CASE tickets[t].owner # u /\ tickets[t].requestor = u
  <2>1. Roles(u, t) = {"Requestor"}
    BY <1>3 DEF Roles
  <2>. QED BY <1>3, <2>1
<1>4. CASE tickets[t].owner # u /\ tickets[t].requestor # u
  <2>1. Roles(u, t) = {}
    BY <1>4 DEF Roles
  <2>. QED BY <1>4, <2>1
<1>. QED BY <1>1, <1>2, <1>3, <1>4

\* The filter in SQL lets exactly the tickets through that the page opens.
LEMMA FilterIsThePage ==
  ASSUME NEW u \in SignedIn, NEW t \in Existing
  PROVE  visible_clause(visibility(Principals[u]), u, t) <=> Opens(u, t)
<1>. DEFINE held == Principals[u]
            q == tickets[t].queue
            own == \E g \in Reaching : g.who \in held /\ g.object \in {"system", q}
            some == \/ own
                    \/ ShownTo(<<"group", "Owner">>, q) /\ tickets[t].owner = u
                    \/ ShownTo(<<"group", "Requestor">>, q) /\ tickets[t].requestor = u
<1>1. u \in Users /\ held = Acl!principals(u) /\ held # {}
  BY DEF SignedIn, Principals, Acl!principals
<1>2. visible_clause(visibility(held), u, t) <=> some
  <2>. DEFINE seen == visibility(held)
              there == {"system", q}
  <2>1. seen["own"] = {g.object : g \in {x \in Reaching : x.who \in held}}
    BY DEF visibility, Reaching
  <2>2. /\ seen["Owner"] = {g.object : g \in {x \in Reaching : x.who = <<"group", "Owner">>}}
        /\ seen["Requestor"]
             = {g.object : g \in {x \in Reaching : x.who = <<"group", "Requestor">>}}
    BY DEF visibility, Reaching
  <2>3. visible_clause(seen, u, t) <=>
          \/ there \cap seen["own"] # {}
          \/ there \cap seen["Owner"] # {} /\ tickets[t].owner = u
          \/ there \cap seen["Requestor"] # {} /\ tickets[t].requestor = u
    <3>. HIDE DEF seen
    <3>. QED BY DEF visible_clause
  <2>. HIDE DEF seen, held, there
  <2>4. \A o : o \in seen["own"] <=> \E g \in Reaching : g.who \in held /\ g.object = o
    BY <2>1
  <2>5. /\ \A o : o \in seen["Owner"] <=>
                \E g \in Reaching : g.who = <<"group", "Owner">> /\ g.object = o
        /\ \A o : o \in seen["Requestor"] <=>
                \E g \in Reaching : g.who = <<"group", "Requestor">> /\ g.object = o
    BY <2>2
  <2>6. there \cap seen["own"] # {} <=> own
    BY <2>4 DEF there
  <2>7. there \cap seen["Owner"] # {} <=> ShownTo(<<"group", "Owner">>, q)
    BY <2>5 DEF there, ShownTo
  <2>8. there \cap seen["Requestor"] # {} <=> ShownTo(<<"group", "Requestor">>, q)
    BY <2>5 DEF there, ShownTo
  <2>. HIDE DEF own
  <2>9. visible_clause(seen, u, t) <=> some
    BY <2>3, <2>6, <2>7, <2>8
  <2>. QED BY <2>9 DEF seen
<1>3. Opens(u, t) <=>
        \E g \in Reaching : /\ g.who \in Acl!ticket_principals(u, Roles(u, t))
                            /\ g.object \in {"system", q}
  BY DEF Opens, HoldsOn, Acl!has_right, Reaching
<1>4. Acl!ticket_principals(u, Roles(u, t)) = held \cup ({"group"} \X Roles(u, t))
  <2>1. Roles(u, t) \cap BuiltIns \cap {"Owner", "Requestor"} = Roles(u, t)
    BY SearchConstants DEF Roles
  <2>. HIDE DEF held
  <2>. QED BY <1>1, <2>1 DEF Acl!ticket_principals
<1>5. Opens(u, t) <=>
        own \/ \E g \in Reaching : g.who \in {"group"} \X Roles(u, t) /\ g.object \in {"system", q}
  <2>. HIDE DEF held, q
  <2>. QED BY <1>3, <1>4
<1>6. (\E g \in Reaching : g.who \in {"group"} \X Roles(u, t) /\ g.object \in {"system", q}) <=>
        \/ ShownTo(<<"group", "Owner">>, q) /\ tickets[t].owner = u
        \/ ShownTo(<<"group", "Requestor">>, q) /\ tickets[t].requestor = u
  <2>. DEFINE there == {"system", q}
  <2>1. \A g : g \in Reaching =>
          (g.who \in {"group"} \X Roles(u, t) <=>
             \/ g.who = <<"group", "Owner">> /\ tickets[t].owner = u
             \/ g.who = <<"group", "Requestor">> /\ tickets[t].requestor = u)
    BY RolesAsPrincipals
  <2>. HIDE DEF there
  <2>2. (\E g \in Reaching : g.who \in {"group"} \X Roles(u, t) /\ g.object \in there) <=>
          \/ (\E g \in Reaching : g.who = <<"group", "Owner">> /\ g.object \in there)
               /\ tickets[t].owner = u
          \/ (\E g \in Reaching : g.who = <<"group", "Requestor">> /\ g.object \in there)
               /\ tickets[t].requestor = u
    BY <2>1
  <2>. QED BY <2>2 DEF ShownTo, there
<1>. HIDE DEF own
<1>. QED BY <1>2, <1>5, <1>6

\* A set of positions has a last one.
LEMMA LastOne ==
  ASSUME NEW n \in Nat, NEW S \in SUBSET (1 .. n), S # {}
  PROVE  \E i \in S : \A j \in S : j <= i
<1>. DEFINE before == {n - i : i \in S}
<1>1. before \subseteq Nat /\ before # {}
  <2>1. \A i \in S : n - i \in Nat
    OBVIOUS
  <2>2. PICK i \in S : TRUE
    OBVIOUS
  <2>3. n - i \in before
    BY <2>2
  <2>. QED BY <2>1, <2>3
<1>2. PICK x \in before : \A y \in before : <<y, x>> \notin OpToRel(<, Nat)
  BY <1>1, WFMin, NatLessThanWellFounded
<1>3. PICK i \in S : x = n - i
  OBVIOUS
<1>4. ASSUME NEW j \in S
      PROVE  j <= i
  <2>1. n - j \in before /\ n - j \in Nat /\ n - i \in Nat
    BY <1>1
  <2>2. ~(n - j < n - i)
    BY <1>2, <1>3, <2>1 DEF OpToRel
  <2>. QED BY <2>2
<1>. QED BY <1>4

\* The words, and the status, that parse takes out of a box are what it asks
\* for, unless it asks for one ticket by its number.
LEMMA ParseAsks ==
  ASSUME NEW box \in Boxes, NEW t, parse(box).ticket = 0
  PROVE  LET query == parse(box)
         IN  Asks(box, t) <=> /\ query.words # {} /\ query.words \subseteq Says[t]
                              /\ status_clause(query.status, t)
<1>. DEFINE query == parse(box)
            Means == STATUSES \cup {"any"}
            words == {i \in DOMAIN box : box[i].is \in {"word", "digits"}}
            known == {i \in DOMAIN box : box[i].is = "status" /\ box[i].text \in Means}
            asked == {k \in {box[i] : i \in DOMAIN box} : k.is \in {"word", "digits"}}
            Lifted(i) == i \in known /\ box[i].text \in {"any", tickets[t].status}
            wanted == \/ \E i \in DOMAIN box :
                           Lifted(i) /\ \A j \in DOMAIN box : j > i => j \notin known
                      \/ (\A i \in DOMAIN box : i \notin known) /\ tickets[t].status \in Active
<1>1. Len(box) \in Nat /\ DOMAIN box = 1 .. Len(box)
  BY SearchConstants
<1>2. Asks(box, t) <=> asked # {} /\ asked \subseteq Says[t] /\ wanted
  BY DEF Asks
<1>3. query.words = asked
  <2>. DEFINE lone == Cardinality(words) = 1
                        /\ \A i \in words : box[i].is = "digits" /\ box[i].number > 0
  <2>1. /\ query.words = IF lone THEN {} ELSE {box[i] : i \in words}
        /\ query.ticket = IF lone THEN box[CHOOSE i \in words : TRUE].number ELSE 0
    BY DEF parse
  <2>2. ~lone
    <3>1. SUFFICES ASSUME lone PROVE FALSE
      OBVIOUS
    <3>2. words # {}
      <4>. HIDE DEF words
      <4>1. Cardinality(words) = 1
        BY <3>1
      <4>. QED BY <4>1, FS_EmptySet
    <3>3. (CHOOSE i \in words : TRUE) \in words
      BY <3>2
    <3>. HIDE DEF words
    <3>. QED BY <2>1, <3>1, <3>3
  <2>. HIDE DEF lone
  <2>. QED BY <2>1, <2>2
<1>4. query.status = IF known = {} THEN ""
                     ELSE box[CHOOSE i \in known : \A j \in known : j <= i].text
  BY DEF parse
<1>. HIDE DEF query, asked
<1>5. wanted <=> status_clause(query.status, t)
  <2>1. CASE known = {}
    <3>1. query.status = ""
      BY <1>4, <2>1
    <3>. QED BY <2>1, <3>1 DEF status_clause
  <2>2. CASE known # {}
    <3>. DEFINE last == CHOOSE i \in known : \A j \in known : j <= i
    <3>1. \E i \in known : \A j \in known : j <= i
      <4>. HIDE DEF known
      <4>1. known \in SUBSET (1 .. Len(box))
        BY <1>1 DEF known
      <4>. QED BY <1>1, <2>2, <4>1, LastOne
    <3>2. last \in known /\ \A j \in known : j <= last
      BY <3>1
    <3>. HIDE DEF last
    <3>3. query.status = box[last].text /\ box[last].text \in Means
      BY <1>4, <2>2, <3>2 DEF last
    <3>4. wanted <=> box[last].text \in {"any", tickets[t].status}
      <4>1. ASSUME NEW i \in DOMAIN box, Lifted(i), \A j \in DOMAIN box : j > i => j \notin known
            PROVE  i = last
        BY <1>1, <3>2, <4>1
      <4>2. ASSUME NEW j \in DOMAIN box, j > last
            PROVE  j \notin known
        BY <1>1, <3>2, <4>2
      <4>. QED BY <1>1, <3>2, <4>1, <4>2
    <3>5. box[last].text # ""
      BY <3>3 DEF STATUSES
    <3>. HIDE DEF wanted
    <3>. QED BY <3>3, <3>4, <3>5 DEF status_clause
  <2>. QED BY <2>1, <2>2
<1>. HIDE DEF wanted
<1>. QED BY <1>2, <1>3, <1>5 DEF query

\* The search gives, of the tickets the page opens, the newest that the box
\* asks for (search/service.py:238, tickets/router.py:296): in every state, for
\* all grants, people, limits and boxes.
THEOREM SearchAgrees == Spec => []SearchIsThePage
<1>1. SearchIsThePage
  <2>1. SUFFICES ASSUME NEW u \in SignedIn, NEW box \in Boxes, parse(box).ticket = 0
                 PROVE  results(u, parse(box))
                          = Newest(RESULT_LIMIT,
                                   {t \in {x \in Existing : Opens(u, x)} : Asks(box, t)})
    BY DEF SearchIsThePage
  <2>. DEFINE query == parse(box)
  <2>2. \A t \in Existing : visible_clause(visibility(Principals[u]), u, t) <=> Opens(u, t)
    BY FilterIsThePage
  <2>3. \A t : Asks(box, t) <=> /\ query.words # {} /\ query.words \subseteq Says[t]
                                /\ status_clause(query.status, t)
    BY <2>1, ParseAsks
  <2>. HIDE DEF query
  <2>4. CASE query.words = {}
    <3>1. {t \in {x \in Existing : Opens(u, x)} : Asks(box, t)} = {}
      BY <2>3, <2>4
    <3>2. Newest(RESULT_LIMIT, {}) = {}
      BY DEF Newest
    <3>. QED BY <2>4, <3>1, <3>2 DEF results, query
  <2>5. CASE query.words # {}
    <3>1. {t \in Existing : /\ query.words \subseteq Says[t]
                            /\ status_clause(query.status, t)
                            /\ visible_clause(visibility(Principals[u]), u, t)}
            = {t \in {x \in Existing : Opens(u, x)} : Asks(box, t)}
      BY <2>2, <2>3, <2>5
    <3>2. results(u, query)
            = Newest(RESULT_LIMIT,
                     {t \in Existing : /\ query.words \subseteq Says[t]
                                       /\ status_clause(query.status, t)
                                       /\ visible_clause(visibility(Principals[u]), u, t)})
      BY <2>5 DEF results
    <3>. QED BY <3>1, <3>2 DEF query
  <2>. QED BY <2>4, <2>5
<1>. QED BY <1>1, PTL

\* Whatever is granted and to whom, each row of the home page opens, and each
\* active ticket that opens is missing from its box for one of the two reasons
\* HomeShowsWhatOpens names (web/home.py:60-92).
THEOREM HomeAgrees == Spec => []HomeShowsWhatOpens
<1>1. HomeShowsWhatOpens
  <2>1. SUFFICES ASSUME NEW u \in SignedIn
                 PROVE  /\ \A t \in owned_tickets(u) \cup unowned_tickets(u) : Opens(u, t)
                        /\ \A t \in ActiveOf(u) \ owned_tickets(u) :
                             Opens(u, t) =>
                               \/ ByRoleOnly(u, t)
                               \/ Cardinality({x \in ActiveOf(u) : Higher(x, t)}) >= GLANCE_LIMIT
                        /\ \A t \in ActiveOf(nobody) \ unowned_tickets(u) :
                             Opens(u, t) =>
                               \/ ByRoleOnly(u, t)
                               \/ Cardinality({x \in ActiveOf(nobody) : Newer(x, t)}) >= GLANCE_LIMIT
    BY DEF HomeShowsWhatOpens
  <2>2. \A who, S : S \in SUBSET ActiveOf(who) => Cardinality(S) \in Nat
    <3>1. \A who : ActiveOf(who) \subseteq Tickets
      BY DEF ActiveOf, Existing
    <3>. QED BY <3>1, FS_Subset, FS_CardinalityType, SearchConstants
  <2>3. ASSUME NEW t \in Existing, Holds(u, "ShowTicket", tickets[t].queue)
        PROVE  Opens(u, t)
    <3>1. u \in Users /\ Principals[u] = Acl!principals(u) /\ Acl!principals(u) # {}
      BY DEF SignedIn, Principals, Acl!principals
    <3>2. Principals[u] \subseteq Acl!ticket_principals(u, Roles(u, t))
      BY <3>1 DEF Acl!ticket_principals
    <3>. QED BY <2>3, <3>2 DEF Opens, HoldsOn, Holds, Acl!has_right
  <2>4. \A who : ActiveOf(who) \subseteq Existing
    BY DEF ActiveOf
  <2>5. /\ owned_tickets(u) = {t \in Highest(GLANCE_LIMIT, ActiveOf(u)) :
                                 Holds(u, "ShowTicket", tickets[t].queue)}
        /\ unowned_tickets(u) = {t \in Newest(GLANCE_LIMIT, ActiveOf(nobody)) :
                                   Holds(u, "ShowTicket", tickets[t].queue)}
    BY DEF owned_tickets, unowned_tickets, visible
  <2>6. \A n, S : Highest(n, S) \subseteq S /\ Newest(n, S) \subseteq S
    BY DEF Highest, Newest
  <2>7. \A t \in owned_tickets(u) \cup unowned_tickets(u) : Opens(u, t)
    BY <2>3, <2>4, <2>5, <2>6
  <2>8. ASSUME NEW t \in ActiveOf(u) \ owned_tickets(u), Opens(u, t), ~ByRoleOnly(u, t)
        PROVE  Cardinality({x \in ActiveOf(u) : Higher(x, t)}) >= GLANCE_LIMIT
    <3>1. t \notin Highest(GLANCE_LIMIT, ActiveOf(u))
      BY <2>5, <2>8 DEF ByRoleOnly
    <3>2. ~(Cardinality({x \in ActiveOf(u) : Higher(x, t)}) < GLANCE_LIMIT)
      BY <3>1 DEF Highest
    <3>3. Cardinality({x \in ActiveOf(u) : Higher(x, t)}) \in Nat
      BY <2>2
    <3>. QED BY <3>2, <3>3, SearchConstants
  <2>9. ASSUME NEW t \in ActiveOf(nobody) \ unowned_tickets(u), Opens(u, t), ~ByRoleOnly(u, t)
        PROVE  Cardinality({x \in ActiveOf(nobody) : Newer(x, t)}) >= GLANCE_LIMIT
    <3>1. t \notin Newest(GLANCE_LIMIT, ActiveOf(nobody))
      BY <2>5, <2>9 DEF ByRoleOnly
    <3>2. ~(Cardinality({x \in ActiveOf(nobody) : Newer(x, t)}) < GLANCE_LIMIT)
      BY <3>1 DEF Newest
    <3>3. Cardinality({x \in ActiveOf(nobody) : Newer(x, t)}) \in Nat
      BY <2>2
    <3>. QED BY <3>2, <3>3, SearchConstants
  <2>. QED BY <2>7, <2>8, <2>9
<1>. QED BY <1>1, PTL
==============================================================================
