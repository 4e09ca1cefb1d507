---------------------------- MODULE GatewayProofs ----------------------------
(***************************************************************************)
(* Theorems about Gateway.  The tables only ever gain: names, messages and *)
(* sent mail stay, and what a queue or a ticket loses it shows (retagged,  *)
(* moved).  So what a delivery read in its snapshot keeps a meaning until  *)
(* its write, and one delivery moves at a time.                            *)
(***************************************************************************)
EXTENDS Gateway, SequenceTheorems, WellFoundedInduction, TLAPS

----------------------------------------------------------------------------
(* Tables as sequences *)

\* The ids of a table, and its rows.
LEMMA Table ==
  ASSUME NEW S, NEW s \in Seq(S)
  PROVE  /\ Len(s) \in Nat /\ DOMAIN s = 1 .. Len(s)
         /\ \A i \in DOMAIN s : s[i] \in S /\ i \in Nat /\ i # 0
  BY LenProperties

\* A row is changed.
LEMMA Replaced ==
  ASSUME NEW S, NEW s \in Seq(S), NEW i \in DOMAIN s, NEW e \in S
  PROVE  LET t == [s EXCEPT ![i] = e]
         IN  /\ t \in Seq(S) /\ DOMAIN t = DOMAIN s /\ t[i] = e
             /\ \A j \in DOMAIN s : j # i => t[j] = s[j]
  BY Table, ExceptSeq

\* A row is added, under a new id.
LEMMA Appended ==
  ASSUME NEW S, NEW s \in Seq(S), NEW e \in S
  PROVE  LET t == Append(s, e)
         IN  /\ t \in Seq(S) /\ DOMAIN t = DOMAIN s \cup {Len(s) + 1}
             /\ Len(s) + 1 \notin DOMAIN s /\ t[Len(s) + 1] = e
             /\ \A j \in DOMAIN s : t[j] = s[j]
<1>. DEFINE t == Append(s, e)
<1>1. /\ t \in Seq(S) /\ Len(t) = Len(s) + 1 /\ t[Len(s) + 1] = e
      /\ \A j \in 1 .. Len(s) : t[j] = s[j]
  BY AppendProperties
<1>. HIDE DEF t
<1>2. Len(s) \in Nat /\ DOMAIN s = 1 .. Len(s) /\ DOMAIN t = 1 .. Len(s) + 1
  BY <1>1, Table
<1>. QED BY <1>1, <1>2 DEF t

\* A set of ids has a least one.
LEMMA LeastOne ==
  ASSUME NEW S \in SUBSET Nat, S # {}
  PROVE  \E i \in S : \A j \in S : i <= j
<1>1. PICK i \in S : \A j \in S : <<j, i>> \notin OpToRel(<, Nat)
  BY WFMin, NatLessThanWellFounded
<1>2. ASSUME NEW j \in S
      PROVE  i <= j
  <2>1. i \in Nat /\ j \in Nat
    OBVIOUS
  <2>2. ~(j < i)
    BY <1>1, <2>1 DEF OpToRel
  <2>. QED BY <2>1, <2>2
<1>. QED BY <1>2

\* The tables and what is in them.
LEMMA Rows ==
  ASSUME TypeOK
  PROVE  /\ \A u \in DOMAIN users : users[u] \in UserRow /\ u \in Nat /\ u # 0
         /\ \A t \in DOMAIN tickets : tickets[t] \in TicketRow /\ t \in Nat /\ t # 0
         /\ \A d \in DOMAIN runs : runs[d] \in Run /\ d \in Nat /\ d # 0
         /\ \A q \in Queues : queues[q] # None => queues[q] \in QueueRow
  BY Table DEF TypeOK

\* The sender is looked up among the users there are.
LEMMA UserFound ==
  ASSUME TypeOK, NEW address
  PROVE  LET u == user_by_email(address)
         IN  /\ u = 0 => \A v \in DOMAIN users : users[v].email # address
             /\ u # 0 => u \in DOMAIN users /\ users[u].email = address
<1>. DEFINE found == {u \in DOMAIN users : users[u].email = address}
            Oldest(u) == u \in found /\ \A v \in found : u <= v
<1>1. \A u \in found : u \in Nat /\ u # 0
  BY Rows
<1>2. CASE found = {}
  BY <1>2 DEF user_by_email
<1>3. CASE found # {}
  <2>1. \E u \in found : \A v \in found : u <= v
    <3>1. found \in SUBSET Nat
      BY <1>1
    <3>. HIDE DEF found
    <3>. QED BY <1>3, <3>1, LeastOne
  <2>2. user_by_email(address) = CHOOSE u \in found : \A v \in found : u <= v
    BY <1>3 DEF user_by_email
  <2>3. user_by_email(address) \in found
    BY <2>1, <2>2
  <2>. QED BY <1>1, <2>3
<1>. QED BY <1>2, <1>3
----------------------------------------------------------------------------
(* What no step takes away *)

\* A step at delivery d, 0 for an administrator: it changes no other delivery,
\* no name, no message; it files nothing but d's message; what it takes from a
\* user, a ticket or a queue is marked.
Grows(d) ==
  /\ \A u \in DOMAIN users :
       /\ u \in DOMAIN users'
       /\ users'[u].name = users[u].name /\ users'[u].by = users[u].by
       /\ users[u].edited => users'[u].edited
       /\ users'[u].edited \/ users'[u].email = users[u].email
  /\ \A u \in DOMAIN users' \ DOMAIN users :
       /\ d \in DOMAIN runs /\ Inserted(d)
       /\ users'[u].by = d /\ users'[u].name = runs[d].mail.letter.from
       /\ \A v \in DOMAIN users' \ DOMAIN users : u = v
  /\ \A t \in DOMAIN tickets :
       /\ t \in DOMAIN tickets' /\ tickets[t].rows \subseteq tickets'[t].rows
       /\ tickets[t].moved => tickets'[t].moved
       /\ tickets'[t].moved \/ tickets'[t].queue = tickets[t].queue
  /\ \A t \in DOMAIN tickets' : \A e \in tickets'[t].rows :
       e = d \/ (t \in DOMAIN tickets /\ e \in tickets[t].rows)
  /\ \A q \in Queues : queues[q] # None =>
       /\ queues'[q] # None
       /\ queues[q].retagged => queues'[q].retagged
       /\ queues'[q].retagged \/ queues'[q].tag = queues[q].tag
  /\ sent \subseteq sent'
  /\ \A e \in DOMAIN runs :
       /\ e \in DOMAIN runs'
       /\ runs'[e].first = runs[e].first /\ runs'[e].mail = runs[e].mail
       /\ e # d => runs'[e] = runs[e]
  /\ DOMAIN runs' \subseteq DOMAIN runs \cup {d}

\* A loose ticket stays loose.
LEMMA LooseStays ==
  ASSUME IInv, NEW d, Grows(d), NEW t \in DOMAIN tickets
  PROVE  /\ t \in DOMAIN tickets' /\ tickets[t].queue \in Queues
         /\ queues'[tickets[t].queue] # None
         /\ Loose(t) => Loose(t)'
         /\ ~Loose(t)' =>
              /\ tickets'[t].queue = tickets[t].queue
              /\ subject_tag_for(tickets[t].queue)' = subject_tag_for(tickets[t].queue)
<1>1. tickets[t].queue \in Queues /\ queues[tickets[t].queue] # None
  BY Rows DEF IInv, TablesOK, TicketRow
<1>2. /\ t \in DOMAIN tickets'
      /\ tickets[t].moved => tickets'[t].moved
      /\ tickets'[t].moved \/ tickets'[t].queue = tickets[t].queue
  BY DEF Grows
<1>3. /\ queues'[tickets[t].queue] # None
      /\ queues[tickets[t].queue].retagged => queues'[tickets[t].queue].retagged
      /\ \/ queues'[tickets[t].queue].retagged
         \/ queues'[tickets[t].queue].tag = queues[tickets[t].queue].tag
  BY <1>1 DEF Grows
<1>. QED BY <1>1, <1>2, <1>3 DEF Loose, subject_tag_for

\* A tag that stands goes on standing.
LEMMA TagsStay ==
  ASSUME IInv, NEW d, Grows(d), NEW tag, TagStands(tag)
  PROVE  TagStands(tag)'
  BY LooseStays DEF TagStands

\* A message stays where it was headed, and so does what was decided about it.
LEMMA HandsStay ==
  ASSUME IInv, NEW d, Grows(d), NEW e \in DOMAIN runs, runs'[e] = runs[e]
  PROVE  /\ runs[e].at \in Steps => InHand(e)'
         /\ Aimed(e) => Aimed(e)'
<1>1. ASSUME runs[e].at \in Steps
      PROVE  InHand(e)'
  <2>1. InHand(e)
    BY <1>1 DEF IInv, RunOK
  <2>2. runs[e].tag \in {SiteName, subject_tag_for(runs[e].gate)} \/ queues[runs[e].gate].retagged
    BY <2>1 DEF InHand
  <2>3. /\ queues'[runs[e].gate] # None
        /\ queues[runs[e].gate].retagged => queues'[runs[e].gate].retagged
        /\ \/ queues'[runs[e].gate].retagged
           \/ queues'[runs[e].gate].tag = queues[runs[e].gate].tag
        /\ queues'[runs[e].queue] # None
    BY <2>1 DEF InHand, Grows
  <2>4. \/ runs[e].tag \in {SiteName, subject_tag_for(runs[e].gate)'}
        \/ queues'[runs[e].gate].retagged
    BY <2>2, <2>3 DEF subject_tag_for
  <2>5. {runs[e].sender, runs[e].requestor} \subseteq {0} \cup DOMAIN users'
    BY <2>1 DEF InHand, Grows
  <2>6. runs[e].ticket # 0 =>
          /\ runs[e].ticket \in DOMAIN tickets'
          /\ runs[e].queue = tickets'[runs[e].ticket].queue \/ tickets'[runs[e].ticket].moved
    BY <2>1 DEF InHand, Grows
  <2>. QED BY <2>1, <2>3, <2>4, <2>5, <2>6 DEF InHand
<1>2. ASSUME Aimed(e)
      PROVE  Aimed(e)'
  BY <1>2, LooseStays DEF Aimed
<1>. QED BY <1>1, <1>2

\* Nothing is filed, and no user made, for another delivery than the one that moves.
LEMMA OthersStay ==
  ASSUME IInv, NEW d, Grows(d), NEW e \in DOMAIN runs, e # d
  PROVE  RunOK(e)'
<1>1. runs'[e] = runs[e] /\ RunOK(e)
  BY DEF Grows, IInv
<1>2. Filed(e)' <=> Filed(e)
  BY DEF Grows, Filed
<1>3. (\E u \in DOMAIN users' : users'[u].by = e) => \E u \in DOMAIN users : users[u].by = e
  BY DEF Grows
<1>4. runs[e].first \in DOMAIN runs'
      /\ runs'[e].mail = runs'[runs'[e].first].mail
  BY <1>1 DEF RunOK, Grows
<1>5. runs[e].mail.tag # None =>
        runs[e].mail.tag.name = Foreign \/ \E s \in sent' : s.tag = runs[e].mail.tag
  BY <1>1 DEF RunOK, Grows
<1>6. runs[e].at \in Steps => InHand(e)'
  BY <1>1, HandsStay
<1>7. runs[e].ticket \in DOMAIN tickets /\ e \in tickets[runs[e].ticket].rows =>
        runs[e].ticket \in DOMAIN tickets' /\ e \in tickets'[runs[e].ticket].rows
  BY DEF Grows
<1>8. NameTaken(runs[e].mail.letter.from) => NameTaken(runs[e].mail.letter.from)'
  BY DEF NameTaken, Grows
<1>9. Aimed(e) => Aimed(e)'
  BY <1>1, HandsStay
<1>. QED BY <1>1, <1>2, <1>3, <1>4, <1>5, <1>6, <1>7, <1>8, <1>9 DEF RunOK

\* A name that is lost to its address stays lost.
LEMMA LostStays ==
  ASSUME NEW d, Grows(d), NEW name, NameIsLost(name)
  PROVE  NameIsLost(name)'
  BY DEF NameIsLost, Grows

\* What a step at d has to show beside Grows(d).
LEMMA OneStep ==
  ASSUME IInv, TypeOK', NEW d \in Nat, Grows(d), d = 0 \/ d \in DOMAIN runs',
         d # 0 => RunOK(d)',
         d # 0 => \A e \in DOMAIN runs \ {d} : PairOK(d, e)',
         d # 0 /\ Inserted(d)' =>
            \A u \in DOMAIN users' : users'[u].name # runs'[d].mail.letter.from,
         \A t \in DOMAIN tickets' :
           /\ queues'[tickets'[t].queue] # None
           /\ tickets'[t].requestor \in DOMAIN users'
           /\ d \in tickets'[t].rows => d # 0 /\ runs'[d].ticket = t,
         \A s \in sent' \ sent : TagStands(s.tag)'
  PROVE  IInv'
<1>1. \A e \in DOMAIN runs' : e # d => e \in DOMAIN runs /\ runs'[e] = runs[e]
  BY DEF Grows
<1>2. 0 \notin DOMAIN runs /\ 0 \notin DOMAIN runs'
  <2>1. 0 \notin DOMAIN runs
    BY Rows DEF IInv
  <2>2. runs' \in Seq(Run)
    BY DEF TypeOK
  <2>. QED BY <2>1, <2>2, Table
<1>3. \A e \in DOMAIN runs' : RunOK(e)'
  BY <1>1, <1>2, OthersStay
<1>4. TablesOK'
  <2>1. ASSUME NEW t \in DOMAIN tickets', NEW e \in tickets'[t].rows
        PROVE  e \in DOMAIN runs' /\ runs'[e].ticket = t
    BY <1>1 DEF Grows, IInv, TablesOK
  <2>2. ASSUME NEW u \in DOMAIN users', users'[u].by # 0
        PROVE  users'[u].by \in DOMAIN runs'
    BY <2>2 DEF Grows, IInv, TablesOK
  <2>3. \A s \in sent' : TagStands(s.tag)'
    BY TagsStay DEF IInv, TablesOK
  <2>. QED BY <2>1, <2>2, <2>3 DEF TablesOK
<1>5. OneUserPerSender'
  <2>. SUFFICES ASSUME NEW u \in DOMAIN users', NEW v \in DOMAIN users', u # v,
                       users'[u].by # 0, users'[v].by # 0
                PROVE  users'[u].name # users'[v].name
    BY DEF OneUserPerSender
  <2>1. CASE u \in DOMAIN users /\ v \in DOMAIN users
    BY <2>1 DEF IInv, OneUserPerSender, Grows
  <2>2. CASE u \notin DOMAIN users /\ v \in DOMAIN users
    BY <2>2 DEF IInv, NameTaken, Grows
  <2>3. CASE u \in DOMAIN users /\ v \notin DOMAIN users
    BY <2>3 DEF IInv, NameTaken, Grows
  <2>4. CASE u \notin DOMAIN users /\ v \notin DOMAIN users
    BY <2>4 DEF Grows
  <2>. QED BY <2>1, <2>2, <2>3, <2>4
<1>6. ASSUME NEW e \in DOMAIN runs', Inserted(e)'
      PROVE  ~NameTaken(runs[e].mail.letter.from)'
  <2>1. CASE e = d
    BY <1>2, <1>6, <2>1 DEF NameTaken
  <2>2. CASE e # d
    <3>1. e \in DOMAIN runs /\ runs'[e] = runs[e] /\ Inserted(e)
      BY <1>1, <1>6, <2>2 DEF Inserted
    <3>2. \A u \in DOMAIN users : users[u].name # runs[e].mail.letter.from
      BY <3>1 DEF IInv, NameTaken
    <3>3. \A u \in DOMAIN users' \ DOMAIN users : users'[u].name # runs[e].mail.letter.from
      <4>. SUFFICES ASSUME NEW u \in DOMAIN users' \ DOMAIN users
                    PROVE  users'[u].name # runs[e].mail.letter.from
        OBVIOUS
      <4>1. d \in DOMAIN runs /\ Inserted(d) /\ users'[u].name = runs[d].mail.letter.from
        BY DEF Grows
      <4>2. PairOK(d, e)
        BY <2>2, <3>1, <4>1 DEF IInv
      <4>. QED BY <3>1, <4>1, <4>2 DEF PairOK
    <3>. QED BY <3>1, <3>2, <3>3 DEF NameTaken, Grows
  <2>. QED BY <2>1, <2>2
<1>7. ASSUME NEW e \in DOMAIN runs', NEW f \in DOMAIN runs', e # f
      PROVE  PairOK(e, f)'
  <2>1. CASE e = d
    BY <1>1, <1>2, <1>7, <2>1
  <2>2. CASE f = d
    <3>1. PairOK(f, e)'
      BY <1>1, <1>2, <1>7, <2>2
    <3>2. runs'[e].first = runs'[f].first => runs'[e].mail = runs'[f].mail
      <4>1. RunOK(e)' /\ RunOK(f)'
        BY <1>3
      <4>2. /\ runs'[e].mail = runs'[runs'[e].first].mail
            /\ runs'[f].mail = runs'[runs'[f].first].mail
        BY <4>1 DEF RunOK
      <4>. QED BY <4>2
    <3>. QED BY <3>1, <3>2 DEF PairOK
  <2>3. CASE e # d /\ f # d
    <3>1. /\ e \in DOMAIN runs /\ runs'[e] = runs[e] /\ f \in DOMAIN runs /\ runs'[f] = runs[f]
          /\ PairOK(e, f)
      BY <1>1, <1>7, <2>3 DEF IInv
    <3>2. NameIsLost(runs[e].mail.letter.from) => NameIsLost(runs[e].mail.letter.from)'
      BY <3>1, LostStays
    <3>. QED BY <3>1, <3>2 DEF PairOK, Inserted
  <2>. QED BY <2>1, <2>2, <2>3
<1>. QED BY <1>3, <1>4, <1>5, <1>6, <1>7 DEF IInv
----------------------------------------------------------------------------
(* A delivery moves on, and only it *)

\* Another row for delivery d, of the same message and the same ticket.
LEMMA RowMoves ==
  ASSUME IInv, NEW d \in DOMAIN runs, NEW r \in Run,
         runs' = [runs EXCEPT ![d] = r],
         r.mail = runs[d].mail, r.first = runs[d].first, r.ticket = runs[d].ticket,
         UNCHANGED <<users, queues, tickets, sent, edits>>
  PROVE  /\ TypeOK' /\ Grows(d) /\ d \in DOMAIN runs' /\ d \in Nat /\ d # 0 /\ runs'[d] = r
         /\ \A e \in DOMAIN runs \ {d} : runs'[e] = runs[e]
         /\ \A t \in DOMAIN tickets' :
              /\ queues'[tickets'[t].queue] # None
              /\ tickets'[t].requestor \in DOMAIN users'
              /\ d \in tickets'[t].rows => d # 0 /\ runs'[d].ticket = t
<1>1. runs \in Seq(Run) /\ d \in Nat /\ d # 0
  BY Rows DEF IInv, TypeOK
<1>2. /\ runs' \in Seq(Run) /\ DOMAIN runs' = DOMAIN runs /\ runs'[d] = r
      /\ \A e \in DOMAIN runs : e # d => runs'[e] = runs[e]
  <2>. DEFINE t == [runs EXCEPT ![d] = r]
  <2>1. /\ t \in Seq(Run) /\ DOMAIN t = DOMAIN runs /\ t[d] = r
        /\ \A j \in DOMAIN runs : j # d => t[j] = runs[j]
    BY <1>1, Replaced
  <2>. QED BY <2>1
<1>3. TypeOK'
  BY <1>2 DEF IInv, TypeOK
<1>4. Grows(d)
  BY <1>2 DEF Grows
<1>. QED BY <1>1, <1>2, <1>3, <1>4 DEF IInv, TablesOK

LEMMA TwoIds ==
  ASSUME NEW d \in Nat, NEW e \in Nat, d # e, ~(d < e)
  PROVE  \A x, y \in {d, e} : x < y => x = e /\ e < d
  OBVIOUS

\* The delivery that moves is the last of its message: every earlier one is over.
LEMMA PairMoves ==
  ASSUME IInv, NEW d \in DOMAIN runs, NEW e \in DOMAIN runs \ {d}, Grows(d),
         runs[d].at \in Steps, runs'[d].at # "insert",
         runs'[d].at = "name taken" => runs[d].at = "insert",
         Inserted(d)' /\ Inserted(e) => runs[d].mail.letter.from # runs[e].mail.letter.from
  PROVE  PairOK(d, e)'
<1>1. PairOK(d, e) /\ d \in Nat /\ e \in Nat
  BY Rows DEF IInv
<1>2. /\ runs'[e] = runs[e] /\ runs'[d].first = runs[d].first /\ runs'[d].mail = runs[d].mail
      /\ Inserted(e)' <=> Inserted(e)
  BY DEF Grows, Inserted
<1>3. ASSUME runs[d].first = runs[e].first
      PROVE  /\ \A x, y \in {d, e} : x < y => runs'[x].at \in Outcomes \ {"ok"}
             /\ {runs'[d].at, runs'[e].at} \subseteq {"insert", "name taken"}
                   => NameIsLost(runs[d].mail.letter.from)
  <2>1. ~(d < e) /\ (e < d => runs[e].at \in Outcomes \ {"ok"})
    BY <1>1, <1>3 DEF PairOK, Steps, Outcomes
  <2>2. \A x, y \in {d, e} : x < y => x = e /\ e < d
    BY ONLY <1>1, <2>1, d # e, TwoIds
  <2>3. runs'[d].at = "name taken" => runs[d].at = "insert"
    OBVIOUS
  <2>. QED BY <1>1, <1>2, <1>3, <2>1, <2>2, <2>3 DEF PairOK
<1>4. NameIsLost(runs[d].mail.letter.from) => NameIsLost(runs[d].mail.letter.from)'
  <2>1. PICK name : name = runs[d].mail.letter.from
    OBVIOUS
  <2>2. name = runs'[d].mail.letter.from
    BY <1>2, <2>1
  <2>3. NameIsLost(name) => NameIsLost(name)'
    BY LostStays
  <2>. QED BY <2>1, <2>2, <2>3
<1>. QED BY <1>2, <1>3, <1>4 DEF PairOK

\* A message keeps its first delivery, its text and the tag it answers.
LEMMA MessageStays ==
  ASSUME IInv, NEW d, Grows(d), NEW e \in DOMAIN runs
  PROVE  /\ runs'[e].first \in DOMAIN runs' /\ runs'[e].mail = runs'[runs'[e].first].mail
         /\ runs'[e].mail.tag # None =>
              runs'[e].mail.tag.name = Foreign \/ \E s \in sent' : s.tag = runs'[e].mail.tag
<1>1. /\ runs[e].first \in DOMAIN runs /\ runs[e].mail = runs[runs[e].first].mail
      /\ runs[e].mail.tag # None =>
              runs[e].mail.tag.name = Foreign \/ \E s \in sent : s.tag = runs[e].mail.tag
  BY DEF IInv, RunOK
<1>2. /\ \A f \in DOMAIN runs :
           f \in DOMAIN runs' /\ runs'[f].first = runs[f].first /\ runs'[f].mail = runs[f].mail
      /\ sent \subseteq sent'
  BY DEF Grows
<1>. QED BY <1>1, <1>2

\* What is left of a delivery that is over.
LEMMA GoneRow ==
  ASSUME NEW d, runs[d] \in Run, NEW outcome \in Outcomes, NEW t \in Nat
  PROVE  /\ Gone(d, outcome, t) \in Run
         /\ Gone(d, outcome, t).at = outcome /\ Gone(d, outcome, t).ticket = t
         /\ Gone(d, outcome, t).sender = 0
         /\ Gone(d, outcome, t).mail = runs[d].mail /\ Gone(d, outcome, t).first = runs[d].first
  BY GatewayConstants DEF Gone, Refused, Run

\* A delivery is over: it says so, or nobody hears it.
LEMMA EndKeeps ==
  ASSUME IInv, NEW d \in DOMAIN runs, NEW outcome \in Outcomes, end(d, outcome),
         runs[d].at \in Steps,
         outcome = "ok" => runs[d].at = "exit",
         outcome = "not ok" => runs[d].at \in {"insert", "write"},
         outcome = "name taken" => runs[d].at = "insert" /\ NameTaken(runs[d].mail.letter.from)
  PROVE  IInv'
<1>. DEFINE r == Gone(d, outcome, runs[d].ticket)
<1>1. runs[d] \in Run /\ RunOK(d)
  BY Rows DEF IInv
<1>2. /\ r \in Run /\ r.at = outcome /\ r.sender = 0
      /\ r.mail = runs[d].mail /\ r.first = runs[d].first /\ r.ticket = runs[d].ticket
  <2>1. PICK t \in Nat : t = runs[d].ticket
    BY <1>1 DEF Run
  <2>2. /\ Gone(d, outcome, t) \in Run
        /\ Gone(d, outcome, t).at = outcome /\ Gone(d, outcome, t).ticket = t
        /\ Gone(d, outcome, t).sender = 0
        /\ Gone(d, outcome, t).mail = runs[d].mail /\ Gone(d, outcome, t).first = runs[d].first
    BY <1>1, GoneRow
  <2>. QED BY <2>1, <2>2
<1>3. runs' = [runs EXCEPT ![d] = r] /\ UNCHANGED <<users, queues, tickets, sent, edits>>
  BY DEF end
<1>. HIDE DEF r
<1>4. /\ TypeOK' /\ Grows(d) /\ d \in DOMAIN runs' /\ d \in Nat /\ d # 0 /\ runs'[d] = r
      /\ \A e \in DOMAIN runs \ {d} : runs'[e] = runs[e]
      /\ \A t \in DOMAIN tickets' :
           /\ queues'[tickets'[t].queue] # None
           /\ tickets'[t].requestor \in DOMAIN users'
           /\ d \in tickets'[t].rows => d # 0 /\ runs'[d].ticket = t
  BY <1>2, <1>3, RowMoves
<1>5. RunOK(d)'
  <2>1. /\ runs'[d].first \in DOMAIN runs' /\ runs'[d].mail = runs'[runs'[d].first].mail
        /\ runs'[d].mail.tag # None =>
             runs'[d].mail.tag.name = Foreign \/ \E s \in sent' : s.tag = runs'[d].mail.tag
    BY <1>4, MessageStays
  <2>2. runs'[d].at \notin Steps /\ runs'[d].at = outcome
    BY <1>2, <1>4 DEF Steps, Outcomes
  <2>3. Filed(d)' <=> Filed(d)
    BY <1>3 DEF Filed
  <2>4. Aimed(d)'
    <3>1. Aimed(d) 
      BY <1>1 DEF RunOK
    <3>. QED BY <1>2, <1>3, <1>4, <3>1 DEF Aimed, Loose
  <2>5. NameTaken(runs[d].mail.letter.from)' <=> NameTaken(runs[d].mail.letter.from)
    BY <1>2, <1>3, <1>4 DEF NameTaken
  <2>6. /\ runs'[d].at \in {"insert", "write", "not ok", "name taken"} => ~Filed(d)'
        /\ (\E u \in DOMAIN users' : users'[u].by = d) => Filed(d)'
    BY <1>1, <1>3, <2>2, <2>3 DEF RunOK, Steps
  <2>7. runs'[d].at \in {"hooks", "exit", "ok"} =>
          runs'[d].ticket \in DOMAIN tickets' /\ d \in tickets'[runs'[d].ticket].rows
    BY <1>1, <1>2, <1>3, <1>4, <2>2 DEF RunOK, Steps
  <2>8. runs'[d].at = "name taken" => NameTaken(runs[d].mail.letter.from)'
    BY <2>2, <2>5
  <2>. QED BY <2>1, <2>2, <2>4, <2>6, <2>7, <2>8 DEF RunOK
<1>6. ASSUME NEW e \in DOMAIN runs \ {d}
      PROVE  PairOK(d, e)'
  BY <1>2, <1>4, <1>6, PairMoves DEF Inserted, Outcomes
<1>7. ~Inserted(d)'
  BY <1>2, <1>4 DEF Inserted, Outcomes
<1>. QED BY <1>3, <1>4, <1>5, <1>6, <1>7, OneStep

LEMMA PermissionDeniedKeeps ==
  ASSUME IInv, NEW d \in DOMAIN runs, permission_denied(d)
  PROVE  IInv'
  BY EndKeeps DEF permission_denied, At, Outcomes, Steps

LEMMA DatabaseErrorKeeps ==
  ASSUME IInv, NEW d \in DOMAIN runs, database_error(d)
  PROVE  IInv'
  BY EndKeeps DEF database_error, At, Outcomes, Steps

LEMMA ExitKeeps ==
  ASSUME IInv, NEW d \in DOMAIN runs, exit(d)
  PROVE  IInv'
  BY EndKeeps DEF exit, At, Outcomes, Steps

LEMMA DieKeeps ==
  ASSUME IInv, NEW d \in DOMAIN runs, die(d)
  PROVE  IInv'
  BY EndKeeps DEF die, Outcomes

\* The lock of the unique name: nobody else has it in hand, and no row has it.
LEMMA InsertedKeeps ==
  ASSUME IInv, NEW d \in DOMAIN runs, runs[d].at = "insert", ~NamePending(d),
         ~NameTaken(runs[d].mail.letter.from), inserted(d)
  PROVE  IInv'
<1>. DEFINE r == [runs[d] EXCEPT !.at = "write"]
<1>1. runs[d] \in Run /\ RunOK(d) /\ InHand(d)
  BY Rows DEF IInv, RunOK, Steps
<1>2. /\ r \in Run /\ r.at = "write" /\ r.sender = 0
      /\ r.mail = runs[d].mail /\ r.first = runs[d].first /\ r.ticket = runs[d].ticket
      /\ r.creates = runs[d].creates /\ r.gate = runs[d].gate /\ r.tag = runs[d].tag
      /\ r.queue = runs[d].queue /\ r.requestor = runs[d].requestor
  BY <1>1 DEF Run, Steps, InHand
<1>3. runs' = [runs EXCEPT ![d] = r] /\ UNCHANGED <<users, queues, tickets, sent, edits>>
  BY <1>1 DEF inserted
<1>. HIDE DEF r
<1>4. /\ TypeOK' /\ Grows(d) /\ d \in DOMAIN runs' /\ d \in Nat /\ d # 0 /\ runs'[d] = r
      /\ \A e \in DOMAIN runs \ {d} : runs'[e] = runs[e]
      /\ \A t \in DOMAIN tickets' :
           /\ queues'[tickets'[t].queue] # None
           /\ tickets'[t].requestor \in DOMAIN users'
           /\ d \in tickets'[t].rows => d # 0 /\ runs'[d].ticket = t
  BY <1>2, <1>3, RowMoves
<1>5. RunOK(d)'
  <2>1. /\ runs'[d].first \in DOMAIN runs' /\ runs'[d].mail = runs'[runs'[d].first].mail
        /\ runs'[d].mail.tag # None =>
             runs'[d].mail.tag.name = Foreign \/ \E s \in sent' : s.tag = runs'[d].mail.tag
    BY <1>4, MessageStays
  <2>2. InHand(d)'
    BY <1>1, <1>2, <1>3, <1>4 DEF InHand, subject_tag_for
  <2>3. Aimed(d)'
    <3>1. Aimed(d)
      BY <1>1 DEF RunOK, Steps
    <3>. QED BY <1>2, <1>3, <1>4, <3>1 DEF Aimed, Loose
  <2>4. ~Filed(d)' /\ \A u \in DOMAIN users' : users'[u].by # d
    <3>1. ~Filed(d) /\ \A u \in DOMAIN users : users[u].by # d
      BY <1>1 DEF RunOK
    <3>. QED BY <1>3, <3>1 DEF Filed
  <2>. QED BY <1>2, <1>4, <2>1, <2>2, <2>3, <2>4 DEF RunOK
<1>6. ASSUME NEW e \in DOMAIN runs \ {d}
      PROVE  PairOK(d, e)'
  <2>1. Inserted(e) => runs[d].mail.letter.from # runs[e].mail.letter.from
    BY <1>6 DEF Inserted, NamePending
  <2>. QED BY <1>2, <1>4, <1>6, <2>1, PairMoves DEF Steps
<1>7. \A u \in DOMAIN users' : users'[u].name # runs'[d].mail.letter.from
  BY <1>2, <1>3, <1>4 DEF NameTaken
<1>. QED BY <1>3, <1>4, <1>5, <1>6, <1>7, OneStep

LEMMA SenderUserKeeps ==
  ASSUME IInv, NEW d \in DOMAIN runs, sender_user(d)
  PROVE  IInv'
  BY EndKeeps, InsertedKeeps DEF sender_user, At, Outcomes, Steps

----------------------------------------------------------------------------
(* A delivery writes *)

\* The sender's row, when there was none: a new id, and his name for the first time.
LEMMA SenderWritten ==
  ASSUME IInv, NEW d \in DOMAIN runs, runs[d].at = "write", users' = WithSender(d)
  PROVE  /\ users' \in Seq(UserRow)
         /\ Sender(d) \in DOMAIN users' /\ Sender(d) \in Nat /\ Sender(d) # 0
         /\ \A u \in DOMAIN users : u \in DOMAIN users' /\ users'[u] = users[u]
         /\ \A u \in DOMAIN users' \ DOMAIN users :
              /\ u = Sender(d) /\ Inserted(d)
              /\ users'[u].by = d /\ users'[u].name = runs[d].mail.letter.from
<1>1. users \in Seq(UserRow) /\ runs[d] \in Run /\ InHand(d) /\ d \in Nat
  BY Rows DEF IInv, TypeOK, RunOK, Steps
<1>2. CASE runs[d].sender # 0
  <2>1. runs[d].sender \in DOMAIN users /\ users' = users /\ Sender(d) = runs[d].sender
    BY <1>1, <1>2 DEF WithSender, Sender, InHand
  <2>. QED BY <1>1, <1>2, <2>1, Table
<1>3. CASE runs[d].sender = 0
  <2>1. NewUser(d) \in UserRow
    <3>1. runs[d].mail.letter \in Letter
      BY <1>1, GatewayConstants DEF Run, Message
    <3>2. runs[d].mail.letter.from \in Addresses
      BY <1>1, <3>1 DEF InHand, Letter
    <3>3. Stored(runs[d].mail.letter.from) \in (Addresses \ Long) \cup {Cut, None}
      BY <3>2 DEF Stored
    <3>. QED BY <1>1, <3>2, <3>3 DEF NewUser, UserRow
  <2>2. /\ NewUser(d).by = d /\ NewUser(d).name = runs[d].mail.letter.from
        /\ users' = Append(users, NewUser(d)) /\ Sender(d) = Len(users) + 1
    BY <1>3 DEF NewUser, WithSender, Sender
  <2>3. /\ users' \in Seq(UserRow) /\ DOMAIN users' = DOMAIN users \cup {Len(users) + 1}
        /\ Len(users) + 1 \notin DOMAIN users /\ users'[Len(users) + 1] = NewUser(d)
        /\ \A u \in DOMAIN users : users'[u] = users[u]
    BY <1>1, <2>1, <2>2, Appended
  <2>4. Len(users) + 1 \in Nat /\ Len(users) + 1 # 0
    BY <1>1, Table
  <2>. QED BY <1>3, <2>2, <2>3, <2>4 DEF Inserted
<1>. QED BY <1>2, <1>3

\* What an accepted message does to its delivery, its sender and one ticket, be it
\* the ticket it answers or a new one.
LEMMA WrittenKeeps ==
  ASSUME IInv, NEW d \in DOMAIN runs, runs[d].at = "write", users' = WithSender(d),
         NEW t \in DOMAIN tickets',
         committed(d, t), UNCHANGED <<queues, sent, edits>>,
         tickets' \in Seq(TicketRow),
         DOMAIN tickets' = DOMAIN tickets \cup {t},
         \A o \in DOMAIN tickets : o # t => tickets'[o] = tickets[o],
         IF t \in DOMAIN tickets
         THEN /\ runs[d].ticket = t
              /\ tickets'[t].queue = tickets[t].queue /\ tickets'[t].moved = tickets[t].moved
              /\ tickets'[t].requestor = tickets[t].requestor
              /\ tickets'[t].rows = tickets[t].rows \cup {d}
         ELSE /\ runs[d].ticket = 0
              /\ tickets'[t].queue = runs[d].gate /\ tickets'[t].rows = {d}
              /\ tickets'[t].requestor \in DOMAIN users'
  PROVE  IInv'
<1>1. /\ runs \in Seq(Run) /\ runs[d] \in Run /\ RunOK(d) /\ InHand(d) /\ d \in Nat /\ d # 0
      /\ t \in Nat /\ t # 0
  BY Rows, Table DEF IInv, TypeOK, RunOK, Steps
<1>2. /\ users' \in Seq(UserRow)
      /\ Sender(d) \in DOMAIN users' /\ Sender(d) \in Nat /\ Sender(d) # 0
      /\ \A u \in DOMAIN users : u \in DOMAIN users' /\ users'[u] = users[u]
      /\ \A u \in DOMAIN users' \ DOMAIN users :
           /\ u = Sender(d) /\ Inserted(d)
           /\ users'[u].by = d /\ users'[u].name = runs[d].mail.letter.from
  BY SenderWritten
<1>3. PICK r \in Run :
        /\ runs' = [runs EXCEPT ![d] = r]
        /\ r.mail = runs[d].mail /\ r.first = runs[d].first /\ r.ticket = t
        /\ \/ r.at = "error"
           \/ /\ r.at = "hooks" /\ r.sender = Sender(d)
              /\ r.creates = runs[d].creates /\ r.gate = runs[d].gate /\ r.tag = runs[d].tag
              /\ r.queue = runs[d].queue /\ r.requestor = runs[d].requestor
  <2>1. CASE runs' = [runs EXCEPT ![d].at = "hooks", ![d].sender = Sender(d), ![d].ticket = t]
    <3>. DEFINE r == [runs[d] EXCEPT !.at = "hooks", !.sender = Sender(d), !.ticket = t]
    <3>1. /\ r \in Run /\ r.at = "hooks" /\ r.sender = Sender(d) /\ r.ticket = t
          /\ r.mail = runs[d].mail /\ r.first = runs[d].first
          /\ r.creates = runs[d].creates /\ r.gate = runs[d].gate /\ r.tag = runs[d].tag
          /\ r.queue = runs[d].queue /\ r.requestor = runs[d].requestor
      BY <1>1, <1>2 DEF Run, Steps
    <3>2. runs' = [runs EXCEPT ![d] = r]
      BY <1>1, <2>1
    <3>. QED BY <3>1, <3>2
  <2>2. CASE runs' = [runs EXCEPT ![d] = Gone(d, "error", t)]
    <3>1. PICK outcome \in Outcomes : outcome = "error"
      BY DEF Outcomes
    <3>2. /\ Gone(d, outcome, t) \in Run
          /\ Gone(d, outcome, t).at = outcome /\ Gone(d, outcome, t).ticket = t
          /\ Gone(d, outcome, t).mail = runs[d].mail /\ Gone(d, outcome, t).first = runs[d].first
      BY <1>1, GoneRow
    <3>. QED BY <2>2, <3>1, <3>2
  <2>. QED BY <2>1, <2>2 DEF committed
<1>5. /\ runs' \in Seq(Run) /\ DOMAIN runs' = DOMAIN runs /\ runs'[d] = r
      /\ \A e \in DOMAIN runs : e # d => runs'[e] = runs[e]
  <2>. DEFINE s == [runs EXCEPT ![d] = r]
  <2>1. /\ s \in Seq(Run) /\ DOMAIN s = DOMAIN runs /\ s[d] = r
        /\ \A j \in DOMAIN runs : j # d => s[j] = runs[j]
    BY <1>1, <1>3, Replaced
  <2>. QED BY <1>3, <2>1
<1>6. TypeOK'
  BY <1>2, <1>5 DEF IInv, TypeOK
<1>7. ~Filed(d) /\ Aimed(d) /\ \A u \in DOMAIN users : users[u].by # d
  BY <1>1 DEF RunOK, Steps
<1>8. Grows(d)
  <2>1. \A u \in DOMAIN users' \ DOMAIN users : \A v \in DOMAIN users' \ DOMAIN users : u = v
    BY <1>2
  <2>2. \A o \in DOMAIN tickets :
          /\ o \in DOMAIN tickets' /\ tickets[o].rows \subseteq tickets'[o].rows
          /\ tickets[o].moved => tickets'[o].moved
          /\ tickets'[o].moved \/ tickets'[o].queue = tickets[o].queue
    OBVIOUS
  <2>3. \A o \in DOMAIN tickets' : \A e \in tickets'[o].rows :
          e = d \/ (o \in DOMAIN tickets /\ e \in tickets[o].rows)
    OBVIOUS
  <2>. QED BY <1>2, <1>3, <1>5, <2>1, <2>2, <2>3 DEF Grows
<1>9. r.at = "hooks" => InHand(d)'
  <2>1. {runs[d].sender, runs[d].requestor} \subseteq {0} \cup DOMAIN users
    BY <1>1 DEF InHand
  <2>2. r.at = "hooks" => {r.sender, r.requestor} \subseteq {0} \cup DOMAIN users'
    BY <1>2, <1>3, <2>1
  <2>3. runs[d].queue = tickets'[t].queue \/ tickets'[t].moved
    BY <1>1 DEF InHand
  <2>. QED BY <1>1, <1>3, <1>5, <2>2, <2>3 DEF InHand, subject_tag_for
<1>10. Aimed(d)'
  <2>. DEFINE tag == runs[d].mail.tag
  <2>1. ASSUME tag # None, tag.name \in Plain
        PROVE  /\ tag.id \in DOMAIN tickets'
               /\ t = tag.id \/ (tag.name # SiteName /\ Loose(tag.id)')
    <3>1. /\ tag.id \in DOMAIN tickets
          /\ runs[d].ticket = tag.id \/ (tag.name # SiteName /\ Loose(tag.id))
      BY <1>7, <2>1 DEF Aimed
    <3>2. PICK id : id = tag.id
      OBVIOUS
    <3>3. id \in DOMAIN tickets' /\ (Loose(id) => Loose(id)')
      BY <1>8, <3>1, <3>2, LooseStays
    <3>4. tag = runs'[d].mail.tag
      BY <1>3, <1>5
    <3>5. id # 0
      BY <3>1, <3>2, Rows DEF IInv
    <3>. QED BY <3>1, <3>2, <3>3, <3>4, <3>5
  <2>2. tag = runs'[d].mail.tag /\ t = runs'[d].ticket
    BY <1>3, <1>5
  <2>. QED BY <2>1, <2>2 DEF Aimed
<1>11. RunOK(d)'
  <2>1. /\ runs'[d].first \in DOMAIN runs' /\ runs'[d].mail = runs'[runs'[d].first].mail
        /\ runs'[d].mail.tag # None =>
             runs'[d].mail.tag.name = Foreign \/ \E s \in sent' : s.tag = runs'[d].mail.tag
    BY <1>8, MessageStays
  <2>2. t \in DOMAIN tickets' /\ d \in tickets'[t].rows /\ Filed(d)'
    BY DEF Filed
  <2>3. runs'[d].at \in {"error", "hooks"} /\ (runs'[d].at \in Steps => InHand(d)')
    BY <1>3, <1>5, <1>9 DEF Steps
  <2>. QED BY <1>3, <1>5, <1>10, <2>1, <2>2, <2>3 DEF RunOK
<1>12. ASSUME NEW e \in DOMAIN runs \ {d}
       PROVE  PairOK(d, e)'
  BY <1>3, <1>5, <1>8, <1>12, PairMoves DEF Inserted, Steps
<1>13. ASSUME NEW o \in DOMAIN tickets'
       PROVE  /\ queues'[tickets'[o].queue] # None
              /\ tickets'[o].requestor \in DOMAIN users'
              /\ d \in tickets'[o].rows => runs'[d].ticket = o
  <2>1. CASE o \in DOMAIN tickets
    <3>1. /\ queues[tickets[o].queue] # None /\ tickets[o].requestor \in DOMAIN users
          /\ d \notin tickets[o].rows
      BY <1>7, <2>1 DEF IInv, TablesOK, Filed
    <3>. QED BY <1>2, <1>3, <1>5, <2>1, <3>1
  <2>2. CASE o \notin DOMAIN tickets
    BY <1>1, <1>3, <1>5, <2>2 DEF InHand
  <2>. QED BY <2>1, <2>2
<1>14. d \in DOMAIN runs' /\ ~Inserted(d)'
  BY <1>3, <1>5 DEF Inserted
<1>. QED BY <1>1, <1>6, <1>8, <1>11, <1>12, <1>13, <1>14, OneStep

LEMMA ReplyKeeps ==
  ASSUME IInv, NEW d \in DOMAIN runs, reply(d)
  PROVE  IInv'
<1>. DEFINE t == runs[d].ticket
            row == [tickets[t] EXCEPT !.rows = @ \cup {d}]
<1>1. /\ runs[d] \in Run /\ InHand(d) /\ d \in Nat /\ tickets \in Seq(TicketRow)
      /\ runs[d].at = "write" /\ ~runs[d].creates
  BY Rows DEF IInv, TypeOK, RunOK, Steps, reply, At
<1>2. t \in DOMAIN tickets /\ tickets[t] \in TicketRow
  BY <1>1, Rows DEF InHand, IInv
<1>3. /\ row \in TicketRow /\ row.queue = tickets[t].queue /\ row.moved = tickets[t].moved
      /\ row.requestor = tickets[t].requestor /\ row.rows = tickets[t].rows \cup {d}
  BY <1>1, <1>2 DEF TicketRow
<1>4. tickets' = [tickets EXCEPT ![t] = row]
  BY <1>2 DEF reply
<1>. HIDE DEF row
<1>5. /\ tickets' \in Seq(TicketRow) /\ DOMAIN tickets' = DOMAIN tickets /\ tickets'[t] = row
      /\ \A o \in DOMAIN tickets : o # t => tickets'[o] = tickets[o]
  <2>. DEFINE s == [tickets EXCEPT ![t] = row]
  <2>1. /\ s \in Seq(TicketRow) /\ DOMAIN s = DOMAIN tickets /\ s[t] = row
        /\ \A o \in DOMAIN tickets : o # t => s[o] = tickets[o]
    BY <1>1, <1>2, <1>3, Replaced
  <2>. QED BY <1>4, <2>1
<1>6. committed(d, t)
  BY DEF reply
<1>7. users' = WithSender(d) /\ UNCHANGED <<queues, sent, edits>>
  BY DEF reply
<1>8. PICK k : k = t
  OBVIOUS
<1>9. /\ k \in DOMAIN tickets' /\ k \in DOMAIN tickets /\ DOMAIN tickets' = DOMAIN tickets \cup {k}
      /\ tickets'[k].queue = tickets[k].queue /\ tickets'[k].moved = tickets[k].moved
      /\ tickets'[k].requestor = tickets[k].requestor
      /\ tickets'[k].rows = tickets[k].rows \cup {d}
  BY <1>2, <1>3, <1>5, <1>8
<1>10. /\ committed(d, k)
       /\ \A o \in DOMAIN tickets : o # k => tickets'[o] = tickets[o]
       /\ runs[d].ticket = k /\ tickets' \in Seq(TicketRow) /\ runs[d].at = "write"
  BY <1>1, <1>5, <1>6, <1>8
<1>. HIDE DEF t
<1>. QED BY <1>7, <1>9, <1>10, WrittenKeeps

LEMMA CreateKeeps ==
  ASSUME IInv, NEW d \in DOMAIN runs, create(d)
  PROVE  IInv'
<1>. DEFINE t == Len(tickets) + 1
            asked == runs[d].requestor
            row == [queue |-> runs[d].gate, requestor |-> IF asked = 0 THEN Sender(d) ELSE asked,
                    rows |-> {d}, moved |-> FALSE]
<1>1. /\ runs[d] \in Run /\ InHand(d) /\ d \in Nat /\ tickets \in Seq(TicketRow)
      /\ runs[d].at = "write" /\ runs[d].ticket = 0 /\ users' = WithSender(d)
  BY Rows DEF IInv, TypeOK, RunOK, Steps, create, At, InHand
<1>2. /\ users' \in Seq(UserRow) /\ Sender(d) \in DOMAIN users' /\ Sender(d) \in Nat
      /\ \A u \in DOMAIN users : u \in DOMAIN users'
  BY <1>1, SenderWritten
<1>3. runs[d].gate \in Queues /\ (asked # 0 => asked \in DOMAIN users) /\ asked \in Nat
  BY <1>1 DEF InHand, Run
<1>4. /\ row \in TicketRow /\ row.queue = runs[d].gate /\ row.rows = {d}
      /\ row.requestor \in DOMAIN users'
  BY <1>1, <1>2, <1>3 DEF TicketRow
<1>5. tickets' = Append(tickets, row)
  BY DEF create
<1>. HIDE DEF row
<1>6. /\ tickets' \in Seq(TicketRow) /\ DOMAIN tickets' = DOMAIN tickets \cup {t}
      /\ t \notin DOMAIN tickets /\ tickets'[t] = row
      /\ \A o \in DOMAIN tickets : tickets'[o] = tickets[o]
  BY <1>1, <1>4, <1>5, Appended
<1>7. /\ committed(d, t)
      /\ UNCHANGED <<queues, sent, edits>>
  BY DEF create
<1>. HIDE DEF t
<1>. QED BY <1>1, <1>4, <1>6, <1>7, WrittenKeeps

\* The mail about a ticket carries a tag that leads back to it.
LEMMA FireKeeps ==
  ASSUME IInv, NEW d \in DOMAIN runs, fire(d)
  PROVE  IInv'
<1>. DEFINE r == [runs[d] EXCEPT !.at = "exit"]
            t == runs[d].ticket
<1>1. /\ runs \in Seq(Run) /\ runs[d] \in Run /\ RunOK(d) /\ InHand(d) /\ d \in Nat /\ d # 0
      /\ runs[d].at = "hooks" /\ t \in DOMAIN tickets /\ t \in Nat /\ t # 0
      /\ tickets[t] \in TicketRow /\ tickets[t].requestor \in DOMAIN users
  BY Rows DEF IInv, TypeOK, RunOK, Steps, fire, At, TablesOK
<1>2. /\ r \in Run /\ r.at = "exit" /\ r.sender = runs[d].sender /\ r.ticket = t
      /\ r.mail = runs[d].mail /\ r.first = runs[d].first
      /\ r.creates = runs[d].creates /\ r.gate = runs[d].gate /\ r.tag = runs[d].tag
      /\ r.queue = runs[d].queue /\ r.requestor = runs[d].requestor
  BY <1>1 DEF Run, Steps
<1>3. runs' = [runs EXCEPT ![d] = r] /\ UNCHANGED <<users, queues, tickets, edits>>
  BY <1>1 DEF fire
<1>4. PICK taken \in {{}, Notified(d)} :
        sent' = sent \cup {[to |-> a, tag |-> subject_for(d), by |-> d] : a \in taken}
  BY DEF fire
<1>. HIDE DEF r
<1>5. /\ runs' \in Seq(Run) /\ DOMAIN runs' = DOMAIN runs /\ runs'[d] = r
      /\ \A e \in DOMAIN runs : e # d => runs'[e] = runs[e]
  <2>. DEFINE s == [runs EXCEPT ![d] = r]
  <2>1. /\ s \in Seq(Run) /\ DOMAIN s = DOMAIN runs /\ s[d] = r
        /\ \A j \in DOMAIN runs : j # d => s[j] = runs[j]
    BY <1>1, <1>2, Replaced
  <2>. QED BY <1>3, <2>1
<1>6. taken \subseteq (Addresses \ Long) \cup {Cut}
  <2>1. runs[d].mail.letter \in Letter
    BY <1>1, GatewayConstants DEF Run, Message
  <2>2. runs[d].mail.letter.from \in Addresses
    BY <1>1, <2>1 DEF InHand, Letter
  <2>3. Stored(runs[d].mail.letter.from) \in (Addresses \ Long) \cup {Cut}
    BY <2>2 DEF Stored
  <2>4. \A u \in DOMAIN users : users[u].email \in (Addresses \ Long) \cup {Cut, None}
    BY Rows DEF IInv, UserRow
  <2>5. {users[u].email : u \in {tickets[t].requestor} \ {runs[d].sender}} \ {None}
          \subseteq (Addresses \ Long) \cup {Cut}
    BY <1>1, <2>4
  <2>6. Recipients(d) \subseteq (Addresses \ Long) \cup {Cut}
    BY <2>3, <2>5 DEF Recipients
  <2>7. Notified(d) \subseteq (Addresses \ Long) \cup {Cut}
    BY <2>6 DEF Notified
  <2>. QED BY <2>7
<1>7. subject_for(d) \in SubjectTag /\ subject_for(d).id = t
  <2>1. queues[runs[d].queue] \in QueueRow /\ runs[d].tag \in Tags \cup {SiteName}
    BY <1>1, Rows DEF InHand, IInv, Run
  <2>2. subject_tag_for(runs[d].queue) \in Tags \cup {SiteName}
    BY <2>1 DEF subject_tag_for, QueueRow
  <2>. QED BY <1>1, <2>1, <2>2 DEF subject_for, SubjectTag
<1>8. TagStands(subject_for(d))
  <2>1. CASE runs[d].queue = tickets[t].queue
    <3>1. subject_for(d).name \in {SiteName, subject_tag_for(tickets[t].queue)}
            \/ queues[tickets[t].queue].retagged
      BY <1>1, <2>1 DEF subject_for, InHand
    <3>. QED BY <1>1, <1>7, <3>1 DEF TagStands, Loose
  <2>2. CASE tickets[t].moved
    BY <1>1, <1>7, <2>2 DEF TagStands, Loose
  <2>. QED BY <1>1, <2>1, <2>2 DEF InHand
<1>9. TypeOK'
  <2>1. \A s \in sent' \ sent : s \in [to: (Addresses \ Long) \cup {Cut}, tag: SubjectTag, by: Nat]
    BY <1>1, <1>4, <1>6, <1>7
  <2>2. sent' \subseteq [to: (Addresses \ Long) \cup {Cut}, tag: SubjectTag, by: Nat]
    BY <2>1 DEF IInv, TypeOK
  <2>. QED BY <1>3, <1>5, <2>2 DEF IInv, TypeOK
<1>10. Grows(d)
  <2>1. sent \subseteq sent'
    BY <1>4
  <2>. QED BY <1>2, <1>3, <1>5, <2>1 DEF Grows
<1>11. RunOK(d)'
  <2>1. /\ runs'[d].first \in DOMAIN runs' /\ runs'[d].mail = runs'[runs'[d].first].mail
        /\ runs'[d].mail.tag # None =>
             runs'[d].mail.tag.name = Foreign \/ \E s \in sent' : s.tag = runs'[d].mail.tag
    BY <1>10, MessageStays
  <2>2. InHand(d)'
    BY <1>1, <1>2, <1>3, <1>5 DEF InHand, subject_tag_for
  <2>3. Aimed(d)'
    <3>1. Aimed(d)
      BY <1>1 DEF RunOK, Steps
    <3>. QED BY <1>2, <1>3, <1>5, <3>1 DEF Aimed, Loose
  <2>4. d \in tickets'[t].rows /\ t \in DOMAIN tickets'
    BY <1>1, <1>3 DEF RunOK
  <2>5. Filed(d)'
    BY <2>4 DEF Filed
  <2>. QED BY <1>2, <1>5, <2>1, <2>2, <2>3, <2>4, <2>5 DEF RunOK
<1>12. ASSUME NEW e \in DOMAIN runs \ {d}
       PROVE  PairOK(d, e)'
  BY <1>1, <1>2, <1>5, <1>10, <1>12, PairMoves DEF Inserted, Steps
<1>13. \A o \in DOMAIN tickets' :
         /\ queues'[tickets'[o].queue] # None
         /\ tickets'[o].requestor \in DOMAIN users'
         /\ d \in tickets'[o].rows => runs'[d].ticket = o
  BY <1>2, <1>3, <1>5 DEF IInv, TablesOK
<1>14. \A s \in sent' \ sent : TagStands(s.tag)'
  <2>1. PICK tag : tag = subject_for(d)
    OBVIOUS
  <2>2. TagStands(tag)'
    BY <1>8, <1>10, <2>1, TagsStay
  <2>3. \A s \in sent' \ sent : s.tag = tag
    BY <1>4, <2>1
  <2>. QED BY <2>2, <2>3
<1>15. d \in DOMAIN runs' /\ ~Inserted(d)'
  BY <1>2, <1>5 DEF Inserted
<1>. QED BY <1>1, <1>9, <1>10, <1>11, <1>12, <1>13, <1>14, <1>15, OneStep

----------------------------------------------------------------------------
(* A delivery begins *)

\* A message is delivered for the first time, or every delivery of it so far was
\* refused or never answered.
NewOrRefused(m, first) ==
  \/ first = Len(runs) + 1
  \/ /\ first \in DOMAIN runs /\ runs[first].mail = m
     /\ \A e \in DOMAIN runs :
          runs[e].first = first => runs[e].at \in Outcomes \ {"ok"}

\* Its tag is none, another tracker's, or one we have sent.
KnownTag(tag) == tag # None => tag.name = Foreign \/ \E s \in sent : s.tag = tag

LEMMA DeliverKeeps ==
  ASSUME IInv, NEW m \in Message, NEW first, deliver(m, first),
         NewOrRefused(m, first), KnownTag(m.tag)
  PROVE  IInv'
<1>0. PICK d : d = Len(runs) + 1
  OBVIOUS
<1>1. runs \in Seq(Run) /\ d \in Nat /\ d # 0 /\ d \notin DOMAIN runs /\ DOMAIN runs \subseteq Nat
  <2>1. runs \in Seq(Run)
    BY DEF IInv, TypeOK
  <2>2. Len(runs) \in Nat /\ DOMAIN runs = 1 .. Len(runs)
    BY <2>1, Table
  <2>3. PICK n \in Nat : n = Len(runs)
    BY <2>2
  <2>4. d = n + 1 /\ DOMAIN runs = 1 .. n
    BY <1>0, <2>2, <2>3
  <2>5. d \in Nat /\ d # 0 /\ d \notin 1 .. n /\ \A i \in 1 .. n : i \in Nat
    BY <2>4
  <2>. QED BY <2>1, <2>4, <2>5
<1>2. first \in Nat /\ m.letter \in Letters /\ m.letter \in Letter /\ m.tag \in SubjectTag \cup {None}
  BY <1>0, <1>1, GatewayConstants DEF Message, NewOrRefused
<1>3. UNCHANGED <<users, queues, tickets, sent, edits>>
  BY DEF deliver
<1>4. PICK r :
        /\ runs' = Append(runs, r)
        /\ \/ r = Refused(m, first)
           \/ /\ ~Unacceptable(m.letter)
              /\ \E gate \in queue_by_name(m.letter.queue) : r = Opened(m, first, gate)
  BY DEF deliver
<1>5. /\ r \in Run /\ r.mail = m /\ r.first = first
      /\ r.at = "not ok" \/ (r.at = "insert" /\ r.sender = 0) \/ (r.at = "write" /\ r.sender # 0)
      /\ r.at = "insert" => \A u \in DOMAIN users : users[u].email # m.letter.from
      /\ r.at \in {"insert", "write"} =>
           /\ m.letter.from # None
           /\ r.gate \in Queues /\ queues[r.gate] # None /\ r.tag = subject_tag_for(r.gate)
           /\ {r.sender, r.requestor} \subseteq {0} \cup DOMAIN users
           /\ r.ticket = threading(m.tag) /\ (r.creates <=> r.ticket = 0)
           /\ r.queue = IF r.ticket = 0 THEN r.gate ELSE tickets[r.ticket].queue
  <2>1. CASE r = Refused(m, first)
    BY <1>2, <2>1, GatewayConstants DEF Refused, Run, Outcomes
  <2>2. CASE /\ ~Unacceptable(m.letter)
             /\ \E gate \in queue_by_name(m.letter.queue) : r = Opened(m, first, gate)
    <3>1. PICK gate \in queue_by_name(m.letter.queue) : r = Opened(m, first, gate)
      BY <2>2
    <3>. DEFINE u == user_by_email(m.letter.from)
                asked == user_by_email(Stored(m.letter.from))
                t == threading(m.tag)
                allowed == Allowed(u, t, m.letter.action, gate)
    <3>2. /\ gate \in Queues /\ queues[gate] # None /\ queues[gate] \in QueueRow
          /\ m.letter.from # None
      BY <2>2, Rows DEF queue_by_name, Unacceptable, IInv
    <3>3. /\ u = 0 => \A v \in DOMAIN users : users[v].email # m.letter.from
          /\ u \in {0} \cup DOMAIN users
      BY UserFound DEF IInv
    <3>4. asked \in {0} \cup DOMAIN users
      BY UserFound DEF IInv
    <3>5. \A v \in DOMAIN users : v \in Nat
      BY Rows DEF IInv
    <3>6. t \in Nat /\ (t # 0 => t \in DOMAIN tickets /\ tickets[t].queue \in Queues)
      BY Rows DEF threading, IInv, TicketRow
    <3>7. allowed \in BOOLEAN
      BY DEF Allowed, has_right
    <3>8. subject_tag_for(gate) \in Tags \cup {SiteName}
      BY <3>2 DEF subject_tag_for, QueueRow
    <3>9. r = [at |-> IF u = 0 THEN "insert" ELSE "write", mail |-> m, first |-> first,
               sender |-> u, requestor |-> IF u = 0 THEN asked ELSE u,
               ticket |-> t, creates |-> t = 0, gate |-> gate, tag |-> subject_tag_for(gate),
               queue |-> IF t = 0 THEN gate ELSE tickets[t].queue, allowed |-> allowed]
      BY <3>1 DEF Opened
    <3>10. threading(m.tag) = t
      OBVIOUS
    <3>. HIDE DEF u, asked, t, allowed
    <3>11. r \in Run
      <4>1. u \in Nat /\ asked \in Nat
        <5>1. \A i \in {0} \cup DOMAIN users : i \in Nat
          BY <3>5
        <5>2. u \in {0} \cup DOMAIN users /\ asked \in {0} \cup DOMAIN users
          BY <3>3, <3>4
        <5>. QED BY <5>1, <5>2
      <4>2. (IF t = 0 THEN gate ELSE tickets[t].queue) \in Queues
        BY <3>2, <3>6
      <4>. QED BY <1>2, <3>2, <3>6, <3>7, <3>8, <3>9, <4>1, <4>2 DEF Run, Steps
    <3>. QED BY <3>2, <3>3, <3>4, <3>6, <3>9, <3>10, <3>11
  <2>. QED BY <1>4, <2>1, <2>2
<1>6. /\ runs' \in Seq(Run) /\ DOMAIN runs' = DOMAIN runs \cup {d} /\ runs'[d] = r
      /\ \A e \in DOMAIN runs : runs'[e] = runs[e]
  <2>. DEFINE s == Append(runs, r)
  <2>1. runs \in Seq(Run) /\ r \in Run
    BY <1>1, <1>5
  <2>2. /\ s \in Seq(Run) /\ DOMAIN s = DOMAIN runs \cup {Len(runs) + 1} /\ s[Len(runs) + 1] = r
        /\ \A e \in DOMAIN runs : s[e] = runs[e]
    BY <2>1, Appended
  <2>. HIDE DEF s
  <2>3. runs' = s
    BY <1>4 DEF s
  <2>. QED BY <1>0, <2>2, <2>3
<1>7. TypeOK'
  BY <1>3, <1>6 DEF IInv, TypeOK
<1>8. Grows(d)
  BY <1>1, <1>3, <1>6 DEF Grows
<1>9. ~Filed(d)' /\ \A u \in DOMAIN users' : users'[u].by # d
  BY <1>1, <1>3 DEF IInv, TablesOK, Filed
<1>10. ASSUME r.at \in {"insert", "write"}
       PROVE  InHand(d)' /\ Aimed(d)'
  <2>1. r.ticket # 0 =>
          r.ticket = m.tag.id /\ r.ticket \in DOMAIN tickets
    BY <1>5, <1>10 DEF threading
  <2>2. InHand(d)'
    <3>1. r.queue \in Queues /\ queues[r.queue] # None
      BY <1>5, <1>10, <2>1, Rows DEF IInv, TablesOK, TicketRow
    <3>2. r.tag = subject_tag_for(r.gate)'
      BY <1>3, <1>5, <1>10 DEF subject_tag_for
    <3>. QED BY <1>3, <1>5, <1>6, <1>10, <2>1, <3>1, <3>2 DEF InHand
  <2>3. ASSUME m.tag # None, m.tag.name \in Plain
        PROVE  /\ m.tag.id \in DOMAIN tickets
               /\ r.ticket = m.tag.id \/ (m.tag.name # SiteName /\ Loose(m.tag.id))
    <3>1. TagStands(m.tag)
      BY <2>3, GatewayConstants DEF IInv, TablesOK, KnownTag
    <3>2. m.tag.name \in {SiteName, subject_tag_for(tickets[m.tag.id].queue)} => r.ticket = m.tag.id
      BY <1>5, <1>10, <2>3, <3>1 DEF threading, is_our_tag, TagStands
    <3>. QED BY <3>1, <3>2 DEF TagStands
  <2>4. Aimed(d)'
    BY <1>3, <1>5, <1>6, <2>3 DEF Aimed, Loose
  <2>. QED BY <2>2, <2>4
<1>11. RunOK(d)'
  <2>1. r.first \in DOMAIN runs' /\ r.mail = runs'[r.first].mail
    BY <1>0, <1>5, <1>6 DEF NewOrRefused
  <2>2. r.at \notin {"hooks", "exit", "ok", "name taken"} /\ (r.at \in Steps => r.at \in {"insert", "write"})
    BY <1>5 DEF Steps
  <2>. QED BY <1>3, <1>5, <1>6, <1>9, <1>10, <2>1, <2>2 DEF RunOK, KnownTag
<1>12. ASSUME NEW e \in DOMAIN runs
       PROVE  PairOK(d, e)'
  <2>1. runs'[e] = runs[e] /\ ~Inserted(d)' /\ RunOK(e)
    BY <1>5, <1>6, <1>12 DEF Inserted, IInv
  <2>2. ASSUME runs[e].first = first
        PROVE  /\ runs[e].at \in Outcomes \ {"ok"} /\ runs[e].mail = m
    <3>1. first \in DOMAIN runs
      BY <2>1, <2>2 DEF RunOK
    <3>. QED BY <1>0, <1>1, <2>1, <2>2, <3>1 DEF RunOK, NewOrRefused
  <2>3. ASSUME runs[e].first = first, {r.at, runs[e].at} \subseteq {"insert", "name taken"}
        PROVE  NameIsLost(m.letter.from)
    <3>1. r.at = "insert" /\ runs[e].at = "name taken"
      BY <1>5, <2>2, <2>3 DEF Outcomes
    <3>2. NameTaken(m.letter.from)
      BY <2>1, <2>2, <2>3, <3>1 DEF RunOK
    <3>. QED BY <1>5, <3>1, <3>2 DEF NameTaken, NameIsLost
  <2>4. NameIsLost(m.letter.from) => NameIsLost(m.letter.from)'
    BY <1>8, LostStays
  <2>5. e \in Nat /\ e < d
    BY <1>0, <1>12, Table DEF IInv, TypeOK
  <2>6. \A x, y \in {d, e} : x < y => x = e
    BY <1>1, <2>5
  <2>. QED BY <1>5, <1>6, <2>1, <2>2, <2>3, <2>4, <2>6 DEF PairOK
<1>13. \A o \in DOMAIN tickets' :
         /\ queues'[tickets'[o].queue] # None
         /\ tickets'[o].requestor \in DOMAIN users'
         /\ d \notin tickets'[o].rows
  BY <1>1, <1>3 DEF IInv, TablesOK
<1>14. d \in DOMAIN runs' /\ ~Inserted(d)'
  BY <1>5, <1>6 DEF Inserted
<1>. QED BY <1>1, <1>3, <1>7, <1>8, <1>11, <1>12, <1>13, <1>14, OneStep

LEMMA ArriveKeeps ==
  ASSUME IInv, arrive
  PROVE  IInv'
<1>1. PICK l \in Letters, tag \in {None, [name |-> Foreign, id |-> 1]} \cup {s.tag : s \in sent} :
        deliver([letter |-> l, tag |-> tag], Len(runs) + 1)
  BY DEF arrive
<1>. DEFINE m == [letter |-> l, tag |-> tag]
<1>2. tag \in SubjectTag \cup {None}
  <2>1. \A s \in sent : s.tag \in SubjectTag
    BY DEF IInv, TypeOK
  <2>2. [name |-> Foreign, id |-> 1] \in SubjectTag
    BY DEF SubjectTag
  <2>. QED BY <2>1, <2>2
<1>3. m \in Message /\ m.tag = tag
  BY <1>2 DEF Message
<1>4. tag # None => tag.name = Foreign \/ \E s \in sent : s.tag = tag
  OBVIOUS
<1>5. Len(runs) + 1 \in Nat
  BY Table DEF IInv, TypeOK
<1>6. PICK first : first = Len(runs) + 1
  OBVIOUS
<1>. HIDE DEF m
<1>. QED BY <1>1, <1>3, <1>4, <1>6, DeliverKeeps DEF m, NewOrRefused, KnownTag

LEMMA ArriveAgainKeeps ==
  ASSUME IInv, arrive_again
  PROVE  IInv'
<1>1. PICK f \in DOMAIN runs :
        /\ runs[f].first = f
        /\ \A e \in DOMAIN runs : runs[e].first = f => runs[e].at \in Outcomes \ {"ok"}
        /\ deliver(runs[f].mail, f)
  BY DEF arrive_again
<1>2. PICK m : m = runs[f].mail
  OBVIOUS
<1>3. /\ m \in Message
      /\ m.tag # None => m.tag.name = Foreign \/ \E s \in sent : s.tag = m.tag
  BY <1>2, Rows DEF IInv, RunOK, Run
<1>. QED BY <1>1, <1>2, <1>3, DeliverKeeps DEF NewOrRefused, KnownTag

----------------------------------------------------------------------------
(* Administrators *)

\* They make no delivery move and file nothing.
LEMMA EditKeeps ==
  ASSUME IInv, TypeOK', Grows(0), UNCHANGED <<sent, runs>>,
         \A t \in DOMAIN tickets' :
           /\ t \in DOMAIN tickets /\ tickets'[t].rows = tickets[t].rows
           /\ queues'[tickets'[t].queue] # None
           /\ tickets'[t].requestor \in DOMAIN users'
  PROVE  IInv'
<1>1. 0 \notin DOMAIN runs
  BY Rows DEF IInv
<1>2. \A t \in DOMAIN tickets' : 0 \notin tickets'[t].rows
  BY <1>1 DEF IInv, TablesOK
<1>3. sent' \ sent = {}
  OBVIOUS
<1>. QED BY <1>2, <1>3, OneStep

\* A queue is written, new or again; its tag does not go unmarked.
LEMMA QueueWritten ==
  ASSUME IInv, NEW q \in Queues, NEW row \in QueueRow, queues' = [queues EXCEPT ![q] = row],
         queues[q] # None =>
           /\ queues[q].retagged => row.retagged
           /\ row.retagged \/ row.tag = queues[q].tag,
         edits' = edits + 1, UNCHANGED <<users, tickets, sent, runs>>
  PROVE  IInv'
<1>1. row # None
  BY GatewayConstants
<1>2. queues' \in [Queues -> QueueRow \cup {None}] /\ edits' \in Nat
  BY DEF IInv, TypeOK
<1>3. TypeOK'
  BY <1>2 DEF IInv, TypeOK
<1>4. queues \in [Queues -> QueueRow \cup {None}]
  BY DEF IInv, TypeOK
<1>5. \A p \in Queues : queues'[p] = IF p = q THEN row ELSE queues[p]
  BY <1>4
<1>6. Grows(0)
  BY <1>1, <1>5 DEF Grows
<1>7. \A t \in DOMAIN tickets :
        /\ tickets[t].queue \in Queues /\ queues[tickets[t].queue] # None
        /\ tickets[t].requestor \in DOMAIN users
  BY Rows DEF IInv, TablesOK, TicketRow
<1>8. \A t \in DOMAIN tickets : queues'[tickets[t].queue] # None
  BY <1>1, <1>5, <1>7
<1>. QED BY <1>3, <1>6, <1>7, <1>8, EditKeeps

LEMMA CreateQueueKeeps ==
  ASSUME IInv, NEW q \in Queues, create_queue(q)
  PROVE  IInv'
<1>1. PICK form \in QueueForms : queues' = [queues EXCEPT ![q] = QueueOf(form, FALSE)]
  BY DEF create_queue
<1>2. QueueOf(form, FALSE) \in QueueRow
  BY GatewayConstants DEF QueueOf, QueueRow
<1>3. queues[q] = None /\ edits' = edits + 1 /\ UNCHANGED <<users, tickets, sent, runs>>
  BY DEF create_queue, Edit
<1>. QED BY <1>1, <1>2, <1>3, QueueWritten

LEMMA SaveQueueKeeps ==
  ASSUME IInv, NEW q \in Queues, save_queue(q)
  PROVE  IInv'
<1>1. PICK form \in QueueForms :
        queues' = [queues EXCEPT ![q] =
          QueueOf(form, queues[q].retagged \/ form.tag # queues[q].tag)]
  BY DEF save_queue
<1>2. PICK row : row = QueueOf(form, queues[q].retagged \/ form.tag # queues[q].tag)
  OBVIOUS
<1>3. /\ row.tag = form.tag /\ row.retagged = (queues[q].retagged \/ form.tag # queues[q].tag)
      /\ row \in QueueRow
  BY <1>2, GatewayConstants DEF QueueOf, QueueRow
<1>4. queues[q] \in QueueRow /\ edits' = edits + 1 /\ UNCHANGED <<users, tickets, sent, runs>>
  BY Rows DEF save_queue, Edit, IInv
<1>5. queues' = [queues EXCEPT ![q] = row]
  BY <1>1, <1>2
<1>6. /\ queues[q].retagged => row.retagged
      /\ row.retagged \/ row.tag = queues[q].tag
  BY <1>3
<1>. QED BY <1>3, <1>4, <1>5, <1>6, QueueWritten

LEMMA SaveUserKeeps ==
  ASSUME IInv, NEW u \in DOMAIN users, save_user(u)
  PROVE  IInv'
<1>1. PICK form \in UserForms :
        users' = [users EXCEPT ![u].email = form.email, ![u].disabled = form.disabled,
                               ![u].edited = @ \/ form.email # users[u].email]
  BY DEF save_user
<1>. DEFINE row == [users[u] EXCEPT !.email = form.email, !.disabled = form.disabled,
                                    !.edited = @ \/ form.email # users[u].email]
<1>2. users \in Seq(UserRow) /\ users[u] \in UserRow
  BY Rows DEF IInv, TypeOK
<1>3. /\ row \in UserRow /\ row.name = users[u].name /\ row.by = users[u].by
      /\ row.email = form.email
      /\ row.edited = (users[u].edited \/ form.email # users[u].email)
  BY <1>2, GatewayConstants DEF UserRow
<1>4. users' = [users EXCEPT ![u] = row]
  BY <1>1, <1>2
<1>. HIDE DEF row
<1>5. /\ users' \in Seq(UserRow) /\ DOMAIN users' = DOMAIN users /\ users'[u] = row
      /\ \A v \in DOMAIN users : v # u => users'[v] = users[v]
  <2>. DEFINE s == [users EXCEPT ![u] = row]
  <2>1. /\ s \in Seq(UserRow) /\ DOMAIN s = DOMAIN users /\ s[u] = row
        /\ \A v \in DOMAIN users : v # u => s[v] = users[v]
    BY <1>2, <1>3, Replaced
  <2>. QED BY <1>4, <2>1
<1>6. edits' = edits + 1 /\ UNCHANGED <<queues, tickets, sent, runs>>
  BY DEF save_user, Edit
<1>7. TypeOK'
  BY <1>5, <1>6 DEF IInv, TypeOK
<1>8. Grows(0)
  <2>1. \A v \in DOMAIN users :
          /\ users'[v].name = users[v].name /\ users'[v].by = users[v].by
          /\ users[v].edited => users'[v].edited
          /\ users'[v].edited \/ users'[v].email = users[v].email
    BY <1>3, <1>5
  <2>. QED BY <1>5, <1>6, <2>1 DEF Grows
<1>9. \A t \in DOMAIN tickets :
        queues[tickets[t].queue] # None /\ tickets[t].requestor \in DOMAIN users
  BY DEF IInv, TablesOK
<1>. QED BY <1>5, <1>6, <1>7, <1>8, <1>9, EditKeeps

LEMMA MoveTicketKeeps ==
  ASSUME IInv, NEW t \in DOMAIN tickets, move_ticket(t)
  PROVE  IInv'
<1>1. PICK q \in Queues :
        queues[q] # None /\ tickets' = [tickets EXCEPT ![t].queue = q, ![t].moved = TRUE]
  BY DEF move_ticket
<1>. DEFINE row == [tickets[t] EXCEPT !.queue = q, !.moved = TRUE]
<1>2. tickets \in Seq(TicketRow) /\ tickets[t] \in TicketRow
  BY Rows DEF IInv, TypeOK
<1>3. /\ row \in TicketRow /\ row.queue = q /\ row.moved = TRUE
      /\ row.requestor = tickets[t].requestor /\ row.rows = tickets[t].rows
  BY <1>2 DEF TicketRow
<1>4. tickets' = [tickets EXCEPT ![t] = row]
  BY <1>1, <1>2
<1>. HIDE DEF row
<1>5. /\ tickets' \in Seq(TicketRow) /\ DOMAIN tickets' = DOMAIN tickets /\ tickets'[t] = row
      /\ \A o \in DOMAIN tickets : o # t => tickets'[o] = tickets[o]
  <2>. DEFINE s == [tickets EXCEPT ![t] = row]
  <2>1. /\ s \in Seq(TicketRow) /\ DOMAIN s = DOMAIN tickets /\ s[t] = row
        /\ \A o \in DOMAIN tickets : o # t => s[o] = tickets[o]
    BY <1>2, <1>3, Replaced
  <2>. QED BY <1>4, <2>1
<1>6. edits' = edits + 1 /\ UNCHANGED <<users, queues, sent, runs>>
  BY DEF move_ticket, Edit
<1>7. TypeOK'
  BY <1>5, <1>6 DEF IInv, TypeOK
<1>8. Grows(0)
  BY <1>3, <1>5, <1>6 DEF Grows
<1>9. \A o \in DOMAIN tickets :
        queues[tickets[o].queue] # None /\ tickets[o].requestor \in DOMAIN users
  BY DEF IInv, TablesOK
<1>. QED BY <1>1, <1>3, <1>5, <1>6, <1>7, <1>8, <1>9, EditKeeps

----------------------------------------------------------------------------
(* The specification *)

LEMMA InitKeeps ==
  ASSUME Init
  PROVE  IInv
<1>1. <<>> \in Seq(Run) /\ <<>> \in Seq(TicketRow) /\ DOMAIN runs = {} /\ DOMAIN tickets = {}
  BY DEF Init
<1>2. TypeOK
  BY <1>1, GatewayConstants DEF Init, TypeOK
<1>3. TablesOK
  BY <1>1, GatewayConstants DEF Init, TablesOK
<1>4. OneUserPerSender
  BY GatewayConstants DEF Init, OneUserPerSender
<1>. QED BY <1>1, <1>2, <1>3, <1>4 DEF IInv

LEMMA NextKeeps ==
  ASSUME IInv, [Next]_vars
  PROVE  IInv'
<1>1. CASE arrive
  BY <1>1, ArriveKeeps
<1>2. CASE arrive_again
  BY <1>2, ArriveAgainKeeps
<1>3. ASSUME NEW d \in DOMAIN runs,
             \/ sender_user(d) \/ permission_denied(d) \/ database_error(d)
             \/ reply(d) \/ create(d) \/ fire(d) \/ exit(d) \/ die(d)
      PROVE  IInv'
  BY <1>3, SenderUserKeeps, PermissionDeniedKeeps, DatabaseErrorKeeps, ReplyKeeps, CreateKeeps,
     FireKeeps, ExitKeeps, DieKeeps
<1>4. ASSUME NEW q \in Queues, create_queue(q) \/ save_queue(q)
      PROVE  IInv'
  BY <1>4, CreateQueueKeeps, SaveQueueKeeps
<1>5. ASSUME NEW u \in DOMAIN users, save_user(u)
      PROVE  IInv'
  BY <1>5, SaveUserKeeps
<1>6. ASSUME NEW t \in DOMAIN tickets, move_ticket(t)
      PROVE  IInv'
  BY <1>6, MoveTicketKeeps
<1>7. CASE UNCHANGED vars
  <2>1. UNCHANGED <<users, queues, tickets, sent, runs, edits>>
    BY <1>7 DEF vars
  <2>2. TypeOK' /\ Grows(0)
    BY <2>1 DEF IInv, TypeOK, Grows
  <2>. QED BY <2>1, <2>2, EditKeeps DEF IInv, TablesOK
<1>. QED BY <1>1, <1>2, <1>3, <1>4, <1>5, <1>6, <1>7 DEF Next

\* The tables and the deliveries in hand stay in step with one another, however
\* many deliveries run side by side, die and are handed over again, and whatever
\* administrators do meanwhile (gateway.py, notify.py).
THEOREM Invariant == Spec => []IInv
<1>1. Init => IInv
  BY InitKeeps
<1>2. IInv /\ [Next]_vars => IInv'
  BY NextKeeps
<1>. QED BY <1>1, <1>2, PTL DEF Spec

\* Every table holds rows of its type and every delivery is at a step of its own.
THEOREM TypeCorrect == Spec => []TypeOK
<1>1. IInv => TypeOK
  BY DEF IInv
<1>. QED BY <1>1, Invariant, PTL

\* What the command prints is what the database holds: "ok" names the one ticket
\* the message is in, a refusal in the gateway's words or for a taken name leaves
\* no row, and no end leaves half of it (gateway.py:372-376).
THEOREM ProtocolIsTrue == Spec => []ProtocolTellsTheTruth
<1>1. IInv => ProtocolTellsTheTruth
  <2>. SUFFICES ASSUME IInv, NEW d \in DOMAIN runs
                PROVE  /\ Over(d, {"ok"}) => Filed(d) /\ d \in tickets[runs[d].ticket].rows
                       /\ Over(d, {"not ok", "name taken"}) => ~Filed(d)
                       /\ \A t, v \in DOMAIN tickets :
                            d \in tickets[t].rows /\ d \in tickets[v].rows => t = v
                       /\ (\E u \in DOMAIN users : users[u].by = d) => Filed(d)
    BY DEF ProtocolTellsTheTruth
  <2>1. RunOK(d) /\ \A t \in DOMAIN tickets : d \in tickets[t].rows => runs[d].ticket = t
    BY DEF IInv, TablesOK
  <2>. QED BY <2>1 DEF RunOK, Over, Filed
<1>. QED BY <1>1, Invariant, PTL

\* A message handed over until it hears "ok" is filed twice only when the earlier
\* answer was lost or was an error's (gateway.py:307).
THEOREM FilesOnce == Spec => []FiledOnce
<1>1. IInv => FiledOnce
  <2>. SUFFICES ASSUME IInv, NEW d \in DOMAIN runs, NEW e \in DOMAIN runs, d < e,
                       runs[d].first = runs[e].first, Filed(d), Filed(e)
                PROVE  runs[d].at \in {"lost", "error"}
    BY DEF FiledOnce, Over
  <2>1. d \in Nat /\ e \in Nat /\ d # e
    BY Rows DEF IInv
  <2>2. PairOK(d, e) /\ RunOK(d)
    BY <2>1 DEF IInv
  <2>3. runs[d].at \in Outcomes \ {"ok"}
    BY <2>2 DEF PairOK
  <2>4. runs[d].at \notin {"not ok", "name taken"}
    BY <2>2 DEF RunOK
  <2>. QED BY <2>3, <2>4 DEF Outcomes
<1>. QED BY <1>1, Invariant, PTL

\* First messages of one person that arrive side by side make one user
\* (gateway.py:193-218).
THEOREM OneUserEach == Spec => []OneUserPerSender
<1>1. IInv => OneUserPerSender
  BY DEF IInv
<1>. QED BY <1>1, Invariant, PTL

\* An answer to our mail is filed on the ticket the mail was about, unless the tag
\* cannot be read back or is a queue's that the ticket, or the tag, has left
\* (gateway.py:224-255, notify.py:34-36).
THEOREM AnswersArrive == Spec => []AnswersReachTheirTicket
<1>1. IInv => AnswersReachTheirTicket
  <2>. SUFFICES ASSUME IInv, NEW d \in DOMAIN runs, NEW s \in sent,
                       Filed(d), runs[d].mail.tag = s.tag, s.tag.name \in Plain
                PROVE  \/ d \in tickets[s.tag.id].rows
                       \/ s.tag.name # SiteName /\ Loose(s.tag.id)
    BY DEF AnswersReachTheirTicket, Loose
  <2>1. RunOK(d) /\ \E t \in DOMAIN tickets : d \in tickets[t].rows /\ runs[d].ticket = t
    BY DEF IInv, TablesOK, Filed
  <2>2. s.tag # None
    BY GatewayConstants DEF IInv, TypeOK
  <2>. QED BY <2>1, <2>2 DEF RunOK, Aimed
<1>. QED BY <1>1, Invariant, PTL

\* A message is turned away by a taken name twice only when that account has lost
\* the address, or never kept the whole of it (gateway.py:193-218).
THEOREM TurnsAwayOnce == Spec => []TurnedAwayOnce
<1>1. IInv => TurnedAwayOnce
  <2>. SUFFICES ASSUME IInv, NEW d \in DOMAIN runs, NEW e \in DOMAIN runs, d # e,
                       runs[d].first = runs[e].first,
                       runs[d].at = "name taken", runs[e].at = "name taken"
                PROVE  NameIsLost(runs[d].mail.letter.from)
    BY DEF TurnedAwayOnce, Over, NameIsLost
  <2>1. PairOK(d, e)
    BY DEF IInv
  <2>. QED BY <2>1 DEF PairOK
<1>. QED BY <1>1, Invariant, PTL
==============================================================================
