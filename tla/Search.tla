------------------------------- MODULE Search -------------------------------
(***************************************************************************)
(* The lists of tickets a user gets: the search results (search/) and the  *)
(* two boxes of the home page (web/home.py), beside the ticket page's own  *)
(* check, which asks the resolver of Access ticket by ticket.              *)
(*                                                                         *)
(* This module reads and writes nothing.  Who writes the tables it reads   *)
(* is up to the module that extends it.                                    *)
(***************************************************************************)
EXTENDS Lifecycle, Sequences, FiniteSets

CONSTANTS
  Users,        \* user ids
  root,         \* the id of the user seeded as "root"
  nobody,       \* the id of the unowned owner
  Groups,       \* ids of user-defined groups
  BuiltIns,     \* the system groups and roles modelled
  Queues,       \* queue ids
  RightNames,   \* the rights modelled
  People,       \* the users, groups and group_members tables
  Tickets,      \* ticket ids, numbers
  Boxes,        \* what is typed into the search box: sequences of tokens
  Says,         \* [Tickets -> SUBSET Token]: the words in a ticket's text
  RESULT_LIMIT, \* rows of a results page
  GLANCE_LIMIT, \* rows of a box of the home page
  Absent,       \* an id no row has
  None          \* nothing

VARIABLES
  rights,    \* the rights table
  tickets    \* the tickets table: [Tickets -> TicketRow \cup {Absent}]

\* The resolver of Access over these tables.  Nobody browses its pages here.
Acl == INSTANCE Access WITH
         users <- People.users, groups <- People.groups, members <- People.members,
         Start <- [users |-> People.users, groups |-> People.groups,
                   members |-> People.members, rights |-> {}],
         Names <- {}, Slots <- {}, MaxFlips <- 0, MaxWrites <- 0,
         page <- None, job <- None, begun <- 0

\* One requestor per ticket, as the create form and the gateway make them.
TicketRow ==
  [queue: Queues, owner: Users, requestor: Users, status: STATUSES,
   priority: Nat, created: Nat]

\* A token of the box: a word, digits, `status:text`, or an option not known.
Token ==
  [is: {"word", "status", "other"}, text: STRING] \cup [is: {"digits"}, number: Nat]

ASSUME SearchConstants ==
  /\ {root, nobody} \subseteq Users /\ root # nobody
  /\ {"Owner", "Requestor"} \subseteq BuiltIns
  /\ Tickets \subseteq Nat \ {0} /\ IsFiniteSet(Tickets)
  /\ \A box \in Boxes : box \in Seq(Token)
  /\ Says \in [Tickets -> SUBSET Token]
  /\ RESULT_LIMIT \in Nat /\ GLANCE_LIMIT \in Nat
  /\ Absent \notin TicketRow

Existing == {t \in Tickets : tickets[t] # Absent}

\* Who can be at a browser: current_user gives no disabled user.
SignedIn == {u \in Users : People.users[u] # Absent /\ ~People.users[u].disabled}

\* Who each user is, for the resolver.
Principals == [u \in Users |-> Acl!principals(u)]

Holds(u, right, object) == Acl!has_right(Principals[u], right, object)

----------------------------------------------------------------------------
(* The ticket page *)

Roles(u, t) ==
  (IF tickets[t].owner = u THEN {"Owner"} ELSE {})
    \cup (IF tickets[t].requestor = u THEN {"Requestor"} ELSE {})

\* A right on the ticket in hand, its roles included.
HoldsOn(u, right, t) ==
  Acl!has_right(Acl!ticket_principals(u, Roles(u, t)), right, tickets[t].queue)

\* _show_ticket lets the user in.
Opens(u, t) == t \in Existing /\ HoldsOn(u, "ShowTicket", t)

----------------------------------------------------------------------------
(* The search box *)

\* The words, the last status option that means something, and the number of a
\* ticket when the only word is one.
parse(box) ==
  LET words == {i \in DOMAIN box : box[i].is \in {"word", "digits"}}
      known == {i \in DOMAIN box : /\ box[i].is = "status"
                                   /\ box[i].text \in STATUSES \cup {"any"}}
      lone == Cardinality(words) = 1
                /\ \A i \in words : box[i].is = "digits" /\ box[i].number > 0
  IN  [words |-> IF lone THEN {} ELSE {box[i] : i \in words},
       status |-> IF known = {} THEN ""
                  ELSE box[CHOOSE i \in known : \A j \in known : j <= i].text,
       ticket |-> IF lone THEN box[CHOOSE i \in words : TRUE].number ELSE 0]

Newer(a, b) ==
  \/ tickets[a].created > tickets[b].created
  \/ tickets[a].created = tickets[b].created /\ a > b

Higher(a, b) ==
  \/ tickets[a].priority > tickets[b].priority
  \/ tickets[a].priority = tickets[b].priority /\ a > b

\* ORDER BY ... LIMIT n: by date or by priority, then by id.
Newest(n, S) == {t \in S : Cardinality({x \in S : Newer(x, t)}) < n}

Highest(n, S) == {t \in S : Cardinality({x \in S : Higher(x, t)}) < n}

\* Where ShowTicket reaches, per scope: the user's own set, and the two roles.
visibility(held) ==
  LET reaching == {g \in rights : g.right \in {"ShowTicket", "SuperUser"}}
  IN  [scope \in {"own", "Owner", "Requestor"} |->
         {g.object : g \in {x \in reaching :
            IF scope = "own" THEN x.who \in held ELSE x.who = <<"group", scope>>}}]

\* Mutant: a role that reaches one queue is taken to reach every queue.
visible_clause_anywhere(seen, u, t) ==
  LET reached(scope) == {"system", tickets[t].queue} \cap seen[scope] # {}
  IN  \/ reached("own")
      \/ seen["Owner"] # {} /\ tickets[t].owner = u
      \/ reached("Requestor") /\ tickets[t].requestor = u

visible_clause(seen, u, t) ==
  LET reached(scope) == {"system", tickets[t].queue} \cap seen[scope] # {}
  IN  \/ reached("own")
      \/ reached("Owner") /\ tickets[t].owner = u
      \/ reached("Requestor") /\ tickets[t].requestor = u

status_clause(status, t) ==
  CASE status = "" -> tickets[t].status \in Active
    [] status = "any" -> TRUE
    [] OTHER -> tickets[t].status = status

results(u, query) ==
  IF query.words = {} THEN {}
  ELSE LET seen == visibility(Principals[u])
       IN  Newest(RESULT_LIMIT,
                  {t \in Existing : /\ query.words \subseteq Says[t]
                                    /\ status_clause(query.status, t)
                                    /\ visible_clause(seen, u, t)})

----------------------------------------------------------------------------
(* The home page *)

ActiveOf(u) == {t \in Existing : tickets[t].status \in Active /\ tickets[t].owner = u}

\* Mutant: the rows are shown as they come.
visible_unfiltered(u, rows) == rows

\* Rows in queues where the user holds ShowTicket; no ticket's roles count.
visible(u, rows) == {t \in rows : Holds(u, "ShowTicket", tickets[t].queue)}

owned_tickets(u) == visible(u, Highest(GLANCE_LIMIT, ActiveOf(u)))

unowned_tickets(u) == visible(u, Newest(GLANCE_LIMIT, ActiveOf(nobody)))

----------------------------------------------------------------------------
(* What holds *)

\* What the box asks for, read off FP S01-S03: all the words, whatever other
\* options there are; done with only when the last known status says so.
Asks(box, t) ==
  LET words == {k \in {box[i] : i \in DOMAIN box} : k.is \in {"word", "digits"}}
      Known(i) == box[i].is = "status" /\ box[i].text \in STATUSES \cup {"any"}
      Lifted(i) == Known(i) /\ box[i].text \in {"any", tickets[t].status}
  IN  /\ words # {} /\ words \subseteq Says[t]
      /\ \/ \E i \in DOMAIN box :
              Lifted(i) /\ \A j \in DOMAIN box : j > i => ~Known(j)
         \/ (\A i \in DOMAIN box : ~Known(i)) /\ tickets[t].status \in Active

\* The results are the newest of what the ticket page would open and the box
\* asks for: the filter in SQL (search/service.py:190) and the check ticket by
\* ticket (tickets/router.py:296) agree whatever is granted to users, groups
\* and roles, and the limit cuts nothing the user could have seen instead.
SearchIsThePage ==
  \A u \in SignedIn :
    LET opens == {t \in Existing : Opens(u, t)}
    IN  \A box \in Boxes :
          LET query == parse(box)
          IN  query.ticket = 0 =>
                results(u, query)
                  = Newest(RESULT_LIMIT, {t \in opens : Asks(box, t)})

\* ShowTicket reaches the user on this ticket only through a role on it.
ByRoleOnly(u, t) == Opens(u, t) /\ ~Holds(u, "ShowTicket", tickets[t].queue)

\* Every row of the home page opens, and what an active ticket that opens
\* needs to be missing from its box (web/home.py:60-92): the user sees it only
\* by a role on it, or the box is full of higher ones, seen or not.
HomeShowsWhatOpens ==
  \A u \in SignedIn :
    /\ \A t \in owned_tickets(u) \cup unowned_tickets(u) : Opens(u, t)
    /\ \A t \in ActiveOf(u) \ owned_tickets(u) :
         Opens(u, t) =>
           ByRoleOnly(u, t) \/ Cardinality({x \in ActiveOf(u) : Higher(x, t)}) >= GLANCE_LIMIT
    /\ \A t \in ActiveOf(nobody) \ unowned_tickets(u) :
         Opens(u, t) =>
           ByRoleOnly(u, t) \/ Cardinality({x \in ActiveOf(nobody) : Newer(x, t)}) >= GLANCE_LIMIT
==============================================================================
