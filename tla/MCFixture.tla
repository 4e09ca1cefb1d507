------------------------------ MODULE MCFixture ------------------------------
(***************************************************************************)
(* Two commands on an unseeded database.  The files are one that makes a   *)
(* row of every kind, variants of it that parse refuses or that stop       *)
(* half-way, and one ticket with every short sequence of steps.            *)
(***************************************************************************)
EXTENDS Fixture

CONSTANTS p1, p2

S(type, status, value) ==
  [type |-> type, status |-> status, field |-> IF value = "" THEN "" ELSE "size", value |-> value]

Steps ==
  {S("comment", "", ""), S("correspond", "", ""), S("status", "open", ""),
   S("status", "resolved", ""), S("custom_field", "", "a")}

\* The steps with dates and actors.
Dated(steps, first, actor) ==
  [k \in DOMAIN steps |->
     [type |-> steps[k].type, status |-> steps[k].status, field |-> steps[k].field,
      value |-> steps[k].value, at |-> first + k, actor |-> IF k = 1 THEN actor ELSE "root"]]

OneTicket(id, queue, owner, creator, steps) ==
  [id |-> id, subject |-> IF id = 1 THEN "one" ELSE "two", queue |-> queue, owner |-> owner,
   creator |-> creator, created |-> 10 * id, steps |-> Dated(steps, 10 * id, creator)]

General == [name |-> "General", existing |-> TRUE]

\* A file that makes nothing but a ticket, and one whose field the ticket sets.
Bare(steps) ==
  [queues |-> <<General>>, users |-> <<>>, groups |-> <<>>, fields |-> <<>>, rights |-> <<>>,
   tickets |-> <<OneTicket(1, "General", "Nobody", "root", steps)>>]

Sized(steps) ==
  [Bare(steps) EXCEPT !.fields = <<[name |-> "size", applies_to |-> {"General"}]>>]

Grant(kind, principal, queue, rs) ==
  [kind |-> kind, principal |-> principal, queue |-> queue, rights |-> rs]

Full ==
  [queues |-> <<General, [name |-> "hw", existing |-> FALSE]>>,
   users |-> <<[name |-> "al", privileged |-> TRUE], [name |-> "req", privileged |-> FALSE]>>,
   groups |-> <<[name |-> "crew", members |-> <<"al">>]>>,
   fields |-> <<[name |-> "size", applies_to |-> {"General", "hw"}]>>,
   rights |-> <<Grant("group", "crew", "hw", {"OwnTicket"}), Grant("user", "al", "hw", {"ShowTicket"}),
                Grant("group", "Everyone", "hw", {"CreateTicket"})>>,
   tickets |-> <<OneTicket(1, "hw", "al", "req", <<S("custom_field", "", "a"), S("status", "resolved", "")>>),
                 OneTicket(2, "General", "Nobody", "al", <<S("correspond", "", ""), S("status", "open", "")>>)>>]

Bad ==
  {[Full EXCEPT !.tickets[2].id = 1],
   [Full EXCEPT !.tickets[1].steps[2].at = 11],
   [Full EXCEPT !.fields[1].applies_to = {"General"}],
   [Full EXCEPT !.rights[2].principal = "req"],
   [Full EXCEPT !.rights[1].rights = {"AdminUsers"}]}

Short == {<<a, b>> : a \in Steps, b \in Steps} \cup {<<a>> : a \in Steps} \cup {<<>>}

Sets(steps) == \E k \in DOMAIN steps : steps[k].type = "custom_field"

Singles == {Bare(x) : x \in {y \in Short : ~Sets(y)}} \cup {Sized(x) : x \in {y \in Short : Sets(y)}}

Longer ==
  {Bare(<<S("status", "open", ""), S("status", "resolved", ""), S("status", "open", "")>>),
   Bare(<<S("correspond", "", ""), S("status", "resolved", ""), S("comment", "", "")>>)}

\* Half-way: an owner by no right, and one who is not privileged.
Unowned ==
  {[Full EXCEPT !.rights = <<>>], [Full EXCEPT !.tickets[1].owner = "req"],
   [Full EXCEPT !.rights[1].principal = "nobody's"]}

Do(what, file) == [do |-> what, file |-> file]

Pair(first, second) == [p \in Processes |-> IF p = p1 THEN first ELSE second]

MCCommands ==
  {Pair(Do("load", f), Do(what, f)) : f \in Singles \cup Longer \cup {Full}, what \in {"load", "check"}}
    \cup {Pair(Do("load", f), Do("seed", Bare(<<>>))) : f \in Bad \cup Unowned \cup {Full}}

MCSquatted == {<<"users", "al">>, <<"queue_custom_fields", "hw", "size">>,
               <<"rights", "group", "Everyone", "CreateTicket", "hw">>}

\* What LinesAreTheFile asks of the files is so here.
ASSUME SubjectsAreTold == SubjectsTell
==============================================================================
