--------------------------- MODULE MCCustomFields ---------------------------
(***************************************************************************)
(* A small tracker some requests after its seed: root; ann, who works in   *)
(* the group techs; rae, who may only what a requestor and a creator may.  *)
(* One field on one of two queues, one ticket of rae's, room for one more  *)
(* of each.                                                                *)
(***************************************************************************)
EXTENDS CustomFields, TLC

CONSTANTS ann, rae, techs, q1, q2, f1, f2

User(name, privileged, off) == [name |-> name, privileged |-> privileged, disabled |-> off]

MCPeople ==
  [users |-> [u \in Users |-> CASE u = root -> User("root", TRUE, FALSE)
                                [] u = nobody -> User("Nobody", FALSE, TRUE)
                                [] u = ann -> User("ann", TRUE, FALSE)
                                [] u = rae -> User("rae", FALSE, FALSE)],
   groups |-> [g \in Groups |-> [name |-> "techs", disabled |-> FALSE]],
   members |-> {<<techs, ann>>}]

Grants(who, rs, object) == [who: {who}, right: rs, object: {object}]

MCGrantable == {[who |-> <<"group", techs>>, right |-> "ShowTicket", object |-> q1]}

MCStart ==
  [rights |->
     {[who |-> <<"user", root>>, right |-> "SuperUser", object |-> "system"]}
       \cup Grants(<<"group", techs>>,
                   {"ShowTicket", "ModifyTicket", "ModifyCustomField", "OwnTicket"}, q1)
       \cup Grants(<<"group", "Owner">>, {"ShowTicket"}, q2)
       \cup Grants(<<"group", "Requestor">>, {"ShowTicket"}, "system")
       \cup Grants(<<"user", rae>>, {"CreateTicket", "SeeQueue"}, q2),
   tickets |-> [t \in Tickets |->
     IF t = 1 THEN [queue |-> q1, owner |-> ann, requestor |-> rae, status |-> "new",
                    priority |-> 5, created |-> 1]
     ELSE Absent],
   disabled |-> {},
   fields |-> [f \in Fields |-> IF f = f1 THEN [name |-> "rack", disabled |-> FALSE] ELSE Absent],
   carried |-> {<<q1, f1>>}]

\* What is typed, and the value it becomes.
MCTyped == {"", " ", "a", "b", "b "}
MCCleaned == [x \in MCTyped |-> CASE x = " " -> "" [] x = "b " -> "b" [] OTHER -> x]

Word(k) == [is |-> "word", text |-> k]
Status(k) == [is |-> "status", text |-> k]

MCBoxes ==
  {<<Word("printer")>>, <<Word("printer"), Status("any")>>,
   <<Word("printer"), Status("resolved"), Status("new")>>,
   <<[is |-> "other", text |-> "x"], Word("printer"), [is |-> "digits", number |-> 7]>>,
   <<[is |-> "digits", number |-> 1]>>, <<[is |-> "digits", number |-> 0]>>}

MCSays ==
  [t \in Tickets |-> {Word("printer"), [is |-> "digits", number |-> 0]}
                       \cup IF t = 1 THEN {[is |-> "digits", number |-> 7]} ELSE {}]

MCSymmetry == Permutations(Slots)
==============================================================================
