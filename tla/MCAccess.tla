------------------------------ MODULE MCAccess ------------------------------
(***************************************************************************)
(* A small tracker some requests after its seed: root, Nobody and one      *)
(* privileged user, who administers the queue through a group; the group   *)
(* is enabled, or already disabled.                                        *)
(***************************************************************************)
EXTENDS Access, TLC

CONSTANTS bob, carl, techs, crew, q1, GroupDisabled

User(name, privileged, disabled) ==
  [name |-> name, privileged |-> privileged, disabled |-> disabled]

MCStart ==
  [users |-> [u \in Users |-> CASE u = root -> User("root", TRUE, FALSE)
                                [] u = nobody -> User("Nobody", FALSE, TRUE)
                                [] u = bob -> User("bob", TRUE, FALSE)
                                [] OTHER -> Absent],
   groups |-> [g \in Groups |->
                 IF g = techs THEN [name |-> "techs", disabled |-> GroupDisabled] ELSE Absent],
   members |-> {<<techs, bob>>},
   rights |-> {[who |-> <<"user", root>>, right |-> "SuperUser", object |-> "system"],
               [who |-> <<"group", techs>>, right |-> "AdminQueue", object |-> q1]}]

MCSymmetry == Permutations(Slots)
==============================================================================
