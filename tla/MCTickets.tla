------------------------------ MODULE MCTickets ------------------------------
(***************************************************************************)
(* Small instances of Tickets: one staff member with every right and one   *)
(* customer who may see a ticket, reply to it, and open one by mail but    *)
(* not by the form (that wants SeeQueue too); one basics column with two   *)
(* values, and the statuses that tell the lifecycle's branches apart.      *)
(***************************************************************************)
EXTENDS Tickets, TLC

CONSTANTS staff, customer

MCFresh == [f \in Fields |-> "low"]
MCOffers == [f \in Fields |-> {"high"}]
MCHeld == [a \in Actors |-> IF a = staff THEN RightNames
                            ELSE {"ShowTicket", "ReplyToTicket", "CreateTicket"}]
MCSymmetry == Permutations(Workers)
==============================================================================
