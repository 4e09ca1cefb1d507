----------------------------- MODULE MCGateway -----------------------------
(***************************************************************************)
(* A small instance of Gateway: a sender who comments, one who answers and *)
(* whose address does not fit; a queue under the site's tag, one with a    *)
(* tag of its own and one not yet created.                                 *)
(***************************************************************************)
EXTENDS Gateway, TLC

CONSTANTS ann, long, q1, q2, q3

Write(from, queue, action) == [from |-> from, queue |-> queue, action |-> action]
Form(name, tag, disabled) == [name |-> name, tag |-> tag, disabled |-> disabled]

MCLetters == {Write(ann, "support", "comment"), Write(long, "sales", "correspond")}

MCQueues ==
  [q \in Queues |-> CASE q = q1 -> QueueOf(Form("support", None, FALSE), FALSE)
                      [] q = q2 -> QueueOf(Form("sales", "Help", FALSE), FALSE)
                      [] OTHER -> None]

MCUsers == <<>>

MCGrants ==
  ({"Everyone"} \X {"CreateTicket", "ReplyToTicket"} \X {q1, q2})
    \cup {<<"Requestor", "CommentOnTicket", q1>>}

MCQueueForms == {Form("support", "C#", FALSE), Form("sales", "Help", TRUE), Form("shop", None, FALSE)}

MCUserForms == {[email |-> ann, disabled |-> TRUE], [email |-> None, disabled |-> FALSE]}
=============================================================================
