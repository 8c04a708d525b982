----------------------------- MODULE MCRequests -----------------------------
(* An instance of Requests: two clients, two servers of one mailbox and one*)
(* of another.                                                             *)
EXTENDS Requests

MCHome == [c1 |-> 1, c2 |-> 2, s1 |-> 3, s2 |-> 3, s3 |-> 4]

MCSpareBoxes == <<3, 4>>

=============================================================================
