------------------------------ MODULE MsgQueue ------------------------------
(***************************************************************************)
(* The message queues of kernel/msg.c while no thread waits at a mailbox:  *)
(* messages are sent, received and discarded, and the owner of a mailbox   *)
(* chooses what happens to messages that do not fit.                       *)
(***************************************************************************)
EXTENDS Messages

CONSTANTS
  FirstStrategies, \* strategies a mailbox may have at the start
  NewStrategies,   \* strategies its owner may set
  LateChange,      \* TRUE when the owner may set it for a mailbox in use
  MaxCount         \* bounds mq_count in the model

ASSUME MsgQueueAssumption ==
  /\ FirstStrategies \cup NewStrategies \subseteq Strategy
  /\ LateChange \in BOOLEAN

VARIABLE M

vars == M

Init == \E size \in Sizes, strategy \in FirstStrategies :
          M = FreshMessages(size, strategy)

(* FMTK_SendMsg and FMTK_PostMsg without a waiting thread; without a free  *)
(* block they return an error and change nothing.                          *)
Sent(N, b, body) == MBXQueueMsg(AllocMsg(N, body), b, N.freeMSG)

Accepts(b) == M.freeMSG # 0 /\ M.count[b] < MaxCount

Send(b, body) == Accepts(b) /\ M' = Sent(M, b, body)

(* FMTK_CheckMsg that removes the message, FMTK_WaitMsg that finds one.    *)
Receive(b) == M' = TakeMsg(M, b)

EmptyMbx(b) == M' = EmptyQueue(M, b)

SetMbxMsgQueStrategy(b, strategy, size) ==
  /\ LateChange \/ M.count[b] = 0
  /\ M' = [M EXCEPT !.strategy[b] = strategy, !.size[b] = size]

Next == \E b \in Mailboxes :
  \/ \E body \in Bodies : Send(b, body)
  \/ Receive(b)
  \/ EmptyMbx(b)
  \/ \E s \in NewStrategies, n \in Sizes : SetMbxMsgQueStrategy(b, s, n)

Spec == Init /\ [][Next]_vars

-----------------------------------------------------------------------------
(* Every variable has its type.                                            *)
TypeOK == M \in Messages

(***************************************************************************)
(* Every message block is on the free list or in exactly one queue         *)
(* (msg.c 198-421): none is lost, and a block that a reader may still get  *)
(* is not handed out again.                                                *)
(***************************************************************************)
BlocksConserved ==
  LET Queued(b) == ToSet(QueueOf(M, b))
  IN  /\ Msg \ ToSet(From(M, M.freeMSG)) = UNION {Queued(b) : b \in Mailboxes}
      /\ \A a, b \in Mailboxes : a # b => Queued(a) \cap Queued(b) = {}

(***************************************************************************)
(* No message is stranded (msg.c 336-352, 404-421): the queue ends in      *)
(* mq_tail, where the next message goes, and mq_count, which MBXDequeueMsg *)
(* looks at first, is at least the number of messages.                     *)
(***************************************************************************)
NothingStranded ==
  \A b \in Mailboxes :
    LET q == QueueOf(M, b)
    IN  /\ M.tail[b] = IF q = <<>> THEN 0 ELSE Last(q)
        /\ M.count[b] >= Len(q)

(* From old to new a message is added at the end, or the last one says the *)
(* same and counts it as a repetition.                                     *)
Gains(old, new, body) ==
  \/ new = Append(old, [body |-> body, rep |-> 0])
  \/ /\ old # <<>> /\ Last(old).body = body
     /\ new = [old EXCEPT ![Len(old)].rep = @ + 1]

(* The step from old to new gains a message, takes the first or all, or    *)
(* changes nothing.                                                        *)
InOrder(old, new) ==
  \/ new \in {old, <<>>}
  \/ old # <<>> /\ new = Tail(old)
  \/ \E x \in Bodies : Gains(old, new, x)

(***************************************************************************)
(* Messages leave a queue in the order they came: a step changes it only   *)
(* at its ends (msg.c 267-421, 613-629).                                   *)
(***************************************************************************)
Fifo ==
  [][\A b \in Mailboxes : InOrder(Content(M, b), Content(M', b))]_vars

(***************************************************************************)
(* "unlimited queing" (msg.c 279): from no state does a send to such a     *)
(* mailbox lose a message, the new one or one that was there.              *)
(***************************************************************************)
UnlimitedLosesNone ==
  \A b \in Mailboxes, body \in Bodies :
    Accepts(b) /\ M.strategy[b] = "UNLIMITED" =>
      Gains(Content(M, b), Content(Sent(M, b, body), b), body)

=============================================================================
