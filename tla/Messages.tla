------------------------------ MODULE Messages ------------------------------
(***************************************************************************)
(* kernel/msg.c: the pool of message blocks and the queue of messages at a *)
(* mailbox.                                                                *)
(*                                                                         *)
(* All message blocks share one link field: the free blocks form a stack   *)
(* from freeMSG, the messages queued at a mailbox a chain from mq_head to  *)
(* mq_tail.  A block is named by its handle, 1 .. NR_MSG; 0 is no block.   *)
(* The functions are operators on the record M of these globals, applied   *)
(* by their callers with the mailbox and the message list locked.          *)
(*                                                                         *)
(* What a message says (low half of d1, d2, d3) is its body; the high half *)
(* of d1, which counts repetitions, is rep.  Messages of a type other than *)
(* MT_DATA belong to requests.  Time stamps and the counts nMsgBlk and     *)
(* mq_missed are written and never read; left out.                         *)
(***************************************************************************)
EXTENDS Integers, SequencesExt, Iteration

CONSTANTS
  NR_MSG,      \* number of message blocks, 512 in inc/config.h
  Mailboxes,   \* handles of the mailboxes, 1 .. NR_MBX
  Bodies,      \* what messages may say; bounds the model
  MaxRepeat,   \* repetitions a message can count, 16#FFFF
  Sizes        \* values mq_size may take

ASSUME MessagesAssumption ==
  /\ NR_MSG \in Nat \ {0}
  /\ Mailboxes \subseteq Nat \ {0}
  /\ MaxRepeat \in Nat
  /\ Sizes \subseteq Nat

Msg      == 1 .. NR_MSG
Msg0     == 0 .. NR_MSG
NoBody   == "MT_FREE"
Strategy == {"UNLIMITED", "OLDEST", "NEWEST"}

Messages ==
  [link     : [Msg -> Msg0],
   body     : [Msg -> Bodies \cup {NoBody}],
   rep      : [Msg -> 0 .. MaxRepeat],
   freeMSG  : Msg0,
   head     : [Mailboxes -> Msg0],
   tail     : [Mailboxes -> Msg0],
   count    : [Mailboxes -> Int],
   size     : [Mailboxes -> Sizes],
   strategy : [Mailboxes -> Strategy]]

(* The queues are empty and every block is free (FMTK_Initialize), with    *)
(* the size and the strategy FMTK_AllocMbx gives a mailbox.                *)
FreshMessages(size, strategy) ==
  [link     |-> [m \in Msg |-> IF m = NR_MSG THEN 0 ELSE m + 1],
   body     |-> [m \in Msg |-> NoBody],
   rep      |-> [m \in Msg |-> 0],
   freeMSG  |-> 1,
   head     |-> [b \in Mailboxes |-> 0],
   tail     |-> [b \in Mailboxes |-> 0],
   count    |-> [b \in Mailboxes |-> 0],
   size     |-> [b \in Mailboxes |-> size],
   strategy |-> [b \in Mailboxes |-> strategy]]

(* A field of the block with handle 0 would be read from the memory before *)
(* the array, and is zero here; a write to it is never made.               *)
LinkOf(M, m) == IF m \in Msg THEN M.link[m] ELSE 0

-----------------------------------------------------------------------------
(* AllocMsg for a message that says body; the pool is not empty.  The      *)
(* block keeps its link until it is queued.                                *)
AllocMsg(M, body) ==
  [M EXCEPT !.freeMSG = M.link[M.freeMSG], !.body[M.freeMSG] = body]

(* Fault: the rest of the free list is not linked behind the block.        *)
FreeMsgUnlinked(M, m) == [M EXCEPT !.freeMSG = m, !.body[m] = NoBody]

FreeMsg(M, m) ==
  IF m \notin Msg THEN M
  ELSE [M EXCEPT !.link[m] = M.freeMSG, !.freeMSG = m,
                 !.body[m] = NoBody, !.rep[m] = 0]

(* Fault: repetitions are counted beyond what fits.                        *)
RepeatsUnbounded(M, m, last) == last # 0 /\ M.body[m] = M.body[last]

(* Message m says what the last one does, and that can still count it.     *)
Repeats(M, m, last) ==
  /\ last # 0
  /\ M.body[m] = M.body[last]
  /\ M.rep[last] < MaxRepeat

(* Fault: the message is put before the others.                            *)
LinkMsgFirst(M, b, m) ==
  [M EXCEPT !.link[m] = M.head[b], !.head[b] = m,
            !.tail[b] = IF M.tail[b] = 0 THEN m ELSE @]

(* The end of MBXQueueMsg: a repetition is counted at the last message and *)
(* freed, any other message becomes the last.                              *)
LinkMsg(M, b, m) ==
  LET last == M.tail[b]
  IN  IF Repeats(M, m, last) THEN FreeMsg([M EXCEPT !.rep[last] = @ + 1], m)
      ELSE [M EXCEPT !.link    = [n \in Msg |-> CASE n = m    -> 0
                                                  [] n = last -> m
                                                  [] OTHER    -> M.link[n]],
                     !.head[b] = IF last = 0 THEN m ELSE @,
                     !.tail[b] = m]

Overfull(M, b) == M.count[b] > M.size[b]

(* MQS_NEWEST: as long as the queue is overfull the block after the head   *)
(* is freed and made the head.                                             *)
DropOld(b) ==
  [M \in Messages |->
     IF Overfull(M, b)
     THEN LET htmp == LinkOf(M, M.head[b])
          IN  [FreeMsg(M, htmp) EXCEPT !.count[b] = @ - 1, !.head[b] = htmp]
     ELSE M]

(* MQS_OLDEST: the walk from the head to the tail; w.msg is the block      *)
(* before w.tmp once the walk has moved.                                   *)
TailWalk(M, b) ==
  [w \in [msg : Msg0, tmp : Msg0] |->
     IF w.tmp = M.tail[b] THEN w ELSE [msg |-> w.tmp, tmp |-> LinkOf(M, w.tmp)]]

(* As long as the queue is overfull its last block is freed.  The loop     *)
(* starts with msg the new message, which has been freed.                  *)
DropNew(b) ==
  [d \in [M : Messages, msg : Msg0] |->
     IF Overfull(d.M, b)
     THEN LET w == Iterate(TailWalk(d.M, b),
                           [msg |-> d.msg, tmp |-> d.M.head[b]])[NR_MSG]
          IN  [M   |-> [FreeMsg(d.M, w.tmp) EXCEPT !.count[b] = @ - 1,
                                                   !.tail[b]  = w.msg],
               msg |-> w.msg]
     ELSE d]

MBXQueueMsg(M, b, m) ==
  LET C == [M EXCEPT !.count[b] = @ + 1]
      excess == IF Overfull(C, b) THEN C.count[b] - C.size[b] ELSE 0
  IN  CASE M.strategy[b] = "UNLIMITED" -> LinkMsg(C, b, m)
        [] M.strategy[b] = "NEWEST" -> LinkMsg(Iterate(DropOld(b), C)[excess], b, m)
        [] M.strategy[b] = "OLDEST" ->
             IF excess = 0 THEN LinkMsg(C, b, m)
             ELSE Iterate(DropNew(b), [M |-> FreeMsg(M, m), msg |-> m])[excess].M

(* The block MBXDequeueMsg returns, 0 for none, and what it leaves.        *)
Dequeued(M, b) == IF M.count[b] = 0 THEN 0 ELSE M.head[b]

(* Fault: the tail stays when the last message leaves.                     *)
DequeueKeepsTail(M, b) ==
  IF M.head[b] = 0 THEN M
  ELSE [M EXCEPT !.count[b] = @ - 1, !.head[b] = M.link[@], !.link[M.head[b]] = M.head[b]]

MBXDequeueMsg(M, b) ==
  LET hm   == M.head[b]
      next == LinkOf(M, hm)
  IN  IF M.count[b] = 0 THEN M
      ELSE IF hm = 0 THEN [M EXCEPT !.count[b] = @ - 1]
      ELSE [M EXCEPT !.count[b] = @ - 1,
                     !.head[b]  = next,
                     !.tail[b]  = IF next = 0 THEN 0 ELSE @,
                     !.link[hm] = hm]

(* The first message is taken off the queue and its block freed.           *)
TakeMsg(M, b) == FreeMsg(MBXDequeueMsg(M, b), Dequeued(M, b))

(* The loop of FMTK_EmptyMbx and FMTK_FreeMbx, which ends at the first     *)
(* MBXDequeueMsg that returns no block: state of the loop and one round.   *)
Emptying == [M : Messages, more : BOOLEAN]

EmptyRound(b) ==
  [e \in Emptying |->
     IF e.more THEN [M |-> TakeMsg(e.M, b), more |-> Dequeued(e.M, b) # 0]
               ELSE e]

EmptyQueue(M, b) ==
  Iterate(EmptyRound(b), [M |-> M, more |-> TRUE])[NR_MSG + 1].M

-----------------------------------------------------------------------------
(* What the links mean to a reader.                                        *)

(* The blocks met from block m on by following the links in N, up to the   *)
(* first that has been met before.                                         *)
From(N, m) ==
  LET grow == [s \in Seq(Msg) |->
                 LET n == IF s = <<>> THEN m ELSE N.link[Last(s)]
                 IN  IF n = 0 \/ Contains(s, n) THEN s ELSE Append(s, n)]
  IN  Iterate(grow, <<>>)[NR_MSG]

QueueOf(N, b) == From(N, N.head[b])

(* What is queued at b, to a reader: bodies and their repetitions.         *)
Content(N, b) ==
  LET q == QueueOf(N, b)
  IN  [i \in DOMAIN q |-> [body |-> N.body[q[i]], rep |-> N.rep[q[i]]]]

=============================================================================
