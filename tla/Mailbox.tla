------------------------------- MODULE Mailbox -------------------------------
(***************************************************************************)
(* What the mailboxes of kernel/msg.c promise, without links, flags and    *)
(* ready queues: a mailbox has a queue of messages and a queue of threads  *)
(* that wait for one, and never both.  A message goes to the thread that   *)
(* has waited longest, or to the end of the queue, and a thread gets the   *)
(* oldest message.                                                         *)
(*                                                                         *)
(* A message equal to the last one of the queue is counted there.  A queue *)
(* is taken to stay below its limit of 8 messages.                         *)
(***************************************************************************)
EXTENDS Integers, FiniteSets, SequencesExt

CONSTANTS
  Threads,   \* threads that may wait
  Boxes,     \* mailboxes
  NoMessage, \* what a thread has that was handed no message
  Blocks,    \* number of message blocks
  MaxRepeat  \* repetitions a message can count

ASSUME MailboxAssumption ==
  /\ Blocks \in Nat \ {0}
  /\ MaxRepeat \in Nat

VARIABLES
  queue,   \* mailbox -> messages, oldest first, each with its repetitions
  waiting, \* mailbox -> threads that wait there, the longest first
  handed   \* thread -> the message handed to it

mailVars == <<queue, waiting, handed>>

MailInit ==
  /\ queue   = [b \in Boxes |-> <<>>]
  /\ waiting = [b \in Boxes |-> <<>>]
  /\ handed  = [t \in Threads |-> NoMessage]

(* Every queued message takes a block, however often it was repeated.      *)
Entries    == UNION {{b} \X DOMAIN queue[b] : b \in Boxes}
FreeBlocks == Blocks - Cardinality(Entries)

IsWaiting(t) == \E b \in Boxes : Contains(waiting[b], t)

Enqueued(q, m) ==
  IF q # <<>> /\ Last(q).body = m /\ Last(q).rep < MaxRepeat
  THEN [q EXCEPT ![Len(q)].rep = @ + 1]
  ELSE Append(q, [body |-> m, rep |-> 0])

(* A block is demanded even when a thread waits.                           *)
Deliver(b, m) ==
  /\ IF waiting[b] = <<>>
     THEN /\ queue' = [queue EXCEPT ![b] = Enqueued(@, m)]
          /\ UNCHANGED <<waiting, handed>>
     ELSE /\ handed'  = [handed EXCEPT ![Head(waiting[b])] = m]
          /\ waiting' = [waiting EXCEPT ![b] = Tail(@)]
          /\ UNCHANGED queue
  /\ FreeBlocks > 0

Take(b) ==
  /\ queue[b] # <<>>
  /\ queue' = [queue EXCEPT ![b] = Tail(@)]
  /\ UNCHANGED <<waiting, handed>>

Wait(t, b) ==
  /\ queue[b] = <<>>
  /\ ~IsWaiting(t)
  /\ waiting' = [waiting EXCEPT ![b] = Append(@, t)]
  /\ UNCHANGED <<queue, handed>>

(* The thread returns from its wait with what it was handed.               *)
Collect(t) ==
  /\ ~IsWaiting(t)
  /\ handed' = [handed EXCEPT ![t] = NoMessage]
  /\ UNCHANGED <<queue, waiting>>

Discard(b) ==
  /\ queue' = [queue EXCEPT ![b] = <<>>]
  /\ UNCHANGED <<waiting, handed>>

(* The threads that wait at b are sent away without a message.             *)
Close(b) ==
  /\ queue'   = [queue EXCEPT ![b] = <<>>]
  /\ waiting' = [waiting EXCEPT ![b] = <<>>]
  /\ handed'  = [t \in Threads |-> IF Contains(waiting[b], t) THEN NoMessage
                                                              ELSE handed[t]]

(* Contents is what messages may say.                                      *)
MailNext(Contents) ==
  \/ \E b \in Boxes : Take(b) \/ Discard(b) \/ Close(b)
  \/ \E b \in Boxes, m \in Contents : Deliver(b, m)
  \/ \E b \in Boxes, t \in Threads : Wait(t, b)
  \/ \E t \in Threads : Collect(t)

=============================================================================
