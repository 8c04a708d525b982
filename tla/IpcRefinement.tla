---------------------------- MODULE IpcRefinement ----------------------------
(***************************************************************************)
(* The threads, links and message blocks of Ipc implement the queues of    *)
(* Mailbox.                                                                *)
(***************************************************************************)
EXTENDS Ipc

(* What the messages of N say from block m on, the threads of V from h on. *)
MessagesFrom(N) ==
  LET from[m \in Msg0] ==
        IF m = 0 THEN <<>>
        ELSE <<[body |-> N.body[m], rep |-> N.rep[m]]>> \o from[N.link[m]]
  IN  from

ThreadsFrom(V) ==
  LET from[h \in Handle0] == IF h = 0 THEN <<>> ELSE <<h>> \o from[V.mbq_next[h]]
  IN  from

(* What is queued at each mailbox, and who.                                *)
Letters(N) == [b \in Mailboxes |-> MessagesFrom(N)[N.head[b]]]
Callers(V) == [b \in Mailboxes |-> ThreadsFrom(V)[V.tq_head[b]]]

Promised == INSTANCE Mailbox WITH
  Threads   <- Handle,
  Boxes     <- Mailboxes,
  NoMessage <- NoMail,
  Blocks    <- NR_MSG,
  queue     <- Letters(M),
  waiting   <- Callers(W),
  handed    <- mail

(* Whatever the threads, the interrupt routine and the scheduler do, every *)
(* message goes to the thread that has waited longest or to the end of the *)
(* queue, once, and nothing else changes what threads get (msg.c 267-1012).*)
(* The first disjunct adds nothing; it lets TLC see at once that most of   *)
(* the scheduler's steps are stutters.                                     *)
ImplementsMailbox ==
  /\ Promised!MailInit
  /\ [][UNCHANGED <<M, W, mail>> \/ Promised!MailNext(Bodies)]_<<M, W, mail>>

=============================================================================
