--------------------------------- MODULE Ipc ---------------------------------
(***************************************************************************)
(* Mailboxes: kernel/msg.c put together with the scheduler and the lists   *)
(* of tcb.c.  A thread that finds no message at a mailbox leaves the ready *)
(* queue and waits there; a message sent to a mailbox at which a thread    *)
(* waits is handed to that thread, which becomes ready.                    *)
(*                                                                         *)
(* The kernel holds its locks with interrupts masked, so what it does      *)
(* between taking and giving back the outermost lock is one step.  In      *)
(* FMTK_WaitMsg there are two such regions: between them (pc "window")     *)
(* the thread is queued at the mailbox but not yet on the timeout list,    *)
(* and an interrupt can come.  The keyboard's interrupt routine posts      *)
(* messages to the mailbox FMTK_Initialize has allocated for it.           *)
(***************************************************************************)
EXTENDS Scheduler, Messages

CONSTANTS
  IsrPosts,  \* mailboxes an interrupt routine posts to
  LimitedAt, \* mailboxes threads may wait at with a time limit
  Reuse,     \* TRUE when a mailbox may be allocated after one was freed
  MaxCount   \* bounds mq_count in the model, so that no queue is overfull

ASSUME IpcAssumption ==
  /\ 8 \in Sizes
  /\ MaxCount \in 0 .. 8
  /\ IsrPosts \subseteq Mailboxes
  /\ LimitedAt \subseteq Mailboxes
  /\ Reuse \in BOOLEAN

VARIABLES
  M,     \* message blocks and message queues
  W,     \* the threads that wait at the mailboxes
  box,   \* the mailboxes: owner and free list
  mail,  \* handle -> the message handed to the thread, NoMail for none
  inside \* the threads that are inside FMTK_WaitMsg

ipcVars == <<M, W, box, mail, inside>>
allVars == <<vars, ipcVars>>

NoMail   == "MT_NONE"
Mailbox0 == Mailboxes \cup {0}
SystemApp == 1

Waiting ==
  [tq_head  : [Mailboxes -> Handle0],
   tq_tail  : [Mailboxes -> Handle0],
   mbq_next : [Handle -> Handle0],
   mbq_prev : [Handle -> Handle0],
   hWaitMbx : [Handle -> Mailbox0]]

Boxes ==
  [owner   : [Mailboxes -> {0, SystemApp}],
   link    : [Mailboxes -> Nat],
   freeMBX : Nat,
   held    : SUBSET Mailboxes] \* history: allocated and not freed since

-----------------------------------------------------------------------------
(* Threads at a mailbox.                                                   *)

MBXQueueThread(V, b, h) ==
  LET last == V.tq_tail[b]
  IN  [V EXCEPT !.hWaitMbx[h] = b,
                !.mbq_prev[h] = IF V.tq_head[b] = 0 THEN 0 ELSE last,
                !.mbq_next    = IF V.tq_head[b] = 0 THEN Put(@, h, 0)
                                ELSE Put(Put(@, h, 0), last, h),
                !.tq_head[b]  = IF @ = 0 THEN h ELSE @,
                !.tq_tail[b]  = h]

(* Fault: the tail stays when the last thread leaves.                      *)
DequeueThreadKeepsTail(V, b) ==
  LET h == V.tq_head[b]
  IN  [V EXCEPT !.hWaitMbx[h] = 0, !.mbq_next[h] = 0, !.mbq_prev[h] = 0,
                !.tq_head[b] = V.mbq_next[h]]

MBXDequeueThread(V, b) ==
  LET h == V.tq_head[b]
      n == V.mbq_next[h]
  IN  [V EXCEPT !.hWaitMbx[h] = 0,
                !.mbq_next[h] = 0,
                !.mbq_prev    = Put(Put(@, n, 0), h, 0),
                !.tq_head[b]  = n,
                !.tq_tail[b]  = IF n = 0 THEN 0 ELSE @]

(* Faults: the thread is not made ready; it stays on the timeout list.     *)
MakeReadyUnqueued(L, h) == [L EXCEPT !.status[h] = @ \ {"WAITMSG"}]
MakeReadyTimed(L, h)    == TCBInsertIntoReadyQueue(MakeReadyUnqueued(L, h), h)

(* A thread that was taken off a mailbox becomes ready: it leaves the      *)
(* timeout list, if it is on it, and is no longer marked as waiting.       *)
MakeReady(L, h) ==
  LET R == IF "TIMEOUT" \in L.status[h] THEN TCBRemoveFromTimeoutList(L, h) ELSE L
  IN  TCBInsertIntoReadyQueue([R EXCEPT !.status[h] = @ \ {"WAITMSG"}], h)

(* FMTK_FreeMbx makes every thread at the mailbox ready, without a message.*)
Releasing == [L : Lists, V : Waiting, mail : [Handle -> Bodies \cup {NoMail}]]

ReleaseFirst(b) ==
  [r \in Releasing |->
     LET h == r.V.tq_head[b]
     IN  IF h = 0 THEN r
         ELSE [L    |-> MakeReady(r.L, h),
               V    |-> MBXDequeueThread(r.V, b),
               mail |-> [r.mail EXCEPT ![h] = NoMail]]]

Released(b) ==
  Iterate(ReleaseFirst(b), [L |-> lists, V |-> W, mail |-> mail])[NR_TCB]

-----------------------------------------------------------------------------

(* FMTK_Initialize has allocated two mailboxes, the keyboard's and the one *)
(* of the system's application.  Mailboxes may leave out one that no step  *)
(* is to use.                                                              *)
BootMailboxes == {1, 2} \cap Mailboxes

IpcInit ==
  /\ Init
  /\ M = FreshMessages(8, "NEWEST")
  /\ W = [tq_head  |-> [b \in Mailboxes |-> 0],
          tq_tail  |-> [b \in Mailboxes |-> 0],
          mbq_next |-> [h \in Handle |-> 0],
          mbq_prev |-> [h \in Handle |-> 0],
          hWaitMbx |-> [h \in Handle |-> 0]]
  /\ box = [owner   |-> [b \in Mailboxes |-> IF b \in BootMailboxes THEN SystemApp ELSE 0],
            link    |-> [b \in Mailboxes |-> IF b + 1 \in Mailboxes THEN b + 1 ELSE 0],
            freeMBX |-> IF 3 \in Mailboxes THEN 3 ELSE 0,
            held    |-> BootMailboxes]
  /\ mail   = [h \in Handle |-> NoMail]
  /\ inside = {}

MayCall == Calls /\ tr \notin inside

(* A mailbox without an owner gives E_NotAlloc.  One that was freed keeps  *)
(* its owner; that threads use those only they have not freed is taken from*)
(* their good behaviour.                                                   *)
MayUse(b) == b \in box.held

(* All threads belong to the system's application, which may use and free  *)
(* every mailbox.                                                          *)
AllocMbx ==
  LET b == box.freeMBX
  IN  /\ MayCall
      /\ b \in Mailboxes
      /\ Reuse \/ \A c \in Mailboxes : box.owner[c] # 0 => c \in box.held
      /\ box' = [box EXCEPT !.freeMBX  = box.link[b],
                            !.owner[b] = SystemApp,
                            !.held     = @ \cup {b}]
      /\ M' = [M EXCEPT !.head[b] = 0, !.tail[b] = 0, !.count[b] = 0,
                        !.size[b] = 8, !.strategy[b] = "NEWEST"]
      /\ W' = [W EXCEPT !.tq_head[b] = 0, !.tq_tail[b] = 0]
      /\ UNCHANGED <<vars, mail, inside>>

(* The mailbox is freed, but the head of the free list becomes the handle  *)
(* before its own: freeMBX = mbx - mailbox.  Its owner stays.              *)
FreeMbx(b) ==
  /\ MayCall
  /\ b \in box.held
  /\ M'     = EmptyQueue(M, b)
  /\ lists' = Released(b).L
  /\ W'     = Released(b).V
  /\ mail'  = Released(b).mail
  /\ box'   = [box EXCEPT !.link[b] = box.freeMBX, !.freeMBX = b - 1,
                          !.held = @ \ {b}]
  /\ UNCHANGED <<affinity, tr, invert, pc, inside>>

EmptyMbx(b) ==
  /\ MayCall
  /\ MayUse(b)
  /\ M' = EmptyQueue(M, b)
  /\ UNCHANGED <<vars, W, box, mail, inside>>

(* Fault: the message is queued although a thread waits.                   *)
DeliverQueued(b, body) ==
  /\ M.freeMSG # 0
  /\ M.count[b] < MaxCount
  /\ M' = MBXQueueMsg(AllocMsg(M, body), b, M.freeMSG)
  /\ UNCHANGED <<lists, affinity, tr, invert, W, box, mail, inside>>

(* The message goes to the first thread at the mailbox or to the queue.    *)
(* Without a free block, which is demanded in both cases, nothing happens. *)
Deliver(b, body) ==
  LET h == W.tq_head[b]
  IN  /\ box.owner[b] # 0
      /\ M.freeMSG # 0
      /\ IF h = 0
         THEN /\ M.count[b] < MaxCount
              /\ M' = MBXQueueMsg(AllocMsg(M, body), b, M.freeMSG)
              /\ UNCHANGED <<lists, W, mail>>
         ELSE /\ lists' = MakeReady(lists, h)
              /\ W'     = MBXDequeueThread(W, b)
              /\ mail'  = [mail EXCEPT ![h] = body]
              /\ UNCHANGED M
      /\ UNCHANGED <<affinity, tr, invert, box, inside>>

(* A sender that has woken a thread gives up the core.                     *)
SendMsg(b, body) ==
  /\ MayCall
  /\ MayUse(b)
  /\ Deliver(b, body)
  /\ pc' = [pc EXCEPT ![tr] = IF W.tq_head[b] = 0 THEN @ ELSE "yield"]

(* An interrupt routine posts a message; a thread in a stop goes on.       *)
PostMsg(b, body) ==
  /\ ~lists.panic
  /\ b \in IsrPosts
  /\ Deliver(b, body)
  /\ pc' = [pc EXCEPT ![tr] = IF @ = "stop" THEN "app" ELSE @]

(* FMTK_WaitMsg and FMTK_CheckMsg when there is a message.                 *)
Receive(b) ==
  /\ MayCall
  /\ MayUse(b)
  /\ Dequeued(M, b) # 0
  /\ M' = TakeMsg(M, b)
  /\ UNCHANGED <<vars, W, box, mail, inside>>

(* FMTK_WaitMsg when there is none, up to the end of its first locked      *)
(* region.  A thread that gives a time limit goes on to the second.        *)
WaitMsg(b, limited) ==
  LET R == TCBRemoveFromReadyQueue(lists, tr)
      Corrupt == W.mbq_next[tr] # 0 \/ W.mbq_prev[tr] # 0
  IN  /\ MayCall
      /\ MayUse(b)
      /\ limited => b \in LimitedAt
      /\ Dequeued(M, b) = 0
      /\ M' = MBXDequeueMsg(M, b)
      /\ lists' = [R EXCEPT !.status[tr] = @ \cup {"WAITMSG"}, !.panic = Corrupt]
      /\ W' = MBXQueueThread(W, b, tr)
      /\ pc' = [pc EXCEPT ![tr] = IF limited THEN "window" ELSE "yield"]
      /\ inside' = inside \cup {tr}
      /\ UNCHANGED <<affinity, tr, invert, box, mail>>

(* Its second region.                                                      *)
LimitWait(timelimit) ==
  /\ pc[tr] = "window"
  /\ ~lists.panic
  /\ lists' = TCBInsertIntoTimeoutList(lists, tr, timelimit)
  /\ pc' = [pc EXCEPT ![tr] = "yield"]
  /\ UNCHANGED <<affinity, tr, invert, ipcVars>>

(* The thread runs again and takes the message, if there is one.           *)
Return ==
  /\ Calls
  /\ tr \in inside
  /\ mail'   = [mail EXCEPT ![tr] = NoMail]
  /\ inside' = inside \ {tr}
  /\ UNCHANGED <<vars, M, W, box>>

(* The scheduler's steps.  A thread calls FMTK_Reschedule only on its way  *)
(* through the kernel.                                                     *)
Schedule ==
  /\ \/ \E pri \in Priority : MayCall /\ StartThread(pri, AnyCore)
     \/ pc[tr] = "yield" /\ Reschedule
     \/ tr = IdleThread /\ Reschedule
     \/ TimerTickISR
  /\ UNCHANGED ipcVars

IpcNext ==
  \/ Schedule
  \/ AllocMbx
  \/ \E b \in Mailboxes :
       \/ FreeMbx(b)
       \/ EmptyMbx(b)
       \/ Receive(b)
       \/ \E body \in Bodies : SendMsg(b, body) \/ PostMsg(b, body)
       \/ \E limited \in BOOLEAN : WaitMsg(b, limited)
  \/ \E timelimit \in Timeouts : LimitWait(timelimit)
  \/ Return

IpcSpec == IpcInit /\ [][IpcNext]_allVars

-----------------------------------------------------------------------------
(* Every variable has its type.                                            *)
IpcTypeOK ==
  /\ lists \in Lists
  /\ tr \in Handle
  /\ pc \in [Handle -> {"app", "yield", "stop", "window"}]
  /\ M \in Messages
  /\ W \in Waiting
  /\ box \in Boxes
  /\ mail \in [Handle -> Bodies \cup {NoMail}]
  /\ inside \subseteq Handle

(* The threads at mailbox b, first to last.                                *)
Waiters(b) ==
  LET grow == [s \in Seq(Handle) |->
                 LET n == IF s = <<>> THEN W.tq_head[b] ELSE W.mbq_next[Last(s)]
                 IN  IF n = 0 \/ Contains(s, n) THEN s ELSE Append(s, n)]
  IN  Iterate(grow, <<>>)[NR_TCB]

(***************************************************************************)
(* The threads marked as waiting for a message are those in the queues of  *)
(* the mailboxes they wait at, and in no other (msg.c 432-505).            *)
(***************************************************************************)
WaitersQueued ==
  /\ \A b \in Mailboxes :
       LET q == Waiters(b)
       IN  /\ ToSet(q) = {h \in Handle : W.hWaitMbx[h] = b}
           /\ W.tq_tail[b] = IF q = <<>> THEN 0 ELSE Last(q)
  /\ \A h \in Handle : "WAITMSG" \in lists.status[h] <=> W.hWaitMbx[h] # 0

(***************************************************************************)
(* No wake-up is lost: a thread never waits at a mailbox that has a        *)
(* message for it (msg.c 703-714, 791-809, 887-916).                       *)
(***************************************************************************)
NoLostWakeup ==
  \A b \in Mailboxes : W.tq_head[b] # 0 => M.head[b] = 0

(***************************************************************************)
(* A waiting thread is blocked, and a thread that was handed a message is  *)
(* ready to return with it: it is not waiting anywhere any more, and no    *)
(* second message has been put over the first (msg.c 715-727, 936-945).    *)
(***************************************************************************)
HandedOver ==
  \A h \in Handle :
    /\ W.hWaitMbx[h] # 0 => ~IsReady(h) /\ h \in inside /\ mail[h] = NoMail
    /\ mail[h] # NoMail => h \in inside /\ IsReady(h)

(* A thread that has blocked is not resumed before it was woken, for no    *)
(* other thread is eligible: the idle thread always is (msg.c 930-943).    *)
ResumedAwake == pc[tr] \in {"app", "stop"} => W.hWaitMbx[tr] = 0

=============================================================================
