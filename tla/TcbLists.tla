------------------------------ MODULE TcbLists ------------------------------
(***************************************************************************)
(* The state machine of kernel/tcb.c alone: any sequence of calls of its   *)
(* routines by callers that respect what the routines demand.  A routine   *)
(* runs with interrupts masked, so a call is one step.                     *)
(*                                                                         *)
(* home is a history variable: the list the calls made so far have put     *)
(* each TCB on.  "loose" is a TCB in the hands of a caller, between lists. *)
(* The code has nothing like it; the links have to agree with it.          *)
(***************************************************************************)
EXTENDS TcbShapes

VARIABLES lists, home

vars == <<lists, home>>

Moved(h, place) == home' = [home EXCEPT ![h] = place]

-----------------------------------------------------------------------------

Init ==
  /\ lists = BootLists
  /\ home  = [h \in Handle |-> IF h = 1 THEN "loose" ELSE "free"]

AllocTCB(pri) ==
  /\ lists.freeTCB # 0
  /\ lists' = TakeTCB(lists, pri)
  /\ Moved(lists.freeTCB, "loose")

FreeTCB(h) ==
  /\ home[h] = "loose"
  /\ lists' = iFreeTCB(lists, h)
  /\ Moved(h, "free")

InsertIntoReadyQueue(h) ==
  /\ home[h] = "loose"
  /\ lists' = TCBInsertIntoReadyQueue(lists, h)
  /\ Moved(h, "ready")

(* FMTK_Sleep and FMTK_WaitMsg call this for the running thread, which may *)
(* be the first thread and then is on no queue.                            *)
RemoveFromReadyQueue(h) ==
  /\ home[h] \in {"ready", "loose"}
  /\ lists' = TCBRemoveFromReadyQueue(lists, h)
  /\ Moved(h, "loose")

InsertIntoTimeoutList(h, to) ==
  /\ home[h] = "loose"
  /\ lists' = TCBInsertIntoTimeoutList(lists, h, to)
  /\ Moved(h, "timeout")

RemoveFromTimeoutList(h) ==
  /\ home[h] = "timeout"
  /\ lists' = TCBRemoveFromTimeoutList(lists, h)
  /\ Moved(h, "loose")

(* Only a TCB whose wait is over is popped.                                *)
PopTimeoutList ==
  /\ lists.TimeoutList # 0
  /\ lists.timeout[lists.TimeoutList] = 0
  /\ lists' = TCBPopTimeoutList(lists)
  /\ Moved(lists.TimeoutList, "loose")

(* SelectThreadToRunHelper leaves the head of a ready queue just after the *)
(* thread it has picked.                                                   *)
Rotate(h) ==
  /\ home[h] = "ready"
  /\ lists' = [lists EXCEPT !.readyQ[lists.priority[h]] = lists.next[h]]
  /\ UNCHANGED home

Next ==
  \/ \E pri \in Priority : AllocTCB(pri)
  \/ \E h \in Handle : FreeTCB(h)
  \/ \E h \in Handle : InsertIntoReadyQueue(h)
  \/ \E h \in Handle : RemoveFromReadyQueue(h)
  \/ \E h \in Handle, to \in Timeouts : InsertIntoTimeoutList(h, to)
  \/ \E h \in Handle : RemoveFromTimeoutList(h)
  \/ PopTimeoutList
  \/ \E h \in Handle : Rotate(h)

Spec == Init /\ [][Next]_vars

-----------------------------------------------------------------------------
(* Every variable has its type.                                            *)
TypeOK ==
  /\ lists \in Lists
  /\ home \in [Handle -> Homes]

(***************************************************************************)
(* The threads ready at a priority (tcb.c 184-262) form one ring, and the  *)
(* queue's head is one of them as long as there are any.  So the scan of   *)
(* SelectThreadToRunHelper, which follows next from the head, meets every  *)
(* thread that is ready and nothing else.                                  *)
(***************************************************************************)
ReadyRings == RingsFormed(lists, home)

(***************************************************************************)
(* The threads that wait for a timeout (tcb.c 268-367) form one chain from *)
(* TimeoutList: none is lost, and none is linked that does not wait.       *)
(***************************************************************************)
TimeoutChain == ChainFormed(lists, home)

(***************************************************************************)
(* The free TCBs (tcb.c 134-143, StartThread) form one stack from freeTCB: *)
(* no TCB is handed out twice and none that was freed is lost.             *)
(***************************************************************************)
FreeStack == StackFormed(lists, home)

(***************************************************************************)
(* A TCB in the hands of a caller has no links: the checks "thread on a    *)
(* list already" (tcb.c 209, 280) tell the truth about it, and TS_TIMEOUT, *)
(* by which msg.c decides whether to call TCBRemoveFromTimeoutList, is set *)
(* exactly on the TCBs of the timeout list.                                *)
(***************************************************************************)
LooseAndFlagged == LooseFormed(lists, home)

(* The kernel does not panic on callers that respect the routines.         *)
NoPanic == ~lists.panic

=============================================================================
