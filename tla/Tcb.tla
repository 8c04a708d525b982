--------------------------------- MODULE Tcb ---------------------------------
(***************************************************************************)
(* kernel/tcb.c: the lists a thread control block (TCB) can be on.         *)
(*                                                                         *)
(* Every TCB has one pair of links, next and prev, and three kinds of list *)
(* share it: the free list (linked through next only), one circular doubly *)
(* linked ready queue per priority, and the timeout list, a linear doubly  *)
(* linked list in which every TCB holds the ticks it waits after the TCB   *)
(* before it.  A TCB is named by its handle, 1 .. NR_TCB; 0 is no TCB.     *)
(*                                                                         *)
(* The functions of tcb.c update several globals in a row, and their       *)
(* callers call several of them with interrupts masked.  They are operators*)
(* that take the record L of those globals and return its new value, so    *)
(* that a caller composes them in the order of the code.  TcbLists is the  *)
(* state machine of tcb.c alone, Scheduler and Ipc those of its callers.   *)
(***************************************************************************)
EXTENDS Integers, FiniteSets, Iteration

CONSTANTS
  NR_TCB,       \* number of TCBs, 256 in inc/config.h
  MaxPriority,  \* highest priority, 31 in tcb.c
  BootPriority, \* priority the first thread and the free TCBs start with, 15
  Timeouts      \* ticks a thread may ask to sleep; bounds the model

ASSUME TcbAssumption ==
  /\ NR_TCB \in Nat \ {0, 1}
  /\ BootPriority \in 0 .. MaxPriority
  /\ MaxPriority \in Nat
  /\ Timeouts \subseteq Nat

Handle    == 1 .. NR_TCB
Handle0   == 0 .. NR_TCB
Priority  == 0 .. MaxPriority
StatusBit == {"TIMEOUT", "WAITMSG", "PREEMPT", "RUNNING", "READY"}

(***************************************************************************)
(* The globals of tcb.c.  panic is set once the kernel has stopped the     *)
(* core in panic().                                                        *)
(***************************************************************************)
Lists ==
  [next        : [Handle -> Handle0],
   prev        : [Handle -> Handle0],
   status      : [Handle -> SUBSET StatusBit],
   priority    : [Handle -> Priority],
   timeout     : [Handle -> Int],
   readyQ      : [Priority -> Handle0],
   TimeoutList : Handle0,
   freeTCB     : Handle0,
   panic       : BOOLEAN]

(* Fault: the assignment through NULL is made.                             *)
PutThroughNull(f, h, v) ==
  [g \in DOMAIN f \cup {h} |-> IF g = h THEN v ELSE f[g]]

(* An assignment through a handle that may be 0: TCBHandleToPointer gives  *)
(* NULL and the code skips the assignment.                                 *)
Put(f, h, v) == IF h \in Handle THEN [f EXCEPT ![h] = v] ELSE f

Panic(L) == [L EXCEPT !.panic = TRUE]

(***************************************************************************)
(* What boot leaves: SetupFirstThread makes TCB 1 the running thread, on   *)
(* no list; SetupTCBs links the others into the free list.  SetupTCBs does *)
(* not clear the ready queues of priority 8 and up: they are zero because  *)
(* the core's local RAM powers up as zero.  The priority 30 it gives TCB 2 *)
(* is not kept: whoever takes a TCB sets its priority anew.                *)
(***************************************************************************)
BootLists ==
  [next        |-> [h \in Handle |-> IF h \in {1, NR_TCB} THEN 0 ELSE h + 1],
   prev        |-> [h \in Handle |-> h - 1],
   status      |-> [h \in Handle |-> IF h = 1 THEN {"RUNNING", "READY"} ELSE {}],
   priority    |-> [h \in Handle |-> BootPriority],
   timeout     |-> [h \in Handle |-> 0],
   readyQ      |-> [p \in Priority |-> 0],
   TimeoutList |-> 0,
   freeTCB     |-> 2,
   panic       |-> FALSE]

-----------------------------------------------------------------------------
(* The free list.                                                          *)

(* Fault: the TCB keeps its link into the free list.                       *)
TakeTCBLinked(L, pri) ==
  [L EXCEPT !.freeTCB = L.next[L.freeTCB], !.priority[L.freeTCB] = pri]

(* Taking the head of the free list, as StartThread does: the links of the *)
(* TCB are cleared and its priority set.                                   *)
TakeTCB(L, pri) ==
  LET h == L.freeTCB
  IN  [L EXCEPT !.freeTCB     = L.next[h],
                !.next[h]     = 0,
                !.prev[h]     = 0,
                !.priority[h] = pri]

(* Fault: the rest of the free list is not linked behind the TCB.          *)
iFreeTCBUnlinked(L, h) == [L EXCEPT !.freeTCB = h]

iFreeTCB(L, h) ==
  [L EXCEPT !.next[h] = L.freeTCB, !.freeTCB = h]

-----------------------------------------------------------------------------
(* The ready queues.                                                       *)

(* A thread becomes the last of its priority's ring, just before the head. *)
TCBInsertIntoReadyQueue(L, t) ==
  LET pri  == L.priority[t]
      hq   == L.readyQ[pri]
      R    == [L EXCEPT !.status[t] = @ \cup {"READY"}]
  IN  IF hq = 0
      THEN [R EXCEPT !.next[t] = t, !.prev[t] = t, !.readyQ[pri] = t]
      ELSE IF t = hq \/ L.next[t] # 0 \/ L.prev[t] # 0 \/ L.prev[hq] = 0
      THEN Panic(R)
      ELSE [R EXCEPT !.next = Put(Put(@, t, hq), L.prev[hq], t),
                     !.prev = Put(Put(@, t, L.prev[hq]), hq, t)]

(* Fault: the head stays although it is the thread that leaves.            *)
HeadUnmoved(L, t) == IF L.next[t] = t THEN 0 ELSE L.readyQ[L.priority[t]]

(* The head of t's ready queue once t has left it.                         *)
HeadWithout(L, t) ==
  LET hq == L.readyQ[L.priority[t]]
  IN  IF t # hq THEN hq
      ELSE IF L.next[t] = t THEN 0 ELSE L.next[t]

TCBRemoveFromReadyQueue(L, t) ==
  LET n == L.next[t]
      p == L.prev[t]
      alone == n = t
  IN  [L EXCEPT !.readyQ[L.priority[t]] = HeadWithout(L, t),
                !.prev      = Put(IF alone THEN @ ELSE Put(@, n, p), t, 0),
                !.next      = Put(IF alone THEN @ ELSE Put(@, p, n), t, 0),
                !.status[t] = {}]

-----------------------------------------------------------------------------
(* The timeout list.                                                       *)

(* The walk of TCBInsertIntoTimeoutList: p is the TCB looked at, q the one *)
(* before it and to the ticks left once those before p have elapsed.       *)
Walk == [q : Handle0, p : Handle0, to : Int]

WalkOn(L, w) == w.p # 0 /\ w.to > L.timeout[w.p]

WalkStep(L) ==
  [w \in Walk |->
     IF WalkOn(L, w)
     THEN [q |-> w.p, p |-> L.next[w.p], to |-> w.to - L.timeout[w.p]]
     ELSE w]

WalkEnd(L, to) ==
  Iterate(WalkStep(L), [q |-> 0, p |-> L.TimeoutList, to |-> to])[NR_TCB]

(* t is linked between w.q and w.p, and the wait of w.p shortened by t's.  *)
LinkTimeout(L, t, w) ==
  [L EXCEPT !.next        = Put([@ EXCEPT ![t] = w.p], w.q, t),
            !.prev        = Put([@ EXCEPT ![t] = w.q], w.p, t),
            !.timeout     = [h \in Handle |->
                               CASE h = t   -> w.to
                                 [] h = w.p -> L.timeout[h] - w.to
                                 [] OTHER   -> L.timeout[h]],
            !.TimeoutList = IF w.q = 0 THEN t ELSE @]

TCBInsertIntoTimeoutList(L, t, to) ==
  IF L.TimeoutList = t THEN Panic(L)
  ELSE LET R == [L EXCEPT !.status[t] = @ \cup {"TIMEOUT"}]
       IN  IF L.next[t] # 0 \/ L.prev[t] # 0
           THEN Panic(R)
           ELSE LinkTimeout(R, t, WalkEnd(L, to))

(* Fault: the wait of t is lost to the TCBs after it.                      *)
WaitsUnchanged(L, t) == L.timeout

(* The waits once t has left: the TCB after t takes over t's wait.         *)
WaitsWithout(L, t) ==
  LET n == L.next[t]
  IN  [h \in Handle |-> IF h = n THEN L.timeout[h] + L.timeout[t]
                                 ELSE L.timeout[h]]

TCBRemoveFromTimeoutList(L, t) ==
  LET n == L.next[t]
      p == L.prev[t]
  IN  [L EXCEPT !.prev        = Put(Put(@, n, p), t, 0),
                !.next        = Put(Put(@, p, n), t, 0),
                !.timeout     = WaitsWithout(L, t),
                !.TimeoutList = IF @ = t THEN n ELSE @,
                !.status[t]   = {}]

(* Fault: the new head still points back to the TCB popped.                *)
PopLeavesPrev(L) ==
  [L EXCEPT !.TimeoutList = L.next[@], !.next[L.TimeoutList] = 0,
            !.status[L.TimeoutList] = {}]

TCBPopTimeoutList(L) ==
  LET t == L.TimeoutList
      n == L.next[t]
  IN  [L EXCEPT !.TimeoutList = n,
                !.status[t]   = {},
                !.next        = Put(@, t, 0),
                !.prev        = Put(Put(@, t, 0), n, 0)]

=============================================================================
