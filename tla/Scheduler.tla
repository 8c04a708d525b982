------------------------------ MODULE Scheduler ------------------------------
(***************************************************************************)
(* The scheduler of kernel/Femtiki_kern.c on the one core that runs the    *)
(* kernel: threads are started, put to sleep, given another priority, and  *)
(* the reschedule interrupt picks the thread that runs next.               *)
(*                                                                         *)
(* A thread gives the core up in FMTK_Reschedule (inc/proto.h): it has the *)
(* PIC raise the reschedule interrupt and executes a stop instruction.     *)
(* The interrupt, of level 1, ends the stop, which clears the interrupt    *)
(* mask.  It comes before the stop when the mask is clear already, as it is*)
(* after an earlier stop for a thread that calls the kernel's functions    *)
(* directly.  A thread that was switched away before its stop is in the    *)
(* stop when it is resumed, and stays there until some other interrupt,    *)
(* the timer tick.                                                         *)
(*                                                                         *)
(* The first thread (TCB 1) runs at boot and is on no queue.  The second   *)
(* is the idle thread, which never calls the kernel.                       *)
(*                                                                         *)
(* Left out: the tick counts of threads and of the timer interrupt, which  *)
(* nothing modelled reads, stacks, registers, exceptions and the MMU.      *)
(***************************************************************************)
EXTENDS Tcb

CONSTANTS
  Core,         \* the core that runs the kernel, 2
  AnyCore,      \* affinity of a thread that may run on any core, 63
  Affinities,   \* affinities threads are started with; bounds the model
  InvertPeriod, \* priorities are inverted every so many picks, 32
  Reprioritise, \* TRUE when threads may call FMTK_SetThreadPriority
  IdleYields    \* TRUE when something raises the reschedule interrupt while
                \* the idle thread runs; FALSE in the code

ASSUME SchedulerAssumption ==
  /\ Core # AnyCore
  /\ InvertPeriod \in Nat \ {0}
  /\ Reprioritise \in BOOLEAN
  /\ IdleYields \in BOOLEAN

VARIABLES
  lists,    \* the globals of tcb.c
  affinity, \* handle -> core a thread must run on
  tr,       \* the running thread, the core's register tr
  invert,   \* picks so far, modulo InvertPeriod
  pc        \* handle -> what a thread does when it runs: "app", its own
            \* code; "yield", a kernel call on its way to FMTK_Reschedule,
            \* or in it; "stop", the stop instruction of FMTK_Reschedule

vars == <<lists, affinity, tr, invert, pc>>

FirstThread == 1
IdleThread  == 2

-----------------------------------------------------------------------------
(* SelectThreadToRun.                                                      *)

Eligible(h) == affinity[h] \in {Core, AnyCore}

(* The scan of SelectThreadToRunHelper: h is the TCB looked at, left the   *)
(* number of TCBs it may still look at, and found its result.              *)
Scan == [h : Handle0, left : 0 .. NR_TCB, found : Handle0]

(* Fault: a thread is taken whatever its affinity.                         *)
ScanAnyCore(L, p) == [s \in Scan |-> [s EXCEPT !.found = L.readyQ[p]]]

(* Fault: nothing is found in a queue of one.                              *)
ScanNotAlone(L, p) ==
  [s \in Scan |-> IF s.h = 0 \/ L.next[s.h] = s.h THEN s
                  ELSE [s EXCEPT !.found = s.h]]

ScanStep(L, p) ==
  [s \in Scan |->
     IF s.h = 0 \/ s.left = 0 \/ s.found # 0 THEN s
     ELSE IF Eligible(s.h) THEN [s EXCEPT !.found = s.h]
     ELSE IF L.next[s.h] = L.readyQ[p] THEN [s EXCEPT !.left = 0]
     ELSE [s EXCEPT !.h = L.next[s.h], !.left = @ - 1]]

(* The thread SelectThreadToRunHelper returns for priority p, 0 for none.  *)
Found(L, p) ==
  Iterate(ScanStep(L, p),
          [h |-> L.readyQ[p], left |-> NR_TCB, found |-> 0])[NR_TCB].found

(* Fault: the queue is not turned.                                         *)
Unturned(L, p) == L

(* The queue is turned so that the thread found is its last.               *)
Turned(L, p) == [L EXCEPT !.readyQ[p] = L.next[Found(L, p)]]

(* Fault: the order is never inverted.                                     *)
NeverInverted(inv, p, q) == p > q

(* The priorities are searched from the highest down, and every            *)
(* InvertPeriod picks from the lowest up.                                  *)
SearchFirst(inv, p, q) == IF inv = 0 THEN p < q ELSE p > q

(* What SelectThreadToRun leaves: the lists and the thread to run, which   *)
(* is the running one when no queue has a thread for this core.            *)
SelectThreadToRun(L, inv) ==
  LET Hits == {p \in Priority : Found(L, p) # 0}
      best == CHOOSE p \in Hits : \A q \in Hits \ {p} : SearchFirst(inv, p, q)
  IN  IF Hits = {} THEN [lists |-> L, thread |-> tr]
                   ELSE [lists |-> Turned(L, best), thread |-> Found(L, best)]

(* Faults: the status is assigned, not added to; TS_RUNNING stays.         *)
PreemptedOnly(s) == {"PREEMPT"}
StillRunning(s)  == s \cup {"PREEMPT"}

(* The status of the thread that is interrupted.                           *)
Preempted(s) == (s \cup {"PREEMPT"}) \ {"RUNNING"}

(* The reschedule interrupt, on lists L.                                   *)
RescheduleISR(L) ==
  LET P    == [L EXCEPT !.status[tr] = Preempted(@)]
      inv  == (invert + 1) % InvertPeriod
      pick == SelectThreadToRun(P, inv)
  IN  /\ invert' = inv
      /\ tr' = pick.thread
      /\ lists' = [pick.lists EXCEPT
                     !.status[pick.thread] = (@ \cup {"RUNNING"}) \ {"PREEMPT"}]

-----------------------------------------------------------------------------

Init ==
  /\ lists    = TCBInsertIntoReadyQueue(TakeTCB(BootLists, BootPriority),
                                        IdleThread)
  /\ affinity = [h \in Handle |-> IF h \in {FirstThread, IdleThread}
                                  THEN Core ELSE AnyCore]
  /\ tr       = FirstThread
  /\ invert   = 0
  /\ pc       = [h \in Handle |-> "app"]

(* The running thread executes its own code and calls the kernel.          *)
Calls == tr # IdleThread /\ pc[tr] = "app" /\ ~lists.panic

StartThread(pri, aff) ==
  LET ht == lists.freeTCB
  IN  /\ Calls
      /\ ht # 0
      /\ lists' = TCBInsertIntoReadyQueue(
                    [TakeTCB(lists, pri) EXCEPT !.status[ht] = {}], ht)
      /\ affinity' = [affinity EXCEPT ![ht] = aff]
      /\ pc' = [pc EXCEPT ![ht] = "app"]
      /\ UNCHANGED <<tr, invert>>

Sleep(timeout) ==
  /\ Calls
  /\ lists' = TCBInsertIntoTimeoutList(TCBRemoveFromReadyQueue(lists, tr),
                                       tr, timeout)
  /\ pc' = [pc EXCEPT ![tr] = "yield"]
  /\ UNCHANGED <<affinity, tr, invert>>

(* Fault: the thread is not taken off its old queue first.                 *)
SetPriorityInPlace(ht, pri) ==
  /\ Calls
  /\ Reprioritise
  /\ lists' = TCBInsertIntoReadyQueue([lists EXCEPT !.priority[ht] = pri], ht)
  /\ UNCHANGED <<affinity, tr, invert, pc>>

SetThreadPriority(ht, pri) ==
  LET R == [TCBRemoveFromReadyQueue(lists, ht) EXCEPT !.priority[ht] = pri]
  IN  /\ Calls
      /\ Reprioritise
      /\ lists' = IF lists.status[ht] \cap {"RUNNING", "READY"} # {}
                  THEN TCBInsertIntoReadyQueue(R, ht)
                  ELSE [lists EXCEPT !.priority[ht] = pri]
      /\ UNCHANGED <<affinity, tr, invert, pc>>

(* FMTK_Reschedule and the interrupt it raises.  Whether a thread has been *)
(* interrupted in its stop or before it shows when it is resumed; one that *)
(* has not run yet starts with its own code.                               *)
Reschedule ==
  /\ pc[tr] # "stop"
  /\ tr = IdleThread => IdleYields
  /\ ~lists.panic
  /\ RescheduleISR(lists)
  /\ \E resumed \in {"app", "stop"} :
       LET away == [pc EXCEPT ![tr] = "yield"]
       IN  pc' = [away EXCEPT ![tr'] = IF @ = "yield" THEN resumed ELSE @]
  /\ UNCHANGED affinity

(* FMTK_TimerTickISR returns before it handles timeouts or switches        *)
(* threads; all it does to a thread is to end its stop.                    *)
TimerTickISR ==
  /\ ~lists.panic
  /\ pc' = [pc EXCEPT ![tr] = IF @ = "stop" THEN "app" ELSE @]
  /\ UNCHANGED <<lists, affinity, tr, invert>>

Next ==
  \/ \E pri \in Priority, aff \in Affinities : StartThread(pri, aff)
  \/ \E timeout \in Timeouts : Sleep(timeout)
  \/ \E ht \in Handle, pri \in Priority : SetThreadPriority(ht, pri)
  \/ Reschedule
  \/ TimerTickISR

Spec == Init /\ [][Next]_vars

(* The timer ticks on.  That the running thread gives up the core sooner   *)
(* or later is not so in the code: the idle thread does not.               *)
FairSpec == Spec /\ WF_vars(TimerTickISR) /\ WF_vars(Reschedule)

-----------------------------------------------------------------------------
(* Every variable has its type.                                            *)
TypeOK ==
  /\ lists \in Lists
  /\ affinity \in [Handle -> Affinities \cup {Core, AnyCore}]
  /\ tr \in Handle
  /\ invert \in 0 .. InvertPeriod - 1
  /\ pc \in [Handle -> {"app", "yield", "stop"}]

(* The threads on the ready queue of priority p.                           *)
Queue(p) ==
  LET succ == [h \in Handle0 |-> IF h = 0 THEN 0 ELSE lists.next[h]]
  IN  {Iterate(succ, lists.readyQ[p])[n] : n \in 0 .. NR_TCB - 1} \ {0}

IsReady(h) == h \in Queue(lists.priority[h])

(***************************************************************************)
(* A thread executes its own code only while it is on its ready queue and  *)
(* may run on this core: a thread that has blocked does not go on because  *)
(* SelectThreadToRun found nothing better (Femtiki_kern.c 304-325).  The   *)
(* first thread is the exception, until it gives up the core.              *)
(***************************************************************************)
RunnerIsReady ==
  pc[tr] \in {"app", "stop"} =>
    /\ Eligible(tr)
    /\ IsReady(tr) \/ tr = FirstThread

(***************************************************************************)
(* TS_READY, which decides in FMTK_SetThreadPriority whether a thread is   *)
(* taken off its queue, agrees with the queues (Femtiki_kern.c 916-934).   *)
(* The first thread has the flag without being queued.                     *)
(***************************************************************************)
ReadyFlagTrue ==
  \A h \in Handle :
    /\ IsReady(h) => "READY" \in lists.status[h]
    /\ "READY" \in lists.status[h] => IsReady(h) \/ h = FirstThread

(* No two threads are marked as running (Femtiki_kern.c 348-354).          *)
OneRunning ==
  \A g, h \in Handle :
    "RUNNING" \in lists.status[g] /\ "RUNNING" \in lists.status[h] => g = h

NoPanic == ~lists.panic

(***************************************************************************)
(* The reschedule interrupt hands the core to a thread of the highest      *)
(* priority that has one for this core, and every InvertPeriod times to    *)
(* one of the lowest (Femtiki_kern.c 304-325).                             *)
(***************************************************************************)
BestRuns ==
  [][invert' # invert =>
       \A h \in Handle :
         IsReady(h) /\ Eligible(h) =>
           IF invert' = 0 THEN lists.priority[tr'] <= lists.priority[h]
                          ELSE lists.priority[tr'] >= lists.priority[h]]_vars

(* A thread this core may run, and for good, among those of the lowest, of *)
(* the highest, priority.                                                  *)
Candidates   == {h \in Handle : IsReady(h) /\ Eligible(h)}
IsLowest(h)  == /\ h \in Candidates
                /\ \A g \in Candidates : lists.priority[h] <= lists.priority[g]
IsHighest(h) == /\ h \in Candidates
                /\ \A g \in Candidates : lists.priority[h] >= lists.priority[g]

(***************************************************************************)
(* As long as threads give the core up, a thread that stays ready at the   *)
(* lowest priority in use is not starved by those above it: the inverted   *)
(* picks reach it, and every thread of its queue (Femtiki_kern.c 285, 310).*)
(***************************************************************************)
LowestServed  == \A h \in Handle : <>[]IsLowest(h) => []<>(tr = h)

(* Likewise a thread of the highest priority: threads of a queue take      *)
(* turns (Femtiki_kern.c 272-294).                                         *)
HighestServed == \A h \in Handle : <>[]IsHighest(h) => []<>(tr = h)

(***************************************************************************)
(* "Sleep for a number of clock ticks." (Femtiki_kern.c 895): a thread     *)
(* that sleeps is woken.                                                   *)
(***************************************************************************)
SleepEnds ==
  \A h \in Handle : "TIMEOUT" \in lists.status[h] ~> "READY" \in lists.status[h]

=============================================================================
