----------------------------- MODULE ThreadLists -----------------------------
(***************************************************************************)
(* What kernel/tcb.c promises, without links: the free TCBs are a stack,   *)
(* each priority has a queue of ready threads, and the threads that wait   *)
(* for a timeout are kept soonest first, each with the ticks left to it.   *)
(* Putting a thread on a list or taking it off changes nothing about the   *)
(* other threads: neither their order nor the ticks left to them.          *)
(***************************************************************************)
EXTENDS Integers, SequencesExt

CONSTANTS Threads, Priorities, Delays, FirstThread, FirstFree, FirstPriority

VARIABLES
  free,    \* stack of free TCBs
  held,    \* TCBs in the hands of a caller
  ready,   \* priority -> queue; its first thread is looked at first
  asleep,  \* threads that wait for a timeout, soonest first
  left,    \* thread -> ticks left to it, 0 when it does not wait
  pri      \* thread -> priority

vars == <<free, held, ready, asleep, left, pri>>

Init ==
  /\ free   = FirstFree
  /\ held   = {FirstThread}
  /\ ready  = [p \in Priorities |-> <<>>]
  /\ asleep = <<>>
  /\ left   = [t \in Threads |-> 0]
  /\ pri    = [t \in Threads |-> FirstPriority]

Alloc(p) ==
  /\ free # <<>>
  /\ free' = Tail(free)
  /\ held' = held \cup {Head(free)}
  /\ pri'  = [pri EXCEPT ![Head(free)] = p]
  /\ UNCHANGED <<ready, asleep, left>>

Free(t) ==
  /\ t \in held
  /\ held' = held \ {t}
  /\ free' = <<t>> \o free
  /\ UNCHANGED <<ready, asleep, left, pri>>

MakeReady(t) ==
  /\ t \in held
  /\ held'  = held \ {t}
  /\ ready' = [ready EXCEPT ![pri[t]] = Append(@, t)]
  /\ UNCHANGED <<free, asleep, left, pri>>

Unready(t) ==
  /\ held' = held \cup {t}
  /\ \E i \in DOMAIN ready[pri[t]] :
       /\ ready[pri[t]][i] = t
       /\ ready' = [ready EXCEPT ![pri[t]] = RemoveAt(@, i)]
  /\ UNCHANGED <<free, asleep, left, pri>>

(* t goes behind the threads that wake strictly before it.                 *)
Sleep(t, d) ==
  /\ t \in held
  /\ held' = held \ {t}
  /\ \E i \in 1 .. Len(asleep) + 1 :
       /\ \A j \in DOMAIN asleep : left[asleep[j]] < d <=> j < i
       /\ asleep' = InsertAt(asleep, i, t)
  /\ left' = [left EXCEPT ![t] = d]
  /\ UNCHANGED <<free, ready, pri>>

Wake(t) ==
  /\ held' = held \cup {t}
  /\ \E i \in DOMAIN asleep : asleep[i] = t /\ asleep' = RemoveAt(asleep, i)
  /\ left' = [left EXCEPT ![t] = 0]
  /\ UNCHANGED <<free, ready, pri>>

Expire ==
  /\ asleep # <<>>
  /\ left[Head(asleep)] = 0
  /\ Wake(Head(asleep))

(* The queue is turned until t is its last thread.                         *)
Turn(p) ==
  /\ \E i \in 1 .. Len(ready[p]) :
       ready' = [ready EXCEPT ![p] = SubSeq(@, i + 1, Len(@)) \o SubSeq(@, 1, i)]
  /\ UNCHANGED <<free, held, asleep, left, pri>>

Next ==
  \/ \E p \in Priorities : Alloc(p) \/ Turn(p)
  \/ \E t \in Threads : Free(t) \/ MakeReady(t) \/ Unready(t) \/ Wake(t)
  \/ \E t \in Threads, d \in Delays : Sleep(t, d)
  \/ Expire

Spec == Init /\ [][Next]_vars

=============================================================================
