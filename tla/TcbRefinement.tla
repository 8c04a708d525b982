---------------------------- MODULE TcbRefinement ----------------------------
(***************************************************************************)
(* The linked lists of kernel/tcb.c implement the sequences of             *)
(* ThreadLists: the sequence of a list is read off its links.              *)
(***************************************************************************)
EXTENDS TcbLists, SequencesExt

(* The first n TCBs met by following the links of L from h.                *)
Succ(L) == [g \in Handle0 |-> IF g = 0 THEN 0 ELSE L.next[g]]

Followed(L, h, n) == [i \in 1 .. n |-> Iterate(Succ(L), h)[i - 1]]

(* The lists of L, as sequences of the members H gives them.               *)
FreeTCBs(L, H)   == Followed(L, L.freeTCB, Cardinality(Members(H, "free")))
ReadyOf(L, H, p) == Followed(L, L.readyQ[p], Cardinality(ReadyAt(L, H, p)))
ReadyQs(L, H)    == [p \in Priority |-> ReadyOf(L, H, p)]
Sleepers(L, H)   == Followed(L, L.TimeoutList, Cardinality(Members(H, "timeout")))

(* A walk along the timeout list that adds up the waits: p is the next TCB *)
(* and to the ticks left to the one before it.                             *)
Ticking == [p : Handle0, to : Int]

AddWait(L) ==
  [w \in Ticking |->
     IF w.p = 0 THEN w ELSE [p |-> L.next[w.p], to |-> w.to + L.timeout[w.p]]]

TicksTo(L, i) == Iterate(AddWait(L), [p |-> L.TimeoutList, to |-> 0])[i].to

(* The ticks left to h: its wait and those of the TCBs before it.          *)
TicksLeft(L, H) ==
  [h \in Handle |->
     IF H[h] # "timeout" THEN 0
     ELSE TicksTo(L, CHOOSE i \in DOMAIN Sleepers(L, H) : Sleepers(L, H)[i] = h)]

Abstract == INSTANCE ThreadLists WITH
  Threads       <- Handle,
  Priorities    <- Priority,
  Delays        <- Timeouts,
  FirstThread   <- 1,
  FirstFree     <- [i \in 1 .. NR_TCB - 1 |-> i + 1],
  FirstPriority <- BootPriority,
  free          <- FreeTCBs(lists, home),
  held          <- Members(home, "loose"),
  ready         <- ReadyQs(lists, home),
  asleep        <- Sleepers(lists, home),
  left          <- TicksLeft(lists, home),
  pri           <- lists.priority

(* Every call of tcb.c does to the sequences what ThreadLists says: FIFO   *)
(* ready queues, a LIFO free list, and a timeout list that never changes   *)
(* the ticks left to the threads a call is not about (tcb.c 110-367).      *)
ImplementsThreadLists == Abstract!Spec

=============================================================================
