------------------------------ MODULE TcbShapes ------------------------------
(***************************************************************************)
(* The shapes the lists of kernel/tcb.c must have.  H says for every TCB   *)
(* which list it is on, and the links L have to agree with it.  TcbLists   *)
(* asks for these shapes after any sequence of calls of tcb.c, where H is  *)
(* the history of the calls; the proofs about the callers of tcb.c need    *)
(* them too, for some H that the callers' state determines.                *)
(***************************************************************************)
EXTENDS Tcb

(* "loose" is a TCB in the hands of a caller, between lists.               *)
Homes == {"free", "loose", "ready", "timeout"}

Members(H, place) == {h \in Handle : H[h] = place}

ReadyAt(L, H, p) == {h \in Handle : H[h] = "ready" /\ L.priority[h] = p}

(* A ring: neighbours agree, and no proper part of it is closed under next.*)
Ring(nx, pv, Q) ==
  /\ \A h \in Q : /\ nx[h] \in Q /\ pv[nx[h]] = h
                  /\ pv[h] \in Q /\ nx[pv[h]] = h
  /\ \A S \in SUBSET Q : S # {} /\ (\A h \in S : nx[h] \in S) => S = Q

(* A chain linked both ways: neighbours agree, the head alone has no TCB   *)
(* before it, and no part of the chain is a ring cut off from the head.    *)
Chain(nx, pv, head, Q) ==
  /\ head \in Q \cup {0}
  /\ \A h \in Q : /\ nx[h] # 0 => nx[h] \in Q /\ pv[nx[h]] = h
                  /\ pv[h] # 0 => pv[h] \in Q /\ nx[pv[h]] = h
                  /\ pv[h] = 0 <=> head = h
  /\ \A S \in SUBSET Q : S # {} => \E h \in S : pv[h] \notin S

(* A stack linked one way: every element but the head is entered from      *)
(* exactly one other, and no part of the stack is out of the head's reach. *)
Stack(nx, head, Q) ==
  /\ head \in Q \cup {0}
  /\ \A h \in Q : nx[h] \in (Q \ {head}) \cup {0}
  /\ \A g, h \in Q : nx[g] = nx[h] /\ nx[h] # 0 => g = h
  /\ \A S \in SUBSET Q :
       S # {} => head \in S \/ \E g \in Q \ S : nx[g] \in S

(* The threads ready at a priority are one ring the queue's head is in.    *)
RingsFormed(L, H) ==
  \A p \in Priority :
    /\ Ring(L.next, L.prev, ReadyAt(L, H, p))
    /\ IF ReadyAt(L, H, p) = {} THEN L.readyQ[p] = 0
                                ELSE L.readyQ[p] \in ReadyAt(L, H, p)

(* The threads that wait for a timeout are one chain from TimeoutList.     *)
ChainFormed(L, H) ==
  Chain(L.next, L.prev, L.TimeoutList, Members(H, "timeout"))

(* The free TCBs are one stack from freeTCB.                               *)
StackFormed(L, H) == Stack(L.next, L.freeTCB, Members(H, "free"))

(* A loose TCB has no links, and the flags agree with the lists.           *)
LooseFormed(L, H) ==
  /\ \A h \in Members(H, "loose") : L.next[h] = 0 /\ L.prev[h] = 0
  /\ \A h \in Handle : "TIMEOUT" \in L.status[h] <=> H[h] = "timeout"
  /\ \A h \in Members(H, "ready") : "READY" \in L.status[h]

=============================================================================
