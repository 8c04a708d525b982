------------------------------ MODULE Ipc_proofs ------------------------------
(***************************************************************************)
(* The scheduler runs only threads that are ready and may run on the core, *)
(* and always the best of them, for any number of TCBs, of priorities and  *)
(* any affinities.                                                         *)
(*                                                                         *)
(* Mailboxes lose no wake-up and get every message to a thread that takes  *)
(* it, for any number of threads, mailboxes and message blocks, as long as *)
(* no mailbox is allocated after one was freed, nobody waits with a time   *)
(* limit where an interrupt posts, and no queue reaches its limit.  They   *)
(* then are the queues of Mailbox.                                         *)
(*                                                                         *)
(* The lists of tcb.c and the queues of messages are reasoned about with   *)
(* the lemmas of Tcb_proofs and MsgQueue_proofs.  The threads that wait at *)
(* the mailboxes are linked as messages are, so that the lemmas on one     *)
(* queue serve for them a second time, with TCBs for blocks.               *)
(***************************************************************************)
EXTENDS IpcRefinement, Tcb_proofs, SequenceTheorems


-----------------------------------------------------------------------------
(* The scan of a ready queue.  next repeated from a thread of a ring meets *)
(* every thread of the ring within NR_TCB rounds.                          *)
Follows(f, nx, Q) == \A g \in Q : f[g] = nx[g]

LEMMA RingVisited ==
  ASSUME NEW Q \in SUBSET Handle, NEW nx, NEW pv, Ring(nx, pv, Q),
         NEW h \in Q, NEW f \in [Handle0 -> Handle0], Follows(f, nx, Q)
  PROVE  /\ \A n \in Nat : Iterate(f, h)[n] \in Q
         /\ Visited(f, h, NR_TCB - 1) = Q
<1>1. \A g \in Q : nx[g] \in Q
  BY DEF Ring
<1>2. h \in Handle0 /\ NR_TCB - 1 \in Nat
  BY HandleFacts, TcbAssumption
<1>3. \A n \in Nat : Iterate(f, h)[n] \in Handle0 \cap Q
  BY <1>1, <1>2, IterateInvariant DEF Follows
<1>4. IsFiniteSet(Q) /\ Cardinality(Q) <= (NR_TCB - 1) + 1
  <2>1. IsFiniteSet(Handle) /\ Cardinality(Handle) = NR_TCB
    BY FS_Interval, TcbAssumption DEF Handle
  <2>2. IsFiniteSet(Q) /\ Cardinality(Q) <= Cardinality(Handle)
    BY <2>1, FS_Subset
  <2> QED BY <2>1, <2>2, TcbAssumption
<1> DEFINE V == Visited(f, h, NR_TCB - 1)
<1>5. \A x \in V : f[x] \in V
  BY <1>2, <1>3, <1>4, VisitedCloses
<1>6. V \in SUBSET Q /\ V # {}
  <2>1. V \subseteq Q
    BY <1>3 DEF Visited
  <2>2. Iterate(f, h)[0] \in V
    BY <1>2 DEF Visited
  <2> QED BY <2>1, <2>2
<1>7. V = Q
  BY <1>5, <1>6 DEF Ring, Follows
<1> QED BY <1>3, <1>7

(* Queue(p), which follows the links, is the set of the threads ready at p.*)
LEMMA QueueIsRing ==
  ASSUME NEW H, WellFormed(lists, H), NEW p \in Priority
  PROVE  Queue(p) = ReadyAt(lists, H, p)
<1>f. FieldsTyped(lists, H) /\ PlacesTold(lists, H)
  BY FieldTypes, Places DEF WellFormed
<1> DEFINE succ == [h \in Handle0 |-> IF h = 0 THEN 0 ELSE lists.next[h]]
           hq   == lists.readyQ[p]
           Q    == ReadyAt(lists, H, p)
<1>1. succ \in [Handle0 -> Handle0] /\ hq \in Handle0
  BY <1>f, HandleFacts DEF FieldsTyped
<1>2. Queue(p) = Visited(succ, hq, NR_TCB - 1) \ {0}
  BY DEF Queue, Visited
<1>3. Ring(lists.next, lists.prev, Q) /\ IF Q = {} THEN hq = 0 ELSE hq \in Q
  BY DEF WellFormed, RingsFormed
<1>4. Q \in SUBSET Handle /\ 0 \notin Q
  BY <1>f, HandleFacts DEF PlacesTold
<1>5. CASE Q = {}
  <2>1. hq = 0 /\ 0 \in {0} /\ \A x \in Handle0 : x \in {0} => succ[x] \in {0}
    BY <1>3, <1>5
  <2> HIDE DEF succ, hq
  <2>2. \A n \in Nat : Iterate(succ, hq)[n] \in Handle0 \cap {0}
    BY <1>1, <2>1, IterateInvariant
  <2>3. Visited(succ, hq, NR_TCB - 1) \subseteq {0}
    BY <2>2 DEF Visited
  <2> QED BY <1>2, <1>5, <2>3
<1>6. CASE Q # {}
  <2>1. hq \in Q /\ Follows(succ, lists.next, Q)
    BY <1>3, <1>4, <1>6, HandleFacts DEF Follows
  <2> HIDE DEF succ, hq, Q
  <2>2. Visited(succ, hq, NR_TCB - 1) = Q
    BY <1>1, <1>3, <1>4, <2>1, RingVisited
  <2>3. Queue(p) = Q \ {0}
    BY <1>2, <2>2
  <2> QED BY <1>4, <2>3 DEF Q
<1> QED BY <1>5, <1>6

COROLLARY ReadyIsHome ==
  ASSUME NEW H, WellFormed(lists, H), NEW h \in Handle
  PROVE  IsReady(h) <=> H[h] = "ready"
<1>1. lists.priority[h] \in Priority /\ PlacesTold(lists, H)
  BY FieldTypes, Places DEF WellFormed, FieldsTyped
<1> QED BY <1>1, QueueIsRing DEF IsReady, PlacesTold

(* SelectThreadToRunHelper finds only threads of its queue that may run on *)
(* this core.                                                              *)
LEMMA ScanTyped ==
  ASSUME NEW L, NEW H, WellFormed(L, H), NEW p \in Priority
  PROVE  /\ ScanStep(L, p) \in [Scan -> Scan]
         /\ [h |-> L.readyQ[p], left |-> NR_TCB, found |-> 0] \in Scan
<1>f. FieldsTyped(L, H)
  BY FieldTypes DEF WellFormed
<1>1. [h |-> L.readyQ[p], left |-> NR_TCB, found |-> 0] \in Scan
  BY <1>f, HandleFacts, TcbAssumption DEF FieldsTyped, Scan
<1>2. ASSUME NEW s \in Scan PROVE ScanStep(L, p)[s] \in Scan
  <2>1. s.h \in Handle0 /\ s.left \in 0 .. NR_TCB /\ s.found \in Handle0
    BY DEF Scan
  <2>2. s.h # 0 => L.next[s.h] \in Handle0
    BY <1>f, <2>1, HandleFacts DEF FieldsTyped
  <2>3. s.left # 0 => s.left - 1 \in 0 .. NR_TCB
    BY <2>1, TcbAssumption
  <2>4. 0 \in 0 .. NR_TCB
    BY TcbAssumption
  <2> QED BY <2>1, <2>2, <2>3, <2>4 DEF ScanStep, Scan
<1>3. ScanStep(L, p) = [s \in Scan |-> ScanStep(L, p)[s]]
  BY DEF ScanStep
<1> QED BY <1>1, <1>2, <1>3

LEMMA FoundIsEligible ==
  ASSUME NEW L, NEW H, WellFormed(L, H), NEW p \in Priority, Found(L, p) # 0
  PROVE  Found(L, p) \in ReadyAt(L, H, p) /\ Eligible(Found(L, p))
<1> DEFINE Q == ReadyAt(L, H, p)
           s0 == [h |-> L.readyQ[p], left |-> NR_TCB, found |-> 0]
           f == ScanStep(L, p)
           G == {s \in Scan : /\ s.h \in Q \cup {0}
                              /\ s.found # 0 => s.found \in Q /\ Eligible(s.found)}
<1>1. f \in [Scan -> Scan] /\ s0 \in Scan
  BY ScanTyped
<1>2. Ring(L.next, L.prev, Q) /\ L.readyQ[p] \in Q \cup {0}
  BY DEF WellFormed, RingsFormed
<1>3. s0 \in G
  BY <1>1, <1>2
<1>4. ASSUME NEW s \in Scan, s \in G PROVE f[s] \in G
  <2>1. s.h # 0 => L.next[s.h] \in Q
    BY <1>2, <1>4 DEF Ring
  <2>2. f[s] \in Scan
    BY <1>1
  <2>3. f[s] = IF s.h = 0 \/ s.left = 0 \/ s.found # 0 THEN s
               ELSE IF Eligible(s.h) THEN [s EXCEPT !.found = s.h]
               ELSE IF L.next[s.h] = L.readyQ[p] THEN [s EXCEPT !.left = 0]
               ELSE [s EXCEPT !.h = L.next[s.h], !.left = @ - 1]
    BY DEF ScanStep
  <2>4. f[s].h \in Q \cup {0} /\ (f[s].found # 0 => f[s].found \in Q /\ Eligible(f[s].found))
    <3> HIDE DEF Q, f
    <3> QED BY <1>4, <2>1, <2>3 DEF Scan
  <2> QED BY <2>2, <2>4
<1>5. \A n \in Nat : Iterate(f, s0)[n] \in Scan \cap G
  <2> HIDE DEF f, s0, G
  <2> QED BY <1>1, <1>3, <1>4, IterateInvariant
<1>6. Iterate(f, s0)[NR_TCB] \in G
  BY <1>5, TcbAssumption
<1> QED BY <1>6 DEF Found

(* It finds one if there is one: the scan either stops at a thread it may  *)
(* take or goes on to the next, and it stops empty-handed only when it has *)
(* come back to the head.                                                  *)
LEMMA FoundIfAny ==
  ASSUME NEW L, NEW H, WellFormed(L, H), NEW p \in Priority,
         NEW e \in ReadyAt(L, H, p), Eligible(e)
  PROVE  Found(L, p) # 0
<1> DEFINE Q == ReadyAt(L, H, p)
           hq == L.readyQ[p]
           s0 == [h |-> hq, left |-> NR_TCB, found |-> 0]
           f == ScanStep(L, p)
           S == Iterate(f, s0)
           succ == [h \in Handle0 |-> IF h = 0 THEN 0 ELSE L.next[h]]
           I == Iterate(succ, hq)
           At(n) == /\ S[n].h = I[n] /\ S[n].left = NR_TCB - n
                    /\ \A k \in 0 .. n - 1 : ~Eligible(I[k])
           D == {n \in Nat : n <= NR_TCB => S[n].found # 0 \/ At(n)}
<1>f. FieldsTyped(L, H) /\ PlacesTold(L, H)
  BY FieldTypes, Places DEF WellFormed
<1>1. f \in [Scan -> Scan] /\ s0 \in Scan /\ NR_TCB \in Nat
  BY ScanTyped, TcbAssumption
<1>2. /\ Ring(L.next, L.prev, Q) /\ hq \in Q
      /\ Q \in SUBSET Handle /\ 0 \notin Q /\ e \in Q
  BY <1>f, HandleFacts DEF WellFormed, RingsFormed, PlacesTold
<1>3. succ \in [Handle0 -> Handle0] /\ hq \in Handle0 /\ \A h \in Q : succ[h] = L.next[h]
  BY <1>f, <1>2, HandleFacts DEF FieldsTyped
<1>4. S[0] = s0 /\ \A n \in Nat : S[n] \in Scan /\ S[n+1] = f[S[n]]
  <2> HIDE DEF f, s0
  <2>1. S \in [Nat -> Scan] /\ S[0] = s0 /\ \A n \in Nat : S[n+1] = f[S[n]]
    BY <1>1, IterateDef
  <2> QED BY <2>1
<1>5. I[0] = hq /\ \A n \in Nat : I[n+1] = succ[I[n]]
  <2> HIDE DEF succ, hq
  <2>1. succ \in [Handle0 -> Handle0] /\ hq \in Handle0
    BY <1>3
  <2>2. I \in [Nat -> Handle0] /\ I[0] = hq /\ \A n \in Nat : I[n+1] = succ[I[n]]
    BY <2>1, IterateDef
  <2> QED BY <2>2
<1>6. (\A n \in Nat : I[n] \in Q) /\ Visited(succ, hq, NR_TCB - 1) = Q
  <2>1. Follows(succ, L.next, Q)
    BY <1>3 DEF Follows
  <2> HIDE DEF succ, hq, Q
  <2> QED BY <1>2, <1>3, <2>1, RingVisited, ZenonT(60)
<1>7. 0 \in D
  <2>1. S[0].h = I[0] /\ S[0].left = NR_TCB - 0
    BY <1>1, <1>4, <1>5
  <2> QED BY <2>1
<1> HIDE DEF S, I
<1>8. ASSUME NEW n \in Nat, n \in D PROVE n + 1 \in D
  <2>1. SUFFICES ASSUME n < NR_TCB PROVE S[n+1].found # 0 \/ At(n+1)
    BY <1>1
  <2>2. S[n] \in Scan /\ S[n+1] = f[S[n]] /\ I[n] \in Q /\ I[n] # 0 /\ I[n+1] = L.next[I[n]]
    BY <1>2, <1>3, <1>4, <1>5, <1>6
  <2>3. f[S[n]] = IF S[n].h = 0 \/ S[n].left = 0 \/ S[n].found # 0 THEN S[n]
                  ELSE IF Eligible(S[n].h) THEN [S[n] EXCEPT !.found = S[n].h]
                  ELSE IF L.next[S[n].h] = hq THEN [S[n] EXCEPT !.left = 0]
                  ELSE [S[n] EXCEPT !.h = L.next[S[n].h], !.left = @ - 1]
    BY <2>2 DEF ScanStep
  <2>4. CASE S[n].found # 0
    BY <2>2, <2>3, <2>4
  <2>5. CASE S[n].found = 0
    <3>1. /\ S[n].h = I[n] /\ S[n].left = NR_TCB - n /\ S[n].left # 0
          /\ \A k \in 0 .. n - 1 : ~Eligible(I[k])
      BY <1>1, <1>8, <2>1, <2>5
    <3>2. CASE Eligible(I[n])
      BY <2>2, <2>3, <2>5, <3>1, <3>2 DEF Scan
    <3>3. CASE ~Eligible(I[n]) /\ I[n+1] = hq
      <4> DEFINE V == {I[k] : k \in 0 .. n}
      <4>1. V \in SUBSET Q /\ V # {}
        BY <1>6
      <4>2. \A x \in V : L.next[x] \in V
        <5> SUFFICES ASSUME NEW k \in 0 .. n PROVE L.next[I[k]] \in V
          OBVIOUS
        <5>1. L.next[I[k]] = I[k+1]
          BY <1>3, <1>5, <1>6
        <5>2. CASE k = n
          BY <1>5, <3>3, <5>1, <5>2
        <5>3. CASE k # n
          BY <5>1, <5>3
        <5> QED BY <5>2, <5>3
      <4>3. e \in V
        BY <1>2, <4>1, <4>2 DEF Ring
      <4>4. \A k \in 0 .. n : ~Eligible(I[k])
        BY <3>1, <3>3
      <4> QED BY <4>3, <4>4
    <3>4. CASE ~Eligible(I[n]) /\ I[n+1] # hq
      <4>1. S[n+1] = [S[n] EXCEPT !.h = I[n+1], !.left = @ - 1]
        BY <2>2, <2>3, <2>5, <3>1, <3>4
      <4>2. S[n+1].h = I[n+1] /\ S[n+1].left = NR_TCB - (n + 1)
        BY <1>1, <2>2, <3>1, <4>1 DEF Scan
      <4>3. \A k \in 0 .. (n + 1) - 1 : ~Eligible(I[k])
        BY <3>1, <3>4
      <4> QED BY <4>2, <4>3
    <3> QED BY <3>2, <3>3, <3>4
  <2> QED BY <2>4, <2>5
<1>9. Nat \subseteq D
  <2> HIDE DEF D
  <2> QED BY <1>7, <1>8, NatSubsetInduction
<1>10. S[NR_TCB].found # 0 \/ At(NR_TCB)
  BY <1>1, <1>9
<1>11. \E k \in 0 .. NR_TCB - 1 : I[k] = e
  BY <1>2, <1>6 DEF Visited, I
<1> QED BY <1>10, <1>11 DEF Found, S

(* Of the priorities that have a thread, one is searched first.            *)
LEMMA SearchedFirst ==
  ASSUME NEW P \in SUBSET Priority, P # {}, NEW inv
  PROVE  \E p \in P : \A q \in P \ {p} : SearchFirst(inv, p, q)
<1>1. P \subseteq Nat /\ MaxPriority \in Nat /\ \A q \in P : q <= MaxPriority
  BY TcbAssumption DEF Priority
<1>2. CASE inv = 0
  <2>1. PICK p \in P : \A q \in P : p <= q
    BY <1>1, LeastElement
  <2> QED BY <1>1, <1>2, <2>1 DEF SearchFirst
<1>3. CASE inv # 0
  <2> DEFINE R == {MaxPriority - q : q \in P}
  <2>1. R \subseteq Nat /\ R # {}
    <3>1. \A q \in P : MaxPriority - q \in Nat
      BY <1>1
    <3> QED BY <3>1
  <2>2. PICK r \in R : \A i \in R : r <= i
    <3> HIDE DEF R
    <3> QED BY <2>1, LeastElement
  <2>3. PICK p \in P : r = MaxPriority - p
    BY <2>2
  <2>4. \A q \in P : p >= q
    BY <1>1, <2>2, <2>3
  <2> QED BY <1>1, <1>3, <2>4 DEF SearchFirst
<1> QED BY <1>2, <1>3

(* SelectThreadToRun, as long as the idle thread is ready: the thread it   *)
(* picks is ready, may run here, and no priority searched before its own   *)
(* has such a thread.                                                      *)
Picked(L, H, inv, p) ==
  /\ SelectThreadToRun(L, inv) = [lists |-> Turned(L, p), thread |-> Found(L, p)]
  /\ Found(L, p) \in ReadyAt(L, H, p) /\ Eligible(Found(L, p))
  /\ \A h \in Handle : H[h] = "ready" /\ Eligible(h) =>
       L.priority[h] = p \/ SearchFirst(inv, p, L.priority[h])

LEMMA PickIsBest ==
  ASSUME NEW L, NEW H, WellFormed(L, H),
         H[IdleThread] = "ready", affinity[IdleThread] = Core, NEW inv
  PROVE  \E p \in Priority : Picked(L, H, inv, p)
<1> DEFINE Hits == {p \in Priority : Found(L, p) # 0}
           best == CHOOSE p \in Hits : \A q \in Hits \ {p} : SearchFirst(inv, p, q)
<1>f. FieldsTyped(L, H) /\ PlacesTold(L, H)
  BY FieldTypes, Places DEF WellFormed
<1>1. ASSUME NEW h \in Handle, H[h] = "ready", Eligible(h)
      PROVE  L.priority[h] \in Hits
  <2>1. L.priority[h] \in Priority /\ h \in ReadyAt(L, H, L.priority[h])
    BY <1>f, <1>1 DEF FieldsTyped, PlacesTold
  <2> QED BY <1>1, <2>1, FoundIfAny
<1>2. Hits # {}
  BY <1>1, HandleFacts DEF Eligible, IdleThread
<1>3. best \in Hits /\ \A q \in Hits \ {best} : SearchFirst(inv, best, q)
  <2>1. Hits \in SUBSET Priority
    OBVIOUS
  <2> HIDE DEF Hits
  <2>2. \E p \in Hits : \A q \in Hits \ {p} : SearchFirst(inv, p, q)
    BY <1>2, <2>1, SearchedFirst
  <2> QED BY <2>2
<1>4. SelectThreadToRun(L, inv) = [lists |-> Turned(L, best), thread |-> Found(L, best)]
  BY <1>2 DEF SelectThreadToRun
<1> HIDE DEF best
<1>5. Found(L, best) \in ReadyAt(L, H, best) /\ Eligible(Found(L, best))
  BY <1>3, FoundIsEligible
<1> QED BY <1>1, <1>3, <1>4, <1>5 DEF Picked

-----------------------------------------------------------------------------
(* The inductive invariant, for the places H of the TCBs: the lists agree  *)
(* with H, the idle thread is always ready, the flags by which the code    *)
(* tells where a thread is are true, and the running thread is ready until *)
(* it gives up the core.  Only the first thread is ever on no list.        *)
Placed(H) ==
  /\ WellFormed(lists, H)
  /\ affinity \in [Handle -> Affinities \cup {Core, AnyCore}]
  /\ tr \in Handle
  /\ invert \in 0 .. InvertPeriod - 1
  /\ pc \in [Handle -> {"app", "yield", "stop"}]
  /\ H[IdleThread] = "ready" /\ affinity[IdleThread] = Core
  /\ \A h \in Handle :
       /\ H[h] = "loose" => h = FirstThread
       /\ lists.status[h] \cap {"READY", "RUNNING"} # {} => H[h] \in {"ready", "loose"}
       /\ "RUNNING" \in lists.status[h] => h = tr
  /\ pc[tr] \in {"app", "stop"} => H[tr] \in {"ready", "loose"} /\ Eligible(tr)

SchedulerInv == \E H \in [Handle -> Homes] : Placed(H)

LEMMA PlacedFacts ==
  ASSUME NEW H, Placed(H)
  PROVE  /\ H \in [Handle -> Homes] /\ FieldsTyped(lists, H) /\ PlacesTold(lists, H)
         /\ \A h \in Handle : "TIMEOUT" \in lists.status[h] <=> H[h] = "timeout"
         /\ \A h \in Handle : H[h] = "ready" => "READY" \in lists.status[h]
         /\ IdleThread \in Handle /\ FirstThread \in Handle /\ IdleThread # FirstThread
<1>1. FieldsTyped(lists, H) /\ PlacesTold(lists, H)
  BY FieldTypes, Places DEF Placed, WellFormed
<1> QED BY <1>1, HandleFacts DEF Placed, WellFormed, LooseFormed, FieldsTyped, PlacesTold,
                                IdleThread, FirstThread

(* The timer tick ends a stop of the running thread.                       *)
LEMMA TimerTickKeeps ==
  ASSUME NEW H, Placed(H), TimerTickISR
  PROVE  Placed(H)'
BY DEF Placed, TimerTickISR, Eligible

(* A thread goes to sleep: it leaves the ready queue, or as the first      *)
(* thread was on none, and enters the timeout list.                        *)
LEMMA SleepKeeps ==
  ASSUME NEW H, Placed(H), NEW timeout \in Timeouts, Sleep(timeout)
  PROVE  \E K \in [Handle -> Homes] : Placed(K)'
<1> DEFINE R == TCBRemoveFromReadyQueue(lists, tr)
           G == [H EXCEPT ![tr] = "loose"]
<1>0. /\ WellFormed(lists, H) /\ tr \in Handle /\ H[tr] \in {"ready", "loose"}
      /\ tr # IdleThread /\ timeout \in Int
      /\ lists' = TCBInsertIntoTimeoutList(R, tr, timeout)
      /\ pc' = [pc EXCEPT ![tr] = "yield"]
      /\ affinity' = affinity /\ tr' = tr /\ invert' = invert
  BY TcbAssumption DEF Placed, Sleep, Calls
<1>f. H \in [Handle -> Homes] /\ FieldsTyped(lists, H)
  BY PlacedFacts
<1>1. WellFormed(R, G)
  BY <1>0, RemoveFromReadyQueueKeeps
<1>2. R.status = [lists.status EXCEPT ![tr] = {}]
  BY <1>0, <1>f, RemoveFromReadyQueueFields DEF FieldsTyped
<1>3. G[tr] = "loose"
  BY <1>0, <1>f
<1> HIDE DEF R
<1> PICK K : K = [G EXCEPT ![tr] = "timeout"]
  OBVIOUS
<1>4. WellFormed(lists', K)
  <2> HIDE DEF G
  <2> QED BY <1>0, <1>1, <1>3, InsertIntoTimeoutListKeeps
<1>5. lists'.status = [R.status EXCEPT ![tr] = @ \cup {"TIMEOUT"}]
  <2> HIDE DEF G
  <2> QED BY <1>0, <1>1, <1>3, InsertIntoTimeoutListFields
<1>6. \A h \in Handle : lists'.status[h] = IF h = tr THEN {"TIMEOUT"} ELSE lists.status[h]
  BY <1>0, <1>2, <1>5, <1>f DEF FieldsTyped
<1>7. K \in [Handle -> Homes] /\ \A h \in Handle : K[h] = IF h = tr THEN "timeout" ELSE H[h]
  BY <1>0, <1>f DEF Homes
<1>8. Placed(K)'
  <2>1. \A h \in Handle :
          /\ K[h] = "loose" => h = FirstThread
          /\ lists'.status[h] \cap {"READY", "RUNNING"} # {} => K[h] \in {"ready", "loose"}
          /\ "RUNNING" \in lists'.status[h] => h = tr'
    BY <1>0, <1>6, <1>7 DEF Placed
  <2>2. K[IdleThread] = "ready" /\ affinity'[IdleThread] = Core
    BY <1>0, <1>7, PlacedFacts DEF Placed
  <2>3. pc' \in [Handle -> {"app", "yield", "stop"}] /\ pc'[tr'] = "yield"
    BY <1>0 DEF Placed
  <2> QED BY <1>0, <1>4, <2>1, <2>2, <2>3 DEF Placed
<1> QED BY <1>7, <1>8

(* The lists when a thread has been taken from the free list and put on    *)
(* its ready queue.                                                        *)
Started(L, pri, t) ==
  TCBInsertIntoReadyQueue([TakeTCB(L, pri) EXCEPT !.status[t] = {}], t)

LEMMA StartedKeeps ==
  ASSUME NEW L, NEW H, WellFormed(L, H), NEW pri \in Priority,
         NEW t, t = L.freeTCB, t # 0,
         NEW N, N = Started(L, pri, t),
         NEW K, K = [H EXCEPT ![t] = "ready"]
  PROVE  /\ WellFormed(N, K)
         /\ t \in Handle /\ H[t] = "free"
         /\ \A h \in Handle : N.status[h] = IF h = t THEN {"READY"} ELSE L.status[h]
<1> DEFINE R == TakeTCB(L, pri)
           G == [H EXCEPT ![t] = "loose"]
           S == [R EXCEPT !.status[t] = {}]
<1>f. H \in [Handle -> Homes] /\ FieldsTyped(L, H)
  BY FieldTypes DEF WellFormed, FieldsTyped
<1>1. WellFormed(R, G)
  <2> HIDE DEF R
  <2> QED BY AllocTCBKeeps DEF R
<1>2. /\ R.status = L.status /\ t \in Handle /\ H[t] = "free"
  BY TakeTCBFields
<1>3. G[t] = "loose"
  BY <1>2, <1>f
<1> PICK I : I = [G EXCEPT ![t] = "ready"]
  OBVIOUS
<1>k. I = K
  BY <1>2, <1>f
<1>4. \A h \in Handle : h # t => G[h] = H[h]
  BY <1>2, <1>f
<1> HIDE DEF R, G
<1>5. /\ R \in Lists /\ R.status \in [Handle -> SUBSET StatusBit]
      /\ S = [R EXCEPT !.status = [@ EXCEPT ![t] = {}]]
  BY <1>1 DEF WellFormed, ListsOK, Lists
<1>6. WellFormed(S, G) /\ S.status = [R.status EXCEPT ![t] = {}] /\ S \in Lists
  <2> DEFINE s == [R.status EXCEPT ![t] = {}]
  <2>1. s \in [Handle -> SUBSET StatusBit]
    BY <1>5
  <2>2. \A h \in Handle : "TIMEOUT" \in s[h] <=> G[h] = "timeout"
    BY <1>1, <1>2, <1>3, <1>5 DEF WellFormed, LooseFormed
  <2>3. \A h \in Handle : G[h] = "ready" => "READY" \in s[h]
    BY <1>1, <1>2, <1>3, <1>5 DEF WellFormed, LooseFormed, Members
  <2>4. S = [R EXCEPT !.status = s]
    BY <1>5
  <2> HIDE DEF s, S
  <2>5. WellFormed(S, G)
    BY <1>1, <2>1, <2>2, <2>3, <2>4, StatusKeeps
  <2>6. S.status = s
    BY <1>5, <2>4 DEF Lists
  <2> QED BY <2>5, <2>6 DEF s, WellFormed, ListsOK
<1>7. N = TCBInsertIntoReadyQueue(S, t)
  BY DEF R, Started
<1> HIDE DEF S
<1>8. WellFormed(N, I)
  BY <1>2, <1>3, <1>6, <1>7, InsertIntoReadyQueueKeeps
<1>9. N.status = [S.status EXCEPT ![t] = @ \cup {"READY"}]
  BY <1>2, <1>6, <1>7, InsertIntoReadyQueueFields
<1>10. \A h \in Handle : N.status[h] = IF h = t THEN {"READY"} ELSE L.status[h]
  BY <1>2, <1>5, <1>6, <1>9
<1> QED BY <1>2, <1>k, <1>8, <1>10

(* A new thread is taken from the free list and becomes ready.             *)
LEMMA StartThreadKeeps ==
  ASSUME NEW H, Placed(H), NEW pri \in Priority, NEW aff \in Affinities,
         StartThread(pri, aff)
  PROVE  \E K \in [Handle -> Homes] : Placed(K)'
<1> PICK t : t = lists.freeTCB
  OBVIOUS
<1> PICK K : K = [H EXCEPT ![t] = "ready"]
  OBVIOUS
<1>0. /\ WellFormed(lists, H) /\ t # 0 /\ H[tr] \in {"ready", "loose"}
      /\ lists' = Started(lists, pri, t)
      /\ affinity' = [affinity EXCEPT ![t] = aff]
      /\ pc' = [pc EXCEPT ![t] = "app"]
      /\ tr' = tr /\ invert' = invert
  BY DEF Placed, StartThread, Calls, Started
<1>f. H \in [Handle -> Homes] /\ FieldsTyped(lists, H)
  BY PlacedFacts
<1>1. WellFormed(lists', K) /\ t \in Handle /\ H[t] = "free"
  <2>1. WellFormed(lists', K)
    BY <1>0, StartedKeeps
  <2>2. t \in Handle /\ H[t] = "free"
    BY <1>0, TakeTCBFields
  <2> QED BY <2>1, <2>2
<1>2. \A h \in Handle : lists'.status[h] = IF h = t THEN {"READY"} ELSE lists.status[h]
  BY <1>0, StartedKeeps
<1>3. K \in [Handle -> Homes] /\ \A h \in Handle : K[h] = IF h = t THEN "ready" ELSE H[h]
  BY <1>1, <1>f DEF Homes
<1>4. t # tr /\ t # IdleThread /\ tr \in Handle /\ IdleThread \in Handle
  <2>1. H[IdleThread] = "ready" /\ tr \in Handle
    BY DEF Placed
  <2> QED BY <1>0, <1>1, <2>1, PlacedFacts
<1>5. Placed(K)'
  <2>1. \A h \in Handle :
          /\ K[h] = "loose" => h = FirstThread
          /\ lists'.status[h] \cap {"READY", "RUNNING"} # {} => K[h] \in {"ready", "loose"}
          /\ "RUNNING" \in lists'.status[h] => h = tr'
    BY <1>0, <1>2, <1>3 DEF Placed
  <2>2. /\ K[IdleThread] = "ready" /\ K[tr'] = H[tr]
        /\ affinity'[IdleThread] = affinity[IdleThread] /\ affinity'[tr'] = affinity[tr]
        /\ affinity' \in [Handle -> Affinities \cup {Core, AnyCore}]
    BY <1>0, <1>1, <1>3, <1>4 DEF Placed
  <2>3. pc' \in [Handle -> {"app", "yield", "stop"}] /\ pc'[tr'] = pc[tr]
    BY <1>0, <1>1, <1>4 DEF Placed
  <2> QED BY <1>0, <1>1, <2>1, <2>2, <2>3 DEF Placed, Eligible
<1> QED BY <1>3, <1>5

(* A thread of another priority: taken off its ready queue and put on that *)
(* of its new priority if its flags say that it is on one.  The running    *)
(* first thread is put on one by this.                                     *)
LEMMA SetThreadPriorityKeeps ==
  ASSUME NEW H, Placed(H), NEW t \in Handle, NEW pri \in Priority,
         SetThreadPriority(t, pri)
  PROVE  \E K \in [Handle -> Homes] : Placed(K)'
<1> DEFINE Q == TCBRemoveFromReadyQueue(lists, t)
           R == [Q EXCEPT !.priority[t] = pri]
           G == [H EXCEPT ![t] = "loose"]
<1>0. /\ WellFormed(lists, H) /\ tr \in Handle
      /\ lists' = IF lists.status[t] \cap {"RUNNING", "READY"} # {}
                  THEN TCBInsertIntoReadyQueue(R, t)
                  ELSE [lists EXCEPT !.priority[t] = pri]
      /\ affinity' = affinity /\ pc' = pc /\ tr' = tr /\ invert' = invert
  BY DEF Placed, SetThreadPriority
<1>f. H \in [Handle -> Homes] /\ FieldsTyped(lists, H)
  BY PlacedFacts
<1>1. CASE lists.status[t] \cap {"RUNNING", "READY"} # {}
  <2>1. H[t] \in {"ready", "loose"}
    BY <1>1 DEF Placed
  <2>2. WellFormed(Q, G)
    BY <1>0, <2>1, RemoveFromReadyQueueKeeps
  <2>3. Q.status = [lists.status EXCEPT ![t] = {}]
    BY <1>f, RemoveFromReadyQueueFields DEF FieldsTyped
  <2>4. G[t] = "loose" /\ G \in [Handle -> Homes]
    BY <1>f DEF Homes
  <2> HIDE DEF Q
  <2>5. WellFormed(R, G)
    <3> HIDE DEF G
    <3> QED BY <2>2, <2>4, PriorityKeeps
  <2>6. R.status = Q.status /\ R \in Lists
    BY <2>2, <2>5 DEF WellFormed, ListsOK, Lists
  <2> HIDE DEF R
  <2> PICK K : K = [G EXCEPT ![t] = "ready"]
    OBVIOUS
  <2>7. lists' = TCBInsertIntoReadyQueue(R, t)
    BY <1>0, <1>1
  <2>8. WellFormed(lists', K)
    <3> HIDE DEF G
    <3> QED BY <2>4, <2>5, <2>7, InsertIntoReadyQueueKeeps
  <2>9. lists'.status = [R.status EXCEPT ![t] = @ \cup {"READY"}]
    BY <2>6, <2>7, InsertIntoReadyQueueFields
  <2>10. \A h \in Handle : lists'.status[h] = IF h = t THEN {"READY"} ELSE lists.status[h]
    BY <1>f, <2>3, <2>6, <2>9 DEF FieldsTyped
  <2>11. K \in [Handle -> Homes] /\ \A h \in Handle : K[h] = IF h = t THEN "ready" ELSE H[h]
    BY <1>f, <2>4 DEF Homes
  <2>12. Placed(K)'
    <3>1. \A h \in Handle :
            /\ K[h] = "loose" => h = FirstThread
            /\ lists'.status[h] \cap {"READY", "RUNNING"} # {} => K[h] \in {"ready", "loose"}
            /\ "RUNNING" \in lists'.status[h] => h = tr'
      BY <1>0, <2>10, <2>11 DEF Placed
    <3>2. K[IdleThread] = "ready" /\ (H[tr] \in {"ready", "loose"} => K[tr'] \in {"ready", "loose"})
      BY <1>0, <2>11, PlacedFacts DEF Placed
    <3> QED BY <1>0, <2>8, <3>1, <3>2 DEF Placed, Eligible
  <2> QED BY <2>11, <2>12
<1>2. CASE lists.status[t] \cap {"RUNNING", "READY"} = {}
  <2>1. lists' = [lists EXCEPT !.priority[t] = pri]
    BY <1>0, <1>2
  <2>2. H[t] # "ready"
    BY <1>2, PlacedFacts
  <2>3. WellFormed(lists', H)
    BY <1>0, <2>1, <2>2, PriorityKeeps
  <2>4. lists'.status = lists.status
    BY <1>f, <2>1 DEF FieldsTyped, Lists
  <2>5. Placed(H)'
    BY <1>0, <2>3, <2>4 DEF Placed, Eligible
  <2> QED BY <1>f, <2>5
<1> QED BY <1>1, <1>2

(* The reschedule interrupt: the thread it hands the core to is ready and  *)
(* may run here, and no eligible thread is searched before it.             *)
NoneBefore(H) ==
  \A h \in Handle : H[h] = "ready" /\ Eligible(h) =>
    \/ lists.priority[h] = lists.priority[tr']
    \/ SearchFirst(invert', lists.priority[tr'], lists.priority[h])

(* The status an interrupted thread leaves with.                           *)
LeftWith(h) == IF h = tr THEN Preempted(lists.status[h]) ELSE lists.status[h]

LEMMA SwitchKeeps ==
  ASSUME NEW H, WellFormed(lists, H), tr \in Handle,
         H[IdleThread] = "ready", affinity[IdleThread] = Core, RescheduleISR(lists)
  PROVE  /\ WellFormed(lists', H)
         /\ tr' \in Handle /\ H[tr'] = "ready" /\ affinity[tr'] \in {Core, AnyCore}
         /\ \A h \in Handle : lists'.status[h]
               = IF h = tr' THEN (LeftWith(h) \cup {"RUNNING"}) \ {"PREEMPT"} ELSE LeftWith(h)
         /\ NoneBefore(H)
<1> DEFINE s == [lists.status EXCEPT ![tr] = Preempted(@)]
           P == [lists EXCEPT !.status[tr] = Preempted(@)]
           inv == (invert + 1) % InvertPeriod
           pick == SelectThreadToRun(P, inv)
<1>0. /\ invert' = inv /\ tr' = pick.thread
      /\ lists' = [pick.lists EXCEPT !.status[pick.thread] = (@ \cup {"RUNNING"}) \ {"PREEMPT"}]
  BY DEF RescheduleISR
<1>f. FieldsTyped(lists, H) /\ PlacesTold(lists, H)
  BY FieldTypes, Places DEF WellFormed
<1>t. /\ \A h \in Handle : "TIMEOUT" \in lists.status[h] <=> H[h] = "timeout"
      /\ \A h \in Handle : H[h] = "ready" => "READY" \in lists.status[h]
  BY <1>f DEF WellFormed, LooseFormed, PlacesTold
<1>1. /\ s \in [Handle -> SUBSET StatusBit]
      /\ \A h \in Handle : s[h] = LeftWith(h)
      /\ \A h \in Handle : s[h] = IF h = tr THEN (lists.status[h] \cup {"PREEMPT"}) \ {"RUNNING"}
                                           ELSE lists.status[h]
  BY <1>f DEF FieldsTyped, LeftWith, Preempted, StatusBit
<1>2. P = [lists EXCEPT !.status = s]
  BY <1>f DEF FieldsTyped, Lists
<1>3. P.status = s /\ P.priority = lists.priority
  BY <1>2, <1>f DEF FieldsTyped, Lists
<1> HIDE DEF s, P
<1>4. WellFormed(P, H)
  <2>1. /\ \A h \in Handle : "TIMEOUT" \in s[h] <=> H[h] = "timeout"
        /\ \A h \in Handle : H[h] = "ready" => "READY" \in s[h]
    BY <1>1, <1>t
  <2> QED BY <1>1, <1>2, <2>1, StatusKeeps
<1>5. PICK p \in Priority : Picked(P, H, inv, p)
  <2> HIDE DEF inv
  <2> QED BY <1>4, PickIsBest
<1> DEFINE t == Found(P, p)
           R == Turned(P, p)
<1> HIDE DEF inv, pick
<1>6. /\ pick.thread = t /\ pick.lists = R
      /\ t \in Handle /\ H[t] = "ready" /\ P.priority[t] = p /\ Eligible(t)
  BY <1>5, Places DEF Picked, PlacesTold, pick, ReadyAt
<1>7. R = [P EXCEPT !.readyQ[P.priority[t]] = P.next[t]]
  BY <1>6 DEF Turned
<1> HIDE DEF t, R
<1>8. WellFormed(R, H)
  BY <1>4, <1>6, <1>7, RotateKeeps
<1>9. R.status = s /\ R \in Lists /\ R.status \in [Handle -> SUBSET StatusBit]
  <2>1. R.status = P.status
    BY <1>4, <1>7 DEF WellFormed, ListsOK, Lists
  <2> QED BY <1>1, <1>3, <1>8, <2>1 DEF WellFormed, ListsOK
<1> DEFINE u == [R.status EXCEPT ![t] = (@ \cup {"RUNNING"}) \ {"PREEMPT"}]
<1>10. /\ u \in [Handle -> SUBSET StatusBit]
       /\ \A h \in Handle : u[h] = IF h = t THEN (s[h] \cup {"RUNNING"}) \ {"PREEMPT"} ELSE s[h]
  BY <1>6, <1>9 DEF StatusBit
<1>11. lists' = [R EXCEPT !.status = u]
  BY <1>0, <1>6, <1>9 DEF Lists
<1>12. lists'.status = u
  BY <1>9, <1>11 DEF Lists
<1> HIDE DEF u
<1>13. \A h \in Handle : lists'.status[h]
          = IF h = t THEN (LeftWith(h) \cup {"RUNNING"}) \ {"PREEMPT"} ELSE LeftWith(h)
  BY <1>1, <1>10, <1>12
<1>14. WellFormed(lists', H)
  <2>1. /\ \A h \in Handle : "TIMEOUT" \in u[h] <=> H[h] = "timeout"
        /\ \A h \in Handle : H[h] = "ready" => "READY" \in u[h]
    BY <1>1, <1>10, <1>t
  <2> QED BY <1>8, <1>10, <1>11, <2>1, StatusKeeps
<1>15. \A h \in Handle : H[h] = "ready" /\ Eligible(h) =>
          lists.priority[h] = p \/ SearchFirst(invert', p, lists.priority[h])
  BY <1>0, <1>3, <1>5 DEF Picked
<1>16. NoneBefore(H)
  BY <1>0, <1>3, <1>6, <1>15 DEF NoneBefore
<1>17. tr' \in Handle /\ H[tr'] = "ready" /\ affinity[tr'] \in {Core, AnyCore}
  BY <1>0, <1>6 DEF Eligible
<1>18. \A h \in Handle : lists'.status[h]
          = IF h = tr' THEN (LeftWith(h) \cup {"RUNNING"}) \ {"PREEMPT"} ELSE LeftWith(h)
  BY <1>0, <1>6, <1>13
<1> QED BY <1>14, <1>16, <1>17, <1>18

(* Where threads are after a switch, and that none comes to be in a window.*)
LEMMA SwitchedAt ==
  ASSUME Reschedule, tr \in Handle, tr' \in Handle,
         NEW Ats, {"app", "yield", "stop"} \subseteq Ats, pc \in [Handle -> Ats]
  PROVE  /\ pc' \in [Handle -> Ats]
         /\ \A h \in Handle : pc'[h] = pc[h] \/ pc'[h] \in {"app", "yield", "stop"}
<1> PICK resumed \in {"app", "stop"} :
      pc' = [[pc EXCEPT ![tr] = "yield"] EXCEPT
               ![tr'] = IF @ = "yield" THEN resumed ELSE @]
  BY DEF Reschedule
<1> DEFINE away == [pc EXCEPT ![tr] = "yield"]
<1>1. /\ away \in [Handle -> Ats]
      /\ \A h \in Handle : away[h] = pc[h] \/ away[h] = "yield"
  OBVIOUS
<1>2. pc' = [away EXCEPT ![tr'] = IF away[tr'] = "yield" THEN resumed ELSE away[tr']]
  OBVIOUS
<1> HIDE DEF away
<1> QED BY <1>1, <1>2

LEMMA RescheduleKeeps ==
  ASSUME NEW H, Placed(H), Reschedule
  PROVE  Placed(H)' /\ tr' \in Handle /\ H[tr'] = "ready" /\ NoneBefore(H)
<1>1. /\ WellFormed(lists, H) /\ tr \in Handle
      /\ H[IdleThread] = "ready" /\ affinity[IdleThread] = Core
      /\ RescheduleISR(lists) /\ affinity' = affinity
  BY DEF Placed, Reschedule
<1>2. /\ WellFormed(lists', H)
      /\ tr' \in Handle /\ H[tr'] = "ready" /\ affinity[tr'] \in {Core, AnyCore}
      /\ NoneBefore(H)
  BY <1>1, SwitchKeeps
<1>3. \A h \in Handle : lists'.status[h]
        = IF h = tr' THEN (LeftWith(h) \cup {"RUNNING"}) \ {"PREEMPT"} ELSE LeftWith(h)
  BY <1>1, SwitchKeeps
<1>4. \A h \in Handle :
        /\ lists'.status[h] \cap {"READY", "RUNNING"} # {} => H[h] \in {"ready", "loose"}
        /\ "RUNNING" \in lists'.status[h] => h = tr'
  BY <1>2, <1>3 DEF Placed, LeftWith, Preempted
<1>5. invert' \in 0 .. InvertPeriod - 1
  BY <1>1, SchedulerAssumption DEF Placed, RescheduleISR
<1>6. pc' \in [Handle -> {"app", "yield", "stop"}]
  <2>1. pc \in [Handle -> {"app", "yield", "stop"}]
    BY DEF Placed
  <2> QED BY <1>1, <1>2, <2>1, SwitchedAt
<1>7. Placed(H)'
  BY <1>1, <1>2, <1>4, <1>5, <1>6 DEF Placed, Eligible
<1> QED BY <1>2, <1>7

(* Boot leaves the first thread running and the idle thread ready.         *)
BootHomes ==
  [h \in Handle |-> IF h = 1 THEN "loose" ELSE IF h = 2 THEN "ready" ELSE "free"]

Booted(L) ==
  /\ WellFormed(L, BootHomes)
  /\ \A h \in Handle : L.status[h] = IF h = 1 THEN {"RUNNING", "READY"}
                                     ELSE IF h = 2 THEN {"READY"} ELSE {}

LEMMA BootKeeps ==
  ASSUME NEW L, L = TCBInsertIntoReadyQueue(TakeTCB(BootLists, BootPriority), IdleThread)
  PROVE  Booted(L)
<1> DEFINE H == [h \in Handle |-> IF h = 1 THEN "loose" ELSE "free"]
           G == [H EXCEPT ![2] = "loose"]
           K == [G EXCEPT ![2] = "ready"]
           R == TakeTCB(BootLists, BootPriority)
<1>1. WellFormed(BootLists, H)
  BY BootWellFormed
<1>2. BootLists.freeTCB = 2 /\ BootPriority \in Priority
  BY TcbAssumption DEF BootLists, Priority
<1>3. R.status = BootLists.status
  BY DEF TakeTCB, BootLists
<1>4. WellFormed(R, G)
  <2> HIDE DEF R, H
  <2> QED BY <1>1, <1>2, AllocTCBKeeps, 2 # 0 DEF R
<1>5. G[2] = "loose" /\ 2 \in Handle /\ 1 \in Handle
  BY HandleFacts
<1> HIDE DEF R
<1>6. L = TCBInsertIntoReadyQueue(R, 2)
  BY DEF IdleThread, R
<1>7. WellFormed(L, K)
  <2> HIDE DEF G
  <2> QED BY <1>4, <1>5, <1>6, InsertIntoReadyQueueKeeps
<1>8. R \in Lists
  BY <1>4 DEF WellFormed, ListsOK
<1>9. L.status = [R.status EXCEPT ![2] = @ \cup {"READY"}]
  BY <1>5, <1>6, <1>8, InsertIntoReadyQueueFields
<1>10. \A h \in Handle : L.status[h] = IF h = 1 THEN {"RUNNING", "READY"}
                                            ELSE IF h = 2 THEN {"READY"} ELSE {}
  <2>1. /\ R.status \in [Handle -> SUBSET StatusBit]
        /\ \A h \in Handle : R.status[h] = IF h = 1 THEN {"RUNNING", "READY"} ELSE {}
    BY <1>3, <1>8 DEF BootLists, Lists
  <2> QED BY <1>5, <1>9, <2>1
<1>11. /\ K \in [Handle -> Homes]
       /\ \A h \in Handle : K[h] = IF h = 1 THEN "loose" ELSE IF h = 2 THEN "ready" ELSE "free"
  <2>1. H \in [Handle -> Homes]
    BY DEF Homes
  <2>2. G \in [Handle -> Homes] /\ \A h \in Handle : h # 2 => G[h] = H[h]
    BY <2>1 DEF Homes
  <2>3. K \in [Handle -> Homes] /\ K[2] = "ready" /\ \A h \in Handle : h # 2 => K[h] = G[h]
    <3> HIDE DEF G
    <3> QED BY <1>5, <2>2 DEF Homes
  <2> HIDE DEF K, G
  <2> QED BY <2>2, <2>3
<1> HIDE DEF K
<1>12. K = BootHomes
  BY <1>11 DEF BootHomes
<1> QED BY <1>7, <1>10, <1>12 DEF Booted

LEMMA InitPlaced == Init => SchedulerInv
<1> SUFFICES ASSUME Init PROVE SchedulerInv
  OBVIOUS
<1> PICK K : K = BootHomes
  OBVIOUS
<1>1. Booted(lists)
  BY BootKeeps DEF Init
<1>2. /\ affinity \in [Handle -> Affinities \cup {Core, AnyCore}]
      /\ affinity[1] = Core /\ affinity[2] = Core /\ tr = 1
      /\ invert \in 0 .. InvertPeriod - 1
      /\ pc \in [Handle -> {"app", "yield", "stop"}]
  BY HandleFacts, SchedulerAssumption DEF Init, FirstThread, IdleThread
<1>3. /\ K \in [Handle -> Homes] /\ K[1] = "loose" /\ K[2] = "ready"
      /\ \A h \in Handle : h \notin {1, 2} => K[h] \notin {"loose", "ready"}
  BY HandleFacts DEF BootHomes, Homes
<1>4. /\ WellFormed(lists, K)
      /\ \A h \in Handle : lists.status[h] \cap {"READY", "RUNNING"} # {} => h \in {1, 2}
      /\ \A h \in Handle : "RUNNING" \in lists.status[h] => h = 1
  BY <1>1 DEF Booted
<1>5. Placed(K)
  <2>1. \A h \in Handle :
          /\ K[h] = "loose" => h = FirstThread
          /\ lists.status[h] \cap {"READY", "RUNNING"} # {} => K[h] \in {"ready", "loose"}
          /\ "RUNNING" \in lists.status[h] => h = tr
    BY <1>2, <1>3, <1>4 DEF FirstThread
  <2>2. pc[tr] \in {"app", "stop"} => K[tr] \in {"ready", "loose"} /\ Eligible(tr)
    BY <1>2, <1>3, HandleFacts DEF Eligible
  <2>3. tr \in Handle
    BY <1>2, HandleFacts
  <2> QED BY <1>2, <1>3, <1>4, <2>1, <2>2, <2>3 DEF Placed, IdleThread
<1> QED BY <1>3, <1>5 DEF SchedulerInv

LEMMA SchedulerStep == SchedulerInv /\ [Next]_vars => SchedulerInv'
<1> SUFFICES ASSUME SchedulerInv, [Next]_vars PROVE \E K \in [Handle -> Homes] : Placed(K)'
  BY DEF SchedulerInv
<1> PICK H \in [Handle -> Homes] : Placed(H)
  BY DEF SchedulerInv
<1>1. CASE \E pri \in Priority, aff \in Affinities : StartThread(pri, aff)
  BY <1>1, StartThreadKeeps
<1>2. CASE \E timeout \in Timeouts : Sleep(timeout)
  BY <1>2, SleepKeeps
<1>3. CASE \E ht \in Handle, pri \in Priority : SetThreadPriority(ht, pri)
  BY <1>3, SetThreadPriorityKeeps
<1>4. CASE Reschedule
  BY <1>4, RescheduleKeeps
<1>5. CASE TimerTickISR
  BY <1>5, TimerTickKeeps
<1>6. CASE UNCHANGED vars
  BY <1>6 DEF vars, Placed, Eligible
<1> QED BY <1>1, <1>2, <1>3, <1>4, <1>5, <1>6 DEF Next

(***************************************************************************)
(* However threads are started, sleep, change priority and are switched,   *)
(* there is always one way to assign the TCBs to the lists that the links, *)
(* the flags and the running thread agree with.                            *)
(***************************************************************************)
THEOREM SchedulerKeepsInv == Spec => []SchedulerInv
BY InitPlaced, SchedulerStep, PTL DEF Spec

(* Every variable keeps its type.                                          *)
COROLLARY SchedulerTyped == Spec => []TypeOK
<1>1. SchedulerInv => TypeOK
  BY DEF SchedulerInv, Placed, WellFormed, ListsOK, TypeOK
<1> QED BY <1>1, SchedulerKeepsInv, PTL

(* The kernel's checks for a thread that is on a list already never stop   *)
(* it, whatever order the threads call the scheduler in.                   *)
COROLLARY SchedulerNeverPanics == Spec => []NoPanic
<1>1. SchedulerInv => NoPanic
  BY DEF SchedulerInv, Placed, WellFormed, NoPanic
<1> QED BY <1>1, SchedulerKeepsInv, PTL

(* A thread runs its own code only while it is on its ready queue and may  *)
(* run on this core, or is the first thread.                               *)
THEOREM RunnerStaysReady == Spec => []RunnerIsReady
<1>1. SchedulerInv => RunnerIsReady
  <2> SUFFICES ASSUME NEW H \in [Handle -> Homes], Placed(H) PROVE RunnerIsReady
    BY DEF SchedulerInv
  <2>1. tr \in Handle /\ (IsReady(tr) <=> H[tr] = "ready")
    BY ReadyIsHome DEF Placed
  <2> QED BY <2>1 DEF Placed, RunnerIsReady
<1> QED BY <1>1, SchedulerKeepsInv, PTL

(* TS_READY is set on the threads of the ready queues, and besides on the  *)
(* first thread only.                                                      *)
THEOREM ReadyFlagStaysTrue == Spec => []ReadyFlagTrue
<1>1. SchedulerInv => ReadyFlagTrue
  <2> SUFFICES ASSUME NEW H \in [Handle -> Homes], Placed(H), NEW h \in Handle
               PROVE  /\ IsReady(h) => "READY" \in lists.status[h]
                      /\ "READY" \in lists.status[h] => IsReady(h) \/ h = FirstThread
    BY DEF SchedulerInv, ReadyFlagTrue
  <2>1. IsReady(h) <=> H[h] = "ready"
    BY ReadyIsHome DEF Placed
  <2> QED BY <2>1, PlacedFacts DEF Placed
<1> QED BY <1>1, SchedulerKeepsInv, PTL

(* No two threads are ever marked as running.                              *)
THEOREM OneStaysRunning == Spec => []OneRunning
<1>1. SchedulerInv => OneRunning
  BY DEF SchedulerInv, Placed, OneRunning
<1> QED BY <1>1, SchedulerKeepsInv, PTL

(***************************************************************************)
(* Every reschedule interrupt hands the core to a thread of the highest    *)
(* priority that has one for this core, or on the inverted picks of the    *)
(* lowest.                                                                 *)
(***************************************************************************)
THEOREM BestAlwaysRuns == Spec => BestRuns
<1>1. ASSUME SchedulerInv, [Next]_vars, invert' # invert, NEW h \in Handle, IsReady(h), Eligible(h)
      PROVE  IF invert' = 0 THEN lists.priority[tr'] <= lists.priority[h]
                            ELSE lists.priority[tr'] >= lists.priority[h]
  <2> PICK H \in [Handle -> Homes] : Placed(H)
    BY <1>1 DEF SchedulerInv
  <2>1. Reschedule
    BY <1>1 DEF Next, vars, StartThread, Sleep, SetThreadPriority, TimerTickISR
  <2>2. H[h] = "ready"
    BY <1>1, ReadyIsHome DEF Placed
  <2>3. tr' \in Handle /\ \/ lists.priority[h] = lists.priority[tr']
                          \/ SearchFirst(invert', lists.priority[tr'], lists.priority[h])
    BY <1>1, <2>1, <2>2, RescheduleKeeps DEF NoneBefore
  <2>4. lists.priority[h] \in Nat /\ lists.priority[tr'] \in Nat
    BY <2>3, PlacedFacts, TcbAssumption DEF FieldsTyped, Priority
  <2> QED BY <2>3, <2>4 DEF SearchFirst
<1>2. SchedulerInv /\ [Next]_vars =>
        [invert' # invert =>
           \A h \in Handle :
             IsReady(h) /\ Eligible(h) =>
               IF invert' = 0 THEN lists.priority[tr'] <= lists.priority[h]
                              ELSE lists.priority[tr'] >= lists.priority[h]]_vars
  BY <1>1
<1> QED BY <1>2, SchedulerKeepsInv, PTL DEF Spec, BestRuns

-----------------------------------------------------------------------------
(* The mailboxes: the lemmas about one queue, for messages and for threads.*)
Q == INSTANCE MsgQueue_proofs WITH
       FirstStrategies <- {"NEWEST"}, NewStrategies <- {}, LateChange <- FALSE

T == INSTANCE MsgQueue_proofs WITH NR_MSG <- NR_TCB,
       FirstStrategies <- {"NEWEST"}, NewStrategies <- {}, LateChange <- FALSE

(* What those lemmas assume of the constants holds for these.              *)
LEMMA InstancesAssume ==
  /\ Q!MessagesAssumption /\ Q!MsgQueueAssumption
  /\ T!MessagesAssumption /\ T!MsgQueueAssumption
BY MessagesAssumption, TcbAssumption
   DEF Q!MessagesAssumption, Q!MsgQueueAssumption, T!MessagesAssumption,
       T!MsgQueueAssumption, Q!Strategy, T!Strategy

-----------------------------------------------------------------------------
(* The threads at the mailboxes.                                           *)

(* The links lead from h through the threads of s, which are those O says  *)
(* to be at b, to last.                                                    *)
Line(link, h, last, s, O, b) == T!Queue(link, h, s, O, b) /\ last = T!LastOf(s)

(* The sequence s is the queue of threads at mailbox b.                    *)
Lined(V, s, b) ==
  Line(V.mbq_next, V.tq_head[b], V.tq_tail[b], s, V.hWaitMbx, b)

(* Every mailbox has its queue, and a thread that waits nowhere no links.  *)
Waits(V) ==
  /\ V \in Waiting
  /\ \A b \in Mailboxes : \E s \in Seq(Handle) : Lined(V, s, b)
  /\ \A h \in Handle :
       V.hWaitMbx[h] = 0 => V.mbq_next[h] = 0 /\ V.mbq_prev[h] = 0

LEMMA HandleIsMsg == T!Msg = Handle /\ T!Msg0 = Handle0
BY DEF T!Msg, T!Msg0, Handle, Handle0

LEMMA MailboxFacts == 0 \notin Mailboxes /\ Mailbox0 = Mailboxes \cup {0}
BY MessagesAssumption DEF Mailbox0

LEMMA WaitingFields ==
  ASSUME NEW V \in Waiting
  PROVE  /\ V.tq_head \in [Mailboxes -> Handle0]
         /\ V.tq_tail \in [Mailboxes -> Handle0]
         /\ V.mbq_next \in [Handle -> Handle0]
         /\ V.mbq_prev \in [Handle -> Handle0]
         /\ V.hWaitMbx \in [Handle -> Mailbox0]
BY DEF Waiting

(* The head of a queue waits there.                                        *)
LEMMA FirstWaits ==
  ASSUME NEW V, Waits(V), NEW b \in Mailboxes, V.tq_head[b] # 0
  PROVE  V.tq_head[b] \in Handle /\ V.hWaitMbx[V.tq_head[b]] = b
<1>1. PICK s \in Seq(Handle) : Lined(V, s, b)
  BY DEF Waits
<1>2. T!Queue(V.mbq_next, V.tq_head[b], s, V.hWaitMbx, b)
  BY <1>1 DEF Lined, Line
<1> QED
  BY <1>2, T!QueueEnds, InstancesAssume, HandleIsMsg

(* No thread waits at a mailbox whose queue is empty.                      *)
LEMMA NobodyWaits ==
  ASSUME NEW V, Waits(V), NEW b \in Mailboxes, V.tq_head[b] = 0
  PROVE  \A h \in Handle : V.hWaitMbx[h] # b
<1>1. PICK s \in Seq(Handle) : Lined(V, s, b)
  BY DEF Waits
<1>2. T!Queue(V.mbq_next, V.tq_head[b], s, V.hWaitMbx, b)
  BY <1>1 DEF Lined, Line
<1>3. s = <<>> /\ Len(s) = 0
  BY <1>2, T!QueueEnds, InstancesAssume
<1> QED
  BY <1>2, <1>3, HandleIsMsg DEF T!Queue, T!Holds

(* The lemmas on one queue, for threads.  Only thread m has come or gone.  *)
OnlyMoved(link, O, link2, O2, m, b) ==
  \A n \in Handle \ {m} : /\ O2[n] = O[n]
                          /\ O[n] = b => link2[n] = link[n]

(* Thread m has come to b, behind last, and no other.                      *)
BehindLast(link, O, h, last, link2, O2, first, m, b) ==
  /\ O[m] # b /\ O2[m] = b /\ link2[m] = 0
  /\ first = IF h = 0 THEN m ELSE h
  /\ h # 0 => link2[last] = m
  /\ \A n \in Handle \ {m} : /\ O2[n] = O[n]
                             /\ n # last => link2[n] = link[n]

LEMMA LineKept ==
  ASSUME NEW link, NEW h, NEW last, NEW s, NEW O, NEW b, Line(link, h, last, s, O, b),
         NEW link2, NEW O2, NEW m, O[m] # b, O2[m] # b,
         OnlyMoved(link, O, link2, O2, m, b)
  PROVE  Line(link2, h, last, s, O2, b)
<1>1. T!MessagesAssumption /\ T!MsgQueueAssumption /\ T!Msg = Handle
  BY InstancesAssume, HandleIsMsg
<1>2. \A n \in T!Msg \ {m} : O2[n] = O[n]
  BY <1>1 DEF OnlyMoved
<1>3. \A n \in T!Msg : O[n] = b => link2[n] = link[n]
  BY <1>1 DEF OnlyMoved
<1>4. T!Queue(link, h, s, O, b) /\ last = T!LastOf(s)
  BY DEF Line
<1>5. T!Queue(link2, h, s, O2, b)
  BY <1>1, <1>2, <1>3, <1>4, T!QueueKept
<1> QED
  BY <1>4, <1>5 DEF Line

LEMMA LinePopped ==
  ASSUME NEW link, NEW h, NEW last, NEW s, NEW O, NEW b, Line(link, h, last, s, O, b), h # 0,
         NEW link2, NEW O2, O2[h] # b, OnlyMoved(link, O, link2, O2, h, b),
         NEW end, link[h] = 0 => end = 0, link[h] # 0 => end = last
  PROVE  Tail(s) \in Seq(Handle) /\ Line(link2, link[h], end, Tail(s), O2, b)
<1>1. T!MessagesAssumption /\ T!MsgQueueAssumption /\ T!Msg = Handle
  BY InstancesAssume, HandleIsMsg
<1>2. \A n \in T!Msg \ {h} : O2[n] = O[n] /\ (O[n] = b => link2[n] = link[n])
  BY <1>1 DEF OnlyMoved
<1>3. T!Queue(link, h, s, O, b) /\ last = T!LastOf(s)
  BY DEF Line
<1> DEFINE r == Tail(s)
<1>4. /\ T!Queue(link2, link[h], r, O2, b)
      /\ T!LastOf(r) = IF link[h] = 0 THEN 0 ELSE T!LastOf(s)
  BY <1>1, <1>2, <1>3, T!QueuePopped
<1> HIDE DEF r
<1>5. r \in Seq(Handle)
  BY <1>1, <1>4 DEF T!Queue, T!Chain
<1>6. Line(link2, link[h], end, r, O2, b)
  BY <1>3, <1>4 DEF Line
<1> QED
  BY <1>5, <1>6 DEF r

LEMMA LineAppended ==
  ASSUME NEW link, NEW h, NEW last, NEW s, NEW O, NEW b, Line(link, h, last, s, O, b),
         NEW m \in Handle, NEW link2, NEW O2, NEW first,
         BehindLast(link, O, h, last, link2, O2, first, m, b)
  PROVE  Append(s, m) \in Seq(Handle) /\ Line(link2, first, m, Append(s, m), O2, b)
<1>1. T!MessagesAssumption /\ T!MsgQueueAssumption /\ T!Msg = Handle
  BY InstancesAssume, HandleIsMsg
<1>2. T!Queue(link, h, s, O, b) /\ last = T!LastOf(s)
  BY DEF Line
<1>3. s = <<>> <=> h = 0
  BY <1>1, <1>2, T!QueueEnds
<1>4. m \in T!Msg /\ \A n \in T!Msg \ {m} : O2[n] = O[n] /\ (n # T!LastOf(s) => link2[n] = link[n])
  BY <1>1, <1>2 DEF BehindLast
<1>5. /\ O[m] # b /\ O2[m] = b /\ link2[m] = 0
      /\ s # <<>> => link2[T!LastOf(s)] = m
  BY <1>2, <1>3 DEF BehindLast
<1> DEFINE r == Append(s, m)
<1>6. /\ T!Queue(link2, IF s = <<>> THEN m ELSE h, r, O2, b)
      /\ T!LastOf(r) = m
  BY <1>1, <1>2, <1>4, <1>5, T!QueueAppended
<1> HIDE DEF r
<1>7. r \in Seq(Handle)
  BY <1>1, <1>6 DEF T!Queue, T!Chain
<1>8. Line(link2, first, m, r, O2, b)
  BY <1>3, <1>6 DEF Line, BehindLast
<1> QED
  BY <1>7, <1>8 DEF r

(* The first thread at b leaves.                                           *)
LeftFirst(V, U, b, h) ==
  /\ U \in Waiting
  /\ U.tq_head = [V.tq_head EXCEPT ![b] = V.mbq_next[h]]
  /\ U.tq_tail = [V.tq_tail EXCEPT ![b] = IF V.mbq_next[h] = 0 THEN 0 ELSE @]
  /\ U.mbq_next = [V.mbq_next EXCEPT ![h] = 0]
  /\ U.hWaitMbx = [V.hWaitMbx EXCEPT ![h] = 0]
  /\ U.mbq_prev[h] = 0
  /\ \A g \in Handle : V.mbq_prev[g] = 0 => U.mbq_prev[g] = 0

LEMMA DequeueThreadFields ==
  ASSUME NEW V \in Waiting, NEW b \in Mailboxes, NEW h \in Handle, h = V.tq_head[b],
         NEW U, U = MBXDequeueThread(V, b)
  PROVE  LeftFirst(V, U, b, h)
<1> PICK n : n = V.mbq_next[h]
  OBVIOUS
<1>1. PICK v : v = Put(Put(V.mbq_prev, n, 0), h, 0)
  OBVIOUS
<1>2. U = [V EXCEPT !.hWaitMbx = [V.hWaitMbx EXCEPT ![h] = 0],
                    !.mbq_next = [V.mbq_next EXCEPT ![h] = 0],
                    !.mbq_prev = v,
                    !.tq_head = [V.tq_head EXCEPT ![b] = n],
                    !.tq_tail = [V.tq_tail EXCEPT ![b] = IF n = 0 THEN 0 ELSE @]]
  BY <1>1 DEF MBXDequeueThread, Waiting
<1>3. /\ U.hWaitMbx = [V.hWaitMbx EXCEPT ![h] = 0]
      /\ U.mbq_next = [V.mbq_next EXCEPT ![h] = 0]
      /\ U.mbq_prev = v
      /\ U.tq_head = [V.tq_head EXCEPT ![b] = n]
      /\ U.tq_tail = [V.tq_tail EXCEPT ![b] = IF n = 0 THEN 0 ELSE @]
  BY <1>2 DEF Waiting
<1>4. /\ V.tq_head \in [Mailboxes -> Handle0] /\ V.tq_tail \in [Mailboxes -> Handle0]
      /\ V.mbq_next \in [Handle -> Handle0] /\ V.mbq_prev \in [Handle -> Handle0]
      /\ V.hWaitMbx \in [Handle -> Mailbox0]
      /\ 0 \in Handle0 /\ 0 \in Mailbox0 /\ n \in Handle0
  BY WaitingFields, HandleFacts DEF Mailbox0
<1>5. /\ v \in [Handle -> Handle0] /\ v[h] = 0
      /\ \A g \in Handle : V.mbq_prev[g] = 0 => v[g] = 0
  BY <1>1, <1>4 DEF Put
<1>6. /\ U.hWaitMbx \in [Handle -> Mailbox0] /\ U.mbq_next \in [Handle -> Handle0]
      /\ U.mbq_prev \in [Handle -> Handle0]
      /\ U.tq_head \in [Mailboxes -> Handle0] /\ U.tq_tail \in [Mailboxes -> Handle0]
  BY <1>3, <1>4, <1>5
<1>7. U \in Waiting
  BY <1>2, <1>6 DEF Waiting
<1> QED
  BY <1>3, <1>5, <1>7 DEF LeftFirst

(* From V to U the queue at b has become what it leads to, and no other.   *)
Becomes(V, U, b, s, r) ==
  /\ Lined(V, s, b) => Lined(U, r, b)
  /\ \A c \in Mailboxes \ {b}, q \in Seq(Handle) : Lined(V, q, c) => Lined(U, q, c)

LEMMA DequeueThreadWaits ==
  ASSUME NEW V, Waits(V), NEW b \in Mailboxes, NEW h, h = V.tq_head[b], h # 0,
         NEW U, U = MBXDequeueThread(V, b)
  PROVE  /\ Waits(U) /\ LeftFirst(V, U, b, h)
         /\ \A s \in Seq(Handle) : Becomes(V, U, b, s, Tail(s))
<1>1. V \in Waiting /\ h \in Handle /\ V.hWaitMbx[h] = b
  BY FirstWaits DEF Waits
<1>2. LeftFirst(V, U, b, h)
  BY <1>1, DequeueThreadFields
<1>3. /\ V.tq_head \in [Mailboxes -> Handle0] /\ V.tq_tail \in [Mailboxes -> Handle0]
      /\ V.mbq_next \in [Handle -> Handle0]
      /\ V.hWaitMbx \in [Handle -> Mailbox0]
  BY <1>1, WaitingFields
<1>4. /\ U.hWaitMbx[h] = 0 /\ U.mbq_next[h] = 0 /\ U.mbq_prev[h] = 0
      /\ \A g \in Handle \ {h} : U.hWaitMbx[g] = V.hWaitMbx[g] /\ U.mbq_next[g] = V.mbq_next[g]
      /\ \A g \in Handle : V.mbq_prev[g] = 0 => U.mbq_prev[g] = 0
  BY <1>1, <1>2, <1>3 DEF LeftFirst
<1>5. /\ U.tq_head[b] = V.mbq_next[h]
      /\ U.tq_tail[b] = IF V.mbq_next[h] = 0 THEN 0 ELSE V.tq_tail[b]
      /\ \A c \in Mailboxes \ {b} : U.tq_head[c] = V.tq_head[c] /\ U.tq_tail[c] = V.tq_tail[c]
  BY <1>2, <1>3 DEF LeftFirst
<1>6. ASSUME NEW c \in Mailboxes, NEW s \in Seq(Handle), Lined(V, s, c)
      PROVE  IF c = b THEN Tail(s) \in Seq(Handle) /\ Lined(U, Tail(s), c) ELSE Lined(U, s, c)
  <2>1. c # 0
    BY MailboxFacts
  <2>2. Line(V.mbq_next, V.tq_head[c], V.tq_tail[c], s, V.hWaitMbx, c)
    BY <1>6 DEF Lined
  <2>3. OnlyMoved(V.mbq_next, V.hWaitMbx, U.mbq_next, U.hWaitMbx, h, c)
    BY <1>4 DEF OnlyMoved
  <2>4. CASE c = b
    <3>1. U.hWaitMbx[h] # c /\ h = V.tq_head[c]
      BY <2>1, <2>4, <1>4
    <3>2. V.mbq_next[h] = 0 => U.tq_tail[c] = 0
      BY <2>4, <1>5
    <3>3. V.mbq_next[h] # 0 => U.tq_tail[c] = V.tq_tail[c]
      BY <2>4, <1>5
    <3>4. Line(V.mbq_next, h, V.tq_tail[c], s, V.hWaitMbx, c)
      BY <3>1, <2>2
    <3>5. /\ Tail(s) \in Seq(Handle)
          /\ Line(U.mbq_next, V.mbq_next[h], U.tq_tail[c], Tail(s), U.hWaitMbx, c)
      BY <3>1, <3>2, <3>3, <3>4, <2>3, LinePopped
    <3> QED
      BY <3>5, <2>4, <1>5 DEF Lined
  <2>5. CASE c # b
    <3>1. V.hWaitMbx[h] # c /\ U.hWaitMbx[h] # c
      BY <2>1, <2>5, <1>1, <1>4
    <3>2. Line(U.mbq_next, V.tq_head[c], V.tq_tail[c], s, U.hWaitMbx, c)
      BY <3>1, <2>2, <2>3, LineKept
    <3>3. Lined(U, s, c)
      BY <3>2, <2>5, <1>5 DEF Lined
    <3> QED
      BY <3>3, <2>5
  <2> QED
    BY <2>4, <2>5
<1>7. \A c \in Mailboxes : \E s \in Seq(Handle) : Lined(U, s, c)
  <2> SUFFICES ASSUME NEW c \in Mailboxes
               PROVE  \E s \in Seq(Handle) : Lined(U, s, c)
    OBVIOUS
  <2>1. PICK s \in Seq(Handle) : Lined(V, s, c)
    BY DEF Waits
  <2> QED
    BY <2>1, <1>6
<1>8. \A s \in Seq(Handle) : Becomes(V, U, b, s, Tail(s))
  BY <1>6 DEF Becomes
<1>9. \A g \in Handle : U.hWaitMbx[g] = 0 => U.mbq_next[g] = 0 /\ U.mbq_prev[g] = 0
  BY <1>4 DEF Waits
<1> QED
  BY <1>2, <1>9, <1>7, <1>8 DEF Waits, LeftFirst

(* A thread that waits nowhere goes to the end of the queue at b.          *)
JoinedLast(V, U, b, h) ==
  LET last == V.tq_tail[b]
      empty == V.tq_head[b] = 0
  IN  /\ U \in Waiting
      /\ U.tq_head = [V.tq_head EXCEPT ![b] = IF empty THEN h ELSE @]
      /\ U.tq_tail = [V.tq_tail EXCEPT ![b] = h]
      /\ U.hWaitMbx = [V.hWaitMbx EXCEPT ![h] = b]
      /\ \A g \in Handle \ {h} : /\ U.mbq_prev[g] = V.mbq_prev[g]
                                 /\ U.mbq_next[g] = IF ~empty /\ g = last THEN h
                                                   ELSE V.mbq_next[g]
      /\ (empty \/ last # h) => U.mbq_next[h] = 0

LEMMA QueueThreadFields ==
  ASSUME NEW V \in Waiting, NEW b \in Mailboxes, NEW h \in Handle,
         NEW U, U = MBXQueueThread(V, b, h)
  PROVE  JoinedLast(V, U, b, h)
<1> PICK last : last = V.tq_tail[b]
  OBVIOUS
<1> PICK head : head = V.tq_head[b]
  OBVIOUS
<1>1. PICK x : x = IF head = 0 THEN Put(V.mbq_next, h, 0) ELSE Put(Put(V.mbq_next, h, 0), last, h)
  OBVIOUS
<1>2. U = [V EXCEPT !.hWaitMbx = [V.hWaitMbx EXCEPT ![h] = b],
                    !.mbq_prev = [V.mbq_prev EXCEPT ![h] = IF head = 0 THEN 0 ELSE last],
                    !.mbq_next = x,
                    !.tq_head = [V.tq_head EXCEPT ![b] = IF head = 0 THEN h ELSE @],
                    !.tq_tail = [V.tq_tail EXCEPT ![b] = h]]
  BY <1>1 DEF MBXQueueThread, Waiting
<1>3. /\ U.hWaitMbx = [V.hWaitMbx EXCEPT ![h] = b]
      /\ U.mbq_prev = [V.mbq_prev EXCEPT ![h] = IF head = 0 THEN 0 ELSE last]
      /\ U.mbq_next = x
      /\ U.tq_head = [V.tq_head EXCEPT ![b] = IF head = 0 THEN h ELSE @]
      /\ U.tq_tail = [V.tq_tail EXCEPT ![b] = h]
  BY <1>2 DEF Waiting
<1>4. /\ V.tq_head \in [Mailboxes -> Handle0] /\ V.tq_tail \in [Mailboxes -> Handle0]
      /\ V.mbq_next \in [Handle -> Handle0] /\ V.mbq_prev \in [Handle -> Handle0]
      /\ V.hWaitMbx \in [Handle -> Mailbox0]
      /\ 0 \in Handle0 /\ b \in Mailbox0 /\ last \in Handle0 /\ h \in Handle0
  BY WaitingFields, HandleFacts DEF Mailbox0
<1>5. /\ x \in [Handle -> Handle0]
      /\ \A g \in Handle \ {h} : x[g] = IF head # 0 /\ g = last THEN h ELSE V.mbq_next[g]
      /\ (head = 0 \/ last # h) => x[h] = 0
  BY <1>1, <1>4 DEF Put
<1>6. /\ U.hWaitMbx \in [Handle -> Mailbox0] /\ U.mbq_next \in [Handle -> Handle0]
      /\ U.mbq_prev \in [Handle -> Handle0]
      /\ \A g \in Handle \ {h} : U.mbq_prev[g] = V.mbq_prev[g]
      /\ U.tq_head \in [Mailboxes -> Handle0] /\ U.tq_tail \in [Mailboxes -> Handle0]
  BY <1>3, <1>4, <1>5
<1>7. U \in Waiting
  BY <1>2, <1>6 DEF Waiting
<1> QED
  BY <1>3, <1>5, <1>6, <1>7 DEF JoinedLast

LEMMA QueueThreadWaits ==
  ASSUME NEW V, Waits(V), NEW b \in Mailboxes, NEW h \in Handle, V.hWaitMbx[h] = 0,
         NEW U, U = MBXQueueThread(V, b, h)
  PROVE  /\ Waits(U) /\ JoinedLast(V, U, b, h)
         /\ \A s \in Seq(Handle) : Becomes(V, U, b, s, Append(s, h))
<1>1. V \in Waiting /\ b # 0
  BY MailboxFacts DEF Waits
<1>2. JoinedLast(V, U, b, h)
  BY <1>1, QueueThreadFields
<1>3. /\ V.tq_head \in [Mailboxes -> Handle0] /\ V.tq_tail \in [Mailboxes -> Handle0]
      /\ V.hWaitMbx \in [Handle -> Mailbox0]
  BY <1>1, WaitingFields
<1>4. /\ U.hWaitMbx[h] = b
      /\ \A g \in Handle \ {h} : U.hWaitMbx[g] = V.hWaitMbx[g]
      /\ U.tq_head[b] = IF V.tq_head[b] = 0 THEN h ELSE V.tq_head[b]
      /\ U.tq_tail[b] = h
      /\ \A c \in Mailboxes \ {b} : U.tq_head[c] = V.tq_head[c] /\ U.tq_tail[c] = V.tq_tail[c]
  BY <1>2, <1>3 DEF JoinedLast
<1>5. PICK r \in Seq(Handle) : Line(V.mbq_next, V.tq_head[b], V.tq_tail[b], r, V.hWaitMbx, b)
  BY DEF Waits, Lined
<1>6. T!Queue(V.mbq_next, V.tq_head[b], r, V.hWaitMbx, b) /\ V.tq_tail[b] = T!LastOf(r)
  BY <1>5 DEF Line
<1>7. /\ V.tq_head[b] = 0 <=> V.tq_tail[b] = 0
      /\ V.tq_head[b] # 0 => V.tq_tail[b] \in Handle /\ V.hWaitMbx[V.tq_tail[b]] = b
  BY <1>6, T!QueueEnds, InstancesAssume, HandleIsMsg
<1>8. /\ U.mbq_next[h] = 0
      /\ \A g \in Handle \ {h} : /\ U.mbq_prev[g] = V.mbq_prev[g]
                                 /\ g # V.tq_tail[b] => U.mbq_next[g] = V.mbq_next[g]
      /\ V.tq_head[b] # 0 => U.mbq_next[V.tq_tail[b]] = h
  BY <1>1, <1>2, <1>7 DEF JoinedLast
<1>9. ASSUME NEW c \in Mailboxes, NEW s \in Seq(Handle), Lined(V, s, c)
      PROVE  IF c = b THEN Append(s, h) \in Seq(Handle) /\ Lined(U, Append(s, h), c)
                      ELSE Lined(U, s, c)
  <2>0. Line(V.mbq_next, V.tq_head[c], V.tq_tail[c], s, V.hWaitMbx, c)
    BY <1>9 DEF Lined
  <2>1. CASE c = b
    <3>1. BehindLast(V.mbq_next, V.hWaitMbx, V.tq_head[b], V.tq_tail[b],
                     U.mbq_next, U.hWaitMbx, U.tq_head[b], h, b)
      BY <1>1, <1>4, <1>8 DEF BehindLast
    <3>2. Line(V.mbq_next, V.tq_head[b], V.tq_tail[b], s, V.hWaitMbx, b)
      BY <2>0, <2>1
    <3>3. /\ Append(s, h) \in Seq(Handle)
          /\ Line(U.mbq_next, U.tq_head[b], h, Append(s, h), U.hWaitMbx, b)
      BY <3>1, <3>2, LineAppended
    <3> QED
      BY <3>3, <2>1, <1>4 DEF Lined
  <2>2. CASE c # b
    <3>2. c # 0 /\ V.hWaitMbx[h] # c /\ U.hWaitMbx[h] # c
      BY <2>2, <1>4, MailboxFacts
    <3>3. OnlyMoved(V.mbq_next, V.hWaitMbx, U.mbq_next, U.hWaitMbx, h, c)
      <4>1. ASSUME NEW g \in Handle, V.hWaitMbx[g] = c
            PROVE  g # V.tq_tail[b]
        BY <4>1, <2>2, <1>7, HandleFacts
      <4> QED
        BY <4>1, <1>4, <1>8 DEF OnlyMoved
    <3>4. Line(U.mbq_next, V.tq_head[c], V.tq_tail[c], s, U.hWaitMbx, c)
      BY <2>0, <3>2, <3>3, LineKept
    <3>5. Lined(U, s, c)
      BY <3>4, <2>2, <1>4 DEF Lined
    <3> QED
      BY <3>5, <2>2
  <2> QED
    BY <2>1, <2>2
<1>10. \A c \in Mailboxes : \E s \in Seq(Handle) : Lined(U, s, c)
  <2> SUFFICES ASSUME NEW c \in Mailboxes
               PROVE  \E s \in Seq(Handle) : Lined(U, s, c)
    OBVIOUS
  <2>1. PICK s \in Seq(Handle) : Lined(V, s, c)
    BY DEF Waits
  <2> QED
    BY <2>1, <1>9
<1>11. \A s \in Seq(Handle) : Becomes(V, U, b, s, Append(s, h))
  BY <1>9 DEF Becomes
<1>12. \A g \in Handle : U.hWaitMbx[g] = 0 => U.mbq_next[g] = 0 /\ U.mbq_prev[g] = 0
  <2> SUFFICES ASSUME NEW g \in Handle, U.hWaitMbx[g] = 0
               PROVE  U.mbq_next[g] = 0 /\ U.mbq_prev[g] = 0
    OBVIOUS
  <2>1. g # h /\ V.hWaitMbx[g] = 0
    BY <1>1, <1>4
  <2>2. g # V.tq_tail[b]
    BY <2>1, <1>1, <1>7, HandleFacts
  <2>3. V.mbq_next[g] = 0 /\ V.mbq_prev[g] = 0
    BY <2>1 DEF Waits
  <2>4. g \in Handle \ {h}
    BY <2>1
  <2> QED
    BY <2>2, <2>3, <2>4, <1>8
<1> QED
  BY <1>2, <1>12, <1>10, <1>11 DEF Waits, JoinedLast

-----------------------------------------------------------------------------
(* The threads that wait at each mailbox, in their order.                  *)
Names == [h \in Handle |-> h]

LEMMA ThreadsRead ==
  ASSUME NEW V, Waits(V)
  PROVE  T!Reads(ThreadsFrom(V), V.mbq_next, Names)
<1> DEFINE P(F) == F = [h \in Handle0 |-> IF h = 0 THEN <<>> ELSE <<h>> \o F[V.mbq_next[h]]]
<1>1. ThreadsFrom(V) = CHOOSE F : P(F)
  BY DEF ThreadsFrom
<1>2. ASSUME NEW F
      PROVE  T!Reads(F, V.mbq_next, Names) <=> P(F)
  <2>1. T!Msg0 = Handle0 /\ \A h \in Handle0 : h # 0 => Names[h] = h
    BY HandleIsMsg, HandleFacts DEF Names
  <2> QED
    BY <2>1 DEF T!Reads
<1>3. \E F : T!Reads(F, V.mbq_next, Names)
  <2> DEFINE S == [b \in Mailboxes |-> CHOOSE s \in Seq(Handle) : Lined(V, s, b)]
  <2>1. ASSUME NEW b \in Mailboxes
        PROVE  T!Queue(V.mbq_next, V.tq_head[b], S[b], V.hWaitMbx, b)
    BY DEF Waits, Lined, Line
  <2>2. \A h \in T!Msg : V.hWaitMbx[h] \notin Mailboxes => V.mbq_next[h] = 0
    BY WaitingFields, HandleIsMsg DEF Waits, Mailbox0
  <2> HIDE DEF S
  <2> QED
    BY <2>1, <2>2, T!ReaderExists, InstancesAssume
<1> HIDE DEF P
<1> QED
  BY <1>1, <1>2, <1>3

LEMMA CallersAre ==
  ASSUME NEW V, Waits(V), NEW b \in Mailboxes, NEW s, Lined(V, s, b)
  PROVE  Callers(V)[b] = s
<1>1. PICK h : h = V.tq_head[b]
  OBVIOUS
<1>2. T!Queue(V.mbq_next, h, s, V.hWaitMbx, b)
  BY <1>1 DEF Lined, Line
<1>3. ThreadsFrom(V)[h] = [i \in 1 .. Len(s) |-> Names[s[i]]]
  BY <1>2, ThreadsRead, T!ReadsQueue, InstancesAssume
<1>4. s \in Seq(Handle) /\ \A i \in 1 .. Len(s) : s[i] \in Handle
  BY <1>2, T!QueueLeads, InstancesAssume, HandleIsMsg
<1>5. s = [i \in 1 .. Len(s) |-> s[i]]
  BY <1>4
<1>6. [i \in 1 .. Len(s) |-> Names[s[i]]] = [i \in 1 .. Len(s) |-> s[i]]
  BY <1>4 DEF Names
<1> QED
  BY <1>1, <1>3, <1>5, <1>6 DEF Callers

LEMMA CallersLined ==
  ASSUME NEW V, Waits(V), NEW b \in Mailboxes
  PROVE  Callers(V)[b] \in Seq(Handle) /\ Lined(V, Callers(V)[b], b)
<1>1. PICK s \in Seq(Handle) : Lined(V, s, b)
  BY DEF Waits
<1> QED
  BY <1>1, CallersAre

(* The first of them is the head, and they are those marked as waiting.    *)
LEMMA CallersSay ==
  ASSUME NEW V, Waits(V), NEW b \in Mailboxes
  PROVE  /\ Callers(V)[b] = <<>> <=> V.tq_head[b] = 0
         /\ V.tq_head[b] # 0 => Head(Callers(V)[b]) = V.tq_head[b]
         /\ \A h \in Handle : Contains(Callers(V)[b], h) <=> V.hWaitMbx[h] = b
<1>1. PICK s, h : s = Callers(V)[b] /\ h = V.tq_head[b]
  OBVIOUS
<1>2. T!Queue(V.mbq_next, h, s, V.hWaitMbx, b)
  BY <1>1, CallersLined DEF Lined, Line
<1>3. /\ s = <<>> <=> h = 0
      /\ h # 0 => h = s[1]
  BY <1>2, T!QueueEnds, InstancesAssume
<1>4. \A g \in Handle : Contains(s, g) <=> V.hWaitMbx[g] = b
  BY <1>2, HandleIsMsg DEF T!Queue, T!Holds, Contains
<1>5. s \in Seq(Handle)
  BY <1>1, CallersLined
<1>6. h # 0 => Head(s) = h
  BY <1>3, <1>5
<1> QED
  BY <1>1, <1>3, <1>4, <1>6

(* A step that Becomes describes changes one of these sequences.           *)
Turns(V, U, b, r) == Callers(U) = [Callers(V) EXCEPT ![b] = r]

LEMMA CallersBecome ==
  ASSUME NEW V, Waits(V), NEW U, Waits(U), NEW b \in Mailboxes, NEW s, s = Callers(V)[b],
         NEW r, Becomes(V, U, b, s, r)
  PROVE  Turns(V, U, b, r)
<1>1. Callers(U)[b] = r
  BY CallersLined, CallersAre DEF Becomes
<1>2. ASSUME NEW c \in Mailboxes \ {b}
      PROVE  Callers(U)[c] = Callers(V)[c]
  BY CallersLined, CallersAre DEF Becomes
<1>3. /\ Callers(U) = [c \in Mailboxes |-> Callers(U)[c]]
      /\ Callers(V) = [c \in Mailboxes |-> Callers(V)[c]]
  BY DEF Callers
<1> QED
  BY <1>1, <1>2, <1>3 DEF Turns

LEMMA DequeueCallers ==
  ASSUME NEW V, Waits(V), NEW b \in Mailboxes, V.tq_head[b] # 0,
         NEW U, U = MBXDequeueThread(V, b)
  PROVE  Callers(U) = [Callers(V) EXCEPT ![b] = Tail(@)]
<1>1. PICK s : s = Callers(V)[b]
  OBVIOUS
<1>2. PICK r : r = Tail(s)
  OBVIOUS
<1>3. Waits(U)
  BY DequeueThreadWaits
<1>4. Becomes(V, U, b, s, r)
  BY <1>1, <1>2, CallersLined, DequeueThreadWaits
<1>5. Turns(V, U, b, r)
  BY <1>1, <1>3, <1>4, CallersBecome
<1> QED
  BY <1>1, <1>2, <1>5 DEF Turns

LEMMA QueueCallers ==
  ASSUME NEW V, Waits(V), NEW b \in Mailboxes, NEW h \in Handle, V.hWaitMbx[h] = 0,
         NEW U, U = MBXQueueThread(V, b, h)
  PROVE  Callers(U) = [Callers(V) EXCEPT ![b] = Append(@, h)]
<1>1. PICK s : s = Callers(V)[b]
  OBVIOUS
<1>2. PICK r : r = Append(s, h)
  OBVIOUS
<1>3. Waits(U)
  BY QueueThreadWaits
<1>4. Becomes(V, U, b, s, r)
  BY <1>1, <1>2, CallersLined, QueueThreadWaits
<1>5. Turns(V, U, b, r)
  BY <1>1, <1>3, <1>4, CallersBecome
<1> QED
  BY <1>1, <1>2, <1>5 DEF Turns

-----------------------------------------------------------------------------
(* The operators of Messages are the same seen through the instances.      *)
LEMMA SameMessages == Q!Messages = Messages
BY DEF Q!Messages, Messages, Q!Msg, Msg, Q!Msg0, Msg0, Q!NoBody, NoBody, Q!Strategy, Strategy

LEMMA SameIterate ==
  ASSUME NEW f, NEW s
  PROVE  Q!Iterate(f, s) = Iterate(f, s) /\ T!Iterate(f, s) = Iterate(f, s)
BY DEF Q!Iterate, T!Iterate, Iterate

LEMMA SameFresh ==
  ASSUME NEW size, NEW strategy
  PROVE  Q!FreshMessages(size, strategy) = FreshMessages(size, strategy)
BY DEF Q!FreshMessages, FreshMessages, Q!Msg, Msg, Q!NoBody, NoBody

LEMMA SameFree ==
  ASSUME NEW N, NEW m
  PROVE  Q!FreeMsg(N, m) = FreeMsg(N, m)
BY DEF Q!FreeMsg, FreeMsg, Q!Msg, Msg, Q!NoBody, NoBody

LEMMA SameDequeue ==
  ASSUME NEW N, NEW b
  PROVE  /\ Q!Dequeued(N, b) = Dequeued(N, b)
         /\ Q!MBXDequeueMsg(N, b) = MBXDequeueMsg(N, b)
         /\ Q!TakeMsg(N, b) = TakeMsg(N, b)
<1>1. Q!Dequeued(N, b) = Dequeued(N, b)
  BY DEF Q!Dequeued, Dequeued
<1>2. Q!MBXDequeueMsg(N, b) = MBXDequeueMsg(N, b)
  BY DEF Q!MBXDequeueMsg, MBXDequeueMsg, Q!LinkOf, LinkOf, Q!Msg, Msg
<1> QED
  BY <1>1, <1>2, SameFree DEF Q!TakeMsg, TakeMsg

LEMMA SameEmpty ==
  ASSUME NEW N, NEW b
  PROVE  Q!EmptyQueue(N, b) = EmptyQueue(N, b)
<1>1. Q!Emptying = Emptying
  BY SameMessages DEF Q!Emptying, Emptying
<1>2. Q!EmptyRound(b) = EmptyRound(b)
  BY <1>1, SameDequeue DEF Q!EmptyRound, EmptyRound
<1> QED
  BY <1>2, SameIterate DEF Q!EmptyQueue, EmptyQueue

LEMMA SameLink ==
  ASSUME NEW N, NEW b, NEW m
  PROVE  Q!LinkMsg(N, b, m) = LinkMsg(N, b, m)
BY SameFree DEF Q!LinkMsg, LinkMsg, Q!Repeats, Repeats, Q!Msg, Msg

LEMMA SameSent ==
  ASSUME NEW N, NEW b, NEW body
  PROVE  Q!Sent(N, b, body) = MBXQueueMsg(AllocMsg(N, body), b, N.freeMSG)
<1>1. ASSUME NEW c
      PROVE  Q!DropOld(c) = DropOld(c)
  <2>1. \A X, x : Q!Overfull(X, c) = Overfull(X, c) /\ Q!LinkOf(X, x) = LinkOf(X, x)
    BY DEF Q!Overfull, Overfull, Q!LinkOf, LinkOf, Q!Msg, Msg
  <2>2. \A X, x : Q!FreeMsg(X, x) = FreeMsg(X, x)
    BY SameFree
  <2> QED
    BY <2>1, <2>2, SameMessages, ZenonT(60) DEF Q!DropOld, DropOld
<1>2. ASSUME NEW L, NEW c
      PROVE  Q!TailWalk(L, c) = TailWalk(L, c)
  BY DEF Q!TailWalk, TailWalk, Q!LinkOf, LinkOf, Q!Msg, Msg, Q!Msg0, Msg0
<1>3. ASSUME NEW c
      PROVE  Q!DropNew(c) = DropNew(c)
  <2> DEFINE D == [M : Messages, msg : Msg0]
  <2>1. /\ D = DOMAIN DropNew(c) /\ DropNew(c) = [d \in D |-> DropNew(c)[d]]
        /\ D = DOMAIN Q!DropNew(c) /\ Q!DropNew(c) = [d \in D |-> Q!DropNew(c)[d]]
    BY SameMessages, ZenonT(60) DEF Q!DropNew, DropNew, Q!Msg0, Msg0
  <2>2. ASSUME NEW d \in D
        PROVE  Q!DropNew(c)[d] = DropNew(c)[d]
    <3> DEFINE s == [msg |-> d.msg, tmp |-> d.M.head[c]]
    <3>1. PICK w : w = Iterate(TailWalk(d.M, c), s)[NR_MSG]
      OBVIOUS
    <3>2. PICK x : x = Q!Iterate(Q!TailWalk(d.M, c), s)[NR_MSG]
      OBVIOUS
    <3>3. DropNew(c)[d] = IF Overfull(d.M, c)
            THEN [M |-> [FreeMsg(d.M, w.tmp) EXCEPT !.count[c] = @ - 1, !.tail[c] = w.msg],
                  msg |-> w.msg]
            ELSE d
      BY <3>1 DEF DropNew
    <3>4. Q!DropNew(c)[d] = IF Q!Overfull(d.M, c)
            THEN [M |-> [Q!FreeMsg(d.M, x.tmp) EXCEPT !.count[c] = @ - 1, !.tail[c] = x.msg],
                  msg |-> x.msg]
            ELSE d
      <4>1. d \in [M : Q!Messages, msg : Q!Msg0]
        BY SameMessages DEF Q!Msg0, Msg0
      <4> QED
        BY <3>2, <4>1 DEF Q!DropNew
    <3>5. x = w
      BY <3>1, <3>2, <1>2, SameIterate
    <3>6. Q!Overfull(d.M, c) = Overfull(d.M, c)
      BY DEF Q!Overfull, Overfull
    <3>7. Q!FreeMsg(d.M, x.tmp) = FreeMsg(d.M, w.tmp)
      BY <3>5, SameFree
    <3> QED
      BY <3>3, <3>4, <3>5, <3>6, <3>7
  <2> QED
    <3> HIDE DEF D
    <3> QED
      BY <2>1, <2>2
<1>4. Q!AllocMsg(N, body) = AllocMsg(N, body)
  BY DEF Q!AllocMsg, AllocMsg
<1>5. ASSUME NEW L, NEW m
      PROVE  Q!MBXQueueMsg(L, b, m) = MBXQueueMsg(L, b, m)
  <2> DEFINE C == [L EXCEPT !.count[b] = @ + 1]
             excess == IF Overfull(C, b) THEN C.count[b] - C.size[b] ELSE 0
             Result(linked, old, new) ==
               CASE L.strategy[b] = "UNLIMITED" -> linked
                 [] L.strategy[b] = "NEWEST" -> old
                 [] L.strategy[b] = "OLDEST" -> IF excess = 0 THEN linked ELSE new
             I == Iterate(DropOld(b), C)
             J == Iterate(DropNew(b), [M |-> FreeMsg(L, m), msg |-> m])
             QI == Q!Iterate(Q!DropOld(b), C)
             QJ == Q!Iterate(Q!DropNew(b), [M |-> Q!FreeMsg(L, m), msg |-> m])
  <2>1. Q!Overfull(C, b) = Overfull(C, b)
    BY DEF Q!Overfull, Overfull
  <2>2. QI = I /\ QJ = J
    BY <1>1, <1>3, SameFree, SameIterate
  <2>3. MBXQueueMsg(L, b, m)
          = Result(LinkMsg(C, b, m), LinkMsg(I[excess], b, m), J[excess].M)
    BY DEF MBXQueueMsg
  <2>4. Q!MBXQueueMsg(L, b, m)
          = Result(Q!LinkMsg(C, b, m), Q!LinkMsg(QI[excess], b, m), QJ[excess].M)
    BY <2>1 DEF Q!MBXQueueMsg
  <2> HIDE DEF I, J, QI, QJ, C, excess, Result
  <2> QED
    BY <2>2, <2>3, <2>4, SameLink
<1> QED
  BY <1>4, <1>5 DEF Q!Sent

-----------------------------------------------------------------------------
(* The messages.                                                           *)

(* The blocks of N are in order, as MsgQueue_proofs has it, and all        *)
(* mailboxes have the limit and the strategy FMTK_AllocMbx gives them.     *)
Filed(N) ==
  /\ N \in Messages
  /\ \A b \in Mailboxes : N.size[b] = 8 /\ N.strategy[b] = "NEWEST"
  /\ \E S \in [Q!Box0 -> Seq(Msg)], O \in [Msg -> Q!Box0] : Q!Ordered(N, S, O)

(* Only what is queued at b may differ between N and R.                    *)
Others(N, R, b) == \A c \in Mailboxes \ {b} : R.head[c] = N.head[c]

LEMMA SameMsg == Q!Msg = Msg
BY DEF Q!Msg, Msg

(* What each block says.                                                   *)
Texts(N) == [m \in Msg |-> [body |-> N.body[m], rep |-> N.rep[m]]]

LEMMA MessagesRead ==
  ASSUME NEW N, NEW S, NEW O, Q!Ordered(N, S, O)
  PROVE  Q!Reads(MessagesFrom(N), N.link, Texts(N))
<1> DEFINE P(F) == F = [m \in Msg0 |->
                         IF m = 0 THEN <<>>
                         ELSE <<[body |-> N.body[m], rep |-> N.rep[m]]>> \o F[N.link[m]]]
<1>1. MessagesFrom(N) = CHOOSE F : P(F)
  BY DEF MessagesFrom
<1>2. ASSUME NEW F
      PROVE  Q!Reads(F, N.link, Texts(N)) <=> P(F)
  <2>1. Q!Msg0 = Msg0 /\ \A m \in Msg0 : m # 0 => m \in Msg
    BY MessagesAssumption DEF Q!Msg0, Msg0, Msg
  <2>2. \A m \in Msg0 : m # 0 => Texts(N)[m] = [body |-> N.body[m], rep |-> N.rep[m]]
    BY <2>1 DEF Texts
  <2> QED
    BY <2>1, <2>2 DEF Q!Reads
<1>3. \E F : Q!Reads(F, N.link, Texts(N))
  <2> DEFINE head == [c \in Q!Box0 |-> Q!First(N, c)]
  <2>1. /\ \A c \in Q!Box0 : Q!Queue(N.link, head[c], S[c], O, c)
        /\ \A m \in Q!Msg : O[m] \in Q!Box0
    BY DEF Q!Ordered
  <2> HIDE DEF head
  <2> QED
    BY <2>1, Q!ReaderExists, InstancesAssume
<1> HIDE DEF P
<1> QED
  BY <1>1, <1>2, <1>3

LEMMA LettersSay ==
  ASSUME NEW N, NEW S, NEW O, Q!Ordered(N, S, O)
  PROVE  /\ Letters(N) = [b \in Mailboxes |-> Q!Says(N, S[b])]
         /\ \A b \in Mailboxes : Letters(N)[b] = <<>> <=> N.head[b] = 0
<1>1. ASSUME NEW b \in Mailboxes
      PROVE  /\ MessagesFrom(N)[N.head[b]] = Q!Says(N, S[b])
             /\ Q!Says(N, S[b]) = <<>> <=> N.head[b] = 0
  <2>1. PICK s, h : s = S[b] /\ h = N.head[b]
    OBVIOUS
  <2>2. /\ s \in Seq(Q!Msg) /\ Q!Queue(N.link, h, s, O, b)
        /\ s = <<>> <=> h = 0
        /\ Len(s) \in Nat /\ \A i \in 1 .. Len(s) : s[i] \in Msg
    BY <2>1, Q!HeadFound, Q!QueueEnds, InstancesAssume, SameMsg
  <2>3. MessagesFrom(N)[h] = [i \in 1 .. Len(s) |-> Texts(N)[s[i]]]
    BY <2>2, MessagesRead, Q!ReadsQueue, InstancesAssume
  <2>4. MessagesFrom(N)[h] = Q!Says(N, s)
    BY <2>2, <2>3 DEF Q!Says, Texts
  <2>5. Q!Says(N, s) = <<>> <=> s = <<>>
    BY <2>2, Q!SaysLast, InstancesAssume
  <2> QED
    BY <2>1, <2>2, <2>4, <2>5
<1> QED
  BY <1>1 DEF Letters

(* Only what is queued at b has changed.                                   *)
LEMMA LettersChanged ==
  ASSUME NEW N, NEW S, NEW O, Q!Ordered(N, S, O), NEW b \in Mailboxes,
         NEW R, NEW S2, NEW O2, Q!Ordered(R, S2, O2), Q!UnreadBut(N, S, R, S2, b)
  PROVE  Letters(R) = [Letters(N) EXCEPT ![b] = Q!Says(R, S2[b])]
<1>1. /\ Letters(N) = [c \in Mailboxes |-> Q!Says(N, S[c])]
      /\ Letters(R) = [c \in Mailboxes |-> Q!Says(R, S2[c])]
  BY LettersSay
<1>2. \A c \in Mailboxes \ {b} : Q!Says(R, S2[c]) = Q!Says(N, S[c])
  BY DEF Q!UnreadBut, Q!Unread
<1> QED
  BY <1>1, <1>2

LEMMA EmptyLetters ==
  ASSUME NEW N, Filed(N), NEW b \in Mailboxes
  PROVE  Letters(N)[b] = <<>> <=> N.head[b] = 0
BY LettersSay DEF Filed

LEMMA FreshFiled ==
  ASSUME NEW N, N = FreshMessages(8, "NEWEST")
  PROVE  /\ Filed(N) /\ \A b \in Mailboxes : N.head[b] = 0
         /\ Letters(N) = [b \in Mailboxes |-> <<>>]
<1>1. 8 \in Sizes /\ "NEWEST" \in Q!Strategy
  BY IpcAssumption DEF Q!Strategy
<1>2. N = Q!FreshMessages(8, "NEWEST")
  BY SameFresh
<1>3. /\ N \in Messages
      /\ \E S \in [Q!Box0 -> Seq(Msg)], O \in [Msg -> Q!Box0] : Q!Ordered(N, S, O)
  BY <1>1, <1>2, Q!FreshOrdered, InstancesAssume, SameMessages, SameMsg
<1>4. Filed(N) /\ \A b \in Mailboxes : N.head[b] = 0
  BY <1>3 DEF FreshMessages, Filed
<1>5. \A b \in Mailboxes : Letters(N)[b] = <<>>
  BY <1>3, <1>4, LettersSay
<1> QED
  BY <1>4, <1>5 DEF Letters

LEMMA SentFiled ==
  ASSUME NEW N, Filed(N), NEW b \in Mailboxes, NEW body \in Bodies,
         N.freeMSG # 0, N.count[b] < MaxCount,
         NEW R, R = MBXQueueMsg(AllocMsg(N, body), b, N.freeMSG)
  PROVE  /\ Filed(R) /\ Others(N, R, b)
         /\ Letters(R) = [Letters(N) EXCEPT ![b] = Q!Gained(@, body)]
<1>1. N \in Q!Messages /\ R = Q!Sent(N, b, body)
  BY SameMessages, SameSent DEF Filed
<1>2. PICK S, O : Q!Ordered(N, S, O)
  BY DEF Filed
<1>3. N.count[b] + 1 <= N.size[b]
  <2>1. N.count[b] \in Nat
    BY <1>2 DEF Q!Ordered, Q!Tidy
  <2> QED
    BY <2>1, IpcAssumption DEF Filed
<1>4. /\ R \in Q!Messages
      /\ Q!Elsewhere(N, R, b)
      /\ \E S2 \in [Q!Box0 -> Seq(Q!Msg)], O2 \in [Q!Msg -> Q!Box0] :
           Q!MessageIn(N, S, R, S2, O2, b, body)
  BY <1>1, <1>2, <1>3, Q!SentKeeps, InstancesAssume
<1>5. \E S2 \in [Q!Box0 -> Seq(Msg)], O2 \in [Msg -> Q!Box0] : Q!Ordered(R, S2, O2)
  BY <1>4, SameMsg DEF Q!MessageIn
<1>6. Letters(R) = [Letters(N) EXCEPT ![b] = Q!Gained(@, body)]
  <2>1. PICK S2, O2 : Q!MessageIn(N, S, R, S2, O2, b, body)
    BY <1>4
  <2>2. /\ Q!Ordered(R, S2, O2) /\ Q!UnreadBut(N, S, R, S2, b)
        /\ Q!Says(R, S2[b]) = Q!Gained(Q!Says(N, S[b]), body)
    BY <2>1 DEF Q!MessageIn, Filed
  <2>3. Letters(N)[b] = Q!Says(N, S[b])
    BY <1>2, LettersSay
  <2> QED
    BY <1>2, <2>2, <2>3, LettersChanged
<1>7. Filed(R) /\ Others(N, R, b)
  BY <1>4, <1>5, SameMessages, ZenonT(60) DEF Filed, Others, Q!Elsewhere
<1> QED
  BY <1>6, <1>7

LEMMA TakenFiled ==
  ASSUME NEW N, Filed(N), NEW b \in Mailboxes, NEW R, R = TakeMsg(N, b)
  PROVE  /\ Filed(R) /\ Others(N, R, b)
         /\ Dequeued(N, b) = 0 => N.head[b] = 0 /\ R.head[b] = 0
         /\ N.head[b] = 0 => Dequeued(N, b) = 0 /\ Letters(R) = Letters(N)
         /\ N.head[b] # 0 => Letters(R) = [Letters(N) EXCEPT ![b] = Tail(@)]
<1>1. N \in Q!Messages /\ R = Q!TakeMsg(N, b) /\ Q!Dequeued(N, b) = Dequeued(N, b)
  BY SameMessages, SameDequeue DEF Filed
<1>2. PICK S, O : Q!Ordered(N, S, O)
  BY DEF Filed
<1>3. R \in Q!Messages
  BY <1>1, Q!TakeMsgFields, InstancesAssume
<1>4. Q!Elsewhere(N, R, b)
  BY <1>1, Q!TakeMsgElsewhere, InstancesAssume
<1>5. /\ S[b] = <<>> => Q!Ordered(R, S, O) /\ \A c \in Mailboxes : Q!Unread(N, S, R, S, c)
      /\ S[b] # <<>> =>
           \E S2 \in [Q!Box0 -> Seq(Q!Msg)], O2 \in [Q!Msg -> Q!Box0] :
             Q!FirstRead(N, S, R, S2, O2, b)
  BY <1>1, <1>2, Q!TakeMsgKeeps, InstancesAssume
<1>6. \E S2 \in [Q!Box0 -> Seq(Msg)], O2 \in [Msg -> Q!Box0] : Q!Ordered(R, S2, O2)
  <2>1. CASE S[b] = <<>>
    <3>1. S \in [Q!Box0 -> Seq(Msg)] /\ O \in [Msg -> Q!Box0]
      BY <1>2, SameMsg DEF Q!Ordered
    <3> QED
      BY <1>5, <2>1, <3>1
  <2>2. CASE S[b] # <<>>
    BY <1>5, <2>2, SameMsg DEF Q!FirstRead
  <2> QED
    BY <2>1, <2>2
<1>7. /\ S[b] = <<>> => N.head[b] = 0 /\ Dequeued(N, b) = 0
      /\ S[b] # <<>> => N.head[b] # 0 /\ Dequeued(N, b) # 0
  <2>1. 0 \notin Q!Msg
    BY DEF Q!Msg
  <2> QED
    BY <1>1, <1>2, <2>1, Q!HeadFound, InstancesAssume
<1>8. S[b] = <<>> => R.head[b] = 0
  BY <1>5, Q!HeadFound, InstancesAssume
<1>9. ASSUME S[b] = <<>>
      PROVE  Letters(R) = Letters(N)
  <2>1. Letters(R) = [c \in Mailboxes |-> Q!Says(R, S[c])]
    BY <1>5, <1>9, LettersSay
  <2>2. Letters(N) = [c \in Mailboxes |-> Q!Says(N, S[c])]
    BY <1>2, LettersSay
  <2> QED
    BY <1>5, <1>9, <2>1, <2>2 DEF Q!Unread
<1>10. ASSUME S[b] # <<>>
       PROVE  Letters(R) = [Letters(N) EXCEPT ![b] = Tail(@)]
  <2>1. PICK S2, O2 : Q!FirstRead(N, S, R, S2, O2, b)
    BY <1>5, <1>10
  <2>2. /\ Q!Ordered(R, S2, O2) /\ Q!UnreadBut(N, S, R, S2, b)
        /\ Q!Says(R, S2[b]) = Tail(Q!Says(N, S[b]))
    BY <2>1 DEF Q!FirstRead, Tail, Q!Tail
  <2>3. Letters(N)[b] = Q!Says(N, S[b])
    BY <1>2, LettersSay
  <2> QED
    BY <1>2, <2>2, <2>3, LettersChanged
<1>11. Filed(R) /\ Others(N, R, b)
  BY <1>3, <1>4, <1>6, SameMessages DEF Filed, Others, Q!Elsewhere
<1> QED
  BY <1>7, <1>8, <1>9, <1>10, <1>11

LEMMA EmptiedFiled ==
  ASSUME NEW N, Filed(N), NEW b \in Mailboxes, NEW R, R = EmptyQueue(N, b)
  PROVE  /\ Filed(R) /\ Others(N, R, b) /\ R.head[b] = 0
         /\ Letters(R) = [Letters(N) EXCEPT ![b] = <<>>]
<1>1. N \in Q!Messages /\ R = Q!EmptyQueue(N, b)
  BY SameMessages, SameEmpty DEF Filed
<1>2. PICK S, O : Q!Ordered(N, S, O)
  BY DEF Filed
<1>3. /\ R \in Q!Messages
      /\ Q!Elsewhere(N, R, b)
      /\ \E S2 \in [Q!Box0 -> Seq(Q!Msg)], O2 \in [Q!Msg -> Q!Box0] :
           /\ Q!Ordered(R, S2, O2)
           /\ S2[b] = <<>>
           /\ Q!UnreadBut(N, S, R, S2, b)
  BY <1>1, <1>2, Q!EmptyQueueKeeps, InstancesAssume
<1>4. PICK S2 \in [Q!Box0 -> Seq(Msg)], O2 \in [Msg -> Q!Box0] :
        Q!Ordered(R, S2, O2) /\ S2[b] = <<>> /\ Q!UnreadBut(N, S, R, S2, b)
  BY <1>3, SameMsg
<1>5. R.head[b] = 0
  BY <1>4, Q!HeadFound, InstancesAssume
<1>6. Letters(R) = [Letters(N) EXCEPT ![b] = <<>>]
  <2>1. Q!Says(R, S2[b]) = <<>>
    BY <1>4, <1>5, LettersSay
  <2> QED
    BY <1>2, <1>4, <2>1, LettersChanged
<1>7. Filed(R) /\ Others(N, R, b)
  BY <1>3, <1>4, SameMessages DEF Filed, Others, Q!Elsewhere
<1> QED
  BY <1>5, <1>6, <1>7

(* FMTK_AllocMbx makes a queue as new.                                     *)
Reset(N, b) == [N EXCEPT !.head[b] = 0, !.tail[b] = 0, !.count[b] = 0,
                         !.size[b] = 8, !.strategy[b] = "NEWEST"]

LEMMA ResetFiled ==
  ASSUME NEW N, Filed(N), NEW b \in Mailboxes, N.head[b] = 0, NEW R, R = Reset(N, b)
  PROVE  Filed(R) /\ R.head = N.head /\ Letters(R) = Letters(N) /\ Letters(N)[b] = <<>>
<1>1. /\ N \in Messages /\ 8 \in Sizes /\ "NEWEST" \in Strategy
      /\ \A c \in Mailboxes : N.size[c] = 8 /\ N.strategy[c] = "NEWEST"
  BY IpcAssumption DEF Filed, Strategy
<1>2. PICK S, O : Q!Ordered(N, S, O)
  BY DEF Filed
<1>3. S[b] = <<>>
  <2>1. 0 \notin Q!Msg
    BY DEF Q!Msg
  <2> QED
    BY <1>2, <2>1, Q!HeadFound, InstancesAssume
<1>4. R = [N EXCEPT !.head = [N.head EXCEPT ![b] = 0], !.tail = [N.tail EXCEPT ![b] = 0],
                    !.count = [N.count EXCEPT ![b] = 0], !.size = [N.size EXCEPT ![b] = 8],
                    !.strategy = [N.strategy EXCEPT ![b] = "NEWEST"]]
  BY <1>1 DEF Messages, Reset
<1>5. /\ N.head \in [Mailboxes -> Msg0] /\ N.tail \in [Mailboxes -> Msg0]
      /\ N.count \in [Mailboxes -> Int] /\ N.size \in [Mailboxes -> Sizes]
      /\ N.strategy \in [Mailboxes -> Strategy]
  BY <1>1 DEF Messages
<1>6. /\ R.link = N.link /\ R.freeMSG = N.freeMSG /\ R.rep = N.rep /\ R.body = N.body
      /\ R.head = [N.head EXCEPT ![b] = 0] /\ R.tail = [N.tail EXCEPT ![b] = 0]
      /\ R.count = [N.count EXCEPT ![b] = 0] /\ R.size = [N.size EXCEPT ![b] = 8]
      /\ R.strategy = [N.strategy EXCEPT ![b] = "NEWEST"]
  BY <1>1, <1>4 DEF Messages
<1>7. /\ R.head = N.head
      /\ R.tail \in [Mailboxes -> Msg0] /\ R.count \in [Mailboxes -> Int]
      /\ R.size \in [Mailboxes -> Sizes] /\ R.strategy \in [Mailboxes -> Strategy]
  BY <1>1, <1>5, <1>6 DEF Msg0
<1>8. R \in Messages
  BY <1>1, <1>4, <1>6, <1>7 DEF Messages
<1>9. ASSUME NEW c \in Mailboxes
      PROVE  Q!Tidy(R, S[c], c)
  <2>1. Q!Tidy(N, S[c], c)
    BY <1>2 DEF Q!Ordered
  <2>2. CASE c = b
    <3>1. R.tail[c] = 0 /\ R.count[c] = 0 /\ R.size[c] = 8 /\ R.strategy[c] = "NEWEST"
      BY <2>2, <1>5, <1>6
    <3>2. Len(S[c]) = 0
      BY <1>3, <2>2, EmptySeq
    <3> QED
      BY <1>3, <2>2, <3>1, <3>2 DEF Q!Tidy, Q!LastOf
  <2>3. CASE c # b
    <3>1. /\ R.tail[c] = N.tail[c] /\ R.count[c] = N.count[c]
          /\ R.size[c] = N.size[c] /\ R.strategy[c] = N.strategy[c]
      BY <2>3, <1>5, <1>6
    <3> QED
      BY <2>1, <3>1 DEF Q!Tidy
  <2> QED
    BY <2>2, <2>3
<1>10. Q!Ordered(R, S, O)
  <2>1. \A m \in Q!Msg : O[m] = 0 => R.rep[m] = 0
    BY <1>2, <1>6 DEF Q!Ordered
  <2>2. R.link = N.link /\ R.freeMSG = N.freeMSG /\ R.head = N.head
    BY <1>6, <1>7
  <2> QED
    BY <1>2, <1>9, <2>1, <2>2, Q!NothingMoved, InstancesAssume
<1>11. S \in [Q!Box0 -> Seq(Msg)] /\ O \in [Msg -> Q!Box0]
  BY <1>2, SameMsg DEF Q!Ordered
<1>12. \A c \in Mailboxes : R.size[c] = 8 /\ R.strategy[c] = "NEWEST"
  BY <1>1, <1>5, <1>6
<1>13. ASSUME NEW c \in Mailboxes
       PROVE  Q!Says(R, S[c]) = Q!Says(N, S[c])
  BY <1>6 DEF Q!Says
<1>14. Letters(R) = Letters(N) /\ Letters(N)[b] = <<>>
  <2>1. /\ Letters(R) = [c \in Mailboxes |-> Q!Says(R, S[c])]
        /\ Letters(N) = [c \in Mailboxes |-> Q!Says(N, S[c])]
        /\ Letters(N)[b] = <<>>
    BY <1>2, <1>10, LettersSay
  <2> QED
    BY <1>13, <2>1
<1> QED
  BY <1>7, <1>8, <1>10, <1>11, <1>12, <1>14 DEF Filed

-----------------------------------------------------------------------------
(* A thread that was taken off a mailbox becomes ready.                    *)
Awake(L, N, h) ==
  /\ "WAITMSG" \notin N.status[h]
  /\ \A g \in Handle \ {h} : N.status[g] = L.status[g]

LEMMA MakeReadyKeeps ==
  ASSUME NEW L, NEW H, WellFormed(L, H), NEW h \in Handle, H[h] \in {"loose", "timeout"},
         NEW N, N = MakeReady(L, h),
         NEW K, K = [H EXCEPT ![h] = "ready"]
  PROVE  WellFormed(N, K) /\ Awake(L, N, h)
<1>r. PICK R : R = IF "TIMEOUT" \in L.status[h] THEN TCBRemoveFromTimeoutList(L, h) ELSE L
  OBVIOUS
<1>g. PICK G : G = [H EXCEPT ![h] = "loose"]
  OBVIOUS
<1>s. PICK S : S = [R EXCEPT !.status[h] = @ \ {"WAITMSG"}]
  OBVIOUS
<1>i. PICK I : I = [G EXCEPT ![h] = "ready"]
  OBVIOUS
<1>1. /\ L \in Lists /\ H \in [Handle -> Homes] /\ L.status \in [Handle -> SUBSET StatusBit]
      /\ "TIMEOUT" \in L.status[h] <=> H[h] = "timeout"
  BY FieldTypes DEF WellFormed, ListsOK, FieldsTyped, LooseFormed
<1>2. I = K /\ G[h] = "loose" /\ \A g \in Handle \ {h} : G[g] = H[g]
  BY <1>1, <1>g, <1>i
<1>3. /\ WellFormed(R, G)
      /\ R.status = [L.status EXCEPT ![h] = IF H[h] = "timeout" THEN {} ELSE @]
  <2>1. CASE H[h] = "timeout"
    <3>1. R = TCBRemoveFromTimeoutList(L, h)
      BY <2>1, <1>1, <1>r
    <3>2. WellFormed(R, G)
      BY <2>1, <3>1, <1>g, RemoveFromTimeoutListKeeps
    <3>3. R.status = [L.status EXCEPT ![h] = {}]
      BY <3>1, <1>1, RemoveFromTimeoutListFields
    <3> QED
      BY <2>1, <3>2, <3>3
  <2>2. CASE H[h] = "loose"
    <3>1. R = L /\ G = H
      BY <2>2, <1>1, <1>r, <1>g
    <3> QED
      BY <2>2, <3>1, <1>1
  <2> QED
    BY <2>1, <2>2
<1>4. /\ R \in Lists /\ R.status \in [Handle -> SUBSET StatusBit]
      /\ \A g \in Handle \ {h} : R.status[g] = L.status[g]
  BY <1>1, <1>3 DEF WellFormed, ListsOK, Lists
<1>u. PICK s : s = [R.status EXCEPT ![h] = @ \ {"WAITMSG"}]
  OBVIOUS
<1>5. s \in [Handle -> SUBSET StatusBit] /\ S = [R EXCEPT !.status = s]
  BY <1>4, <1>s, <1>u DEF Lists
<1>6. /\ \A g \in Handle : "TIMEOUT" \in s[g] <=> G[g] = "timeout"
      /\ \A g \in Handle : G[g] = "ready" => "READY" \in s[g]
  BY <1>2, <1>3, <1>4, <1>u DEF WellFormed, LooseFormed, Members
<1>7. WellFormed(S, G)
  BY <1>3, <1>5, <1>6, StatusKeeps
<1>8. S.status = s /\ S \in Lists
  BY <1>4, <1>5, <1>7 DEF Lists, WellFormed, ListsOK
<1>9. N = TCBInsertIntoReadyQueue(S, h)
  BY <1>r, <1>s DEF MakeReady
<1>10. WellFormed(N, I)
  BY <1>2, <1>7, <1>9, <1>i, InsertIntoReadyQueueKeeps
<1>11. N.status = [S.status EXCEPT ![h] = @ \cup {"READY"}]
  BY <1>8, <1>9, InsertIntoReadyQueueFields
<1> QED
  BY <1>2, <1>4, <1>8, <1>10, <1>11, <1>u DEF Awake

(* The lists L agree with the places H, the marks on the threads with the  *)
(* mailboxes they wait at; a thread that waits is blocked inside of        *)
(* FMTK_WaitMsg, and one that was handed a message ready to return.        *)
Seated(L, V, ml, ins, H) ==
  /\ WellFormed(L, H)
  /\ ml \in [Handle -> Bodies \cup {NoMail}]
  /\ ins \subseteq Handle
  /\ H[IdleThread] = "ready"
  /\ \A h \in Handle :
       /\ V.hWaitMbx[h] # 0 => H[h] \in {"loose", "timeout"} /\ h \in ins /\ ml[h] = NoMail
       /\ "WAITMSG" \in L.status[h] <=> V.hWaitMbx[h] # 0
       /\ ml[h] # NoMail => h \in ins /\ H[h] = "ready"

LEMMA SeatedTypes ==
  ASSUME NEW L, NEW V, NEW ml, NEW ins, NEW H, Seated(L, V, ml, ins, H)
  PROVE  /\ WellFormed(L, H) /\ L \in Lists /\ H \in [Handle -> Homes]
         /\ L.status \in [Handle -> SUBSET StatusBit]
         /\ IdleThread \in Handle /\ H[IdleThread] = "ready" /\ ~L.panic
         /\ ml \in [Handle -> Bodies \cup {NoMail}] /\ ins \subseteq Handle
<1>1. L \in Lists /\ H \in [Handle -> Homes] /\ ~L.panic
  BY DEF Seated, WellFormed, ListsOK
<1> QED
  BY <1>1, HandleFacts DEF Seated, Lists, IdleThread

(* The first thread at b is woken, with body for a message.                *)
LEMMA WakeSeated ==
  ASSUME NEW L, NEW V, NEW ml, NEW ins, NEW H, Seated(L, V, ml, ins, H), Waits(V),
         NEW b \in Mailboxes, NEW h, h = V.tq_head[b], h # 0,
         NEW body \in Bodies \cup {NoMail},
         NEW N, N = MakeReady(L, h), NEW U, U = MBXDequeueThread(V, b),
         NEW nl, nl = [ml EXCEPT ![h] = body],
         NEW K, K = [H EXCEPT ![h] = "ready"]
  PROVE  Seated(N, U, nl, ins, K)
<1>1. h \in Handle /\ V.hWaitMbx[h] = b /\ b # 0 /\ V \in Waiting
  BY FirstWaits, MailboxFacts DEF Waits
<1>2. WellFormed(L, H) /\ H[h] \in {"loose", "timeout"} /\ h \in ins
  BY <1>1 DEF Seated
<1>3. Awake(L, N, h) /\ WellFormed(N, K)
  BY <1>1, <1>2, MakeReadyKeeps
<1>4. U.hWaitMbx[h] = 0 /\ \A g \in Handle \ {h} : U.hWaitMbx[g] = V.hWaitMbx[g]
  <2>1. LeftFirst(V, U, b, h)
    BY DequeueThreadWaits
  <2>2. V.hWaitMbx \in [Handle -> Mailbox0]
    BY <1>1, WaitingFields
  <2> QED
    BY <1>1, <2>1, <2>2 DEF LeftFirst
<1>5. /\ H \in [Handle -> Homes] /\ ml \in [Handle -> Bodies \cup {NoMail}]
      /\ ins \subseteq Handle /\ IdleThread \in Handle /\ H[IdleThread] = "ready"
  BY SeatedTypes
<1>6. /\ K[h] = "ready" /\ nl[h] = body
      /\ nl \in [Handle -> Bodies \cup {NoMail}]
      /\ \A g \in Handle \ {h} : K[g] = H[g] /\ nl[g] = ml[g]
  BY <1>1, <1>5
<1>7. ASSUME NEW g \in Handle
      PROVE  /\ U.hWaitMbx[g] # 0 => K[g] \in {"loose", "timeout"} /\ g \in ins /\ nl[g] = NoMail
             /\ "WAITMSG" \in N.status[g] <=> U.hWaitMbx[g] # 0
             /\ nl[g] # NoMail => g \in ins /\ K[g] = "ready"
  <2>1. CASE g = h
    BY <2>1, <1>2, <1>3, <1>4, <1>6 DEF Awake
  <2>2. CASE g # h
    BY <2>2, <1>3, <1>4, <1>6 DEF Seated, Awake
  <2> QED
    BY <2>1, <2>2
<1>8. K[IdleThread] = "ready"
  BY <1>5, <1>6
<1> QED
  BY <1>3, <1>5, <1>6, <1>7, <1>8 DEF Seated

(* A thread that finds no message blocks at b.                             *)
Blocked(L, V, t) ==
  [TCBRemoveFromReadyQueue(L, t) EXCEPT
     !.status[t] = @ \cup {"WAITMSG"},
     !.panic = V.mbq_next[t] # 0 \/ V.mbq_prev[t] # 0]

LEMMA BlockSeated ==
  ASSUME NEW L, NEW V, NEW ml, NEW ins, NEW H, Seated(L, V, ml, ins, H), Waits(V),
         NEW b \in Mailboxes, NEW t \in Handle, t # IdleThread, t \notin ins,
         H[t] \in {"ready", "loose"},
         NEW N, N = Blocked(L, V, t),
         NEW U, U = MBXQueueThread(V, b, t),
         NEW K, K = [H EXCEPT ![t] = "loose"]
  PROVE  Seated(N, U, ml, ins \cup {t}, K)
<1>1. /\ WellFormed(L, H) /\ L \in Lists /\ H \in [Handle -> Homes]
      /\ L.status \in [Handle -> SUBSET StatusBit]
      /\ IdleThread \in Handle /\ H[IdleThread] = "ready"
      /\ ml \in [Handle -> Bodies \cup {NoMail}] /\ ins \subseteq Handle
  BY SeatedTypes
<1>2. V.hWaitMbx[t] = 0 /\ ml[t] = NoMail
  BY DEF Seated
<1>3. V.mbq_next[t] = 0 /\ V.mbq_prev[t] = 0 /\ V \in Waiting
  BY <1>2 DEF Waits
<1>4. JoinedLast(V, U, b, t)
  BY <1>2, QueueThreadWaits
<1>5. U.hWaitMbx[t] = b /\ b # 0 /\ \A g \in Handle \ {t} : U.hWaitMbx[g] = V.hWaitMbx[g]
  <2>1. V.hWaitMbx \in [Handle -> Mailbox0]
    BY <1>3, WaitingFields
  <2> QED
    BY <1>4, <2>1, MailboxFacts DEF JoinedLast
<1>r. PICK R : R = TCBRemoveFromReadyQueue(L, t)
  OBVIOUS
<1>6. WellFormed(R, K)
  BY <1>1, <1>r, RemoveFromReadyQueueKeeps
<1>7. R.status = [L.status EXCEPT ![t] = {}]
  BY <1>1, <1>r, RemoveFromReadyQueueFields
<1>8. K[t] = "loose" /\ \A g \in Handle \ {t} : K[g] = H[g]
  BY <1>1
<1>9. PICK s : s = [R.status EXCEPT ![t] = @ \cup {"WAITMSG"}]
  OBVIOUS
<1>10. R \in Lists /\ R.panic = FALSE
  BY <1>6 DEF WellFormed, ListsOK, Lists
<1>11. s \in [Handle -> SUBSET StatusBit] /\ N = [R EXCEPT !.status = s]
  <2>1. R.status \in [Handle -> SUBSET StatusBit]
    BY <1>10 DEF Lists
  <2>2. s \in [Handle -> SUBSET StatusBit]
    BY <1>9, <2>1 DEF StatusBit
  <2>3. N = [R EXCEPT !.status = s, !.panic = FALSE]
    BY <1>3, <1>9, <1>10, <1>r DEF Lists, Blocked
  <2>4. [R EXCEPT !.status = s, !.panic = FALSE] = [R EXCEPT !.status = s]
    BY <1>10 DEF Lists
  <2> QED
    BY <2>2, <2>3, <2>4
<1>12. s[t] = {"WAITMSG"} /\ \A g \in Handle \ {t} : s[g] = L.status[g]
  BY <1>1, <1>7, <1>9
<1>13. /\ \A g \in Handle : "TIMEOUT" \in s[g] <=> K[g] = "timeout"
       /\ \A g \in Handle : K[g] = "ready" => "READY" \in s[g]
  <2>1. /\ \A g \in Handle : "TIMEOUT" \in L.status[g] <=> H[g] = "timeout"
        /\ \A g \in Handle : H[g] = "ready" => "READY" \in L.status[g]
    BY <1>1 DEF WellFormed, LooseFormed, Members
  <2> QED
    BY <1>8, <1>12, <2>1
<1>14. WellFormed(N, K)
  BY <1>6, <1>11, <1>13, StatusKeeps
<1>15. N.status = s
  BY <1>10, <1>11 DEF Lists
<1>16. ASSUME NEW g \in Handle
       PROVE  /\ U.hWaitMbx[g] # 0 =>
                    K[g] \in {"loose", "timeout"} /\ g \in ins \cup {t} /\ ml[g] = NoMail
              /\ "WAITMSG" \in N.status[g] <=> U.hWaitMbx[g] # 0
              /\ ml[g] # NoMail => g \in ins \cup {t} /\ K[g] = "ready"
  <2>1. CASE g = t
    BY <2>1, <1>2, <1>5, <1>8, <1>12, <1>15
  <2>2. CASE g # t
    BY <2>2, <1>5, <1>8, <1>12, <1>15 DEF Seated
  <2> QED
    BY <2>1, <2>2
<1>17. K[IdleThread] = "ready"
  BY <1>1, <1>8
<1> QED
  BY <1>1, <1>14, <1>16, <1>17 DEF Seated

(* One that has blocked with a time limit goes on the timeout list.        *)
LEMMA LimitSeated ==
  ASSUME NEW L, NEW V, NEW ml, NEW ins, NEW H, Seated(L, V, ml, ins, H),
         NEW t \in Handle, H[t] = "loose", V.hWaitMbx[t] # 0, NEW to \in Int,
         NEW N, N = TCBInsertIntoTimeoutList(L, t, to),
         NEW K, K = [H EXCEPT ![t] = "timeout"]
  PROVE  Seated(N, V, ml, ins, K)
<1>1. /\ WellFormed(L, H) /\ L \in Lists /\ H \in [Handle -> Homes]
      /\ L.status \in [Handle -> SUBSET StatusBit]
      /\ IdleThread \in Handle /\ H[IdleThread] = "ready"
      /\ ml \in [Handle -> Bodies \cup {NoMail}] /\ ins \subseteq Handle
  BY SeatedTypes
<1>2. WellFormed(N, K)
  BY <1>1, InsertIntoTimeoutListKeeps
<1>3. N.status = [L.status EXCEPT ![t] = @ \cup {"TIMEOUT"}]
  BY <1>1, InsertIntoTimeoutListFields
<1>4. \A g \in Handle : "WAITMSG" \in N.status[g] <=> "WAITMSG" \in L.status[g]
  BY <1>1, <1>3
<1>5. K[t] = "timeout" /\ \A g \in Handle \ {t} : K[g] = H[g]
  BY <1>1
<1>6. ASSUME NEW g \in Handle
      PROVE  /\ V.hWaitMbx[g] # 0 => K[g] \in {"loose", "timeout"} /\ g \in ins /\ ml[g] = NoMail
             /\ "WAITMSG" \in N.status[g] <=> V.hWaitMbx[g] # 0
             /\ ml[g] # NoMail => g \in ins /\ K[g] = "ready"
  <2>1. CASE g = t
    BY <2>1, <1>4, <1>5 DEF Seated
  <2>2. CASE g # t
    BY <2>2, <1>4, <1>5 DEF Seated
  <2> QED
    BY <2>1, <2>2
<1>7. K[IdleThread] = "ready"
  BY <1>1, <1>5
<1> QED
  BY <1>1, <1>2, <1>6, <1>7 DEF Seated

(* A new thread becomes ready.                                             *)
LEMMA StartSeated ==
  ASSUME NEW L, NEW V, NEW ml, NEW ins, NEW H, Seated(L, V, ml, ins, H),
         NEW pri \in Priority, NEW t, t = L.freeTCB, t # 0,
         NEW N, N = Started(L, pri, t),
         NEW K, K = [H EXCEPT ![t] = "ready"]
  PROVE  Seated(N, V, ml, ins, K) /\ t \in Handle /\ H[t] = "free"
<1>1. /\ WellFormed(L, H) /\ L \in Lists /\ H \in [Handle -> Homes]
      /\ IdleThread \in Handle /\ H[IdleThread] = "ready"
      /\ ml \in [Handle -> Bodies \cup {NoMail}] /\ ins \subseteq Handle
  BY SeatedTypes
<1>a. WellFormed(L, H)
  BY <1>1
<1>2. WellFormed(N, K)
  BY <1>a, StartedKeeps
<1>3. t \in Handle /\ H[t] = "free"
  BY <1>a, TakeTCBFields
<1>4. \A h \in Handle : N.status[h] = IF h = t THEN {"READY"} ELSE L.status[h]
  BY <1>a, StartedKeeps
<1>5. K[t] = "ready" /\ \A g \in Handle \ {t} : K[g] = H[g]
  BY <1>1, <1>3
<1>6. ASSUME NEW g \in Handle
      PROVE  /\ V.hWaitMbx[g] # 0 => K[g] \in {"loose", "timeout"} /\ g \in ins /\ ml[g] = NoMail
             /\ "WAITMSG" \in N.status[g] <=> V.hWaitMbx[g] # 0
             /\ ml[g] # NoMail => g \in ins /\ K[g] = "ready"
  <2>1. CASE g = t
    BY <2>1, <1>3, <1>4, <1>5 DEF Seated
  <2>2. CASE g # t
    BY <2>2, <1>4, <1>5 DEF Seated
  <2> QED
    BY <2>1, <2>2
<1>7. K[IdleThread] = "ready"
  BY <1>1, <1>3, <1>5
<1> QED
  BY <1>1, <1>2, <1>3, <1>6, <1>7 DEF Seated

(* Another thread gets the core.                                           *)
LEMMA SwitchSeated ==
  ASSUME NEW V, NEW ml, NEW ins, NEW H, Seated(lists, V, ml, ins, H), tr \in Handle,
         affinity[IdleThread] = Core, RescheduleISR(lists)
  PROVE  Seated(lists', V, ml, ins, H) /\ tr' \in Handle /\ H[tr'] = "ready"
<1>1. /\ WellFormed(lists, H) /\ H[IdleThread] = "ready"
      /\ ml \in [Handle -> Bodies \cup {NoMail}] /\ ins \subseteq Handle
  BY SeatedTypes
<1>2. WellFormed(lists', H)
  BY <1>1, SwitchKeeps
<1>3. tr' \in Handle /\ H[tr'] = "ready"
  BY <1>1, SwitchKeeps
<1>4. \A h \in Handle : lists'.status[h]
        = IF h = tr' THEN (LeftWith(h) \cup {"RUNNING"}) \ {"PREEMPT"} ELSE LeftWith(h)
  BY <1>1, SwitchKeeps
<1>5. \A h \in Handle : "WAITMSG" \in lists'.status[h] <=> "WAITMSG" \in lists.status[h]
  BY <1>4, ZenonT(60) DEF LeftWith, Preempted
<1> QED
  BY <1>1, <1>2, <1>3, <1>5 DEF Seated

-----------------------------------------------------------------------------
(* Some or all of the threads at b are woken.                              *)
WokenAt(V, H, U, K, b) ==
  /\ \A c \in Mailboxes \ {b} : U.tq_head[c] = V.tq_head[c]
  /\ \A h \in Handle : V.hWaitMbx[h] # b => U.hWaitMbx[h] = V.hWaitMbx[h] /\ K[h] = H[h]

LEMMA OneWoken ==
  ASSUME NEW V, Waits(V), NEW b \in Mailboxes, NEW h, h = V.tq_head[b], h # 0,
         NEW U, U = MBXDequeueThread(V, b),
         NEW H \in [Handle -> Homes], NEW K, K = [H EXCEPT ![h] = "ready"]
  PROVE  WokenAt(V, H, U, K, b) /\ K \in [Handle -> Homes]
<1>1. h \in Handle /\ V.hWaitMbx[h] = b /\ V \in Waiting
  BY FirstWaits DEF Waits
<1>2. LeftFirst(V, U, b, h)
  BY DequeueThreadWaits
<1>3. V.tq_head \in [Mailboxes -> Handle0] /\ V.hWaitMbx \in [Handle -> Mailbox0]
  BY <1>1, WaitingFields
<1> QED
  BY <1>1, <1>2, <1>3 DEF LeftFirst, WokenAt, Homes

LEMMA MakeReadyTyped ==
  ASSUME NEW L \in Lists, NEW h \in Handle
  PROVE  MakeReady(L, h) \in Lists
<1>1. PICK R : R = IF "TIMEOUT" \in L.status[h] THEN TCBRemoveFromTimeoutList(L, h) ELSE L
  OBVIOUS
<1>2. PICK S : S = [R EXCEPT !.status[h] = @ \ {"WAITMSG"}]
  OBVIOUS
<1>3. MakeReady(L, h) = TCBInsertIntoReadyQueue(S, h)
  BY <1>1, <1>2 DEF MakeReady
<1>4. R \in Lists
  <2>1. PICK N : N = TCBRemoveFromTimeoutList(L, h)
    OBVIOUS
  <2>2. PICK n \in Handle0, l \in Handle0 : n = L.next[h] /\ l = L.prev[h]
    BY DEF Lists
  <2>3. PICK nx : nx = Put(Put(L.next, l, n), h, 0)
    OBVIOUS
  <2>4. PICK pv : pv = Put(Put(L.prev, n, l), h, 0)
    OBVIOUS
  <2>5. PICK w : w = WaitsWithout(L, h)
    OBVIOUS
  <2>6. N = [L EXCEPT !.prev = pv, !.next = nx, !.timeout = w,
                      !.TimeoutList = IF L.TimeoutList = h THEN n ELSE L.TimeoutList,
                      !.status = [L.status EXCEPT ![h] = {}]]
    BY <2>1, <2>2, <2>3, <2>4, <2>5 DEF TCBRemoveFromTimeoutList, Lists
  <2>7. nx \in [Handle -> Handle0] /\ pv \in [Handle -> Handle0]
    BY <2>3, <2>4, HandleFacts DEF Put, Lists
  <2>8. w \in [Handle -> Int]
    BY <2>5 DEF WaitsWithout, Lists
  <2>9. N \in Lists
    BY <2>6, <2>7, <2>8 DEF Lists
  <2> QED
    BY <1>1, <2>1, <2>9
<1>5. S \in Lists
  BY <1>2, <1>4 DEF Lists
<1>6. TCBInsertIntoReadyQueue(S, h) \in Lists
  <2>1. PICK B : B = [S EXCEPT !.status[h] = @ \cup {"READY"}]
    OBVIOUS
  <2>2. B \in Lists
    BY <2>1, <1>5 DEF Lists, StatusBit
  <2>3. Panic(B) \in Lists
    BY <2>2 DEF Panic, Lists
  <2>4. \A p \in Priority : [B EXCEPT !.next[h] = h, !.prev[h] = h, !.readyQ[p] = h] \in Lists
    BY <2>2, HandleFacts DEF Lists
  <2>5. \A nx, pv \in [Handle -> Handle0] : [B EXCEPT !.next = nx, !.prev = pv] \in Lists
    BY <2>2 DEF Lists
  <2>6. \A g, i, v, w \in Handle0 : /\ Put(Put(B.next, g, v), i, w) \in [Handle -> Handle0]
                                   /\ Put(Put(B.prev, g, v), i, w) \in [Handle -> Handle0]
    BY <2>2 DEF Lists, Put
  <2>7. S.priority[h] \in Priority /\ \A p \in Priority : S.readyQ[p] \in Handle0
    BY <1>5 DEF Lists
  <2>8. h \in Handle0 /\ \A g \in Handle0 : g # 0 => S.prev[g] \in Handle0
    BY <1>5, HandleFacts DEF Lists
  <2> QED
    BY <2>1, <2>3, <2>4, <2>5, <2>6, <2>7, <2>8 DEF TCBInsertIntoReadyQueue
<1> QED
  BY <1>3, <1>6

-----------------------------------------------------------------------------
(* The invariant.  What it takes of the constants is part of it.           *)
Careful == ~Reuse /\ LimitedAt \cap IsrPosts = {}

(* The running thread has not blocked, unless it is on its way out; in the *)
(* window it is on no list, and waits where no interrupt posts.            *)
Resting(H) ==
  /\ affinity \in [Handle -> Affinities \cup {Core, AnyCore}]
  /\ affinity[IdleThread] = Core
  /\ tr \in Handle
  /\ pc \in [Handle -> {"app", "yield", "stop", "window"}]
  /\ pc[tr] \in {"app", "stop"} => W.hWaitMbx[tr] = 0 /\ H[tr] \in {"ready", "loose"}
  /\ \A h \in Handle :
       pc[h] = "window" => h = tr /\ H[h] = "loose" /\ W.hWaitMbx[h] \in LimitedAt

(* The mailboxes from the head of the free list on have no owner, until    *)
(* one is freed.                                                           *)
NeverFreed(B) == \A c \in Mailboxes : B.owner[c] # 0 => c \in B.held
Ascending(B) ==
  \A c \in Mailboxes : /\ B.freeMBX # 0 /\ c >= B.freeMBX => B.owner[c] = 0
                       /\ B.link[c] \in {0, c + 1}

(* Threads and messages are never at one mailbox, and neither are at one   *)
(* that nobody owns.                                                       *)
OwnedAt(N, V, B, c) ==
  /\ V.tq_head[c] # 0 => N.head[c] = 0
  /\ c \in B.held => B.owner[c] # 0
  /\ B.owner[c] = 0 => V.tq_head[c] = 0 /\ N.head[c] = 0

Owned(N, V, B) ==
  /\ B \in Boxes
  /\ \A c \in Mailboxes : OwnedAt(N, V, B, c)
  /\ NeverFreed(B) => Ascending(B)

Stands(H) ==
  /\ Waits(W) /\ Filed(M) /\ Owned(M, W, box)
  /\ Seated(lists, W, mail, inside, H)
  /\ Resting(H)

IpcInv == Careful /\ \E H \in [Handle -> Homes] : Stands(H)

(* Nothing has changed but at mailbox b.                                   *)
LEMMA OwnedLocal ==
  ASSUME NEW N, NEW V, NEW B, Owned(N, V, B), NEW b \in Mailboxes, B.owner[b] # 0,
         NEW R, Others(N, R, b),
         NEW U, \A c \in Mailboxes \ {b} : U.tq_head[c] = V.tq_head[c],
         U.tq_head[b] = 0 \/ R.head[b] = 0
  PROVE  Owned(R, U, B)
<1>1. \A c \in Mailboxes : OwnedAt(R, U, B, c)
  BY DEF Owned, OwnedAt, Others
<1> QED BY <1>1 DEF Owned

LEMMA WithoutOwner ==
  ASSUME NEW N, NEW V, NEW B, Owned(N, V, B), NEW b \in Mailboxes
  PROVE  /\ V.tq_head[b] # 0 => N.head[b] = 0
         /\ b \in B.held => B.owner[b] # 0
         /\ B.owner[b] = 0 => V.tq_head[b] = 0 /\ N.head[b] = 0
BY DEF Owned, OwnedAt

(* A message is delivered, at a mailbox where the running thread does not  *)
(* wait.                                                                   *)
Delivered(H, K, b) ==
  /\ Waits(W') /\ Filed(M') /\ Owned(M', W', box')
  /\ Seated(lists', W', mail', inside', K)
  /\ WokenAt(W, H, W', K, b)

LEMMA DeliverKeeps ==
  ASSUME NEW H \in [Handle -> Homes], Stands(H), NEW b \in Mailboxes, NEW body \in Bodies,
         Deliver(b, body)
  PROVE  \E K \in [Handle -> Homes] : Delivered(H, K, b)
<1> PICK h : h = W.tq_head[b]
  OBVIOUS
<1>1. /\ Waits(W) /\ Filed(M) /\ Owned(M, W, box) /\ box' = box /\ inside' = inside
      /\ Seated(lists, W, mail, inside, H) /\ box.owner[b] # 0
  BY DEF Stands, Deliver
<1>2. CASE h = 0
  <2>1. /\ M.count[b] < MaxCount /\ M.freeMSG # 0
        /\ M' = MBXQueueMsg(AllocMsg(M, body), b, M.freeMSG)
        /\ lists' = lists /\ W' = W /\ mail' = mail
    BY <1>2 DEF Deliver
  <2>2. Filed(M') /\ Others(M, M', b)
    BY <1>1, <2>1, SentFiled
  <2>3. Owned(M', W, box)
    BY <1>1, <1>2, <2>2, OwnedLocal
  <2>4. WokenAt(W, H, W, H, b)
    BY DEF WokenAt
  <2> QED
    BY <1>1, <2>1, <2>2, <2>3, <2>4 DEF Delivered
<1>3. CASE h # 0
  <2> PICK K : K = [H EXCEPT ![h] = "ready"]
    OBVIOUS
  <2>1. /\ lists' = MakeReady(lists, h) /\ W' = MBXDequeueThread(W, b)
        /\ mail' = [mail EXCEPT ![h] = body] /\ M' = M
    BY <1>3 DEF Deliver
  <2>2. Waits(W')
    BY <1>1, <1>3, <2>1, DequeueThreadWaits
  <2>3. Seated(lists', W', mail', inside, K)
    BY <1>1, <1>3, <2>1, WakeSeated, ZenonT(60)
  <2>4. WokenAt(W, H, W', K, b) /\ K \in [Handle -> Homes]
    BY <1>1, <1>3, <2>1, OneWoken
  <2>5. M.head[b] = 0
    BY <1>1, <1>3, WithoutOwner
  <2>6. Others(M, M, b)
    BY DEF Others
  <2>7. \A c \in Mailboxes \ {b} : W'.tq_head[c] = W.tq_head[c]
    BY <2>4 DEF WokenAt
  <2>8. Owned(M, W', box)
    BY <1>1, <2>5, <2>6, <2>7, OwnedLocal
  <2> QED
    BY <1>1, <2>1, <2>2, <2>3, <2>4, <2>8 DEF Delivered
<1> QED
  BY <1>2, <1>3

LEMMA SendMsgKeeps ==
  ASSUME NEW H \in [Handle -> Homes], Stands(H), NEW b \in Mailboxes, NEW body \in Bodies,
         SendMsg(b, body)
  PROVE  \E K \in [Handle -> Homes] : Stands(K)'
<1> PICK K \in [Handle -> Homes] : Delivered(H, K, b)
  BY DeliverKeeps DEF SendMsg
<1>1. /\ affinity' = affinity /\ tr' = tr /\ pc[tr] = "app" /\ b # 0
      /\ pc' = [pc EXCEPT ![tr] = IF W.tq_head[b] = 0 THEN @ ELSE "yield"]
  BY MailboxFacts DEF SendMsg, Deliver, MayCall, Calls
<1>2. W.hWaitMbx[tr] = 0 /\ H[tr] \in {"ready", "loose"} /\ tr \in Handle
      /\ pc \in [Handle -> {"app", "yield", "stop", "window"}]
      /\ \A h \in Handle : pc[h] # "window"
  BY <1>1 DEF Stands, Resting
<1>3. W'.hWaitMbx[tr] = 0 /\ K[tr] \in {"ready", "loose"}
  BY <1>1, <1>2 DEF Delivered, WokenAt
<1>4. pc' \in [Handle -> {"app", "yield", "stop", "window"}]
      /\ \A h \in Handle : pc'[h] # "window"
  BY <1>1, <1>2
<1>5. Resting(K)'
  BY <1>1, <1>2, <1>3, <1>4 DEF Stands, Resting
<1> QED
  BY <1>5 DEF Stands, Delivered

(* The interrupt finds the running thread at any point, the window too.    *)
LEMMA PostMsgKeeps ==
  ASSUME Careful, NEW H \in [Handle -> Homes], Stands(H), NEW b \in Mailboxes,
         NEW body \in Bodies, PostMsg(b, body)
  PROVE  \E K \in [Handle -> Homes] : Stands(K)'
<1> PICK K \in [Handle -> Homes] : Delivered(H, K, b)
  BY DeliverKeeps DEF PostMsg
<1>1. /\ affinity' = affinity /\ tr' = tr /\ b # 0 /\ b \in IsrPosts
      /\ pc' = [pc EXCEPT ![tr] = IF @ = "stop" THEN "app" ELSE @]
  BY MailboxFacts DEF PostMsg, Deliver
<1>2. /\ pc \in [Handle -> {"app", "yield", "stop", "window"}] /\ tr \in Handle
      /\ pc[tr] \in {"app", "stop"} => W.hWaitMbx[tr] = 0 /\ H[tr] \in {"ready", "loose"}
      /\ \A h \in Handle :
           pc[h] = "window" => h = tr /\ H[h] = "loose" /\ W.hWaitMbx[h] \in LimitedAt
  BY DEF Stands, Resting
<1>3. /\ pc' \in [Handle -> {"app", "yield", "stop", "window"}]
      /\ pc'[tr] \in {"app", "stop"} => pc[tr] \in {"app", "stop"}
      /\ \A h \in Handle : pc'[h] = "window" => pc[h] = "window"
  BY <1>1, <1>2
<1>4. \A h \in Handle : W.hWaitMbx[h] # b => W'.hWaitMbx[h] = W.hWaitMbx[h] /\ K[h] = H[h]
  BY DEF Delivered, WokenAt
<1>5. b \notin LimitedAt
  BY <1>1 DEF Careful
<1>6. Resting(K)'
  BY <1>1, <1>2, <1>3, <1>4, <1>5 DEF Stands, Resting
<1> QED
  BY <1>6 DEF Stands, Delivered

(* What the steps that only change queues of messages leave as it is.      *)
LEMMA RestingStays ==
  ASSUME NEW H, Resting(H), UNCHANGED <<affinity, tr, pc>>, W'.hWaitMbx = W.hWaitMbx
  PROVE  Resting(H)'
BY DEF Resting

LEMMA ReceiveKeeps ==
  ASSUME NEW H \in [Handle -> Homes], Stands(H), NEW b \in Mailboxes, Receive(b)
  PROVE  Stands(H)'
<1>1. /\ Waits(W) /\ Filed(M) /\ Owned(M, W, box) /\ Seated(lists, W, mail, inside, H)
      /\ Resting(H)
      /\ M' = TakeMsg(M, b) /\ Dequeued(M, b) # 0 /\ b \in box.held
      /\ UNCHANGED <<lists, affinity, tr, pc, W, box, mail, inside>>
  BY DEF Stands, Receive, MayUse, vars
<1>2. Filed(M') /\ Others(M, M', b)
  BY <1>1, TakenFiled
<1>3. M.head[b] # 0
  BY <1>1, TakenFiled
<1>4. W.tq_head[b] = 0 /\ box.owner[b] # 0
  BY <1>1, <1>3, WithoutOwner
<1>5. Owned(M', W, box)
  BY <1>1, <1>2, <1>4, OwnedLocal
<1>6. Resting(H)'
  BY <1>1, RestingStays
<1> QED
  BY <1>1, <1>2, <1>5, <1>6 DEF Stands

LEMMA EmptyMbxKeeps ==
  ASSUME NEW H \in [Handle -> Homes], Stands(H), NEW b \in Mailboxes, EmptyMbx(b)
  PROVE  Stands(H)'
<1>1. /\ Waits(W) /\ Filed(M) /\ Owned(M, W, box) /\ Seated(lists, W, mail, inside, H)
      /\ Resting(H)
      /\ M' = EmptyQueue(M, b) /\ b \in box.held
      /\ UNCHANGED <<lists, affinity, tr, pc, W, box, mail, inside>>
  BY DEF Stands, EmptyMbx, MayUse, vars
<1>2. Filed(M') /\ Others(M, M', b) /\ M'.head[b] = 0
  BY <1>1, EmptiedFiled
<1>3. box.owner[b] # 0
  BY <1>1, WithoutOwner
<1>4. Owned(M', W, box)
  BY <1>1, <1>2, <1>3, OwnedLocal
<1>5. Resting(H)'
  BY <1>1, RestingStays
<1> QED
  BY <1>1, <1>2, <1>4, <1>5 DEF Stands

(* The running thread finds no message and waits.                          *)
LEMMA WaitMsgKeeps ==
  ASSUME NEW H \in [Handle -> Homes], Stands(H), NEW b \in Mailboxes,
         NEW limited \in BOOLEAN, WaitMsg(b, limited)
  PROVE  \E K \in [Handle -> Homes] : Stands(K)'
<1> PICK K : K = [H EXCEPT ![tr] = "loose"]
  OBVIOUS
<1>1. /\ Waits(W) /\ Filed(M) /\ Owned(M, W, box) /\ Seated(lists, W, mail, inside, H)
      /\ Resting(H)
  BY DEF Stands
<1>2. /\ tr # IdleThread /\ pc[tr] = "app" /\ tr \notin inside /\ b \in box.held
      /\ limited => b \in LimitedAt
      /\ Dequeued(M, b) = 0 /\ M' = MBXDequeueMsg(M, b)
      /\ lists' = Blocked(lists, W, tr)
      /\ W' = MBXQueueThread(W, b, tr)
      /\ pc' = [pc EXCEPT ![tr] = IF limited THEN "window" ELSE "yield"]
      /\ inside' = inside \cup {tr}
      /\ affinity' = affinity /\ tr' = tr /\ box' = box /\ mail' = mail
  BY DEF WaitMsg, MayCall, MayUse, Calls, Blocked
<1>3. /\ tr \in Handle /\ W.hWaitMbx[tr] = 0 /\ H[tr] \in {"ready", "loose"}
      /\ pc \in [Handle -> {"app", "yield", "stop", "window"}]
      /\ \A h \in Handle : pc[h] # "window"
  BY <1>1, <1>2 DEF Resting
<1>4. M' = TakeMsg(M, b)
  BY <1>2 DEF TakeMsg, FreeMsg, Msg
<1>5. Filed(M') /\ Others(M, M', b)
  BY <1>1, <1>4, TakenFiled
<1>6. M'.head[b] = 0
  BY <1>1, <1>2, <1>4, TakenFiled
<1>7. Waits(W') /\ JoinedLast(W, W', b, tr)
  BY <1>1, <1>2, <1>3, QueueThreadWaits
<1>8. Seated(lists', W', mail, inside', K)
  BY <1>1, <1>2, <1>3, BlockSeated
<1>9. W.tq_head \in [Mailboxes -> Handle0] /\ W.hWaitMbx \in [Handle -> Mailbox0]
  BY <1>1, WaitingFields DEF Waits
<1>10. /\ \A c \in Mailboxes \ {b} : W'.tq_head[c] = W.tq_head[c]
       /\ W'.hWaitMbx[tr] = b
  BY <1>3, <1>7, <1>9 DEF JoinedLast
<1>11. box.owner[b] # 0
  BY <1>1, <1>2, WithoutOwner
<1>12. Owned(M', W', box)
  BY <1>1, <1>5, <1>6, <1>10, <1>11, OwnedLocal
<1>13. /\ pc' \in [Handle -> {"app", "yield", "stop", "window"}]
       /\ pc'[tr] \in {"window", "yield"}
       /\ \A h \in Handle : pc'[h] = "window" => h = tr /\ limited
  BY <1>2, <1>3
<1>14. K \in [Handle -> Homes] /\ K[tr] = "loose"
  BY <1>3 DEF Homes
<1>15. Resting(K)'
  BY <1>1, <1>2, <1>3, <1>10, <1>13, <1>14 DEF Resting
<1>16. Stands(K)'
  BY <1>2, <1>5, <1>7, <1>8, <1>12, <1>15 DEF Stands
<1> QED
  BY <1>14, <1>16

(* It goes on to the timeout list.                                         *)
LEMMA LimitWaitKeeps ==
  ASSUME NEW H \in [Handle -> Homes], Stands(H), NEW timelimit \in Timeouts,
         LimitWait(timelimit)
  PROVE  \E K \in [Handle -> Homes] : Stands(K)'
<1> PICK K : K = [H EXCEPT ![tr] = "timeout"]
  OBVIOUS
<1>1. /\ Waits(W) /\ Filed(M) /\ Owned(M, W, box) /\ Seated(lists, W, mail, inside, H)
      /\ Resting(H)
  BY DEF Stands
<1>2. /\ pc[tr] = "window" /\ timelimit \in Int
      /\ lists' = TCBInsertIntoTimeoutList(lists, tr, timelimit)
      /\ pc' = [pc EXCEPT ![tr] = "yield"]
      /\ UNCHANGED <<affinity, tr, M, W, box, mail, inside>>
  BY TcbAssumption DEF LimitWait, ipcVars
<1>3. /\ tr \in Handle /\ H[tr] = "loose" /\ W.hWaitMbx[tr] # 0
      /\ pc \in [Handle -> {"app", "yield", "stop", "window"}]
      /\ \A h \in Handle : pc[h] = "window" => h = tr
  BY <1>1, <1>2, IpcAssumption, MailboxFacts DEF Resting
<1>4. Seated(lists', W, mail, inside, K)
  BY <1>1, <1>2, <1>3, LimitSeated
<1>5. /\ pc' \in [Handle -> {"app", "yield", "stop", "window"}]
      /\ pc'[tr] = "yield"
      /\ \A h \in Handle : pc'[h] # "window"
  BY <1>2, <1>3
<1>6. Resting(K)'
  BY <1>1, <1>2, <1>3, <1>5 DEF Resting
<1>7. K \in [Handle -> Homes]
  BY <1>3 DEF Homes
<1>8. Stands(K)'
  BY <1>1, <1>2, <1>4, <1>6 DEF Stands
<1> QED
  BY <1>7, <1>8

LEMMA ReturnKeeps ==
  ASSUME NEW H \in [Handle -> Homes], Stands(H), Return
  PROVE  Stands(H)'
<1>1. /\ Waits(W) /\ Filed(M) /\ Owned(M, W, box) /\ Seated(lists, W, mail, inside, H)
      /\ Resting(H)
      /\ pc[tr] = "app"
      /\ mail' = [mail EXCEPT ![tr] = NoMail] /\ inside' = inside \ {tr}
      /\ UNCHANGED <<lists, affinity, tr, pc, M, W, box>>
  BY DEF Stands, Return, Calls, vars
<1>2. tr \in Handle /\ W.hWaitMbx[tr] = 0
  BY <1>1 DEF Resting
<1>3. mail \in [Handle -> Bodies \cup {NoMail}]
  BY <1>1, SeatedTypes
<1>4. mail' \in [Handle -> Bodies \cup {NoMail}]
      /\ \A h \in Handle : mail'[h] = IF h = tr THEN NoMail ELSE mail[h]
  BY <1>1, <1>2, <1>3
<1>5. Seated(lists, W, mail', inside', H)
  BY <1>1, <1>2, <1>4 DEF Seated
<1>6. Resting(H)'
  BY <1>1, RestingStays
<1> QED
  BY <1>1, <1>5, <1>6 DEF Stands

-----------------------------------------------------------------------------
(* The mailbox to be allocated next has never been used.                   *)
LEMMA NextUnused ==
  ASSUME NEW N, NEW V, NEW B, Owned(N, V, B), NeverFreed(B),
         NEW b \in Mailboxes, b = B.freeMBX
  PROVE  V.tq_head[b] = 0 /\ N.head[b] = 0
<1>1. b \in Nat /\ b # 0
  BY MessagesAssumption
<1>2. Ascending(B)
  BY DEF Owned
<1>3. B.owner[b] = 0
  BY <1>1, <1>2 DEF Ascending
<1> QED
  BY <1>3, WithoutOwner

LEMMA QueueReset ==
  ASSUME NEW V, Waits(V), NEW b \in Mailboxes, V.tq_head[b] = 0
  PROVE  [V EXCEPT !.tq_head[b] = 0, !.tq_tail[b] = 0] = V
<1>1. PICK s \in Seq(Handle) : Lined(V, s, b)
  BY DEF Waits
<1>2. T!Queue(V.mbq_next, 0, s, V.hWaitMbx, b) /\ V.tq_tail[b] = T!LastOf(s)
  BY <1>1 DEF Lined, Line
<1>3. s = <<>>
  BY <1>2, T!QueueEnds, InstancesAssume
<1>4. V.tq_tail[b] = 0
  BY <1>2, <1>3 DEF T!LastOf
<1> QED
  BY <1>4 DEF Waits, Waiting

(* FMTK_AllocMbx: nothing is left at the mailbox from before.              *)
LEMMA AllocMbxKeeps ==
  ASSUME Careful, NEW H \in [Handle -> Homes], Stands(H), AllocMbx
  PROVE  Stands(H)'
<1> PICK b : b = box.freeMBX
  OBVIOUS
<1>1. /\ Waits(W) /\ Filed(M) /\ Owned(M, W, box) /\ Seated(lists, W, mail, inside, H)
      /\ Resting(H)
  BY DEF Stands
<1>2. /\ b \in Mailboxes /\ NeverFreed(box)
      /\ box' = [box EXCEPT !.freeMBX = box.link[b], !.owner[b] = SystemApp,
                            !.held = @ \cup {b}]
      /\ M' = Reset(M, b) /\ W' = [W EXCEPT !.tq_head[b] = 0, !.tq_tail[b] = 0]
      /\ UNCHANGED <<lists, affinity, tr, pc, mail, inside>>
  BY DEF AllocMbx, Careful, vars, NeverFreed, Reset
<1>3. b \in Nat /\ b # 0 /\ Mailboxes \subseteq Nat
  BY <1>2, MessagesAssumption
<1>4. box \in Boxes /\ Ascending(box)
  BY <1>1, <1>2 DEF Owned
<1>5. W.tq_head[b] = 0 /\ M.head[b] = 0
  BY <1>1, <1>2, NextUnused
<1>6. Filed(M') /\ M'.head = M.head
  BY <1>1, <1>2, <1>5, ResetFiled
<1>7. W' = W
  BY <1>1, <1>2, <1>5, QueueReset
<1>8. /\ box'.freeMBX = box.link[b] /\ box'.link = box.link
      /\ box'.owner = [box.owner EXCEPT ![b] = SystemApp]
      /\ box'.held = box.held \cup {b}
      /\ box' \in Boxes
  BY <1>2, <1>4 DEF Boxes
<1>9. \A c \in Mailboxes : OwnedAt(M', W, box', c)
  BY <1>1, <1>2, <1>4, <1>5, <1>6, <1>8 DEF Owned, OwnedAt, Boxes, SystemApp
<1>10. Ascending(box')
  <2> SUFFICES ASSUME NEW c \in Mailboxes
               PROVE  /\ box'.freeMBX # 0 /\ c >= box'.freeMBX => box'.owner[c] = 0
                      /\ box'.link[c] \in {0, c + 1}
    BY DEF Ascending
  <2>1. box.link[b] \in {0, b + 1} /\ box.link[c] \in {0, c + 1} /\ c \in Nat
    BY <1>2, <1>3, <1>4 DEF Ascending
  <2>2. c >= b => box.owner[c] = 0
    BY <1>3, <1>4 DEF Ascending
  <2>3. c # b => box'.owner[c] = box.owner[c]
    BY <1>4, <1>8 DEF Boxes
  <2> QED
    BY <1>3, <1>8, <2>1, <2>2, <2>3
<1>11. Owned(M', W, box')
  BY <1>8, <1>9, <1>10 DEF Owned
<1>12. Resting(H)'
  BY <1>1, <1>2, <1>7, RestingStays
<1> QED
  BY <1>1, <1>2, <1>6, <1>7, <1>11, <1>12 DEF Stands

(* A loose end of FMTK_FreeMbx: where its loop has got to.                 *)
Freeing(H, b, r) ==
  \E K \in [Handle -> Homes] :
    Seated(r.L, r.V, r.mail, inside, K) /\ Waits(r.V) /\ WokenAt(W, H, r.V, K, b)

LEMMA ReleaseFirstTyped ==
  ASSUME NEW b \in Mailboxes
  PROVE  ReleaseFirst(b) \in [Releasing -> Releasing]
<1> SUFFICES ASSUME NEW r \in Releasing
             PROVE  ReleaseFirst(b)[r] \in Releasing
  BY DEF ReleaseFirst
<1> PICK h : h = r.V.tq_head[b]
  OBVIOUS
<1>1. r.L \in Lists /\ r.V \in Waiting /\ r.mail \in [Handle -> Bodies \cup {NoMail}]
  BY DEF Releasing
<1>2. CASE h = 0
  BY <1>2 DEF ReleaseFirst
<1>3. CASE h # 0
  <2>1. h \in Handle
    BY <1>1, <1>3, HandleFacts DEF Waiting
  <2>2. PICK L \in Lists : L = MakeReady(r.L, h)
    BY <1>1, <2>1, MakeReadyTyped
  <2>3. PICK U : U = MBXDequeueThread(r.V, b)
    OBVIOUS
  <2>4. U \in Waiting
    BY <1>1, <2>1, <2>3, DequeueThreadFields DEF LeftFirst
  <2>5. PICK ml : ml = [r.mail EXCEPT ![h] = NoMail]
    OBVIOUS
  <2>6. ml \in [Handle -> Bodies \cup {NoMail}]
    BY <1>1, <2>5
  <2>7. ReleaseFirst(b)[r] = [L |-> L, V |-> U, mail |-> ml]
    BY <1>3, <2>2, <2>3, <2>5 DEF ReleaseFirst
  <2> QED
    BY <2>4, <2>6, <2>7 DEF Releasing
<1> QED
  BY <1>2, <1>3

LEMMA ReleaseFirstKeeps ==
  ASSUME NEW b \in Mailboxes, NEW H \in [Handle -> Homes],
         NEW r \in Releasing, Freeing(H, b, r)
  PROVE  Freeing(H, b, ReleaseFirst(b)[r])
<1> PICK h : h = r.V.tq_head[b]
  OBVIOUS
<1>1. PICK K \in [Handle -> Homes] :
        Seated(r.L, r.V, r.mail, inside, K) /\ Waits(r.V) /\ WokenAt(W, H, r.V, K, b)
  BY DEF Freeing
<1>2. CASE h = 0
  BY <1>2 DEF ReleaseFirst
<1>3. CASE h # 0
  <2>1. PICK L : L = MakeReady(r.L, h)
    OBVIOUS
  <2>2. PICK U : U = MBXDequeueThread(r.V, b)
    OBVIOUS
  <2>3. PICK ml : ml = [r.mail EXCEPT ![h] = NoMail]
    OBVIOUS
  <2>4. PICK I : I = [K EXCEPT ![h] = "ready"]
    OBVIOUS
  <2>5. ReleaseFirst(b)[r] = [L |-> L, V |-> U, mail |-> ml]
    BY <1>3, <2>1, <2>2, <2>3 DEF ReleaseFirst
  <2>6. Seated(L, U, ml, inside, I)
    <3>1. PICK body : body = NoMail
      OBVIOUS
    <3>2. PICK L0, V0, m0 : L0 = r.L /\ V0 = r.V /\ m0 = r.mail
      OBVIOUS
    <3>3. Seated(L0, V0, m0, inside, K)
      BY <1>1, <3>2
    <3>4. Waits(V0)
      BY <1>1, <3>2
    <3>5. h = V0.tq_head[b] /\ L = MakeReady(L0, h) /\ U = MBXDequeueThread(V0, b)
      BY <2>1, <2>2, <3>2
    <3>6. body \in Bodies \cup {NoMail} /\ ml = [m0 EXCEPT ![h] = body]
      BY <2>3, <3>1, <3>2
    <3> QED
      BY <1>3, <2>4, <3>3, <3>4, <3>5, <3>6, WakeSeated
  <2>7. Waits(U)
    BY <1>1, <1>3, <2>2, DequeueThreadWaits
  <2>8. WokenAt(r.V, K, U, I, b) /\ I \in [Handle -> Homes]
    BY <1>1, <1>3, <2>2, <2>4, OneWoken
  <2>9. WokenAt(W, H, U, I, b)
    BY <1>1, <2>8 DEF WokenAt
  <2> QED
    BY <2>5, <2>6, <2>7, <2>8, <2>9 DEF Freeing
<1> QED
  BY <1>2, <1>3

(* After n rounds of FMTK_FreeMbx n threads or all have left b.            *)
Dismissed(H, b, r, n) ==
  /\ r \in Releasing /\ Freeing(H, b, r)
  /\ r.mail = mail
  /\ \A c \in Mailboxes \ {b} : Callers(r.V)[c] = Callers(W)[c]
  /\ Callers(r.V)[b] = <<>> \/ Len(Callers(r.V)[b]) + n <= NR_TCB

LEMMA ReleaseFirstDismisses ==
  ASSUME NEW b \in Mailboxes, NEW H \in [Handle -> Homes], NEW n \in Nat,
         NEW r, Dismissed(H, b, r, n)
  PROVE  Dismissed(H, b, ReleaseFirst(b)[r], n + 1)
<1>1. PICK V : V = r.V
  OBVIOUS
<1>2. PICK h : h = V.tq_head[b]
  OBVIOUS
<1>3. PICK t : t = ReleaseFirst(b)[r]
  OBVIOUS
<1>4. /\ r \in Releasing /\ Freeing(H, b, r) /\ r.mail = mail
      /\ \A c \in Mailboxes \ {b} : Callers(V)[c] = Callers(W)[c]
      /\ Callers(V)[b] = <<>> \/ Len(Callers(V)[b]) + n <= NR_TCB
  BY <1>1 DEF Dismissed
<1>5. PICK K \in [Handle -> Homes] : Seated(r.L, V, r.mail, inside, K) /\ Waits(V)
  BY <1>1, <1>4 DEF Freeing
<1>6. t \in Releasing /\ Freeing(H, b, t)
  BY <1>3, <1>4, ReleaseFirstTyped, ReleaseFirstKeeps
<1>7. CASE h = 0
  <2>1. t = r
    <3>1. r \in Releasing
      BY <1>4
    <3> QED
      BY <1>1, <1>2, <1>3, <1>7, <3>1 DEF ReleaseFirst
  <2>2. Waits(V) /\ V.tq_head[b] = 0
    BY <1>2, <1>5, <1>7
  <2>3. Callers(V)[b] = <<>>
    BY <2>2, CallersSay
  <2> QED
    BY <1>1, <1>3, <1>4, <2>1, <2>3 DEF Dismissed
<1>8. CASE h # 0
  <2>1. PICK U : U = MBXDequeueThread(V, b)
    OBVIOUS
  <2>2. t.V = U /\ t.mail = [mail EXCEPT ![h] = NoMail]
    <3>1. PICK L, ml : L = MakeReady(r.L, h) /\ ml = [mail EXCEPT ![h] = NoMail]
      OBVIOUS
    <3>2. t = [L |-> L, V |-> U, mail |-> ml]
      BY <1>1, <1>2, <1>3, <1>4, <1>8, <2>1, <3>1 DEF ReleaseFirst
    <3> QED
      BY <3>1, <3>2
  <2>3. Callers(U) = [Callers(V) EXCEPT ![b] = Tail(@)]
    BY <1>2, <1>5, <1>8, <2>1, DequeueCallers
  <2>4. t.mail = mail
    <3>1. h \in Handle /\ V.hWaitMbx[h] # 0
      BY <1>2, <1>5, <1>8, FirstWaits, MailboxFacts
    <3>2. mail[h] = NoMail /\ mail \in [Handle -> Bodies \cup {NoMail}]
      BY <1>4, <1>5, <3>1 DEF Seated
    <3> QED
      BY <2>2, <3>1, <3>2
  <2>5. PICK s : s = Callers(V)[b]
    OBVIOUS
  <2>6. s \in Seq(Handle) /\ s # <<>> /\ Len(s) + n <= NR_TCB
    BY <1>2, <1>4, <1>5, <1>8, <2>5, CallersLined, CallersSay
  <2>7. Len(Tail(s)) + (n + 1) <= NR_TCB
    <3>1. Len(s) \in Nat /\ Len(Tail(s)) = Len(s) - 1 /\ NR_TCB \in Nat
      BY <2>6, HeadTailProperties, LenProperties, TcbAssumption
    <3> QED
      BY <2>6, <3>1
  <2>8. /\ Callers(U)[b] = Tail(s)
        /\ \A c \in Mailboxes \ {b} : Callers(U)[c] = Callers(V)[c]
    BY <2>3, <2>5 DEF Callers
  <2> QED
    BY <1>3, <1>4, <1>6, <2>2, <2>4, <2>7, <2>8 DEF Dismissed
<1> QED
  BY <1>7, <1>8

LEMMA ReleasingRounds ==
  ASSUME NEW b \in Mailboxes, NEW s \in Releasing, NEW I, I = Iterate(ReleaseFirst(b), s)
  PROVE  I[0] = s /\ \A n \in Nat : I[n+1] = ReleaseFirst(b)[I[n]]
<1> DEFINE f == ReleaseFirst(b)
<1>1. f \in [Releasing -> Releasing]
  BY ReleaseFirstTyped
<1> HIDE DEF f
<1>2. /\ Iterate(f, s) \in [Nat -> Releasing]
      /\ Iterate(f, s)[0] = s
      /\ \A n \in Nat : Iterate(f, s)[n+1] = f[Iterate(f, s)[n]]
  BY <1>1, IterateDef
<1> QED
  BY <1>2 DEF f

LEMMA ReleasedDismisses ==
  ASSUME NEW b \in Mailboxes, NEW H \in [Handle -> Homes], Stands(H)
  PROVE  Dismissed(H, b, Released(b), NR_TCB)
<1> DEFINE f == ReleaseFirst(b)
           s == [L |-> lists, V |-> W, mail |-> mail]
           I == Iterate(f, s)
           D == {n \in Nat : Dismissed(H, b, I[n], n)}
<1>1. Waits(W) /\ Seated(lists, W, mail, inside, H)
  BY DEF Stands
<1>2. s \in Releasing
  BY <1>1, SeatedTypes DEF Releasing, Waits
<1>3. Dismissed(H, b, s, 0)
  <2>1. Freeing(H, b, s)
    <3>1. WokenAt(W, H, W, H, b)
      BY DEF WokenAt
    <3> QED
      BY <1>1, <3>1 DEF Freeing
  <2>2. Len(Callers(W)[b]) + 0 <= NR_TCB
    <3>1. PICK q : q = Callers(W)[b]
      OBVIOUS
    <3>2. T!Queue(W.mbq_next, W.tq_head[b], q, W.hWaitMbx, b)
      BY <1>1, <3>1, CallersLined DEF Lined, Line
    <3>3. Len(q) \in 0 .. NR_TCB
      BY <3>2, T!QueueShort, InstancesAssume
    <3> QED
      BY <3>1, <3>3, TcbAssumption
  <2> QED
    BY <1>2, <2>1, <2>2 DEF Dismissed
<1>4. I[0] = s /\ \A n \in Nat : I[n+1] = f[I[n]]
  BY <1>2, ReleasingRounds
<1> HIDE DEF I, f, s
<1>5. 0 \in D
  BY <1>3, <1>4
<1>6. ASSUME NEW n \in Nat, n \in D
      PROVE  n + 1 \in D
  <2>1. Dismissed(H, b, I[n], n)
    BY <1>6
  <2>2. Dismissed(H, b, f[I[n]], n + 1)
    BY <2>1, ReleaseFirstDismisses DEF f
  <2> QED
    BY <1>4, <2>2
<1> HIDE DEF D
<1>7. Nat \subseteq D
  BY <1>5, <1>6, NatSubsetInduction
<1>8. Dismissed(H, b, I[NR_TCB], NR_TCB)
  BY <1>7, TcbAssumption DEF D
<1> QED
  BY <1>8 DEF Released, I, f, s

(* FMTK_FreeMbx: the messages at the mailbox are freed and its threads     *)
(* woken.  As it keeps its owner, no mailbox is allocated from here on.    *)
LEMMA FreeMbxKeeps ==
  ASSUME NEW H \in [Handle -> Homes], Stands(H), NEW b \in Mailboxes, FreeMbx(b)
  PROVE  \E K \in [Handle -> Homes] : Stands(K)'
<1>1. /\ Waits(W) /\ Filed(M) /\ Owned(M, W, box) /\ Seated(lists, W, mail, inside, H)
      /\ Resting(H)
  BY DEF Stands
<1>2. /\ pc[tr] = "app" /\ b \in box.held
      /\ M' = EmptyQueue(M, b)
      /\ lists' = Released(b).L /\ W' = Released(b).V /\ mail' = Released(b).mail
      /\ box' = [box EXCEPT !.link[b] = box.freeMBX, !.freeMBX = b - 1,
                            !.held = @ \ {b}]
      /\ UNCHANGED <<affinity, tr, pc, inside>>
  BY DEF FreeMbx, MayCall, Calls
<1>3. Freeing(H, b, Released(b))
  BY ReleasedDismisses DEF Dismissed
<1>4. PICK K \in [Handle -> Homes] :
        Seated(lists', W', mail', inside, K) /\ Waits(W') /\ WokenAt(W, H, W', K, b)
  BY <1>2, <1>3 DEF Freeing
<1>5. Filed(M') /\ Others(M, M', b) /\ M'.head[b] = 0
  BY <1>1, <1>2, EmptiedFiled
<1>6. box.owner[b] # 0
  BY <1>1, <1>2, WithoutOwner
<1>7. \A c \in Mailboxes \ {b} : W'.tq_head[c] = W.tq_head[c]
  BY <1>4 DEF WokenAt
<1>8. Owned(M', W', box)
  BY <1>1, <1>5, <1>6, <1>7, OwnedLocal
<1>9. box \in Boxes /\ b - 1 \in Nat
  BY <1>1, MessagesAssumption DEF Owned
<1>10. /\ box'.owner = box.owner /\ box'.held = box.held \ {b}
       /\ box' \in Boxes
  BY <1>2, <1>9 DEF Boxes
<1>11. \A c \in Mailboxes : OwnedAt(M', W', box', c)
  BY <1>8, <1>10 DEF Owned, OwnedAt
<1>12. ~NeverFreed(box')
  BY <1>6, <1>10 DEF NeverFreed
<1>13. Owned(M', W', box')
  BY <1>10, <1>11, <1>12 DEF Owned
<1>14. /\ W.hWaitMbx[tr] = 0 /\ H[tr] \in {"ready", "loose"} /\ tr \in Handle /\ b # 0
       /\ \A h \in Handle : pc[h] # "window"
  BY <1>1, <1>2, MailboxFacts DEF Resting
<1>15. W'.hWaitMbx[tr] = 0 /\ K[tr] \in {"ready", "loose"}
  BY <1>4, <1>14 DEF WokenAt
<1>16. Resting(K)'
  BY <1>1, <1>2, <1>14, <1>15 DEF Resting
<1>17. Stands(K)'
  BY <1>2, <1>4, <1>5, <1>13, <1>16 DEF Stands
<1> QED
  BY <1>17

-----------------------------------------------------------------------------
(* The scheduler's steps.                                                  *)

LEMMA StartKeeps ==
  ASSUME NEW H \in [Handle -> Homes], Stands(H), NEW pri \in Priority,
         MayCall, StartThread(pri, AnyCore), UNCHANGED ipcVars
  PROVE  \E K \in [Handle -> Homes] : Stands(K)'
<1> PICK t : t = lists.freeTCB
  OBVIOUS
<1> PICK K : K = [H EXCEPT ![t] = "ready"]
  OBVIOUS
<1>1. /\ Waits(W) /\ Filed(M) /\ Owned(M, W, box) /\ Seated(lists, W, mail, inside, H)
      /\ Resting(H)
  BY DEF Stands
<1>2. /\ t # 0 /\ pc[tr] = "app"
      /\ lists' = Started(lists, pri, t)
      /\ affinity' = [affinity EXCEPT ![t] = AnyCore]
      /\ pc' = [pc EXCEPT ![t] = "app"]
      /\ UNCHANGED <<tr, M, W, box, mail, inside>>
  BY DEF StartThread, Calls, Started, ipcVars
<1>3. Seated(lists', W, mail, inside, K)
  BY <1>1, <1>2, StartSeated
<1>4. t \in Handle /\ H[t] = "free"
  <2>1. PICK N : N = Started(lists, pri, t)
    OBVIOUS
  <2> QED
    BY <1>1, <1>2, <2>1, StartSeated
<1>5. /\ tr \in Handle /\ W.hWaitMbx[tr] = 0 /\ H[tr] \in {"ready", "loose"}
      /\ pc \in [Handle -> {"app", "yield", "stop", "window"}]
      /\ \A h \in Handle : pc[h] # "window"
      /\ affinity \in [Handle -> Affinities \cup {Core, AnyCore}]
      /\ affinity[IdleThread] = Core
  BY <1>1, <1>2 DEF Resting
<1>6. t # tr /\ t # IdleThread
  BY <1>1, <1>4, <1>5, SeatedTypes
<1>7. K \in [Handle -> Homes] /\ K[tr] = H[tr]
  BY <1>4, <1>6 DEF Homes
<1>8. /\ affinity' \in [Handle -> Affinities \cup {Core, AnyCore}]
      /\ affinity'[IdleThread] = Core
  BY <1>2, <1>4, <1>5, <1>6
<1>9. /\ pc' \in [Handle -> {"app", "yield", "stop", "window"}]
      /\ \A h \in Handle : pc'[h] # "window"
  BY <1>2, <1>4, <1>5
<1>10. Resting(K)'
  BY <1>2, <1>5, <1>7, <1>8, <1>9 DEF Resting
<1>11. Stands(K)'
  BY <1>1, <1>2, <1>3, <1>10 DEF Stands
<1> QED
  BY <1>7, <1>11

(* The core is given up by a thread that is not in the window.             *)
LEMMA GiveUpKeeps ==
  ASSUME NEW H \in [Handle -> Homes], Stands(H), Reschedule,
         pc[tr] = "yield" \/ tr = IdleThread, UNCHANGED ipcVars
  PROVE  Stands(H)'
<1>1. /\ Waits(W) /\ Filed(M) /\ Owned(M, W, box) /\ Seated(lists, W, mail, inside, H)
      /\ Resting(H) /\ UNCHANGED <<M, W, box, mail, inside>>
  BY DEF Stands, ipcVars
<1>2. /\ tr \in Handle /\ affinity[IdleThread] = Core
      /\ pc \in [Handle -> {"app", "yield", "stop", "window"}]
      /\ \A h \in Handle : pc[h] = "window" => h = tr /\ H[h] = "loose"
  BY <1>1 DEF Resting
<1>3. RescheduleISR(lists) /\ affinity' = affinity
  BY DEF Reschedule
<1>4. Seated(lists', W, mail, inside, H) /\ tr' \in Handle /\ H[tr'] = "ready"
  BY <1>1, <1>2, <1>3, SwitchSeated
<1>5. H[IdleThread] = "ready"
  BY <1>1, SeatedTypes
<1>6. \A h \in Handle : pc[h] # "window"
  BY <1>2, <1>5
<1>7. /\ pc' \in [Handle -> {"app", "yield", "stop", "window"}]
      /\ \A h \in Handle : pc'[h] # "window"
  BY <1>2, <1>4, <1>6, SwitchedAt
<1>8. W.hWaitMbx[tr'] = 0
  BY <1>4 DEF Seated
<1>9. Resting(H)'
  BY <1>1, <1>3, <1>4, <1>7, <1>8 DEF Resting
<1> QED
  BY <1>1, <1>4, <1>9 DEF Stands

LEMMA TickKeeps ==
  ASSUME NEW H \in [Handle -> Homes], Stands(H), TimerTickISR, UNCHANGED ipcVars
  PROVE  Stands(H)'
<1>1. /\ Waits(W) /\ Filed(M) /\ Owned(M, W, box) /\ Seated(lists, W, mail, inside, H)
      /\ Resting(H) /\ UNCHANGED <<M, W, box, mail, inside, lists, affinity, tr>>
      /\ pc' = [pc EXCEPT ![tr] = IF @ = "stop" THEN "app" ELSE @]
  BY DEF Stands, ipcVars, TimerTickISR
<1>2. /\ pc \in [Handle -> {"app", "yield", "stop", "window"}] /\ tr \in Handle
  BY <1>1 DEF Resting
<1>3. /\ pc' \in [Handle -> {"app", "yield", "stop", "window"}]
      /\ pc'[tr] \in {"app", "stop"} => pc[tr] \in {"app", "stop"}
      /\ \A h \in Handle : pc'[h] = "window" => pc[h] = "window"
  BY <1>1, <1>2
<1>4. Resting(H)'
  BY <1>1, <1>3 DEF Resting
<1> QED
  BY <1>1, <1>4 DEF Stands

LEMMA StutterKeeps ==
  ASSUME NEW H, Stands(H), UNCHANGED allVars
  PROVE  Stands(H)'
BY DEF Stands, Resting, allVars, vars, ipcVars

-----------------------------------------------------------------------------
(* FMTK_Initialize leaves nobody waiting and nothing queued.               *)
LEMMA InitWaits ==
  ASSUME IpcInit
  PROVE  /\ Waits(W)
         /\ \A b \in Mailboxes : W.tq_head[b] = 0
         /\ \A h \in Handle : W.hWaitMbx[h] = 0
<1>1. /\ W \in Waiting
      /\ \A b \in Mailboxes : W.tq_head[b] = 0 /\ W.tq_tail[b] = 0
      /\ \A h \in Handle : W.hWaitMbx[h] = 0 /\ W.mbq_next[h] = 0 /\ W.mbq_prev[h] = 0
  BY HandleFacts, MailboxFacts DEF IpcInit, Waiting
<1>2. Waits(W)
  <2> SUFFICES ASSUME NEW b \in Mailboxes
               PROVE  \E s \in Seq(Handle) : Lined(W, s, b)
    BY <1>1 DEF Waits
  <2>1. b # 0
    BY MailboxFacts
  <2>2. T!Chain(W.mbq_next, 0, <<>>)
    BY EmptySeq DEF T!Chain
  <2>3. T!Holds(<<>>, W.hWaitMbx, b)
    BY <1>1, <2>1, HandleIsMsg DEF T!Holds
  <2>4. Line(W.mbq_next, 0, 0, <<>>, W.hWaitMbx, b)
    BY <2>2, <2>3 DEF Line, T!Queue, T!LastOf
  <2>5. Lined(W, <<>>, b)
    BY <1>1, <2>4 DEF Lined
  <2> QED
    BY <2>5, EmptySeq
<1> QED
  BY <1>1, <1>2

LEMMA InitStands == Careful /\ IpcInit => IpcInv
<1> SUFFICES ASSUME Careful, IpcInit
             PROVE  IpcInv
  OBVIOUS
<1> PICK H : H = BootHomes
  OBVIOUS
<1>1. Booted(lists)
  BY BootKeeps DEF IpcInit, Init
<1>2. /\ H \in [Handle -> Homes] /\ H[1] = "loose" /\ H[2] = "ready"
      /\ 1 \in Handle /\ 2 \in Handle
  BY HandleFacts DEF BootHomes, Homes
<1>3. /\ WellFormed(lists, H)
      /\ \A h \in Handle : "WAITMSG" \notin lists.status[h]
  BY <1>1 DEF Booted
<1>4. /\ Waits(W)
      /\ \A b \in Mailboxes : W.tq_head[b] = 0
      /\ \A h \in Handle : W.hWaitMbx[h] = 0
  BY InitWaits
<1>5. Filed(M) /\ \A b \in Mailboxes : M.head[b] = 0
  BY FreshFiled DEF IpcInit
<1>6. Seated(lists, W, mail, inside, H)
  BY <1>2, <1>3, <1>4 DEF Seated, IpcInit, IdleThread
<1>7. Owned(M, W, box)
  <2>1. /\ box = [owner   |-> [b \in Mailboxes |-> IF b \in BootMailboxes THEN SystemApp ELSE 0],
                  link    |-> [b \in Mailboxes |-> IF b + 1 \in Mailboxes THEN b + 1 ELSE 0],
                  freeMBX |-> IF 3 \in Mailboxes THEN 3 ELSE 0,
                  held    |-> BootMailboxes]
        /\ BootMailboxes \subseteq Mailboxes
    BY DEF IpcInit, BootMailboxes
  <2>2. Mailboxes \subseteq Nat
    BY MessagesAssumption
  <2>3. box \in Boxes
    BY <2>1, <2>2 DEF Boxes, SystemApp
  <2>4. \A c \in Mailboxes : OwnedAt(M, W, box, c)
    BY <1>4, <1>5, <2>1 DEF OwnedAt, SystemApp
  <2>5. Ascending(box)
    BY <2>1, <2>2 DEF Ascending, BootMailboxes
  <2> QED
    BY <2>3, <2>4, <2>5 DEF Owned
<1>8. Resting(H)
  BY <1>2, <1>4 DEF IpcInit, Init, Resting, FirstThread, IdleThread
<1>9. Stands(H)
  BY <1>4, <1>5, <1>6, <1>7, <1>8 DEF Stands
<1> QED
  BY <1>2, <1>9 DEF IpcInv

LEMMA IpcStep == IpcInv /\ [IpcNext]_allVars => IpcInv'
<1> SUFFICES ASSUME IpcInv, [IpcNext]_allVars
             PROVE  \E K \in [Handle -> Homes] : Stands(K)'
  BY DEF IpcInv, Careful
<1>0. Careful
  BY DEF IpcInv
<1> PICK H \in [Handle -> Homes] : Stands(H)
  BY DEF IpcInv
<1>1. CASE Schedule
  <2>1. UNCHANGED ipcVars
    BY <1>1 DEF Schedule
  <2>2. CASE \E pri \in Priority : MayCall /\ StartThread(pri, AnyCore)
    BY <2>1, <2>2, StartKeeps
  <2>3. CASE pc[tr] = "yield" /\ Reschedule
    BY <2>1, <2>3, GiveUpKeeps
  <2>4. CASE tr = IdleThread /\ Reschedule
    BY <2>1, <2>4, GiveUpKeeps
  <2>5. CASE TimerTickISR
    BY <2>1, <2>5, TickKeeps
  <2> QED
    BY <1>1, <2>2, <2>3, <2>4, <2>5 DEF Schedule
<1>2. CASE AllocMbx
  BY <1>0, <1>2, AllocMbxKeeps
<1>3. ASSUME NEW b \in Mailboxes, FreeMbx(b)
      PROVE  \E K \in [Handle -> Homes] : Stands(K)'
  BY <1>3, FreeMbxKeeps
<1>4. ASSUME NEW b \in Mailboxes, EmptyMbx(b)
      PROVE  \E K \in [Handle -> Homes] : Stands(K)'
  BY <1>4, EmptyMbxKeeps
<1>5. ASSUME NEW b \in Mailboxes, Receive(b)
      PROVE  \E K \in [Handle -> Homes] : Stands(K)'
  BY <1>5, ReceiveKeeps
<1>6. ASSUME NEW b \in Mailboxes, NEW body \in Bodies, SendMsg(b, body)
      PROVE  \E K \in [Handle -> Homes] : Stands(K)'
  BY <1>6, SendMsgKeeps
<1>7. ASSUME NEW b \in Mailboxes, NEW body \in Bodies, PostMsg(b, body)
      PROVE  \E K \in [Handle -> Homes] : Stands(K)'
  BY <1>0, <1>7, PostMsgKeeps
<1>8. ASSUME NEW b \in Mailboxes, NEW limited \in BOOLEAN, WaitMsg(b, limited)
      PROVE  \E K \in [Handle -> Homes] : Stands(K)'
  BY <1>8, WaitMsgKeeps
<1>9. ASSUME NEW timelimit \in Timeouts, LimitWait(timelimit)
      PROVE  \E K \in [Handle -> Homes] : Stands(K)'
  BY <1>9, LimitWaitKeeps
<1>10. CASE Return
  BY <1>10, ReturnKeeps
<1>11. CASE UNCHANGED allVars
  BY <1>11, StutterKeeps
<1> QED
  BY <1>1, <1>2, <1>3, <1>4, <1>5, <1>6, <1>7, <1>8, <1>9, <1>10, <1>11 DEF IpcNext

(***************************************************************************)
(* As long as no mailbox is allocated after one was freed and nobody waits *)
(* with a time limit where an interrupt posts, the threads, the messages,  *)
(* the mailboxes and the lists of tcb.c fit together: there is one way to  *)
(* assign the TCBs to the lists that all of them agree with.               *)
(***************************************************************************)
THEOREM IpcKeepsInv == Careful /\ IpcSpec => []IpcInv
BY InitStands, IpcStep, PTL DEF IpcSpec

(* Every variable keeps its type.                                          *)
COROLLARY IpcTyped == Careful /\ IpcSpec => []IpcTypeOK
<1>1. IpcInv => IpcTypeOK
  <2> SUFFICES ASSUME NEW H \in [Handle -> Homes], Stands(H)
               PROVE  IpcTypeOK
    BY DEF IpcInv
  <2>1. /\ lists \in Lists /\ mail \in [Handle -> Bodies \cup {NoMail}]
        /\ inside \subseteq Handle
    BY SeatedTypes DEF Stands
  <2> QED
    BY <2>1 DEF Stands, Waits, Filed, Owned, Resting, IpcTypeOK
<1> QED
  BY <1>1, IpcKeepsInv, PTL

(* The kernel's check in MBXQueueThread for a thread that is still linked  *)
(* at a mailbox never stops it, nor does any of tcb.c.                     *)
COROLLARY IpcNeverPanics == Careful /\ IpcSpec => []NoPanic
<1>1. IpcInv => NoPanic
  BY SeatedTypes DEF IpcInv, Stands, NoPanic
<1> QED
  BY <1>1, IpcKeepsInv, PTL

(* A thread never waits at a mailbox that has a message for it: however    *)
(* sends, posts, waits and frees interleave, no wake-up is lost.           *)
THEOREM WakeupsNeverLost == Careful /\ IpcSpec => []NoLostWakeup
<1>1. IpcInv => NoLostWakeup
  BY WithoutOwner DEF IpcInv, Stands, NoLostWakeup
<1> QED
  BY <1>1, IpcKeepsInv, PTL

(* A thread that waits is blocked, and one that was handed a message is    *)
(* ready, waits nowhere and keeps that message until it takes it.          *)
THEOREM HandedOverAlways == Careful /\ IpcSpec => []HandedOver
<1>1. IpcInv => HandedOver
  <2> SUFFICES ASSUME NEW H \in [Handle -> Homes], Stands(H), NEW h \in Handle
               PROVE  /\ W.hWaitMbx[h] # 0 => ~IsReady(h) /\ h \in inside /\ mail[h] = NoMail
                      /\ mail[h] # NoMail => h \in inside /\ IsReady(h)
    BY DEF IpcInv, HandedOver
  <2>1. Seated(lists, W, mail, inside, H)
    BY DEF Stands
  <2>2. WellFormed(lists, H)
    BY <2>1, SeatedTypes
  <2>3. IsReady(h) <=> H[h] = "ready"
    BY <2>2, ReadyIsHome
  <2> QED
    BY <2>1, <2>3 DEF Seated
<1> QED
  BY <1>1, IpcKeepsInv, PTL

(* A thread that has blocked does not run its own code before it is woken. *)
THEOREM ResumedOnlyAwake == Careful /\ IpcSpec => []ResumedAwake
<1>1. IpcInv => ResumedAwake
  BY DEF IpcInv, Stands, Resting, ResumedAwake
<1> QED
  BY <1>1, IpcKeepsInv, PTL

(* Walking the links from the head of a mailbox meets the threads of its   *)
(* queue, in their order.                                                  *)
LEMMA WaitersSay ==
  ASSUME Waits(W), NEW b \in Mailboxes
  PROVE  Waiters(b) \in Seq(Handle) /\ Lined(W, Waiters(b), b)
<1>1. PICK s \in Seq(Handle) : Lined(W, s, b)
  BY DEF Waits
<1>2. PICK link, h : link = W.mbq_next /\ h = W.tq_head[b]
  OBVIOUS
<1>3. T!Queue(link, h, s, W.hWaitMbx, b)
  BY <1>1, <1>2 DEF Lined, Line
<1>4. link \in [T!Msg -> T!Msg0]
  BY <1>2, WaitingFields, HandleIsMsg DEF Waits
<1>5. Waiters(b) = Iterate(T!Grow(link, h), <<>>)[NR_TCB]
  BY <1>2, HandleIsMsg DEF Waiters, T!Grow, Last, T!Last, Contains, T!Contains
<1>6. T!Iterate(T!Grow(link, h), <<>>)[NR_TCB] = s
  BY <1>3, <1>4, T!WalkIsChain, InstancesAssume
<1>7. Waiters(b) = s
  BY <1>5, <1>6, SameIterate
<1> QED
  BY <1>1, <1>7

(* The threads that wait for a message are those in the queues of the      *)
(* mailboxes they wait at, which end where the tails say.                  *)
THEOREM WaitersStayQueued == Careful /\ IpcSpec => []WaitersQueued
<1>1. IpcInv => WaitersQueued
  <2> SUFFICES ASSUME NEW H \in [Handle -> Homes], Stands(H)
               PROVE  WaitersQueued
    BY DEF IpcInv
  <2>1. \A h \in Handle : "WAITMSG" \in lists.status[h] <=> W.hWaitMbx[h] # 0
    BY DEF Stands, Seated
  <2>2. ASSUME NEW b \in Mailboxes, NEW q, q = Waiters(b)
        PROVE  /\ ToSet(q) = {h \in Handle : W.hWaitMbx[h] = b}
               /\ W.tq_tail[b] = IF q = <<>> THEN 0 ELSE Last(q)
    <3>1. q \in Seq(Handle) /\ Lined(W, q, b)
      BY <2>2, WaitersSay DEF Stands
    <3>2. T!Holds(q, W.hWaitMbx, b) /\ W.tq_tail[b] = T!LastOf(q)
      BY <3>1 DEF Lined, Line, T!Queue
    <3>3. DOMAIN q = 1 .. Len(q) /\ \A i \in 1 .. Len(q) : q[i] \in Handle
      BY <3>1, LenProperties
    <3>4. ToSet(q) = {h \in Handle : W.hWaitMbx[h] = b}
      BY <3>2, <3>3, HandleIsMsg DEF T!Holds, ToSet
    <3> QED
      BY <3>2, <3>4 DEF T!LastOf, Last
  <2> QED
    BY <2>1, <2>2 DEF WaitersQueued
<1> QED
  BY <1>1, IpcKeepsInv, PTL

-----------------------------------------------------------------------------
(* The queues of Mailbox.                                                  *)
LEMMA MappingPrimed == Letters(M)' = Letters(M') /\ Callers(W)' = Callers(W')
BY DEF Letters, MessagesFrom, Callers, ThreadsFrom

LEMMA TakeImplemented ==
  ASSUME NEW H, Stands(H), NEW b \in Mailboxes, Receive(b)
  PROVE  Promised!Take(b)
<1>1. /\ Filed(M) /\ M' = TakeMsg(M, b) /\ Dequeued(M, b) # 0
      /\ W' = W /\ mail' = mail
  BY DEF Stands, Receive
<1>2. M.head[b] # 0
  BY <1>1, TakenFiled
<1>3. Letters(M') = [Letters(M) EXCEPT ![b] = Tail(@)]
  BY <1>1, <1>2, TakenFiled
<1>4. Letters(M)[b] # <<>>
  BY <1>1, <1>2, EmptyLetters
<1> QED
  BY <1>1, <1>3, <1>4, MappingPrimed DEF Promised!Take

LEMMA DiscardImplemented ==
  ASSUME NEW H, Stands(H), NEW b \in Mailboxes, EmptyMbx(b)
  PROVE  Promised!Discard(b)
<1>1. Filed(M) /\ M' = EmptyQueue(M, b) /\ W' = W /\ mail' = mail
  BY DEF Stands, EmptyMbx
<1>2. Letters(M') = [Letters(M) EXCEPT ![b] = <<>>]
  BY <1>1, EmptiedFiled
<1> QED
  BY <1>1, <1>2, MappingPrimed DEF Promised!Discard

(* A thread waits where Mailbox says it does.                              *)
LEMMA WaitingImplemented ==
  ASSUME Waits(W), NEW h \in Handle
  PROVE  Promised!IsWaiting(h) <=> W.hWaitMbx[h] # 0
<1>1. \A b \in Mailboxes : Promised!Contains(Callers(W)[b], h) <=> W.hWaitMbx[h] = b
  BY CallersSay DEF Promised!Contains, Contains
<1>2. W.hWaitMbx[h] \in Mailboxes \cup {0} /\ 0 \notin Mailboxes
  BY WaitingFields, MailboxFacts DEF Waits
<1> QED
  BY <1>1, <1>2 DEF Promised!IsWaiting

LEMMA WaitImplemented ==
  ASSUME NEW H, Stands(H), NEW b \in Mailboxes, NEW limited, WaitMsg(b, limited)
  PROVE  Promised!Wait(tr, b)
<1>1. /\ Filed(M) /\ Waits(W) /\ Resting(H)
      /\ pc[tr] = "app" /\ Dequeued(M, b) = 0 /\ M' = MBXDequeueMsg(M, b)
      /\ W' = MBXQueueThread(W, b, tr) /\ mail' = mail
  BY DEF Stands, WaitMsg, MayCall, Calls
<1>2. tr \in Handle /\ W.hWaitMbx[tr] = 0
  BY <1>1 DEF Resting
<1>3. M' = TakeMsg(M, b)
  BY <1>1 DEF TakeMsg, FreeMsg, Msg
<1>4. M.head[b] = 0 /\ Letters(M') = Letters(M)
  BY <1>1, <1>3, TakenFiled
<1>5. Letters(M)[b] = <<>>
  BY <1>1, <1>4, EmptyLetters
<1>6. Callers(W') = [Callers(W) EXCEPT ![b] = Append(@, tr)]
  BY <1>1, <1>2, QueueCallers
<1>7. ~Promised!IsWaiting(tr)
  BY <1>1, <1>2, WaitingImplemented
<1> QED
  BY <1>1, <1>4, <1>5, <1>6, <1>7, MappingPrimed DEF Promised!Wait

LEMMA CollectImplemented ==
  ASSUME NEW H, Stands(H), Return
  PROVE  Promised!Collect(tr)
<1>1. /\ Waits(W) /\ Resting(H) /\ pc[tr] = "app"
      /\ M' = M /\ W' = W /\ mail' = [mail EXCEPT ![tr] = NoMail]
  BY DEF Stands, Return, Calls
<1>2. tr \in Handle /\ W.hWaitMbx[tr] = 0
  BY <1>1 DEF Resting
<1>3. ~Promised!IsWaiting(tr)
  BY <1>1, <1>2, WaitingImplemented
<1> QED
  BY <1>1, <1>3, MappingPrimed DEF Promised!Collect

(* A mailbox that is allocated is empty already.                           *)
LEMMA AllocImplemented ==
  ASSUME Careful, NEW H \in [Handle -> Homes], Stands(H), AllocMbx
  PROVE  Promised!Discard(box.freeMBX) /\ box.freeMBX \in Mailboxes
<1> PICK b : b = box.freeMBX
  OBVIOUS
<1>1. Filed(M) /\ Waits(W) /\ Owned(M, W, box)
  BY DEF Stands
<1>2. /\ b \in Mailboxes /\ NeverFreed(box) /\ mail' = mail
      /\ M' = Reset(M, b) /\ W' = [W EXCEPT !.tq_head[b] = 0, !.tq_tail[b] = 0]
  BY DEF AllocMbx, Careful, NeverFreed, Reset
<1>3. W.tq_head[b] = 0 /\ M.head[b] = 0
  BY <1>1, <1>2, NextUnused
<1>4. Letters(M') = Letters(M) /\ Letters(M)[b] = <<>>
  BY <1>1, <1>2, <1>3, ResetFiled
<1>5. W' = W
  BY <1>1, <1>2, <1>3, QueueReset
<1>6. Letters(M') = [Letters(M) EXCEPT ![b] = <<>>]
  BY <1>4 DEF Letters
<1> QED
  BY <1>2, <1>5, <1>6, MappingPrimed DEF Promised!Discard

LEMMA CloseImplemented ==
  ASSUME NEW H \in [Handle -> Homes], Stands(H), NEW b \in Mailboxes, FreeMbx(b)
  PROVE  Promised!Close(b)
<1>1. /\ Filed(M) /\ Waits(W) /\ Seated(lists, W, mail, inside, H)
      /\ M' = EmptyQueue(M, b) /\ W' = Released(b).V /\ mail' = Released(b).mail
  BY DEF Stands, FreeMbx
<1>2. Letters(M') = [Letters(M) EXCEPT ![b] = <<>>]
  BY <1>1, EmptiedFiled
<1>3. /\ Waits(W') /\ mail' = mail
      /\ \A c \in Mailboxes \ {b} : Callers(W')[c] = Callers(W)[c]
      /\ Callers(W')[b] = <<>> \/ Len(Callers(W')[b]) + NR_TCB <= NR_TCB
  BY <1>1, ReleasedDismisses DEF Dismissed, Freeing
<1>4. Callers(W')[b] = <<>>
  <2>1. PICK s : s = Callers(W')[b]
    OBVIOUS
  <2>2. s \in Seq(Handle)
    BY <1>3, <2>1, CallersLined
  <2>3. s = <<>> \/ Len(s) = 0
    BY <1>3, <2>1, <2>2, LenProperties, TcbAssumption
  <2> QED
    BY <2>1, <2>2, <2>3, EmptySeq
<1>5. Callers(W') = [Callers(W) EXCEPT ![b] = <<>>]
  <2>1. /\ Callers(W') = [c \in Mailboxes |-> Callers(W')[c]]
        /\ Callers(W) = [c \in Mailboxes |-> Callers(W)[c]]
    BY DEF Callers
  <2> QED
    BY <1>3, <1>4, <2>1
<1>6. mail' = [h \in Handle |-> IF Promised!Contains(Callers(W)[b], h) THEN NoMail ELSE mail[h]]
  <2>1. \A h \in Handle : Promised!Contains(Callers(W)[b], h) => W.hWaitMbx[h] # 0
    BY <1>1, CallersSay, MailboxFacts DEF Promised!Contains, Contains
  <2>2. \A h \in Handle : Promised!Contains(Callers(W)[b], h) => mail[h] = NoMail
    BY <1>1, <2>1 DEF Seated
  <2>3. mail = [h \in Handle |-> mail[h]]
    BY <1>1, SeatedTypes
  <2> QED
    BY <1>3, <2>2, <2>3
<1> QED
  BY <1>2, <1>5, <1>6, MappingPrimed DEF Promised!Close

LEMMA SameCount ==
  ASSUME NEW S
  PROVE  /\ Q!Cardinality(S) = Cardinality(S) /\ Promised!Cardinality(S) = Cardinality(S)
         /\ Q!IsFiniteSet(S) <=> IsFiniteSet(S)
BY DEF Q!Cardinality, Promised!Cardinality, Cardinality, Q!IsFiniteSet, IsFiniteSet

(* A block is free as long as not all are queued.                          *)
LEMMA RoomImplemented ==
  ASSUME Filed(M), M.freeMSG # 0
  PROVE  Promised!FreeBlocks > 0
<1>1. PICK S, O : Q!Ordered(M, S, O)
  BY DEF Filed
<1>2. PICK U : U = UNION {{b} \X (1 .. Len(S[b])) : b \in Mailboxes}
  OBVIOUS
<1>3. Promised!Entries = U
  <2>1. ASSUME NEW b \in Mailboxes
        PROVE  DOMAIN Letters(M)[b] = 1 .. Len(S[b])
    <3>1. Letters(M)[b] = Q!Says(M, S[b])
      BY <1>1, LettersSay
    <3> QED
      BY <3>1 DEF Q!Says
  <2> QED
    BY <1>2, <2>1 DEF Promised!Entries
<1>4. Q!IsFiniteSet(U) /\ Q!Cardinality(U) < NR_MSG
  BY <1>1, <1>2, Q!QueuedFew, InstancesAssume
<1>5. Promised!Cardinality(U) \in Nat /\ Promised!Cardinality(U) < NR_MSG /\ NR_MSG \in Nat
  BY <1>4, SameCount, FS_CardinalityType, MessagesAssumption
<1> QED
  BY <1>3, <1>5 DEF Promised!FreeBlocks

LEMMA DeliverImplemented ==
  ASSUME NEW H, Stands(H), NEW b \in Mailboxes, NEW body \in Bodies, Deliver(b, body)
  PROVE  Promised!Deliver(b, body)
<1>1. PICK h : h = W.tq_head[b]
  OBVIOUS
<1>2. Filed(M) /\ Waits(W) /\ M.freeMSG # 0
  BY DEF Stands, Deliver
<1>3. Promised!FreeBlocks > 0
  BY <1>2, RoomImplemented
<1>4. CASE h = 0
  <2>1. /\ M.count[b] < MaxCount /\ W' = W /\ mail' = mail
        /\ M' = MBXQueueMsg(AllocMsg(M, body), b, M.freeMSG)
    BY <1>1, <1>4 DEF Deliver
  <2>2. Letters(M') = [Letters(M) EXCEPT ![b] = Q!Gained(@, body)]
    BY <1>2, <2>1, SentFiled
  <2>3. Callers(W)[b] = <<>>
    <3>1. Waits(W) /\ W.tq_head[b] = 0
      BY <1>1, <1>2, <1>4
    <3> QED
      BY <3>1, CallersSay
  <2>4. Q!Gained(Letters(M)[b], body) = Promised!Enqueued(Letters(M)[b], body)
    BY DEF Q!Gained, Promised!Enqueued, Q!Last, Promised!Last
  <2> QED
    BY <1>3, <2>1, <2>2, <2>3, <2>4, MappingPrimed DEF Promised!Deliver
<1>5. CASE h # 0
  <2>1. /\ M' = M /\ W' = MBXDequeueThread(W, b) /\ mail' = [mail EXCEPT ![h] = body]
    BY <1>1, <1>5 DEF Deliver
  <2>2. Callers(W') = [Callers(W) EXCEPT ![b] = Tail(@)]
    BY <1>1, <1>2, <1>5, <2>1, DequeueCallers
  <2>3. Callers(W)[b] # <<>> /\ Head(Callers(W)[b]) = h
    BY <1>1, <1>2, <1>5, CallersSay
  <2> QED
    BY <1>3, <2>1, <2>2, <2>3, MappingPrimed DEF Promised!Deliver
<1> QED
  BY <1>4, <1>5

-----------------------------------------------------------------------------
(* Everything starts empty, and every step is one of Mailbox.              *)
LEMMA MailInitImplemented == IpcInit => Promised!MailInit
<1> SUFFICES ASSUME IpcInit
             PROVE  Promised!MailInit
  OBVIOUS
<1>1. Letters(M) = [b \in Mailboxes |-> <<>>]
  BY FreshFiled DEF IpcInit
<1>2. Callers(W) = [b \in Mailboxes |-> <<>>]
  <2>1. \A b \in Mailboxes : W.tq_head[b] = 0
    BY DEF IpcInit
  <2>2. Waits(W)
    BY InitWaits
  <2>3. \A b \in Mailboxes : Callers(W)[b] = <<>>
    BY <2>1, <2>2, CallersSay
  <2> QED
    BY <2>3 DEF Callers
<1> QED
  BY <1>1, <1>2 DEF Promised!MailInit, IpcInit

MailStep == UNCHANGED <<M, W, mail>> \/ Promised!MailNext(Bodies)

LEMMA MailNextImplemented == IpcInv /\ [IpcNext]_allVars => MailStep
<1> SUFFICES ASSUME IpcInv, [IpcNext]_allVars
             PROVE  MailStep
  OBVIOUS
<1>0. Careful
  BY DEF IpcInv
<1> PICK H \in [Handle -> Homes] : Stands(H)
  BY DEF IpcInv
<1> USE DEF MailStep
<1>1. CASE Schedule
  BY <1>1 DEF Schedule, ipcVars
<1>2. CASE AllocMbx
  BY <1>0, <1>2, AllocImplemented DEF Promised!MailNext
<1>3. ASSUME NEW b \in Mailboxes, FreeMbx(b)
      PROVE  MailStep
  BY <1>3, CloseImplemented DEF Promised!MailNext
<1>4. ASSUME NEW b \in Mailboxes, EmptyMbx(b)
      PROVE  MailStep
  BY <1>4, DiscardImplemented DEF Promised!MailNext
<1>5. ASSUME NEW b \in Mailboxes, Receive(b)
      PROVE  MailStep
  BY <1>5, TakeImplemented DEF Promised!MailNext
<1>6. ASSUME NEW b \in Mailboxes, NEW body \in Bodies, SendMsg(b, body) \/ PostMsg(b, body)
      PROVE  MailStep
  <2>1. Deliver(b, body)
    BY <1>6 DEF SendMsg, PostMsg
  <2> QED
    BY <2>1, DeliverImplemented DEF Promised!MailNext
<1>7. ASSUME NEW b \in Mailboxes, NEW limited \in BOOLEAN, WaitMsg(b, limited)
      PROVE  MailStep
  <2>1. tr \in Handle
    BY DEF Stands, Resting
  <2> QED
    BY <1>7, <2>1, WaitImplemented DEF Promised!MailNext
<1>8. ASSUME NEW timelimit \in Timeouts, LimitWait(timelimit)
      PROVE  MailStep
  BY <1>8 DEF LimitWait, ipcVars
<1>9. CASE Return
  <2>1. tr \in Handle
    BY DEF Stands, Resting
  <2> QED
    BY <1>9, <2>1, CollectImplemented DEF Promised!MailNext
<1>10. CASE UNCHANGED allVars
  BY <1>10 DEF allVars, ipcVars
<1> QED
  BY <1>1, <1>2, <1>3, <1>4, <1>5, <1>6, <1>7, <1>8, <1>9, <1>10 DEF IpcNext

(***************************************************************************)
(* The kernel's threads, links and message blocks implement the queues of  *)
(* Mailbox: whatever the threads, the interrupt routine and the scheduler  *)
(* do, every message goes once to the thread that has waited longest or to *)
(* the end of the queue, and nothing else changes what threads get.        *)
(***************************************************************************)
THEOREM IpcIsMailbox == Careful /\ IpcSpec => ImplementsMailbox
<1>1. Careful /\ IpcInit => Promised!MailInit
  BY MailInitImplemented
<1>2. IpcInv /\ [IpcNext]_allVars
        => [UNCHANGED <<M, W, mail>> \/ Promised!MailNext(Bodies)]_<<M, W, mail>>
  BY MailNextImplemented DEF MailStep
<1> QED
  BY <1>1, <1>2, IpcKeepsInv, PTL DEF IpcSpec, ImplementsMailbox

=============================================================================
