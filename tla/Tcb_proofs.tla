------------------------------ MODULE Tcb_proofs ------------------------------
(***************************************************************************)
(* What each routine of kernel/tcb.c does to the shapes of the lists, for  *)
(* any number of TCBs and of priorities.  L and H are the lists and the    *)
(* places of the TCBs before the call, M and K those after.  The callers'  *)
(* proofs compose these lemmas as the code composes the routines.          *)
(***************************************************************************)
EXTENDS TcbShapes, Iteration_proofs

-----------------------------------------------------------------------------
(* The three shapes under insertion and removal.  nx and pv are the links  *)
(* before, mx and mv those after.                                          *)

(* t has been linked between q and p, which are in Q or 0.                 *)
LinkedBetween(nx, pv, mx, mv, q, t, p, Q) ==
  \A g \in Q \cup {t} :
    /\ mx[g] = IF g = t THEN p ELSE IF g = q THEN t ELSE nx[g]
    /\ mv[g] = IF g = t THEN q ELSE IF g = p THEN t ELSE pv[g]

(* The links of Q closed around t.                                         *)
LinkedWithout(nx, pv, mx, mv, t, Q) ==
  \A g \in Q \ {t} :
    /\ mx[g] = IF g = pv[t] THEN nx[t] ELSE nx[g]
    /\ mv[g] = IF g = nx[t] THEN pv[t] ELSE pv[g]

(* A ring depends on the links of its own members only.                    *)
LEMMA RingSame ==
  ASSUME NEW Q, NEW nx, NEW pv, NEW mx, NEW mv, Ring(nx, pv, Q),
         \A h \in Q : mx[h] = nx[h] /\ mv[h] = pv[h]
  PROVE  Ring(mx, mv, Q)
BY DEF Ring

(* One thread that points at itself is a ring.                             *)
LEMMA RingOfOne ==
  ASSUME NEW t, NEW nx, NEW pv, nx[t] = t, pv[t] = t
  PROVE  Ring(nx, pv, {t})
<1>1. \A S \in SUBSET {t} : S # {} => S = {t}
  OBVIOUS
<1> QED BY <1>1 DEF Ring

(* A thread of a ring that points at itself is the whole ring.             *)
LEMMA RingAlone ==
  ASSUME NEW Q, NEW nx, NEW pv, Ring(nx, pv, Q), NEW t \in Q, nx[t] = t
  PROVE  Q = {t}
<1>1. {t} \in SUBSET Q /\ {t} # {} /\ \A h \in {t} : nx[h] \in {t}
  OBVIOUS
<1> QED BY <1>1 DEF Ring

(* Insertion before a member h of the ring.                                *)
LEMMA RingInsert ==
  ASSUME NEW Q, NEW nx, NEW pv, NEW mx, NEW mv, Ring(nx, pv, Q),
         NEW h \in Q, NEW t, t \notin Q, LinkedBetween(nx, pv, mx, mv, pv[h], t, h, Q)
  PROVE  Ring(mx, mv, Q \cup {t})
<1> USE DEF LinkedBetween
<1>1. \A g \in Q : /\ nx[g] \in Q /\ pv[nx[g]] = g
                   /\ pv[g] \in Q /\ nx[pv[g]] = g
  BY DEF Ring
<1>2. \A g \in Q \cup {t} : /\ mx[g] \in Q \cup {t} /\ mv[mx[g]] = g
                            /\ mv[g] \in Q \cup {t} /\ mx[mv[g]] = g
  BY <1>1
<1>3. ASSUME NEW S \in SUBSET (Q \cup {t}), S # {}, \A g \in S : mx[g] \in S
      PROVE  S = Q \cup {t}
  <2>1. S \ {t} # {}
    BY <1>1, <1>3
  <2>2. \A g \in S \ {t} : nx[g] \in S \ {t}
    BY <1>1, <1>3
  <2>3. S \ {t} = Q
    BY <2>1, <2>2, S \ {t} \in SUBSET Q DEF Ring
  <2>4. pv[h] \in S /\ pv[h] # t
    BY <1>1, <2>3
  <2> QED BY <1>1, <1>3, <2>3, <2>4
<1> QED BY <1>2, <1>3 DEF Ring

(* Removal of a thread that is not alone.                                  *)
LEMMA RingRemove ==
  ASSUME NEW Q, NEW nx, NEW pv, NEW mx, NEW mv, Ring(nx, pv, Q),
         NEW t \in Q, nx[t] # t, LinkedWithout(nx, pv, mx, mv, t, Q)
  PROVE  Ring(mx, mv, Q \ {t}) /\ nx[t] \in Q \ {t}
<1> USE DEF LinkedWithout
<1>1. \A g \in Q : /\ nx[g] \in Q /\ pv[nx[g]] = g
                   /\ pv[g] \in Q /\ nx[pv[g]] = g
  BY DEF Ring
<1>2. pv[t] # t
  BY <1>1
<1>3. \A g \in Q \ {t} : /\ mx[g] \in Q \ {t} /\ mv[mx[g]] = g
                         /\ mv[g] \in Q \ {t} /\ mx[mv[g]] = g
  BY <1>1, <1>2
<1>4. ASSUME NEW S \in SUBSET (Q \ {t}), S # {}, \A g \in S : mx[g] \in S
      PROVE  S = Q \ {t}
  <2> DEFINE T == IF pv[t] \in S THEN S \cup {t} ELSE S
  <2>1. \A g \in T : nx[g] \in T
    <3>1. CASE pv[t] \in S
      <4>1. T = S \cup {t} /\ mx[pv[t]] \in S /\ mx[pv[t]] = nx[t]
        BY <1>1, <1>2, <1>4, <3>1
      <4>2. \A g \in S : g # pv[t] => nx[g] = mx[g] /\ mx[g] \in S
        BY <1>4
      <4>3. nx[pv[t]] = t
        BY <1>1
      <4> QED BY <4>1, <4>2, <4>3
    <3>2. CASE pv[t] \notin S
      BY <1>4, <3>2
    <3> QED BY <3>1, <3>2
  <2>2. T = Q
    <3>1. T \in SUBSET Q /\ T # {}
      BY <1>4
    <3> QED BY <2>1, <3>1 DEF Ring
  <2> QED BY <2>2, <1>4
<1> QED BY <1>1, <1>3, <1>4 DEF Ring

(* A chain depends on the links of its own members only.                   *)
LEMMA ChainSame ==
  ASSUME NEW Q, NEW head, NEW nx, NEW pv, NEW mx, NEW mv, Chain(nx, pv, head, Q),
         \A h \in Q : mx[h] = nx[h] /\ mv[h] = pv[h]
  PROVE  Chain(mx, mv, head, Q)
<1>1. \A h \in Q : /\ nx[h] # 0 => nx[h] \in Q /\ pv[nx[h]] = h
                   /\ pv[h] # 0 => pv[h] \in Q /\ nx[pv[h]] = h
                   /\ pv[h] = 0 <=> head = h
  BY DEF Chain
<1>2. \A h \in Q : /\ mx[h] # 0 => mx[h] \in Q /\ mv[mx[h]] = h
                   /\ mv[h] # 0 => mv[h] \in Q /\ mx[mv[h]] = h
                   /\ mv[h] = 0 <=> head = h
  BY <1>1
<1>3. \A S \in SUBSET Q : S # {} => \E h \in S : mv[h] \notin S
  BY DEF Chain
<1> QED BY <1>2, <1>3 DEF Chain

(* Insertion between q and p, where 0 stands for the end of the chain.     *)
FirstAfter(q, t, head) == IF q = 0 THEN t ELSE head

LEMMA ChainInsert ==
  ASSUME NEW Q, 0 \notin Q, NEW head, NEW nx, NEW pv, NEW mx, NEW mv,
         Chain(nx, pv, head, Q),
         NEW t, t \notin Q, t # 0, NEW q \in Q \cup {0}, NEW p,
         p = IF q = 0 THEN head ELSE nx[q],
         LinkedBetween(nx, pv, mx, mv, q, t, p, Q)
  PROVE  Chain(mx, mv, FirstAfter(q, t, head), Q \cup {t})
<1> DEFINE first == FirstAfter(q, t, head)
<1> USE DEF FirstAfter
<1>1. /\ head \in Q \cup {0}
      /\ \A h \in Q : /\ nx[h] # 0 => nx[h] \in Q /\ pv[nx[h]] = h
                      /\ pv[h] # 0 => pv[h] \in Q /\ nx[pv[h]] = h
                      /\ pv[h] = 0 <=> head = h
  BY DEF Chain
<1> USE DEF LinkedBetween
<1>2. p \in Q \cup {0} /\ (p # 0 => pv[p] = q)
  BY <1>1
<1>3. \A h \in Q \cup {t} :
         /\ mx[h] # 0 => mx[h] \in Q \cup {t} /\ mv[mx[h]] = h
         /\ mv[h] # 0 => mv[h] \in Q \cup {t} /\ mx[mv[h]] = h
         /\ mv[h] = 0 <=> first = h
  BY <1>1, <1>2
<1>4. ASSUME NEW S \in SUBSET (Q \cup {t}), S # {}
      PROVE  \E h \in S : mv[h] \notin S
  <2>1. CASE S = {t}
    BY <2>1
  <2>2. CASE S # {t}
    <3>1. S \ {t} \in SUBSET Q /\ S \ {t} # {}
      BY <1>4, <2>2
    <3>2. PICK h \in S \ {t} : pv[h] \notin S \ {t}
      BY <3>1 DEF Chain
    <3>3. pv[h] # t
      BY <1>1, <3>1, <3>2
    <3>4. CASE h # p
      BY <3>1, <3>2, <3>3, <3>4
    <3>5. CASE h = p
      BY <1>2, <3>1, <3>2, <3>5
    <3> QED BY <3>4, <3>5
  <2> QED BY <2>1, <2>2
<1> QED BY <1>1, <1>3, <1>4 DEF Chain

(* Removal of any member.                                                  *)
LEMMA ChainRemove ==
  ASSUME NEW Q, 0 \notin Q, NEW head, NEW nx, NEW pv, NEW mx, NEW mv,
         Chain(nx, pv, head, Q), NEW t \in Q, NEW first,
         first = (IF head = t THEN nx[t] ELSE head),
         LinkedWithout(nx, pv, mx, mv, t, Q)
  PROVE  Chain(mx, mv, first, Q \ {t})
<1> USE DEF LinkedWithout
<1>1. /\ head \in Q \cup {0}
      /\ \A h \in Q : /\ nx[h] # 0 => nx[h] \in Q /\ pv[nx[h]] = h
                      /\ pv[h] # 0 => pv[h] \in Q /\ nx[pv[h]] = h
                      /\ pv[h] = 0 <=> head = h
  BY DEF Chain
<1>2. pv[t] # t /\ nx[t] # t
  <2>1. \E h \in {t} : pv[h] \notin {t}
    BY {t} \in SUBSET Q DEF Chain
  <2> QED BY <1>1, <2>1
<1>3. \A h \in Q \ {t} :
         /\ mx[h] # 0 => mx[h] \in Q \ {t} /\ mv[mx[h]] = h
         /\ mv[h] # 0 => mv[h] \in Q \ {t} /\ mx[mv[h]] = h
         /\ mv[h] = 0 <=> first = h
  BY <1>1, <1>2
<1>4. first \in (Q \ {t}) \cup {0}
  BY <1>1, <1>2
<1>5. ASSUME NEW S \in SUBSET (Q \ {t}), S # {}
      PROVE  \E h \in S : mv[h] \notin S
  <2>1. CASE nx[t] \in S
    <3>1. S \cup {t} \in SUBSET Q
      BY <1>5
    <3>2. PICK h \in S \cup {t} : pv[h] \notin S \cup {t}
      BY <3>1 DEF Chain
    <3>3. nx[t] # 0 /\ pv[nx[t]] = t
      BY <1>1, <1>5, <2>1
    <3>4. CASE h = t
      BY <1>5, <2>1, <3>2, <3>4
    <3>5. CASE h # t
      BY <1>5, <3>2, <3>3, <3>5
    <3> QED BY <3>4, <3>5
  <2>2. CASE nx[t] \notin S
    BY <1>5, <2>2 DEF Chain
  <2> QED BY <2>1, <2>2
<1> QED BY <1>3, <1>4, <1>5 DEF Chain

(* A stack depends on the links of its own members only.                   *)
LEMMA StackSame ==
  ASSUME NEW Q, NEW head, NEW nx, NEW mx, Stack(nx, head, Q),
         \A h \in Q : mx[h] = nx[h]
  PROVE  Stack(mx, head, Q)
BY DEF Stack

(* Pushing t.                                                              *)
LEMMA StackPush ==
  ASSUME NEW Q, 0 \notin Q, NEW head, NEW nx, NEW mx, Stack(nx, head, Q),
         NEW t, t \notin Q, t # 0,
         \A g \in Q \cup {t} : mx[g] = IF g = t THEN head ELSE nx[g]
  PROVE  Stack(mx, t, Q \cup {t})
<1>1. /\ head \in Q \cup {0}
      /\ \A h \in Q : nx[h] \in (Q \ {head}) \cup {0}
      /\ \A g, h \in Q : nx[g] = nx[h] /\ nx[h] # 0 => g = h
  BY DEF Stack
<1>2. \A h \in Q \cup {t} : mx[h] \in ((Q \cup {t}) \ {t}) \cup {0}
  BY <1>1
<1>3. \A g, h \in Q \cup {t} : mx[g] = mx[h] /\ mx[h] # 0 => g = h
  BY <1>1
<1>4. ASSUME NEW S \in SUBSET (Q \cup {t}), S # {}, t \notin S
      PROVE  \E g \in (Q \cup {t}) \ S : mx[g] \in S
  <2>1. S \in SUBSET Q
    BY <1>4
  <2>2. head \in S \/ \E g \in Q \ S : nx[g] \in S
    BY <1>4, <2>1 DEF Stack
  <2> QED BY <1>4, <2>2
<1> QED BY <1>2, <1>3, <1>4 DEF Stack

(* Popping the head.                                                       *)
LEMMA StackPop ==
  ASSUME NEW Q, 0 \notin Q, NEW head \in Q, NEW nx, NEW mx, Stack(nx, head, Q),
         \A g \in Q \ {head} : mx[g] = nx[g]
  PROVE  Stack(mx, nx[head], Q \ {head})
<1>1. /\ \A h \in Q : nx[h] \in (Q \ {head}) \cup {0}
      /\ \A g, h \in Q : nx[g] = nx[h] /\ nx[h] # 0 => g = h
  BY DEF Stack
<1>2. \A h \in Q \ {head} : mx[h] \in ((Q \ {head}) \ {nx[head]}) \cup {0}
  BY <1>1
<1>3. \A g, h \in Q \ {head} : mx[g] = mx[h] /\ mx[h] # 0 => g = h
  BY <1>1
<1>4. ASSUME NEW S \in SUBSET (Q \ {head}), S # {}, nx[head] \notin S
      PROVE  \E g \in (Q \ {head}) \ S : mx[g] \in S
  <2>1. PICK g \in Q \ S : nx[g] \in S
    BY <1>4, S \in SUBSET Q DEF Stack
  <2> QED BY <1>4, <2>1
<1> QED BY <1>1, <1>2, <1>3, <1>4 DEF Stack

-----------------------------------------------------------------------------
(* The lists are well formed when TCB h is on list H[h].  The conjuncts    *)
(* lean on each other: a ready queue of one thread is emptied correctly    *)
(* because it is a ring, and an insertion does not panic because           *)
(* LooseFormed clears the links of a TCB that is on no list.               *)
ListsOK(L, H) == L \in Lists /\ H \in [Handle -> Homes]

WellFormed(L, H) ==
  /\ ListsOK(L, H)
  /\ RingsFormed(L, H)
  /\ ChainFormed(L, H)
  /\ StackFormed(L, H)
  /\ LooseFormed(L, H)
  /\ ~L.panic

LEMMA HandleFacts ==
  /\ Handle \subseteq Nat /\ Handle0 \subseteq Nat
  /\ Handle0 = Handle \cup {0} /\ 0 \notin Handle
  /\ 1 \in Handle /\ 2 \in Handle /\ NR_TCB \in Handle
BY TcbAssumption DEF Handle, Handle0

(* The types of the fields of the lists.                                   *)
FieldsTyped(L, H) ==
  /\ L.next \in [Handle -> Handle0] /\ L.prev \in [Handle -> Handle0]
  /\ L.status \in [Handle -> SUBSET StatusBit]
  /\ L.priority \in [Handle -> Priority] /\ L.timeout \in [Handle -> Int]
  /\ L.readyQ \in [Priority -> Handle0]
  /\ L.TimeoutList \in Handle0 /\ L.freeTCB \in Handle0
  /\ L.panic \in BOOLEAN /\ L \in Lists /\ H \in [Handle -> Homes]

LEMMA FieldTypes ==
  ASSUME NEW L, NEW H, ListsOK(L, H)
  PROVE  FieldsTyped(L, H)
BY DEF ListsOK, Lists, FieldsTyped

(* The places are disjoint; a ready queue holds the ready threads of one   *)
(* priority.                                                               *)
PlacesTold(L, H) ==
  /\ \A place : Members(H, place) \subseteq Handle
  /\ \A h \in Handle : \A place : h \in Members(H, place) <=> H[h] = place
  /\ \A p : ReadyAt(L, H, p) \subseteq Members(H, "ready")
  /\ \A h \in Handle : \A p : h \in ReadyAt(L, H, p) <=> H[h] = "ready" /\ L.priority[h] = p

LEMMA Places ==
  ASSUME NEW L, NEW H
  PROVE  PlacesTold(L, H)
BY DEF Members, ReadyAt, PlacesTold

(* What the ready queue of a thread looks like around it.                  *)
LEMMA Neighbours ==
  ASSUME NEW L, NEW H, WellFormed(L, H), NEW p \in Priority, NEW h \in ReadyAt(L, H, p)
  PROVE  /\ L.next[h] \in ReadyAt(L, H, p) /\ L.prev[L.next[h]] = h
         /\ L.prev[h] \in ReadyAt(L, H, p) /\ L.next[L.prev[h]] = h
BY DEF WellFormed, RingsFormed, Ring

(* Initially every list but the free list is empty.                        *)
LEMMA BootWellFormed ==
  ASSUME NEW L, L = BootLists,
         NEW H, H = [h \in Handle |-> IF h = 1 THEN "loose" ELSE "free"]
  PROVE  WellFormed(L, H)
<1> USE HandleFacts, TcbAssumption
<1>1. /\ L.next = [h \in Handle |-> IF h \in {1, NR_TCB} THEN 0 ELSE h + 1]
      /\ L.prev = [h \in Handle |-> h - 1]
      /\ L.status = [h \in Handle |-> IF h = 1 THEN {"RUNNING", "READY"} ELSE {}]
      /\ L.readyQ = [p \in Priority |-> 0]
      /\ L.TimeoutList = 0 /\ L.freeTCB = 2 /\ L.panic = FALSE
      /\ H = [h \in Handle |-> IF h = 1 THEN "loose" ELSE "free"]
  BY DEF BootLists
<1>2. ListsOK(L, H)
  <2>1. BootLists.next \in [Handle -> Handle0] /\ BootLists.prev \in [Handle -> Handle0]
    BY DEF BootLists, Handle, Handle0
  <2>2. BootLists.status \in [Handle -> SUBSET StatusBit]
    BY DEF BootLists, StatusBit
  <2>3. BootLists.priority \in [Handle -> Priority] /\ BootLists.readyQ \in [Priority -> Handle0]
        /\ BootLists.timeout \in [Handle -> Int]
    BY DEF BootLists, Priority
  <2>4. BootLists.TimeoutList \in Handle0 /\ BootLists.freeTCB \in Handle0 /\ BootLists.panic \in BOOLEAN
    BY DEF BootLists
  <2>5. BootLists \in Lists
    BY <2>1, <2>2, <2>3, <2>4 DEF BootLists, Lists
  <2> QED BY <2>5, <1>1 DEF ListsOK, Homes
<1>3. Members(H, "ready") = {} /\ Members(H, "timeout") = {} /\ Members(H, "loose") = {1} /\ Members(H, "free") = Handle \ {1}
  BY <1>1 DEF Members
<1>4. RingsFormed(L, H)
  <2>1. \A p \in Priority : ReadyAt(L, H, p) = {} /\ L.readyQ[p] = 0
    BY <1>1 DEF ReadyAt
  <2> QED BY <2>1 DEF RingsFormed, Ring
<1>5. ChainFormed(L, H)
  BY <1>1, <1>3 DEF ChainFormed, Chain
<1>6. StackFormed(L, H)
  <2> DEFINE Q == Handle \ {1}
             nx == L.next
  <2>1. 2 \in Q
    OBVIOUS
  <2>2. ASSUME NEW h \in Q
        PROVE  h \in Nat /\ h > 1 /\ h <= NR_TCB
               /\ nx[h] = IF h = NR_TCB THEN 0 ELSE h + 1
    BY <1>1 DEF Handle
  <2>3. \A h \in Q : nx[h] \in (Q \ {2}) \cup {0}
    <3> TAKE h \in Q
    <3>1. CASE h = NR_TCB
      BY <2>2, <3>1
    <3>2. CASE h # NR_TCB
      <4>1. h + 1 \in Handle /\ h + 1 # 1 /\ h + 1 # 2
        BY <2>2, <3>2 DEF Handle
      <4> QED BY <2>2, <3>2, <4>1
    <3> QED BY <3>1, <3>2
  <2>4. \A g, h \in Q : nx[g] = nx[h] /\ nx[h] # 0 => g = h
    BY <2>2
  <2>5. ASSUME NEW S \in SUBSET Q, S # {}, 2 \notin S
        PROVE  \E g \in Q \ S : nx[g] \in S
    <3>1. S \subseteq Nat
      BY <2>2
    <3>2. PICK k \in S : \A i \in S : k <= i
      BY <2>5, <3>1, LeastElement
    <3>3. k - 1 \in Q /\ k - 1 \notin S /\ nx[k - 1] = k
      <4>1. k \in Nat /\ k > 2 /\ k <= NR_TCB
        BY <2>2, <2>5
      <4>2. k - 1 \in Q
        BY <4>1 DEF Handle
      <4> QED BY <4>1, <4>2, <2>2, <3>1, <3>2
    <3> QED BY <3>2, <3>3
  <2> HIDE DEF Q, nx
  <2>6. Stack(nx, 2, Q)
    BY <2>1, <2>3, <2>4, <2>5 DEF Stack
  <2> QED BY <2>6, <1>1, <1>3 DEF StackFormed, Q, nx
<1>7. LooseFormed(L, H) /\ ~L.panic
  BY <1>1, <1>3 DEF LooseFormed, Members
<1> QED BY <1>2, <1>4, <1>5, <1>6, <1>7 DEF WellFormed

(* What a routine leaves alone when it changes the links of TCBs in T only.*)
SameLinks(L, M, T) ==
  \A h \in Handle \ T : M.next[h] = L.next[h] /\ M.prev[h] = L.prev[h]

Framed(L, H, M, T) ==
  /\ \A p \in Priority : ReadyAt(L, H, p) \cap T = {} => Ring(M.next, M.prev, ReadyAt(L, H, p))
  /\ Members(H, "timeout") \cap T = {}
       => Chain(M.next, M.prev, L.TimeoutList, Members(H, "timeout"))
  /\ Members(H, "free") \cap T = {} => Stack(M.next, L.freeTCB, Members(H, "free"))
  /\ \A h \in Members(H, "loose") \ T : M.next[h] = 0 /\ M.prev[h] = 0

LEMMA Frame ==
  ASSUME NEW L, NEW H, WellFormed(L, H), NEW M, NEW T, SameLinks(L, M, T)
  PROVE  Framed(L, H, M, T)
<1>p. PlacesTold(L, H)
  BY Places
<1> USE DEF PlacesTold, SameLinks
<1>1. ASSUME NEW p \in Priority, ReadyAt(L, H, p) \cap T = {}
      PROVE  Ring(M.next, M.prev, ReadyAt(L, H, p))
  <2>1. Ring(L.next, L.prev, ReadyAt(L, H, p))
    BY DEF WellFormed, RingsFormed
  <2>2. \A h \in ReadyAt(L, H, p) : M.next[h] = L.next[h] /\ M.prev[h] = L.prev[h]
    BY <1>1, <1>p
  <2> QED BY <2>1, <2>2, RingSame
<1>2. ASSUME Members(H, "timeout") \cap T = {}
      PROVE  Chain(M.next, M.prev, L.TimeoutList, Members(H, "timeout"))
  <2>1. Chain(L.next, L.prev, L.TimeoutList, Members(H, "timeout"))
    BY DEF WellFormed, ChainFormed
  <2>2. \A h \in Members(H, "timeout") : M.next[h] = L.next[h] /\ M.prev[h] = L.prev[h]
    BY <1>2, <1>p
  <2> QED BY <2>1, <2>2, ChainSame
<1>3. ASSUME Members(H, "free") \cap T = {}
      PROVE  Stack(M.next, L.freeTCB, Members(H, "free"))
  <2>1. Stack(L.next, L.freeTCB, Members(H, "free"))
    BY DEF WellFormed, StackFormed
  <2>2. \A h \in Members(H, "free") : M.next[h] = L.next[h]
    BY <1>3, <1>p
  <2> QED BY <2>1, <2>2, StackSame
<1>4. \A h \in Members(H, "loose") \ T : M.next[h] = 0 /\ M.prev[h] = 0
  BY <1>p DEF WellFormed, LooseFormed
<1> QED BY <1>1, <1>2, <1>3, <1>4 DEF Framed

-----------------------------------------------------------------------------
(* Each routine keeps the invariant.                                       *)

(* Insertion into a ready queue: t becomes a ring of its own, or enters    *)
(* the ring of its priority before the head.                               *)
LEMMA InsertIntoReadyQueueKeeps ==
  ASSUME NEW L, NEW H, WellFormed(L, H), NEW t \in Handle, H[t] = "loose",
         NEW M, M = TCBInsertIntoReadyQueue(L, t),
         NEW K, K = [H EXCEPT ![t] = "ready"]
  PROVE  WellFormed(M, K)
<1> DEFINE pri  == L.priority[t]
           hq   == L.readyQ[pri]
           last == L.prev[hq]
<1>f. FieldsTyped(L, H)
  BY FieldTypes DEF WellFormed
<1>p. PlacesTold(L, H)
  BY Places
<1> USE DEF FieldsTyped, PlacesTold
<1>1. /\ H[t] = "loose" /\ K = [H EXCEPT ![t] = "ready"]
      /\ L.next[t] = 0 /\ L.prev[t] = 0
      /\ M = TCBInsertIntoReadyQueue(L, t)
      /\ L.panic = FALSE
  BY DEF WellFormed, LooseFormed, Members
<1>2. ListsOK(L, H) /\ pri \in Priority /\ hq \in Handle0
  BY <1>f DEF WellFormed
<1>3. /\ M.status = [L.status EXCEPT ![t] = @ \cup {"READY"}]
      /\ M.priority = L.priority /\ M.timeout = L.timeout
      /\ M.TimeoutList = L.TimeoutList /\ M.freeTCB = L.freeTCB
  BY <1>1, <1>2 DEF TCBInsertIntoReadyQueue, Lists, Panic, ListsOK
<1>4. /\ Members(K, "ready") = Members(H, "ready") \cup {t} /\ Members(K, "loose") = Members(H, "loose") \ {t}
      /\ Members(K, "timeout") = Members(H, "timeout") /\ Members(K, "free") = Members(H, "free")
      /\ \A p \in Priority : ReadyAt(M, K, p) = IF p = pri THEN ReadyAt(L, H, p) \cup {t}
                                                    ELSE ReadyAt(L, H, p)
  BY <1>1, <1>2, <1>3, <1>f DEF Members, ReadyAt
<1>5. /\ t \notin Members(H, "timeout") /\ t \notin Members(H, "free")
      /\ \A p : t \notin ReadyAt(L, H, p)
  BY <1>1, <1>p
(* The ring that t enters or becomes, and the fields that follow from it.  *)
<1>6. /\ M \in Lists /\ M.panic = FALSE
      /\ \A h \in Handle \ (ReadyAt(L, H, pri) \cup {t}) :
            M.next[h] = L.next[h] /\ M.prev[h] = L.prev[h]
      /\ Ring(M.next, M.prev, ReadyAt(L, H, pri) \cup {t})
      /\ M.readyQ[pri] \in ReadyAt(L, H, pri) \cup {t}
      /\ \A p \in Priority : p # pri => M.readyQ[p] = L.readyQ[p]
  <2>1. CASE hq = 0
    <3>1. ReadyAt(L, H, pri) = {}
      BY <1>2, <2>1, <1>p, HandleFacts DEF WellFormed, RingsFormed
    <3>2. /\ M.next = [L.next EXCEPT ![t] = t]
          /\ M.prev = [L.prev EXCEPT ![t] = t]
          /\ M.readyQ = [L.readyQ EXCEPT ![pri] = t]
          /\ M.panic = FALSE
      BY <1>1, <1>2, <2>1 DEF TCBInsertIntoReadyQueue, Lists, ListsOK
    <3>3. M \in Lists
      <4>1. M = [L EXCEPT !.status = M.status, !.next = M.next, !.prev = M.prev,
                          !.readyQ = M.readyQ]
        BY <1>1, <1>2, <2>1 DEF TCBInsertIntoReadyQueue, Lists, ListsOK
      <4>2. /\ M.next \in [Handle -> Handle0] /\ M.prev \in [Handle -> Handle0]
            /\ M.status \in [Handle -> SUBSET StatusBit] /\ M.readyQ \in [Priority -> Handle0]
        BY <1>3, <3>2, <1>f, HandleFacts DEF StatusBit
      <4> QED BY <4>1, <4>2, <1>f DEF Lists
    <3>4. Ring(M.next, M.prev, {t})
      BY <1>2, <3>2, <1>f, RingOfOne
    <3> QED BY <1>2, <3>1, <3>2, <3>3, <3>4, <1>f
  <2>2. CASE hq # 0
    <3>1. hq \in ReadyAt(L, H, pri)
      BY <1>2, <2>2 DEF WellFormed, RingsFormed
    <3>2. last \in ReadyAt(L, H, pri) /\ L.next[last] = hq
      BY <1>2, <3>1, Neighbours
    <3>3. hq \in Handle /\ last \in Handle /\ t # hq /\ t # last
      BY <1>5, <3>1, <3>2, <1>p
    <3>4. M = [[L EXCEPT !.status[t] = @ \cup {"READY"}]
                  EXCEPT !.next = Put(Put(@, t, hq), last, t),
                         !.prev = Put(Put(@, t, last), hq, t)]
      BY <1>1, <1>2, <2>2, <3>3, HandleFacts DEF TCBInsertIntoReadyQueue, Lists, ListsOK
    <3>5. /\ M.next = [L.next EXCEPT ![t] = hq, ![last] = t]
          /\ M.prev = [L.prev EXCEPT ![t] = last, ![hq] = t]
          /\ M.readyQ = L.readyQ /\ M.panic = FALSE
      <4>1. /\ Put(Put(L.next, t, hq), last, t) = [L.next EXCEPT ![t] = hq, ![last] = t]
            /\ Put(Put(L.prev, t, last), hq, t) = [L.prev EXCEPT ![t] = last, ![hq] = t]
        <5> HIDE DEF hq, last
        <5> QED BY <3>3 DEF Put
      <4>2. /\ M.next = Put(Put(L.next, t, hq), last, t)
            /\ M.prev = Put(Put(L.prev, t, last), hq, t)
            /\ M.readyQ = L.readyQ /\ M.panic = L.panic
        <5> HIDE DEF hq, last
        <5> QED BY <1>2, <3>4 DEF Lists, ListsOK
      <4> QED BY <1>1, <4>1, <4>2
    <3>6. M \in Lists
      <4>1. M = [L EXCEPT !.status = M.status, !.next = M.next, !.prev = M.prev]
        BY <3>4, <1>2 DEF Lists, ListsOK
      <4>2. M.next \in [Handle -> Handle0] /\ M.prev \in [Handle -> Handle0]
            /\ M.status \in [Handle -> SUBSET StatusBit]
        BY <1>2, <1>3, <3>3, <3>5, HandleFacts, <1>f DEF StatusBit
      <4> QED BY <1>2, <4>1, <4>2 DEF Lists, ListsOK
    <3>7. Ring(M.next, M.prev, ReadyAt(L, H, pri) \cup {t})
      <4>1. LinkedBetween(L.next, L.prev, M.next, M.prev, last, t, hq, ReadyAt(L, H, pri))
        BY <1>2, <3>3, <3>5, <1>p, <1>f DEF LinkedBetween
      <4>2. Ring(L.next, L.prev, ReadyAt(L, H, pri))
        BY <1>2 DEF WellFormed, RingsFormed
      <4> HIDE DEF pri, hq
      <4>3. t \notin ReadyAt(L, H, pri)
        BY <1>1, Zenon DEF ReadyAt
      <4> QED BY <3>1, <4>1, <4>2, <4>3, RingInsert
    <3>8. \A h \in Handle \ (ReadyAt(L, H, pri) \cup {t}) :
            M.next[h] = L.next[h] /\ M.prev[h] = L.prev[h]
      BY <1>2, <3>1, <3>2, <3>5, <1>f
    <3> QED BY <3>1, <3>5, <3>6, <3>7, <3>8
  <2> QED BY <2>1, <2>2
<1>7. ListsOK(M, K)
  BY <1>1, <1>2, <1>6 DEF ListsOK, Homes
<1>8. /\ \A p \in Priority : p # pri => Ring(M.next, M.prev, ReadyAt(L, H, p))
      /\ Chain(M.next, M.prev, L.TimeoutList, Members(H, "timeout"))
      /\ Stack(M.next, L.freeTCB, Members(H, "free"))
      /\ \A h \in Members(H, "loose") \ {t} : M.next[h] = 0 /\ M.prev[h] = 0
  <2> DEFINE T == ReadyAt(L, H, pri) \cup {t}
  <2>1. /\ \A p \in Priority : p # pri => ReadyAt(L, H, p) \cap T = {}
        /\ Members(H, "timeout") \cap T = {} /\ Members(H, "free") \cap T = {}
        /\ Members(H, "loose") \ T = Members(H, "loose") \ {t}
    BY <1>5, <1>p
  <2>2. SameLinks(L, M, T)
    BY <1>6 DEF SameLinks
  <2> HIDE DEF T, pri
  <2>3. Framed(L, H, M, T)
    BY <2>2, Frame
  <2> QED BY <2>1, <2>3 DEF Framed
<1>9. RingsFormed(M, K)
  <2>1. SUFFICES ASSUME NEW p \in Priority
                 PROVE  /\ Ring(M.next, M.prev, ReadyAt(M, K, p))
                        /\ IF ReadyAt(M, K, p) = {} THEN M.readyQ[p] = 0
                                             ELSE M.readyQ[p] \in ReadyAt(M, K, p)
    BY DEF RingsFormed
  <2>2. CASE p = pri
    BY <1>4, <1>6, <2>2
  <2>3. CASE p # pri
    BY <1>4, <1>6, <1>8, <2>3 DEF WellFormed, RingsFormed
  <2> QED BY <2>2, <2>3
<1>10. ChainFormed(M, K) /\ StackFormed(M, K)
  BY <1>3, <1>4, <1>8 DEF ChainFormed, StackFormed
<1>11. LooseFormed(M, K)
  <2>1. \A h \in Handle : "TIMEOUT" \in M.status[h] <=> K[h] = "timeout"
    BY <1>1, <1>2, <1>3, <1>f DEF WellFormed, LooseFormed
  <2>2. \A h \in Members(H, "ready") \cup {t} : "READY" \in M.status[h]
    BY <1>2, <1>3, <1>f, <1>p DEF WellFormed, LooseFormed
  <2> QED BY <1>4, <1>8, <2>1, <2>2 DEF LooseFormed
<1> QED BY <1>6, <1>7, <1>9, <1>10, <1>11 DEF WellFormed

(* Removal from a ready queue: the ring of t closes behind it, and the     *)
(* head moves on if it was t.  The running thread may be on no queue, as   *)
(* the first thread is; then only its status changes.                      *)
LEMMA RemoveFromReadyQueueKeeps ==
  ASSUME NEW L, NEW H, WellFormed(L, H), NEW t \in Handle, H[t] \in {"ready", "loose"},
         NEW M, M = TCBRemoveFromReadyQueue(L, t),
         NEW K, K = [H EXCEPT ![t] = "loose"]
  PROVE  WellFormed(M, K)
<1> DEFINE pri == L.priority[t]
           n   == L.next[t]
           l   == L.prev[t]
           hq  == L.readyQ[pri]
<1>f. FieldsTyped(L, H)
  BY FieldTypes DEF WellFormed
<1>p. PlacesTold(L, H)
  BY Places
<1> USE DEF FieldsTyped, PlacesTold
<1>1. /\ H[t] \in {"ready", "loose"} /\ K = [H EXCEPT ![t] = "loose"]
      /\ M = TCBRemoveFromReadyQueue(L, t)
      /\ L.panic = FALSE
  BY DEF WellFormed
<1>2. /\ ListsOK(L, H) /\ pri \in Priority /\ hq \in Handle0 /\ n \in Handle0 /\ l \in Handle0
  BY <1>f DEF WellFormed
<1>3. /\ M.status = [L.status EXCEPT ![t] = {}]
      /\ M.priority = L.priority /\ M.timeout = L.timeout
      /\ M.TimeoutList = L.TimeoutList /\ M.freeTCB = L.freeTCB
      /\ M.panic = FALSE
      /\ M.readyQ = [L.readyQ EXCEPT ![pri] = HeadWithout(L, t)]
      /\ M.next = Put(IF n = t THEN L.next ELSE Put(L.next, l, n), t, 0)
      /\ M.prev = Put(IF n = t THEN L.prev ELSE Put(L.prev, n, l), t, 0)
  BY <1>1, <1>2 DEF TCBRemoveFromReadyQueue, Lists, ListsOK
<1>4. /\ Members(K, "ready") = Members(H, "ready") \ {t} /\ Members(K, "loose") = Members(H, "loose") \cup {t}
      /\ Members(K, "timeout") = Members(H, "timeout") /\ Members(K, "free") = Members(H, "free")
      /\ \A p \in Priority : ReadyAt(M, K, p) = ReadyAt(L, H, p) \ {t}
  BY <1>1, <1>2, <1>3, <1>f DEF Members, ReadyAt
<1>5. /\ t \notin Members(H, "timeout") /\ t \notin Members(H, "free")
      /\ \A p : p # pri => t \notin ReadyAt(L, H, p)
  BY <1>1, <1>p
<1>6. /\ \A h \in Handle \ (ReadyAt(L, H, pri) \cup {t}) :
            M.next[h] = L.next[h] /\ M.prev[h] = L.prev[h]
      /\ M.next \in [Handle -> Handle0] /\ M.prev \in [Handle -> Handle0]
      /\ M.next[t] = 0 /\ M.prev[t] = 0
      /\ Ring(M.next, M.prev, ReadyAt(L, H, pri) \ {t})
      /\ IF ReadyAt(L, H, pri) \ {t} = {} THEN M.readyQ[pri] = 0
                                   ELSE M.readyQ[pri] \in ReadyAt(L, H, pri) \ {t}
      /\ M.readyQ[pri] \in Handle0
  <2>1. CASE H[t] = "loose"
    <3>1. n = 0 /\ l = 0 /\ t \notin ReadyAt(L, H, pri)
      BY <2>1, <1>p DEF WellFormed, LooseFormed
    <3>2. hq # t
      BY <1>2, <3>1, HandleFacts DEF WellFormed, RingsFormed
    <3>3. M.next = [L.next EXCEPT ![t] = 0] /\ M.prev = [L.prev EXCEPT ![t] = 0]
      BY <1>3, <3>1, HandleFacts DEF Put
    <3>4. \A h \in Handle : M.next[h] = L.next[h] /\ M.prev[h] = L.prev[h]
      BY <1>2, <3>1, <3>3, <1>f
    <3>5. M.readyQ[pri] = hq
      BY <1>2, <1>3, <3>2, <1>f DEF HeadWithout
    <3>6. Ring(M.next, M.prev, ReadyAt(L, H, pri))
      <4>1. Ring(L.next, L.prev, ReadyAt(L, H, pri))
        BY <1>2 DEF WellFormed, RingsFormed
      <4> QED BY <3>4, <4>1, <1>p, RingSame
    <3>7. ReadyAt(L, H, pri) \ {t} = ReadyAt(L, H, pri)
      BY <3>1
    <3>8. IF ReadyAt(L, H, pri) = {} THEN hq = 0 ELSE hq \in ReadyAt(L, H, pri)
      BY <1>2 DEF WellFormed, RingsFormed
    <3>9. M.next \in [Handle -> Handle0] /\ M.prev \in [Handle -> Handle0]
          /\ M.next[t] = 0 /\ M.prev[t] = 0
      BY <1>2, <3>3, <1>f, HandleFacts
    <3> QED BY <1>2, <3>4, <3>5, <3>6, <3>7, <3>8, <3>9
  <2>2. CASE H[t] = "ready"
    <3>1. t \in ReadyAt(L, H, pri) /\ Ring(L.next, L.prev, ReadyAt(L, H, pri)) /\ hq \in ReadyAt(L, H, pri)
      BY <1>2, <2>2, <1>p DEF WellFormed, RingsFormed
    <3>2. n \in ReadyAt(L, H, pri) /\ l \in ReadyAt(L, H, pri) /\ n \in Handle /\ l \in Handle
      BY <1>2, <3>1, Neighbours, <1>p
    <3>3. CASE n = t
      <4>1. ReadyAt(L, H, pri) = {t}
        BY <3>1, <3>3, RingAlone
      <4>2. M.next = [L.next EXCEPT ![t] = 0] /\ M.prev = [L.prev EXCEPT ![t] = 0]
        BY <1>3, <3>3 DEF Put
      <4>3. M.readyQ[pri] = 0
        BY <1>2, <1>3, <3>1, <3>3, <4>1, <1>f DEF HeadWithout
      <4>4. Ring(M.next, M.prev, {})
        BY DEF Ring
      <4>5. M.next \in [Handle -> Handle0] /\ M.prev \in [Handle -> Handle0]
            /\ M.next[t] = 0 /\ M.prev[t] = 0
        BY <1>2, <4>2, <1>f, HandleFacts
      <4>6. \A h \in Handle \ {t} : M.next[h] = L.next[h] /\ M.prev[h] = L.prev[h]
        BY <1>2, <4>2, <1>f
      <4>7. ReadyAt(L, H, pri) \ {t} = {}
        BY <4>1
      <4> QED BY <4>1, <4>3, <4>4, <4>5, <4>6, <4>7, HandleFacts
    <3>4. CASE n # t
      <4>1. /\ M.next = [[L.next EXCEPT ![l] = n] EXCEPT ![t] = 0]
            /\ M.prev = [[L.prev EXCEPT ![n] = l] EXCEPT ![t] = 0]
        BY <1>3, <3>2, <3>4 DEF Put
      <4>2. M.next \in [Handle -> Handle0] /\ M.prev \in [Handle -> Handle0]
            /\ M.next[t] = 0 /\ M.prev[t] = 0
        BY <1>2, <4>1, <1>f, HandleFacts
      <4>3. \A g \in Handle \ {t} :
              /\ M.next[g] = IF g = l THEN n ELSE L.next[g]
              /\ M.prev[g] = IF g = n THEN l ELSE L.prev[g]
        BY <1>2, <3>2, <4>1, <1>f
      <4>4. Ring(M.next, M.prev, ReadyAt(L, H, pri) \ {t}) /\ n \in ReadyAt(L, H, pri) \ {t}
        <5>1. LinkedWithout(L.next, L.prev, M.next, M.prev, t, ReadyAt(L, H, pri))
          BY <4>3, <1>p DEF LinkedWithout
        <5> HIDE DEF pri
        <5> QED BY <3>1, <3>4, <5>1, RingRemove
      <4>5. M.readyQ[pri] = IF t # hq THEN hq ELSE n
        BY <1>2, <1>3, <3>4, <1>f DEF HeadWithout
      <4>6. \A h \in Handle \ (ReadyAt(L, H, pri) \cup {t}) :
              M.next[h] = L.next[h] /\ M.prev[h] = L.prev[h]
        BY <3>2, <4>3
      <4> QED BY <1>2, <3>1, <4>2, <4>4, <4>5, <4>6
    <3> QED BY <3>3, <3>4
  <2> QED BY <1>1, <2>1, <2>2
<1>7. ListsOK(M, K)
  <2>1. M = [L EXCEPT !.readyQ = M.readyQ, !.prev = M.prev, !.next = M.next,
                          !.status = M.status]
    BY <1>1, <1>2 DEF TCBRemoveFromReadyQueue, Lists, ListsOK
  <2>2. M.status \in [Handle -> SUBSET StatusBit] /\ M.readyQ \in [Priority -> Handle0]
    <3>1. HeadWithout(L, t) \in Handle0
      BY <1>2, HandleFacts DEF HeadWithout
    <3> QED BY <1>2, <1>3, <3>1, <1>f
  <2>3. M \in Lists
    BY <1>2, <1>6, <2>1, <2>2 DEF Lists, ListsOK
  <2> QED BY <1>1, <1>2, <2>3 DEF ListsOK, Homes
<1>8. /\ \A p \in Priority : p # pri => Ring(M.next, M.prev, ReadyAt(L, H, p))
      /\ Chain(M.next, M.prev, L.TimeoutList, Members(H, "timeout"))
      /\ Stack(M.next, L.freeTCB, Members(H, "free"))
      /\ \A h \in Members(H, "loose") \ {t} : M.next[h] = 0 /\ M.prev[h] = 0
  <2> DEFINE T == ReadyAt(L, H, pri) \cup {t}
  <2>1. /\ \A p \in Priority : p # pri => ReadyAt(L, H, p) \cap T = {}
        /\ Members(H, "timeout") \cap T = {} /\ Members(H, "free") \cap T = {}
        /\ Members(H, "loose") \ T = Members(H, "loose") \ {t}
    BY <1>5, <1>p
  <2>2. SameLinks(L, M, T)
    BY <1>6 DEF SameLinks
  <2> HIDE DEF T, pri
  <2>3. Framed(L, H, M, T)
    BY <2>2, Frame
  <2> QED BY <2>1, <2>3 DEF Framed
<1>9. RingsFormed(M, K)
  <2>1. SUFFICES ASSUME NEW p \in Priority
                 PROVE  /\ Ring(M.next, M.prev, ReadyAt(M, K, p))
                        /\ IF ReadyAt(M, K, p) = {} THEN M.readyQ[p] = 0
                                             ELSE M.readyQ[p] \in ReadyAt(M, K, p)
    BY DEF RingsFormed
  <2>2. CASE p = pri
    BY <1>4, <1>6, <2>2
  <2>3. CASE p # pri
    <3>1. M.readyQ[p] = L.readyQ[p]
      BY <1>2, <1>3, <2>3, <1>f
    <3>2. ReadyAt(L, H, p) \ {t} = ReadyAt(L, H, p)
      BY <1>5, <2>3
    <3> QED BY <1>4, <1>8, <2>3, <3>1, <3>2 DEF WellFormed, RingsFormed
  <2> QED BY <2>2, <2>3
<1>10. ChainFormed(M, K) /\ StackFormed(M, K)
  BY <1>3, <1>4, <1>8 DEF ChainFormed, StackFormed
<1>11. LooseFormed(M, K)
  <2>1. \A h \in Handle : "TIMEOUT" \in M.status[h] <=> K[h] = "timeout"
    BY <1>1, <1>2, <1>3, <1>f DEF WellFormed, LooseFormed
  <2>2. \A h \in Members(H, "ready") \ {t} : "READY" \in M.status[h]
    BY <1>2, <1>3, <1>f, <1>p DEF WellFormed, LooseFormed
  <2> QED BY <1>4, <1>6, <1>8, <2>1, <2>2 DEF LooseFormed
<1> QED BY <1>3, <1>7, <1>9, <1>10, <1>11 DEF WellFormed

(* The walk of TCBInsertIntoTimeoutList stops at the head of the list, or  *)
(* right behind a TCB of the list.                                         *)
LEMMA WalkEndsOnList ==
  ASSUME NEW L, NEW H, WellFormed(L, H), NEW to \in Int
  PROVE  LET w == WalkEnd(L, to)
         IN  /\ w \in Walk
             /\ w.q = 0 => w.p = L.TimeoutList
             /\ w.q # 0 => w.q \in Members(H, "timeout") /\ w.p = L.next[w.q]
<1> DEFINE f == WalkStep(L)
           s == [q |-> 0, p |-> L.TimeoutList, to |-> to]
           G == {w \in Walk : /\ w.q = 0 => w.p = L.TimeoutList
                              /\ w.q # 0 => w.q \in Members(H, "timeout") /\ w.p = L.next[w.q]}
<1>f. FieldsTyped(L, H)
  BY FieldTypes DEF WellFormed
<1> USE DEF FieldsTyped, PlacesTold
<1>1. L.TimeoutList \in Handle0 /\ L.next \in [Handle -> Handle0]
      /\ L.timeout \in [Handle -> Int]
  BY <1>f DEF WellFormed
<1>2. s \in Walk /\ s \in G
  BY <1>1, HandleFacts DEF Walk
<1>3. f \in [Walk -> Walk]
  <2>1. ASSUME NEW w \in Walk, WalkOn(L, w)
        PROVE  [q |-> w.p, p |-> L.next[w.p], to |-> w.to - L.timeout[w.p]] \in Walk
    <3>1. w.p \in Handle /\ w.to \in Int
      BY <2>1, HandleFacts DEF WalkOn, Walk
    <3>2. L.next[w.p] \in Handle0 /\ w.to - L.timeout[w.p] \in Int
      BY <1>1, <3>1
    <3> QED BY <3>1, <3>2, HandleFacts DEF Walk
  <2> QED BY <2>1 DEF WalkStep
<1>4. ASSUME NEW w \in Walk, w \in G PROVE f[w] \in G
  <2>1. CASE ~WalkOn(L, w)
    BY <2>1, <1>4 DEF WalkStep
  <2>2. CASE WalkOn(L, w)
    <3>1. w.p \in Handle
      BY <2>2, HandleFacts DEF WalkOn, Walk
    <3>2. w.p \in Members(H, "timeout")
      BY <1>4, <3>1, HandleFacts DEF WellFormed, ChainFormed, Chain
    <3>3. f[w] = [q |-> w.p, p |-> L.next[w.p], to |-> w.to - L.timeout[w.p]]
      BY <2>2 DEF WalkStep
    <3>4. f[w] \in Walk
      BY <1>3
    <3> QED BY <3>1, <3>2, <3>3, <3>4, HandleFacts
  <2> QED BY <2>1, <2>2
<1>5. \A n \in Nat : Iterate(f, s)[n] \in Walk \cap G
  <2> HIDE DEF f, s, G
  <2> QED BY <1>2, <1>3, <1>4, IterateInvariant
<1>6. WalkEnd(L, to) \in G
  BY <1>5, HandleFacts DEF WalkEnd
<1> QED BY <1>6

(* Insertion into the timeout list, where the walk ended.                  *)
LEMMA InsertIntoTimeoutListKeeps ==
  ASSUME NEW L, NEW H, WellFormed(L, H), NEW t \in Handle, H[t] = "loose",
         NEW to \in Int, NEW M, M = TCBInsertIntoTimeoutList(L, t, to),
         NEW K, K = [H EXCEPT ![t] = "timeout"]
  PROVE  WellFormed(M, K)
<1> DEFINE R == [L EXCEPT !.status[t] = @ \cup {"TIMEOUT"}]
           w == WalkEnd(L, to)
           q == w.q
           p == w.p
<1>f. FieldsTyped(L, H)
  BY FieldTypes DEF WellFormed
<1>p. PlacesTold(L, H)
  BY Places
<1> USE DEF FieldsTyped, PlacesTold
<1>1. /\ H[t] = "loose" /\ K = [H EXCEPT ![t] = "timeout"]
      /\ L.next[t] = 0 /\ L.prev[t] = 0
      /\ M = TCBInsertIntoTimeoutList(L, t, to)
      /\ L.panic = FALSE
  BY DEF WellFormed, LooseFormed, Members
<1>2. ListsOK(L, H) /\ to \in Int
  BY TcbAssumption DEF WellFormed
<1>3. /\ q \in Handle0 /\ p \in Handle0 /\ w.to \in Int
      /\ q = 0 => p = L.TimeoutList
      /\ q # 0 => q \in Members(H, "timeout") /\ p = L.next[q]
  BY <1>2, WalkEndsOnList DEF Walk
<1>4. p \in Members(H, "timeout") \cup {0} /\ L.TimeoutList \in Members(H, "timeout") \cup {0}
  BY <1>3 DEF WellFormed, ChainFormed, Chain
<1>5. /\ t \notin Members(H, "timeout") /\ t \notin Members(H, "free") /\ t # p /\ t # q
      /\ \A pri : t \notin ReadyAt(L, H, pri)
      /\ L.TimeoutList # t
  BY <1>1, <1>3, <1>4, <1>p, HandleFacts
<1>6. M = LinkTimeout(R, t, w)
  <2>1. /\ R.next = L.next /\ R.prev = L.prev /\ R.timeout = L.timeout
        /\ R.TimeoutList = L.TimeoutList
    BY <1>2 DEF ListsOK, Lists
  <2>2. WalkEnd(R, to) = w
    BY <2>1 DEF WalkEnd, WalkStep, WalkOn
  <2> HIDE DEF R, w
  <2>3. TCBInsertIntoTimeoutList(L, t, to)
          = IF R.next[t] # 0 \/ R.prev[t] # 0 THEN Panic(R) ELSE LinkTimeout(R, t, WalkEnd(L, to))
    BY <1>5, <2>1 DEF TCBInsertIntoTimeoutList, R
  <2> QED BY <1>1, <2>1, <2>2, <2>3 DEF w
<1>7. /\ M.status = [L.status EXCEPT ![t] = @ \cup {"TIMEOUT"}]
      /\ M.priority = L.priority /\ M.readyQ = L.readyQ
      /\ M.freeTCB = L.freeTCB /\ M.panic = FALSE
      /\ M.next = Put([L.next EXCEPT ![t] = p], q, t)
      /\ M.prev = Put([L.prev EXCEPT ![t] = q], p, t)
      /\ M.TimeoutList = IF q = 0 THEN t ELSE L.TimeoutList
      /\ M.timeout = [h \in Handle |-> CASE h = t -> w.to
                                         [] h = p -> L.timeout[h] - w.to
                                         [] OTHER -> L.timeout[h]]
  <2> HIDE DEF w
  <2> QED BY <1>1, <1>2, <1>6 DEF LinkTimeout, Lists, ListsOK
<1> HIDE DEF w
<1>8. /\ Members(K, "ready") = Members(H, "ready") /\ Members(K, "loose") = Members(H, "loose") \ {t}
      /\ Members(K, "timeout") = Members(H, "timeout") \cup {t} /\ Members(K, "free") = Members(H, "free")
      /\ \A pri \in Priority : ReadyAt(M, K, pri) = ReadyAt(L, H, pri)
  BY <1>1, <1>2, <1>7, <1>f DEF Members, ReadyAt
<1>9. \A g \in Handle :
        /\ M.next[g] = IF g = t THEN p ELSE IF g = q THEN t ELSE L.next[g]
        /\ M.prev[g] = IF g = t THEN q ELSE IF g = p THEN t ELSE L.prev[g]
  <2> HIDE DEF p, q
  <2> QED BY <1>2, <1>3, <1>5, <1>7, <1>f, HandleFacts DEF Put
<1>10. ListsOK(M, K)
  <2>1. M.next \in [Handle -> Handle0] /\ M.prev \in [Handle -> Handle0]
    <3> HIDE DEF p, q
    <3>1. /\ [L.next EXCEPT ![t] = p] \in [Handle -> Handle0]
          /\ [L.prev EXCEPT ![t] = q] \in [Handle -> Handle0]
      BY <1>2, <1>3, <1>f
    <3>2. t \in Handle0
      BY HandleFacts
    <3> QED BY <1>7, <3>1, <3>2 DEF Put
  <2>2. M.timeout \in [Handle -> Int]
    <3> HIDE DEF p
    <3>1. \A h \in Handle : (CASE h = t -> w.to
                               [] h = p -> L.timeout[h] - w.to
                               [] OTHER -> L.timeout[h]) \in Int
      BY <1>2, <1>3, <1>f
    <3> QED BY <1>7, <3>1
  <2>3. M.status \in [Handle -> SUBSET StatusBit] /\ M.TimeoutList \in Handle0
    BY <1>2, <1>7, <1>f, HandleFacts DEF StatusBit
  <2>4. M = [L EXCEPT !.next = M.next, !.prev = M.prev, !.timeout = M.timeout,
                          !.status = M.status, !.TimeoutList = M.TimeoutList]
    BY <1>2, <1>6 DEF LinkTimeout, Lists, ListsOK
  <2>5. M \in Lists
    BY <1>2, <2>1, <2>2, <2>3, <2>4 DEF Lists, ListsOK
  <2> QED BY <1>1, <1>2, <2>5 DEF ListsOK, Homes
<1>11. ChainFormed(M, K)
  <2>1. Chain(L.next, L.prev, L.TimeoutList, Members(H, "timeout"))
    BY DEF WellFormed, ChainFormed
  <2>2. LinkedBetween(L.next, L.prev, M.next, M.prev, q, t, p, Members(H, "timeout"))
    BY <1>9, <1>p DEF LinkedBetween
  <2>3. 0 \notin Members(H, "timeout") /\ t # 0 /\ t \notin Members(H, "timeout")
        /\ q \in Members(H, "timeout") \cup {0} /\ p \in Members(H, "timeout") \cup {0}
    BY <1>3, <1>4, <1>5, <1>p, HandleFacts
  <2>4. Chain(M.next, M.prev, M.TimeoutList, Members(H, "timeout") \cup {t})
    <3> HIDE DEF p, q
    <3>1. /\ q = 0 => p = L.TimeoutList
          /\ q # 0 => p = L.next[q]
          /\ M.TimeoutList = IF q = 0 THEN t ELSE L.TimeoutList
      BY <1>3, <1>7
    <3>2. p = IF q = 0 THEN L.TimeoutList ELSE L.next[q]
      BY <3>1
    <3>3. Chain(M.next, M.prev, FirstAfter(q, t, L.TimeoutList), Members(H, "timeout") \cup {t})
      BY <2>1, <2>2, <2>3, <3>2, ChainInsert
    <3> QED BY <3>1, <3>3 DEF FirstAfter
  <2> QED BY <1>8, <2>4 DEF ChainFormed
<1>12. /\ \A pri \in Priority : Ring(M.next, M.prev, ReadyAt(L, H, pri))
       /\ Stack(M.next, L.freeTCB, Members(H, "free"))
       /\ \A h \in Members(H, "loose") \ {t} : M.next[h] = 0 /\ M.prev[h] = 0
  <2> DEFINE T == Members(H, "timeout") \cup {t}
  <2>1. /\ \A pri \in Priority : ReadyAt(L, H, pri) \cap T = {}
        /\ Members(H, "free") \cap T = {} /\ Members(H, "loose") \ T = Members(H, "loose") \ {t}
    BY <1>5, <1>p
  <2>2. SameLinks(L, M, T)
    BY <1>3, <1>4, <1>9, HandleFacts DEF SameLinks
  <2> HIDE DEF T
  <2>3. Framed(L, H, M, T)
    BY <2>2, Frame
  <2> QED BY <2>1, <2>3 DEF Framed
<1>13. RingsFormed(M, K)
  <2>1. \A pri \in Priority : IF ReadyAt(L, H, pri) = {} THEN M.readyQ[pri] = 0
                                                ELSE M.readyQ[pri] \in ReadyAt(L, H, pri)
    BY <1>7 DEF WellFormed, RingsFormed
  <2> QED BY <1>8, <1>12, <2>1 DEF RingsFormed
<1>14. StackFormed(M, K)
  BY <1>7, <1>8, <1>12 DEF StackFormed
<1>15. LooseFormed(M, K)
  <2>1. \A h \in Handle : "TIMEOUT" \in M.status[h] <=> K[h] = "timeout"
    BY <1>1, <1>2, <1>7, <1>f DEF WellFormed, LooseFormed
  <2>2. \A h \in Members(H, "ready") : "READY" \in M.status[h]
    BY <1>2, <1>7, <1>f, <1>p DEF WellFormed, LooseFormed
  <2> QED BY <1>8, <1>12, <2>1, <2>2 DEF LooseFormed
<1> QED BY <1>7, <1>10, <1>11, <1>13, <1>14, <1>15 DEF WellFormed

(* What is left of a removal from the timeout list once the links have     *)
(* been closed around t: RemoveFromTimeoutList and PopTimeoutList differ   *)
(* in how they arrive at it.                                               *)
Unlinked(L, M, t) ==
  /\ M \in Lists /\ M.panic = FALSE
  /\ M.status = [L.status EXCEPT ![t] = {}]
  /\ M.priority = L.priority /\ M.readyQ = L.readyQ /\ M.freeTCB = L.freeTCB
  /\ M.TimeoutList = IF L.TimeoutList = t THEN L.next[t] ELSE L.TimeoutList
  /\ \A g \in Handle :
       /\ M.next[g] = IF g = t THEN 0 ELSE IF g = L.prev[t] THEN L.next[t] ELSE L.next[g]
       /\ M.prev[g] = IF g = t THEN 0 ELSE IF g = L.next[t] THEN L.prev[t] ELSE L.prev[g]

LEMMA RemovalKeeps ==
  ASSUME NEW L, NEW H, WellFormed(L, H), NEW t \in Members(H, "timeout"),
         NEW M, Unlinked(L, M, t), NEW K, K = [H EXCEPT ![t] = "loose"]
  PROVE  WellFormed(M, K)
<1> USE DEF Unlinked
<1>f. FieldsTyped(L, H)
  BY FieldTypes DEF WellFormed
<1>p. PlacesTold(L, H)
  BY Places
<1> USE DEF FieldsTyped, PlacesTold
<1>1. /\ ListsOK(L, H) /\ t \in Handle /\ H[t] = "timeout"
      /\ L.prev[t] \in Members(H, "timeout") \cup {0} /\ L.next[t] \in Members(H, "timeout") \cup {0}
  BY <1>p DEF WellFormed, ChainFormed, Chain
<1>2. /\ t \notin Members(H, "free") /\ \A pri : t \notin ReadyAt(L, H, pri)
      /\ Members(K, "ready") = Members(H, "ready") /\ Members(K, "loose") = Members(H, "loose") \cup {t}
      /\ Members(K, "timeout") = Members(H, "timeout") \ {t} /\ Members(K, "free") = Members(H, "free")
      /\ \A pri \in Priority : ReadyAt(M, K, pri) = ReadyAt(L, H, pri)
  BY <1>1, <1>f DEF Members, ReadyAt
<1>3. ListsOK(M, K)
  BY <1>1 DEF ListsOK, Homes
<1>4. ChainFormed(M, K)
  <2>1. Chain(L.next, L.prev, L.TimeoutList, Members(H, "timeout")) /\ 0 \notin Members(H, "timeout")
    BY <1>p, HandleFacts DEF WellFormed, ChainFormed
  <2>2. LinkedWithout(L.next, L.prev, M.next, M.prev, t, Members(H, "timeout"))
    BY <1>p DEF LinkedWithout
  <2>3. Chain(M.next, M.prev, M.TimeoutList, Members(H, "timeout") \ {t})
    BY <2>1, <2>2, ChainRemove
  <2> QED BY <1>2, <2>3 DEF ChainFormed
<1>5. /\ \A pri \in Priority : Ring(M.next, M.prev, ReadyAt(L, H, pri))
      /\ Stack(M.next, L.freeTCB, Members(H, "free"))
      /\ \A h \in Members(H, "loose") : M.next[h] = 0 /\ M.prev[h] = 0
  <2>1. /\ \A pri \in Priority : ReadyAt(L, H, pri) \cap Members(H, "timeout") = {}
        /\ Members(H, "free") \cap Members(H, "timeout") = {}
        /\ Members(H, "loose") \ Members(H, "timeout") = Members(H, "loose")
    BY <1>p
  <2>2. SameLinks(L, M, Members(H, "timeout"))
    BY <1>1, HandleFacts DEF SameLinks
  <2>3. Framed(L, H, M, Members(H, "timeout"))
    BY <2>2, Frame
  <2> QED BY <2>1, <2>3 DEF Framed
<1>6. RingsFormed(M, K)
  <2>1. \A pri \in Priority : IF ReadyAt(L, H, pri) = {} THEN M.readyQ[pri] = 0
                                                ELSE M.readyQ[pri] \in ReadyAt(L, H, pri)
    BY DEF WellFormed, RingsFormed
  <2> QED BY <1>2, <1>5, <2>1 DEF RingsFormed
<1>7. StackFormed(M, K)
  BY <1>2, <1>5 DEF StackFormed
<1>8. LooseFormed(M, K)
  <2>1. \A h \in Handle : "TIMEOUT" \in M.status[h] <=> K[h] = "timeout"
    BY <1>1, <1>f DEF WellFormed, LooseFormed
  <2>2. \A h \in Members(H, "ready") : "READY" \in M.status[h]
    BY <1>1, <1>f, <1>p DEF WellFormed, LooseFormed
  <2> QED BY <1>1, <1>2, <1>5, <2>1, <2>2 DEF LooseFormed
<1> QED BY <1>3, <1>4, <1>6, <1>7, <1>8 DEF WellFormed

(* Removal from anywhere in the timeout list.                              *)
LEMMA RemoveFromTimeoutListKeeps ==
  ASSUME NEW L, NEW H, WellFormed(L, H), NEW t \in Handle, H[t] = "timeout",
         NEW M, M = TCBRemoveFromTimeoutList(L, t),
         NEW K, K = [H EXCEPT ![t] = "loose"]
  PROVE  WellFormed(M, K)
<1> DEFINE n == L.next[t]
           l == L.prev[t]
<1>f. FieldsTyped(L, H)
  BY FieldTypes DEF WellFormed
<1> USE DEF FieldsTyped, PlacesTold
<1>1. /\ t \in Members(H, "timeout") /\ K = [H EXCEPT ![t] = "loose"]
      /\ M = TCBRemoveFromTimeoutList(L, t)
      /\ L.panic = FALSE
  BY DEF WellFormed, Members
<1>2. /\ ListsOK(L, H) /\ n \in Handle0 /\ l \in Handle0 /\ n # t /\ l # t
      /\ n = 0 \/ n \in Handle
  <2>1. n # t
    <3>1. \E h \in {t} : L.prev[h] \notin {t}
      BY <1>1, {t} \in SUBSET Members(H, "timeout") DEF WellFormed, ChainFormed, Chain
    <3> QED BY <1>1, <3>1, HandleFacts DEF WellFormed, ChainFormed, Chain
  <2> QED BY <1>1, <2>1, <1>f, HandleFacts DEF WellFormed, ChainFormed, Chain
<1>3. /\ M.status = [L.status EXCEPT ![t] = {}]
      /\ M.priority = L.priority /\ M.readyQ = L.readyQ
      /\ M.freeTCB = L.freeTCB /\ M.panic = FALSE
      /\ M.timeout = WaitsWithout(L, t)
      /\ M.TimeoutList = IF L.TimeoutList = t THEN n ELSE L.TimeoutList
      /\ M.next = Put(Put(L.next, l, n), t, 0)
      /\ M.prev = Put(Put(L.prev, n, l), t, 0)
  BY <1>1, <1>2 DEF TCBRemoveFromTimeoutList, Lists, ListsOK
<1>4. M \in Lists
  <2>1. WaitsWithout(L, t) \in [Handle -> Int]
    BY <1>2, <1>f DEF WaitsWithout
  <2>2. M.next \in [Handle -> Handle0] /\ M.prev \in [Handle -> Handle0]
    <3> HIDE DEF n, l
    <3> QED BY <1>2, <1>3, <1>f, HandleFacts DEF Put
  <2>3. M.TimeoutList \in Handle0 /\ M.status \in [Handle -> SUBSET StatusBit]
    BY <1>2, <1>3, <1>f
  <2>4. M = [L EXCEPT !.prev = M.prev, !.next = M.next, !.timeout = M.timeout,
                          !.TimeoutList = M.TimeoutList, !.status = M.status]
    BY <1>1, <1>2 DEF TCBRemoveFromTimeoutList, Lists, ListsOK
  <2> QED BY <1>2, <1>3, <2>1, <2>2, <2>3, <2>4 DEF Lists, ListsOK
<1>5. \A g \in Handle :
        /\ M.next[g] = IF g = t THEN 0 ELSE IF g = l THEN n ELSE L.next[g]
        /\ M.prev[g] = IF g = t THEN 0 ELSE IF g = n THEN l ELSE L.prev[g]
  <2> HIDE DEF n, l
  <2> QED BY <1>2, <1>3, <1>f DEF Put
<1>6. Unlinked(L, M, t)
  BY <1>1, <1>3, <1>4, <1>5 DEF Unlinked
<1> HIDE DEF n, l
<1> QED BY <1>1, <1>6, RemovalKeeps

(* The head leaves the timeout list.                                       *)
LEMMA PopTimeoutListKeeps ==
  ASSUME NEW L, NEW H, WellFormed(L, H), L.TimeoutList # 0,
         NEW M, M = TCBPopTimeoutList(L),
         NEW K, K = [H EXCEPT ![L.TimeoutList] = "loose"]
  PROVE  WellFormed(M, K)
<1> DEFINE t == L.TimeoutList
           n == L.next[t]
<1>f. FieldsTyped(L, H)
  BY FieldTypes DEF WellFormed
<1>p. PlacesTold(L, H)
  BY Places
<1> USE DEF FieldsTyped, PlacesTold
<1>1. /\ t \in Members(H, "timeout") /\ t \in Handle /\ L.prev[t] = 0
      /\ K = [H EXCEPT ![t] = "loose"]
      /\ M = TCBPopTimeoutList(L)
      /\ L.panic = FALSE
  BY <1>p DEF WellFormed, ChainFormed, Chain
<1>2. /\ ListsOK(L, H) /\ n \in Handle0 /\ n # t
      /\ n = 0 \/ n \in Handle
  <2>1. n # 0 => L.prev[n] = t
    BY <1>1 DEF WellFormed, ChainFormed, Chain
  <2>2. ListsOK(L, H)
    BY DEF WellFormed
  <2>3. n # t
    BY <1>1, <2>1, HandleFacts
  <2> QED BY <1>1, <2>2, <2>3, <1>f, HandleFacts
<1>3. /\ M.status = [L.status EXCEPT ![t] = {}]
      /\ M.priority = L.priority /\ M.readyQ = L.readyQ
      /\ M.freeTCB = L.freeTCB /\ M.panic = FALSE
      /\ M.timeout = L.timeout
      /\ M.TimeoutList = n
      /\ M.next = Put(L.next, t, 0)
      /\ M.prev = Put(Put(L.prev, t, 0), n, 0)
  BY <1>1, <1>2 DEF TCBPopTimeoutList, Lists, ListsOK
<1>4. M \in Lists
  <2>1. M.next \in [Handle -> Handle0] /\ M.prev \in [Handle -> Handle0]
    <3> HIDE DEF n, t
    <3> QED BY <1>2, <1>3, <1>f, HandleFacts DEF Put
  <2>2. M.status \in [Handle -> SUBSET StatusBit]
    BY <1>2, <1>3, <1>f
  <2>3. M = [L EXCEPT !.prev = M.prev, !.next = M.next,
                          !.TimeoutList = M.TimeoutList, !.status = M.status]
    BY <1>1, <1>2 DEF TCBPopTimeoutList, Lists, ListsOK
  <2> QED BY <1>2, <1>3, <2>1, <2>2, <2>3 DEF Lists, ListsOK
<1>5. \A g \in Handle :
        /\ M.next[g] = IF g = t THEN 0 ELSE IF g = 0 THEN n ELSE L.next[g]
        /\ M.prev[g] = IF g = t THEN 0 ELSE IF g = n THEN 0 ELSE L.prev[g]
  <2> HIDE DEF n, t
  <2> QED BY <1>1, <1>2, <1>3, <1>f, HandleFacts DEF Put
<1>6. Unlinked(L, M, t)
  BY <1>1, <1>3, <1>4, <1>5 DEF Unlinked
<1> HIDE DEF t
<1> QED BY <1>1, <1>6, RemovalKeeps

(* The head of the free list is taken.                                     *)
LEMMA AllocTCBKeeps ==
  ASSUME NEW L, NEW H, WellFormed(L, H), NEW pri \in Priority, L.freeTCB # 0,
         NEW M, M = TakeTCB(L, pri),
         NEW K, K = [H EXCEPT ![L.freeTCB] = "loose"]
  PROVE  WellFormed(M, K)
<1> DEFINE t == L.freeTCB
<1>f. FieldsTyped(L, H)
  BY FieldTypes DEF WellFormed
<1>p. PlacesTold(L, H)
  BY Places
<1> USE DEF FieldsTyped, PlacesTold
<1>1. /\ ListsOK(L, H) /\ t \in Members(H, "free") /\ t \in Handle
      /\ K = [H EXCEPT ![t] = "loose"]
      /\ M = TakeTCB(L, pri)
      /\ L.panic = FALSE
      /\ Stack(L.next, t, Members(H, "free"))
  BY <1>p DEF WellFormed, StackFormed, Stack
<1>2. /\ M.status = L.status /\ M.timeout = L.timeout
      /\ M.priority = [L.priority EXCEPT ![t] = pri]
      /\ M.readyQ = L.readyQ /\ M.TimeoutList = L.TimeoutList
      /\ M.freeTCB = L.next[t] /\ M.panic = FALSE
      /\ M.next = [L.next EXCEPT ![t] = 0]
      /\ M.prev = [L.prev EXCEPT ![t] = 0]
  BY <1>1 DEF TakeTCB, Lists, ListsOK
<1>3. ListsOK(M, K)
  <2>1. M = [L EXCEPT !.freeTCB = M.freeTCB, !.next = M.next, !.prev = M.prev,
                      !.priority = M.priority]
    BY <1>1 DEF TakeTCB, Lists, ListsOK
  <2>2. /\ M.freeTCB \in Handle0 /\ M.priority \in [Handle -> Priority]
        /\ M.next \in [Handle -> Handle0] /\ M.prev \in [Handle -> Handle0]
    <3> HIDE DEF t
    <3>1. t \in Handle /\ 0 \in Handle0
      BY <1>1, HandleFacts
    <3> QED BY <1>2, <1>f, <3>1
  <2>3. M \in Lists
    BY <2>1, <2>2, <1>f DEF Lists
  <2> QED BY <1>1, <2>3 DEF ListsOK, Homes
<1>4. /\ Members(K, "ready") = Members(H, "ready") /\ Members(K, "loose") = Members(H, "loose") \cup {t}
      /\ Members(K, "timeout") = Members(H, "timeout") /\ Members(K, "free") = Members(H, "free") \ {t}
      /\ \A p \in Priority : ReadyAt(M, K, p) = ReadyAt(L, H, p)
      /\ t \notin Members(H, "timeout") /\ \A p \in Priority : t \notin ReadyAt(L, H, p)
  <2>1. H[t] = "free"
    BY <1>1, <1>p
  <2> QED BY <1>1, <1>2, <2>1, <1>f DEF Members, ReadyAt
<1>5. /\ \A p \in Priority : Ring(M.next, M.prev, ReadyAt(L, H, p))
      /\ Chain(M.next, M.prev, L.TimeoutList, Members(H, "timeout"))
      /\ \A h \in Members(H, "loose") \ {t} : M.next[h] = 0 /\ M.prev[h] = 0
  <2>1. (\A p \in Priority : ReadyAt(L, H, p) \cap {t} = {}) /\ Members(H, "timeout") \cap {t} = {}
    BY <1>4
  <2>2. SameLinks(L, M, {t})
    BY <1>1, <1>2, <1>f DEF SameLinks
  <2>3. Framed(L, H, M, {t})
    BY <2>2, Frame
  <2> QED BY <2>1, <2>3 DEF Framed
<1>6. RingsFormed(M, K) /\ ChainFormed(M, K)
  BY <1>2, <1>4, <1>5 DEF WellFormed, RingsFormed, ChainFormed
<1>7. StackFormed(M, K)
  <2>1. \A g \in Members(H, "free") \ {t} : M.next[g] = L.next[g]
    BY <1>1, <1>2, <1>f, <1>p
  <2>2. 0 \notin Members(H, "free")
    BY <1>p, HandleFacts
  <2>3. Stack(M.next, L.next[t], Members(H, "free") \ {t})
    BY <1>1, <2>1, <2>2, StackPop
  <2> QED BY <1>2, <1>4, <2>3 DEF StackFormed
<1>8. LooseFormed(M, K)
  <2>1. M.next[t] = 0 /\ M.prev[t] = 0
    BY <1>1, <1>2, <1>f
  <2>2. \A h \in Handle : "TIMEOUT" \in M.status[h] <=> K[h] = "timeout"
    BY <1>1, <1>2, <1>f, <1>p DEF WellFormed, LooseFormed
  <2> QED BY <1>2, <1>4, <1>5, <2>1, <2>2 DEF WellFormed, LooseFormed
<1> QED BY <1>2, <1>3, <1>6, <1>7, <1>8 DEF WellFormed

(* A TCB off the L becomes the head of the free list.                  *)
LEMMA FreeTCBKeeps ==
  ASSUME NEW L, NEW H, WellFormed(L, H), NEW t \in Handle, H[t] = "loose",
         NEW M, M = iFreeTCB(L, t),
         NEW K, K = [H EXCEPT ![t] = "free"]
  PROVE  WellFormed(M, K)
<1>f. FieldsTyped(L, H)
  BY FieldTypes DEF WellFormed
<1>p. PlacesTold(L, H)
  BY Places
<1> USE DEF FieldsTyped, PlacesTold
<1>1. /\ ListsOK(L, H) /\ H[t] = "loose"
      /\ K = [H EXCEPT ![t] = "free"]
      /\ M = iFreeTCB(L, t)
      /\ L.panic = FALSE
  BY DEF WellFormed
<1>2. /\ M.status = L.status /\ M.timeout = L.timeout
      /\ M.priority = L.priority
      /\ M.readyQ = L.readyQ /\ M.TimeoutList = L.TimeoutList
      /\ M.freeTCB = t /\ M.panic = FALSE
      /\ M.next = [L.next EXCEPT ![t] = L.freeTCB]
      /\ M.prev = L.prev
  BY <1>1 DEF iFreeTCB, Lists, ListsOK
<1>3. ListsOK(M, K)
  <2>1. M = [L EXCEPT !.freeTCB = M.freeTCB, !.next = M.next]
    BY <1>1 DEF iFreeTCB, Lists, ListsOK
  <2>2. M.freeTCB \in Handle0 /\ M.next \in [Handle -> Handle0]
    BY <1>2, <1>f, HandleFacts
  <2>3. M \in Lists
    BY <2>1, <2>2, <1>f DEF Lists
  <2> QED BY <1>1, <2>3 DEF ListsOK, Homes
<1>4. /\ Members(K, "ready") = Members(H, "ready") /\ Members(K, "loose") = Members(H, "loose") \ {t}
      /\ Members(K, "timeout") = Members(H, "timeout") /\ Members(K, "free") = Members(H, "free") \cup {t}
      /\ \A p \in Priority : ReadyAt(M, K, p) = ReadyAt(L, H, p)
      /\ t \notin Members(H, "timeout") /\ t \notin Members(H, "free")
      /\ \A p \in Priority : t \notin ReadyAt(L, H, p)
  BY <1>1, <1>2, <1>f DEF Members, ReadyAt
<1>5. /\ \A p \in Priority : Ring(M.next, M.prev, ReadyAt(L, H, p))
      /\ Chain(M.next, M.prev, L.TimeoutList, Members(H, "timeout"))
      /\ \A h \in Members(H, "loose") \ {t} : M.next[h] = 0 /\ M.prev[h] = 0
  <2>1. (\A p \in Priority : ReadyAt(L, H, p) \cap {t} = {}) /\ Members(H, "timeout") \cap {t} = {}
    BY <1>4
  <2>2. SameLinks(L, M, {t})
    BY <1>1, <1>2, <1>f DEF SameLinks
  <2>3. Framed(L, H, M, {t})
    BY <2>2, Frame
  <2> QED BY <2>1, <2>3 DEF Framed
<1>6. RingsFormed(M, K) /\ ChainFormed(M, K)
  BY <1>2, <1>4, <1>5 DEF WellFormed, RingsFormed, ChainFormed
<1>7. StackFormed(M, K)
  <2>1. \A g \in Members(H, "free") \cup {t} :
          M.next[g] = IF g = t THEN L.freeTCB ELSE L.next[g]
    BY <1>1, <1>2, <1>f, <1>p
  <2>2. 0 \notin Members(H, "free") /\ t # 0
    BY <1>p, HandleFacts
  <2>3. Stack(L.next, L.freeTCB, Members(H, "free"))
    BY DEF WellFormed, StackFormed
  <2>4. Stack(M.next, t, Members(H, "free") \cup {t})
    BY <1>4, <2>1, <2>2, <2>3, StackPush
  <2> QED BY <1>2, <1>4, <2>4 DEF StackFormed
<1>8. LooseFormed(M, K)
  <2>1. \A h \in Handle : "TIMEOUT" \in M.status[h] <=> K[h] = "timeout"
    BY <1>1, <1>2, <1>f DEF WellFormed, LooseFormed
  <2> QED BY <1>2, <1>4, <1>5, <2>1 DEF WellFormed, LooseFormed
<1> QED BY <1>2, <1>3, <1>6, <1>7, <1>8 DEF WellFormed

(* The head of a ready queue moves on to another of its threads.           *)
LEMMA RotateKeeps ==
  ASSUME NEW L, NEW H, WellFormed(L, H), NEW t \in Handle, H[t] = "ready",
         NEW M, M = [L EXCEPT !.readyQ[L.priority[t]] = L.next[t]]
  PROVE  WellFormed(M, H)
<1> DEFINE pri == L.priority[t]
<1>f. FieldsTyped(L, H)
  BY FieldTypes DEF WellFormed
<1>p. PlacesTold(L, H)
  BY Places
<1> USE DEF FieldsTyped, PlacesTold
<1>1. /\ ListsOK(L, H) /\ t \in ReadyAt(L, H, pri) /\ pri \in Priority
      /\ M = [L EXCEPT !.readyQ[pri] = L.next[t]]
  BY <1>f, <1>p DEF WellFormed
<1>2. L.next[t] \in ReadyAt(L, H, pri) /\ L.next[t] \in Handle
  BY <1>1, Neighbours, <1>p
<1>3. /\ M.status = L.status /\ M.timeout = L.timeout
      /\ M.priority = L.priority /\ M.TimeoutList = L.TimeoutList
      /\ M.freeTCB = L.freeTCB /\ M.panic = L.panic
      /\ M.next = L.next /\ M.prev = L.prev
      /\ M.readyQ = [L.readyQ EXCEPT ![pri] = L.next[t]]
  BY <1>1 DEF Lists, ListsOK
<1>4. ListsOK(M, H)
  BY <1>1, <1>2, HandleFacts DEF ListsOK, Lists
<1>5. \A p \in Priority : ReadyAt(M, H, p) = ReadyAt(L, H, p)
  BY <1>1, <1>3 DEF Members, ReadyAt
<1>6. RingsFormed(M, H)
  <2>1. SUFFICES ASSUME NEW p \in Priority
                 PROVE  /\ Ring(M.next, M.prev, ReadyAt(L, H, p))
                        /\ IF ReadyAt(L, H, p) = {} THEN M.readyQ[p] = 0 ELSE M.readyQ[p] \in ReadyAt(L, H, p)
    BY <1>5 DEF RingsFormed
  <2>2. M.readyQ[p] = IF p = pri THEN L.next[t] ELSE L.readyQ[p]
    BY <1>1, <1>3, <1>f
  <2>3. /\ Ring(L.next, L.prev, ReadyAt(L, H, p))
        /\ IF ReadyAt(L, H, p) = {} THEN L.readyQ[p] = 0 ELSE L.readyQ[p] \in ReadyAt(L, H, p)
    BY DEF WellFormed, RingsFormed
  <2> QED BY <1>2, <1>3, <2>2, <2>3
<1>7. ChainFormed(M, H) /\ StackFormed(M, H) /\ LooseFormed(M, H) /\ ~M.panic
  BY <1>1, <1>3, <1>5 DEF WellFormed, ChainFormed, StackFormed, LooseFormed
<1> QED BY <1>4, <1>6, <1>7 DEF WellFormed

(* The callers write the status of a TCB too, and the priority of one that *)
(* is on no ready queue.                                                   *)
LEMMA StatusKeeps ==
  ASSUME NEW L, NEW H, WellFormed(L, H), NEW s \in [Handle -> SUBSET StatusBit],
         \A h \in Handle : "TIMEOUT" \in s[h] <=> H[h] = "timeout",
         \A h \in Handle : H[h] = "ready" => "READY" \in s[h],
         NEW M, M = [L EXCEPT !.status = s]
  PROVE  WellFormed(M, H)
<1>f. FieldsTyped(L, H)
  BY FieldTypes DEF WellFormed
<1> USE DEF FieldsTyped
<1>1. /\ M.status = s /\ M.timeout = L.timeout /\ M.priority = L.priority
      /\ M.readyQ = L.readyQ /\ M.TimeoutList = L.TimeoutList
      /\ M.freeTCB = L.freeTCB /\ M.panic = L.panic
      /\ M.next = L.next /\ M.prev = L.prev
  BY <1>f DEF Lists
<1>2. ListsOK(M, H)
  BY <1>f DEF Lists, ListsOK
<1>3. \A p \in Priority : ReadyAt(M, H, p) = ReadyAt(L, H, p)
  BY <1>1 DEF ReadyAt
<1>4. RingsFormed(M, H) /\ ChainFormed(M, H) /\ StackFormed(M, H)
  BY <1>1, <1>3 DEF WellFormed, RingsFormed, ChainFormed, StackFormed
<1>5. LooseFormed(M, H)
  BY <1>1 DEF WellFormed, LooseFormed, Members
<1> QED BY <1>1, <1>2, <1>4, <1>5 DEF WellFormed

LEMMA PriorityKeeps ==
  ASSUME NEW L, NEW H, WellFormed(L, H), NEW t \in Handle, H[t] # "ready",
         NEW pri \in Priority, NEW M, M = [L EXCEPT !.priority[t] = pri]
  PROVE  WellFormed(M, H)
<1>f. FieldsTyped(L, H)
  BY FieldTypes DEF WellFormed
<1> USE DEF FieldsTyped
<1>1. /\ M.status = L.status /\ M.timeout = L.timeout
      /\ M.priority = [L.priority EXCEPT ![t] = pri]
      /\ M.readyQ = L.readyQ /\ M.TimeoutList = L.TimeoutList
      /\ M.freeTCB = L.freeTCB /\ M.panic = L.panic
      /\ M.next = L.next /\ M.prev = L.prev
  BY <1>f DEF Lists
<1>2. ListsOK(M, H)
  BY <1>f DEF Lists, ListsOK
<1>3. \A p \in Priority : ReadyAt(M, H, p) = ReadyAt(L, H, p)
  BY <1>1, <1>f DEF ReadyAt
<1>4. RingsFormed(M, H) /\ ChainFormed(M, H) /\ StackFormed(M, H)
  BY <1>1, <1>3 DEF WellFormed, RingsFormed, ChainFormed, StackFormed
<1>5. LooseFormed(M, H)
  BY <1>1 DEF WellFormed, LooseFormed, Members
<1> QED BY <1>1, <1>2, <1>4, <1>5 DEF WellFormed

-----------------------------------------------------------------------------
(* What the routines do to the status, and that they leave the priorities. *)
LEMMA InsertIntoReadyQueueFields ==
  ASSUME NEW L \in Lists, NEW t \in Handle,
         NEW M, M = TCBInsertIntoReadyQueue(L, t)
  PROVE  /\ M.status = [L.status EXCEPT ![t] = @ \cup {"READY"}]
         /\ M.priority = L.priority
BY DEF TCBInsertIntoReadyQueue, Lists, Panic

LEMMA RemoveFromReadyQueueFields ==
  ASSUME NEW L \in Lists, NEW t \in Handle,
         NEW M, M = TCBRemoveFromReadyQueue(L, t)
  PROVE  /\ M.status = [L.status EXCEPT ![t] = {}]
         /\ M.priority = L.priority
BY DEF TCBRemoveFromReadyQueue, Lists

LEMMA InsertIntoTimeoutListFields ==
  ASSUME NEW L, NEW H, WellFormed(L, H), NEW t \in Handle, H[t] = "loose", NEW to \in Int,
         NEW M, M = TCBInsertIntoTimeoutList(L, t, to)
  PROVE  /\ M.status = [L.status EXCEPT ![t] = @ \cup {"TIMEOUT"}]
         /\ M.priority = L.priority
<1> DEFINE R == [L EXCEPT !.status[t] = @ \cup {"TIMEOUT"}]
<1>1. L \in Lists /\ L.TimeoutList # t
  BY HandleFacts DEF WellFormed, ListsOK, ChainFormed, Chain, Members
<1>2. R.status = [L.status EXCEPT ![t] = @ \cup {"TIMEOUT"}] /\ R.priority = L.priority /\ R \in Lists
  BY <1>1 DEF Lists, StatusBit
<1>3. M = Panic(R) \/ M = LinkTimeout(R, t, WalkEnd(R, to))
  <2>1. R.timeout = L.timeout /\ R.next = L.next /\ R.TimeoutList = L.TimeoutList
    BY <1>1 DEF Lists
  <2> HIDE DEF R
  <2>2. WalkEnd(R, to) = WalkEnd(L, to)
    BY <2>1 DEF WalkEnd, WalkStep, WalkOn
  <2> QED BY <1>1, <2>2 DEF TCBInsertIntoTimeoutList, R
<1> HIDE DEF R
<1> QED BY <1>2, <1>3 DEF Panic, LinkTimeout, Lists

LEMMA RemoveFromTimeoutListFields ==
  ASSUME NEW L \in Lists, NEW t \in Handle,
         NEW M, M = TCBRemoveFromTimeoutList(L, t)
  PROVE  /\ M.status = [L.status EXCEPT ![t] = {}]
         /\ M.priority = L.priority
BY DEF TCBRemoveFromTimeoutList, Lists

LEMMA TakeTCBFields ==
  ASSUME NEW L, NEW H, WellFormed(L, H), L.freeTCB # 0, NEW pri,
         NEW M, M = TakeTCB(L, pri)
  PROVE  /\ M.status = L.status
         /\ L.freeTCB \in Handle /\ H[L.freeTCB] = "free"
<1>1. L.freeTCB \in Members(H, "free") /\ L \in Lists
  BY DEF WellFormed, ListsOK, StackFormed, Stack
<1> QED BY <1>1 DEF TakeTCB, Lists, Members

=============================================================================
