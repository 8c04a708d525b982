--------------------------- MODULE TcbLists_proofs ---------------------------
(***************************************************************************)
(* The lists of kernel/tcb.c stay well formed, for any number of TCBs and  *)
(* of priorities and any timeouts: what Tcb_proofs says of each routine,   *)
(* put together for the state machine that calls them in any order.  And   *)
(* they implement the sequences of ThreadLists: the second half of the     *)
(* module strings up the members of each list, says what each routine does *)
(* to the string, and shows that the string is what TcbRefinement reads    *)
(* off the links.                                                          *)
(***************************************************************************)
EXTENDS TcbRefinement, Tcb_proofs, SequenceTheorems

-----------------------------------------------------------------------------
(* The inductive invariant is the conjunction of the shapes; none of them  *)
(* is inductive without the others.                                        *)
ListsInv ==
  /\ TypeOK
  /\ ReadyRings
  /\ TimeoutChain
  /\ FreeStack
  /\ LooseAndFlagged
  /\ NoPanic

LEMMA InvIsWellFormed == ListsInv <=> WellFormed(lists, home)
BY DEF ListsInv, WellFormed, ListsOK, TypeOK, ReadyRings, TimeoutChain, FreeStack,
       LooseAndFlagged, NoPanic

(* Each call keeps the lists well formed.                                  *)
LEMMA CallKeeps ==
  ASSUME WellFormed(lists, home), [Next]_vars
  PROVE  WellFormed(lists', home')
<1>1. CASE \E pri \in Priority : AllocTCB(pri)
  BY <1>1, AllocTCBKeeps DEF AllocTCB, Moved
<1>2. CASE \E h \in Handle : FreeTCB(h)
  BY <1>2, FreeTCBKeeps DEF FreeTCB, Moved
<1>3. CASE \E h \in Handle : InsertIntoReadyQueue(h)
  BY <1>3, InsertIntoReadyQueueKeeps DEF InsertIntoReadyQueue, Moved
<1>4. CASE \E h \in Handle : RemoveFromReadyQueue(h)
  BY <1>4, RemoveFromReadyQueueKeeps DEF RemoveFromReadyQueue, Moved
<1>5. CASE \E h \in Handle, to \in Timeouts : InsertIntoTimeoutList(h, to)
  <2>1. PICK h \in Handle, to \in Timeouts : InsertIntoTimeoutList(h, to)
    BY <1>5
  <2>2. to \in Int
    BY TcbAssumption
  <2> QED BY <2>1, <2>2, InsertIntoTimeoutListKeeps DEF InsertIntoTimeoutList, Moved
<1>6. CASE \E h \in Handle : RemoveFromTimeoutList(h)
  BY <1>6, RemoveFromTimeoutListKeeps DEF RemoveFromTimeoutList, Moved
<1>7. CASE PopTimeoutList
  BY <1>7, PopTimeoutListKeeps DEF PopTimeoutList, Moved
<1>8. CASE \E h \in Handle : Rotate(h)
  BY <1>8, RotateKeeps DEF Rotate
<1>9. CASE UNCHANGED vars
  BY <1>9 DEF vars
<1> QED BY <1>1, <1>2, <1>3, <1>4, <1>5, <1>6, <1>7, <1>8, <1>9 DEF Next

-----------------------------------------------------------------------------
(***************************************************************************)
(* tcb.c keeps its lists well formed whatever the order of the calls: the  *)
(* links of the three kinds of list never mix, no TCB is lost or doubled,  *)
(* and the kernel's own checks never stop it.                              *)
(***************************************************************************)
THEOREM ListsStayWellFormed == Spec => []ListsInv
<1>1. Init => ListsInv
  BY BootWellFormed, InvIsWellFormed DEF Init
<1>2. ListsInv /\ [Next]_vars => ListsInv'
  <2>1. WellFormed(lists', home') => ListsInv'
    BY DEF ListsInv, WellFormed, ListsOK, TypeOK, ReadyRings, TimeoutChain, FreeStack,
           LooseAndFlagged, NoPanic
  <2> QED BY <2>1, CallKeeps, InvIsWellFormed
<1> QED BY <1>1, <1>2, PTL DEF Spec

(* Every variable keeps its type.                                          *)
COROLLARY ListsTyped == Spec => []TypeOK
<1>1. ListsInv => TypeOK
  BY DEF ListsInv
<1> QED BY <1>1, ListsStayWellFormed, PTL

(* The ready threads of a priority stay one ring that the head is part of. *)
COROLLARY ReadyRingsKept == Spec => []ReadyRings
<1>1. ListsInv => ReadyRings
  BY DEF ListsInv
<1> QED BY <1>1, ListsStayWellFormed, PTL

(* The waiting threads stay one chain from TimeoutList.                    *)
COROLLARY TimeoutChainKept == Spec => []TimeoutChain
<1>1. ListsInv => TimeoutChain
  BY DEF ListsInv
<1> QED BY <1>1, ListsStayWellFormed, PTL

(* The free TCBs stay one stack from freeTCB: none is handed out twice,    *)
(* none is lost.                                                           *)
COROLLARY FreeStackKept == Spec => []FreeStack
<1>1. ListsInv => FreeStack
  BY DEF ListsInv
<1> QED BY <1>1, ListsStayWellFormed, PTL

(* A TCB between lists stays without links, and the flags true.            *)
COROLLARY LooseAndFlaggedKept == Spec => []LooseAndFlagged
<1>1. ListsInv => LooseAndFlagged
  BY DEF ListsInv
<1> QED BY <1>1, ListsStayWellFormed, PTL

(* The checks for a thread that is on a list already never stop the kernel.*)
COROLLARY NeverPanics == Spec => []NoPanic
<1>1. ListsInv => NoPanic
  BY DEF ListsInv
<1> QED BY <1>1, ListsStayWellFormed, PTL

-----------------------------------------------------------------------------
(* I are the values of the rounds of the loop with body f, from s.         *)
Rounds(f, s, S, I) ==
  I \in [Nat -> S] /\ I[0] = s /\ \A k \in Nat : I[k + 1] = f[I[k]]

(* What Iterate gives are these values.                                    *)
LEMMA IterateRounds ==
  ASSUME NEW S, NEW f \in [S -> S], NEW s \in S
  PROVE  Rounds(f, s, S, Iterate(f, s))
BY IterateDef DEF Rounds

-----------------------------------------------------------------------------
(* A list as a sequence.  s names the members of Q in the order in which   *)
(* nx links them from head; the last of them leads to end: to no TCB on a  *)
(* chain or a stack, back to the head on a ring.                           *)
Threaded(nx, head, end, Q, s, n) ==
  /\ \A i \in 1 .. n : s[i] \in Q
  /\ \A g \in Q : \E i \in 1 .. n : s[i] = g
  /\ \A i, j \in 1 .. n : s[i] = s[j] => i = j
  /\ head = IF n = 0 THEN 0 ELSE s[1]
  /\ \A i \in 1 .. n : nx[s[i]] = IF i = n THEN end ELSE s[i + 1]

InLine(nx, head, end, Q, s) == s \in Seq(Q) /\ Threaded(nx, head, end, Q, s, Len(s))

(* A sequence of a length is in line if its places are.                    *)
LEMMA LineIs ==
  ASSUME NEW nx, NEW head, NEW end, NEW P, NEW Q, NEW s \in Seq(P), NEW n, n = Len(s),
         Threaded(nx, head, end, Q, s, n)
  PROVE  InLine(nx, head, end, Q, s)
<1>1. n \in Nat /\ s \in [1 .. n -> P]
  BY LenProperties
<1>2. \A i \in 1 .. n : s[i] \in Q
  BY DEF Threaded
<1>3. s \in [1 .. n -> Q]
  BY <1>1, <1>2
<1>4. s \in Seq(Q)
  BY <1>1, <1>3, SeqDef
<1> QED
  BY <1>4 DEF InLine

(* The links of other TCBs do not matter.                                  *)
LEMMA LineSame ==
  ASSUME NEW nx, NEW head, NEW end, NEW Q, NEW s, InLine(nx, head, end, Q, s),
         NEW mx, \A g \in Q : mx[g] = nx[g]
  PROVE  InLine(mx, head, end, Q, s)
BY DEF InLine, Threaded

(* What the operators on sequences that the lists implement do at a place. *)
LEMMA CutOut ==
  ASSUME NEW Q, NEW s \in Seq(Q), NEW m \in 1 .. Len(s) + 1, NEW n \in m - 1 .. Len(s),
         NEW k, k = n - m + 1, NEW a, a = SubSeq(s, m, n)
  PROVE  a \in Seq(Q) /\ Len(a) = k /\ \A j \in 1 .. k : a[j] = s[m + j - 1]
<1>1. Len(s) \in Nat /\ \A j \in 1 .. Len(s) : s[j] \in Q
  BY LenProperties
<1>2. m \in Int /\ n \in Int /\ m >= 1 /\ n <= Len(s) /\ m <= n + 1
  BY <1>1
<1>3. \A j \in m .. n : s[j] \in Q
  BY <1>1, <1>2
<1>4. /\ a \in Seq(Q) /\ Len(a) = IF m <= n THEN n - m + 1 ELSE 0
      /\ \A j \in 1 .. n - m + 1 : a[j] = s[m + j - 1]
  BY <1>2, <1>3, SubSeqProperties
<1>5. Len(a) = n - m + 1
  BY <1>2, <1>4
<1> QED
  BY <1>4, <1>5

(* A sequence behind another, place by place.                              *)
LEMMA Joined ==
  ASSUME NEW Q, NEW a \in Seq(Q), NEW b \in Seq(Q), NEW m, m = Len(a),
         NEW k, k = Len(a) + Len(b), NEW r, r = a \o b
  PROVE  /\ r \in Seq(Q) /\ Len(r) = k
         /\ \A j \in 1 .. k : r[j] = IF j <= m THEN a[j] ELSE b[j - m]
BY ConcatProperties

Entered(s, t, i, r, n) ==
  \A j \in 1 .. n + 1 : r[j] = IF j < i THEN s[j] ELSE IF j = i THEN t ELSE s[j - 1]

(* What InsertAt puts at each place.                                       *)
LEMMA InsertedAt ==
  ASSUME NEW Q, NEW s \in Seq(Q), NEW t, NEW i \in 1 .. Len(s) + 1,
         NEW r, r = InsertAt(s, i, t)
  PROVE  r \in Seq(Q \cup {t}) /\ Len(r) = Len(s) + 1 /\ Entered(s, t, i, r, Len(s))
<1>p. PICK P : P = Q \cup {t}
  OBVIOUS
<1>n. PICK n, h, k : n = Len(s) /\ h = i - 1 /\ k = n - i + 1
  OBVIOUS
<1>a. PICK a, b, c, d : /\ a = SubSeq(s, 1, h) /\ b = SubSeq(s, i, n)
                      /\ d = <<t>> /\ c = a \o d
  OBVIOUS
<1>1. n \in Nat /\ i \in 1 .. n + 1 /\ s \in Seq(P)
  BY <1>n, <1>p, LenProperties, SeqMonotonic
<1>2. /\ 1 \in 1 .. n + 1 /\ h \in 1 - 1 .. n /\ n \in i - 1 .. n
      /\ h = h - 1 + 1 /\ h \in Nat /\ i = h + 1 /\ n + 1 = i + k /\ k \in Nat
  BY <1>1, <1>n
<1>3. a \in Seq(P) /\ Len(a) = h /\ \A j \in 1 .. h : a[j] = s[1 + j - 1]
  BY <1>a, <1>n, <1>1, <1>2, CutOut
<1>4. b \in Seq(P) /\ Len(b) = k /\ \A j \in 1 .. k : b[j] = s[i + j - 1]
  BY <1>a, <1>n, <1>1, <1>2, CutOut
<1>5. d \in Seq(P) /\ Len(d) = 1 /\ d[1] = t
  BY <1>a, <1>p
<1>6. /\ c \in Seq(P) /\ Len(c) = i
      /\ \A j \in 1 .. i : c[j] = IF j <= h THEN a[j] ELSE d[j - h]
  <2>1. i = Len(a) + Len(d)
    BY <1>2, <1>3, <1>5
  <2>2. a \in Seq(P) /\ d \in Seq(P) /\ h = Len(a)
    BY <1>3, <1>5
  <2>3. c = a \o d
    BY <1>a
  <2> QED
    BY <2>1, <2>2, <2>3, Joined
<1>7. /\ r \in Seq(P) /\ Len(r) = n + 1
      /\ \A j \in 1 .. n + 1 : r[j] = IF j <= i THEN c[j] ELSE b[j - i]
  <2>1. n + 1 = Len(c) + Len(b)
    BY <1>2, <1>4, <1>6
  <2>2. r = c \o b
    BY <1>a, <1>n DEF InsertAt
  <2>3. c \in Seq(P) /\ b \in Seq(P) /\ i = Len(c)
    BY <1>4, <1>6
  <2> QED
    BY <2>1, <2>2, <2>3, Joined
<1>8. ASSUME NEW j \in 1 .. n + 1
      PROVE  r[j] = IF j < i THEN s[j] ELSE IF j = i THEN t ELSE s[j - 1]
  <2>1. CASE j < i
    <3>1. j \in 1 .. h /\ 1 + j - 1 = j /\ j \in 1 .. i /\ j <= i /\ j <= h
      BY <1>2, <2>1
    <3>2. r[j] = c[j] /\ c[j] = a[j] /\ a[j] = s[j]
      BY <1>3, <1>6, <1>7, <3>1
    <3> QED
      BY <2>1, <3>2
  <2>2. CASE j = i
    <3>1. j \in 1 .. i /\ j <= i /\ ~(j <= h) /\ j - h = 1 /\ ~(j < i)
      BY <1>2, <2>2
    <3>2. r[j] = c[j] /\ c[j] = t
      BY <1>5, <1>6, <1>7, <3>1
    <3> QED
      BY <2>2, <3>1, <3>2
  <2>3. CASE j > i
    <3>1. j - i \in 1 .. k /\ i + (j - i) - 1 = j - 1 /\ ~(j <= i) /\ ~(j < i) /\ j # i
      BY <1>2, <2>3
    <3>2. r[j] = b[j - i] /\ b[j - i] = s[j - 1]
      BY <1>4, <1>7, <3>1
    <3> QED
      BY <3>1, <3>2
  <2> QED
    BY <1>2, <2>1, <2>2, <2>3
<1> QED
  BY <1>n, <1>p, <1>7, <1>8 DEF Entered

Left(s, i, r, n) == \A j \in 1 .. n - 1 : r[j] = IF j < i THEN s[j] ELSE s[j + 1]

LEMMA RemovedAt ==
  ASSUME NEW Q, NEW s \in Seq(Q), NEW i \in 1 .. Len(s),
         NEW r, r = RemoveAt(s, i)
  PROVE  r \in Seq(Q) /\ Len(r) = Len(s) - 1 /\ Left(s, i, r, Len(s))
<1>n. PICK n, h, k, l : n = Len(s) /\ h = i - 1 /\ k = n - i /\ l = i + 1
  OBVIOUS
<1>a. PICK a, b : a = SubSeq(s, 1, h) /\ b = SubSeq(s, l, n)
  OBVIOUS
<1>1. n \in Nat /\ i \in 1 .. n
  BY <1>n, LenProperties
<1>2. /\ 1 \in 1 .. n + 1 /\ h \in 1 - 1 .. n /\ l \in 1 .. n + 1 /\ n \in l - 1 .. n
      /\ h = h - 1 + 1 /\ k = n - l + 1
      /\ h \in Nat /\ i = h + 1 /\ l = h + 2 /\ n - 1 = h + k /\ k \in Nat
  BY <1>1, <1>n
<1>3. a \in Seq(Q) /\ Len(a) = h /\ \A j \in 1 .. h : a[j] = s[1 + j - 1]
  BY <1>a, <1>n, <1>2, CutOut
<1>4. b \in Seq(Q) /\ Len(b) = k /\ \A j \in 1 .. k : b[j] = s[l + j - 1]
  BY <1>a, <1>n, <1>2, CutOut
<1>5. /\ r \in Seq(Q) /\ Len(r) = n - 1
      /\ \A j \in 1 .. n - 1 : r[j] = IF j <= h THEN a[j] ELSE b[j - h]
  <2>1. n - 1 = Len(a) + Len(b)
    BY <1>2, <1>3, <1>4
  <2>2. r = a \o b
    BY <1>a, <1>n DEF RemoveAt
  <2>3. a \in Seq(Q) /\ b \in Seq(Q) /\ h = Len(a)
    BY <1>3, <1>4
  <2> QED
    BY <2>1, <2>2, <2>3, Joined
<1>6. ASSUME NEW j \in 1 .. n - 1
      PROVE  r[j] = IF j < i THEN s[j] ELSE s[j + 1]
  <2>1. CASE j < i
    <3>1. j \in 1 .. h /\ 1 + j - 1 = j /\ j <= h
      BY <1>2, <2>1
    <3> QED
      BY <1>3, <1>5, <2>1, <3>1
  <2>2. CASE ~(j < i)
    <3>1. j - h \in 1 .. k /\ l + (j - h) - 1 = j + 1 /\ ~(j <= h)
      BY <1>1, <1>2, <2>2
    <3>2. r[j] = b[j - h] /\ b[j - h] = s[j + 1]
      BY <1>4, <1>5, <3>1
    <3> QED
      BY <2>2, <3>2
  <2> QED
    BY <2>1, <2>2
<1> QED
  BY <1>n, <1>5, <1>6 DEF Left

Turned(s, i, m, r, n) == \A j \in 1 .. n : r[j] = IF j <= m THEN s[j + i] ELSE s[j + i - n]

(* What turning a sequence puts at each place.                             *)
LEMMA TurnedAt ==
  ASSUME NEW Q, NEW s \in Seq(Q), NEW i \in 1 .. Len(s),
         NEW r, r = SubSeq(s, i + 1, Len(s)) \o SubSeq(s, 1, i)
  PROVE  r \in Seq(Q) /\ Len(r) = Len(s) /\ Turned(s, i, Len(s) - i, r, Len(s))
<1>n. PICK n, k, l : n = Len(s) /\ k = n - i /\ l = i + 1
  OBVIOUS
<1>a. PICK a, b : a = SubSeq(s, l, n) /\ b = SubSeq(s, 1, i)
  OBVIOUS
<1>1. n \in Nat /\ i \in 1 .. n
  BY <1>n, LenProperties
<1>2. /\ 1 \in 1 .. n + 1 /\ i \in 1 - 1 .. n /\ l \in 1 .. n + 1 /\ n \in l - 1 .. n
      /\ i = i - 1 + 1 /\ k = n - l + 1 /\ n = k + i /\ k \in Nat
  BY <1>1, <1>n
<1>3. b \in Seq(Q) /\ Len(b) = i /\ \A j \in 1 .. i : b[j] = s[1 + j - 1]
  BY <1>a, <1>n, <1>2, CutOut
<1>4. a \in Seq(Q) /\ Len(a) = k /\ \A j \in 1 .. k : a[j] = s[l + j - 1]
  BY <1>a, <1>n, <1>2, CutOut
<1>5. /\ r \in Seq(Q) /\ Len(r) = n
      /\ \A j \in 1 .. n : r[j] = IF j <= k THEN a[j] ELSE b[j - k]
  <2>1. n = Len(a) + Len(b)
    BY <1>2, <1>3, <1>4
  <2>2. r = a \o b
    BY <1>a, <1>n
  <2>3. a \in Seq(Q) /\ b \in Seq(Q) /\ k = Len(a)
    BY <1>3, <1>4
  <2> QED
    BY <2>1, <2>2, <2>3, Joined, SMTT(30)
<1>6. ASSUME NEW j \in 1 .. n
      PROVE  r[j] = IF j <= k THEN s[j + i] ELSE s[j + i - n]
  <2>1. CASE j <= k
    <3>1. j \in 1 .. k /\ l + j - 1 = j + i
      BY <1>1, <1>2, <2>1
    <3> QED
      BY <1>4, <1>5, <2>1, <3>1
  <2>2. CASE ~(j <= k)
    <3>1. j - k \in 1 .. i /\ 1 + (j - k) - 1 = j + i - n
      BY <1>1, <1>2, <2>2
    <3>2. r[j] = b[j - k] /\ b[j - k] = s[j + i - n]
      BY <1>3, <1>5, <2>2, <3>1
    <3> QED
      BY <2>2, <3>2
  <2> QED
    BY <2>1, <2>2
<1> QED
  BY <1>n, <1>5, <1>6 DEF Turned


(* t enters the line as its i-th: the one before it, if any, leads to it,  *)
(* and it to the one after it.                                             *)
LinkedAs(nx, end, s, t, i, n, mx, last) ==
  /\ mx[t] = IF i = n + 1 THEN last ELSE s[i]
  /\ \A j \in 1 .. n : mx[s[j]] = IF j = i - 1 THEN t ELSE nx[s[j]]
  /\ i # n + 1 => last = end

FirstWith(head, t, i) == IF i = 1 THEN t ELSE head

(* A line with t linked in before its i-th is a line, t at that place.     *)
LEMMA ThreadInserted ==
  ASSUME NEW nx, NEW head, NEW end, NEW Q, NEW s, NEW n \in Nat,
         Threaded(nx, head, end, Q, s, n),
         NEW t, t \notin Q, NEW i \in 1 .. n + 1, NEW r, Entered(s, t, i, r, n),
         NEW mx, NEW last, LinkedAs(nx, end, s, t, i, n, mx, last)
  PROVE  Threaded(mx, FirstWith(head, t, i), last, Q \cup {t}, r, n + 1)
<1>i. n \in Nat /\ i \in 1 .. n + 1
  OBVIOUS
<1>m. \A j \in 1 .. n : s[j] \in Q
  BY DEF Threaded
<1>o. \A g \in Q : \E j \in 1 .. n : s[j] = g
  BY DEF Threaded
<1>d. \A j, k \in 1 .. n : s[j] = s[k] => j = k
  BY DEF Threaded
<1>l. \A j \in 1 .. n : nx[s[j]] = IF j = n THEN end ELSE s[j + 1]
  BY DEF Threaded
<1>h. head = IF n = 0 THEN 0 ELSE s[1]
  BY DEF Threaded
<1>k. /\ mx[t] = IF i = n + 1 THEN last ELSE s[i]
      /\ \A j \in 1 .. n : mx[s[j]] = IF j = i - 1 THEN t ELSE nx[s[j]]
      /\ i # n + 1 => last = end
  BY DEF LinkedAs
<1>r. \A j \in 1 .. n + 1 : r[j] = IF j < i THEN s[j] ELSE IF j = i THEN t ELSE s[j - 1]
  BY DEF Entered
<1>1. ASSUME NEW j \in 1 .. n + 1, j < i
      PROVE  j \in 1 .. n /\ r[j] = s[j]
  <2>1. j \in 1 .. n
    BY <1>i, <1>1
  <2> QED
    BY <2>1, <1>r, <1>1
<1>2. r[i] = t
  <2>1. ~(i < i)
    BY <1>i
  <2> QED
    BY <2>1, <1>i, <1>r
<1>3. ASSUME NEW j \in 1 .. n + 1, j > i
      PROVE  j - 1 \in 1 .. n /\ r[j] = s[j - 1]
  <2>1. j - 1 \in 1 .. n /\ ~(j < i) /\ j # i
    BY <1>i, <1>3
  <2> QED
    BY <2>1, <1>r
<1>4. ASSUME NEW g \in Q \cup {t}
      PROVE  \E j \in 1 .. n + 1 : r[j] = g
  <2>1. CASE g = t
    BY <2>1, <1>i, <1>2
  <2>2. CASE g # t
    <3>1. PICK j \in 1 .. n : s[j] = g
      BY <2>2, <1>o
    <3>2. CASE j < i
      <4>1. j \in 1 .. n + 1
        BY <1>i
      <4> QED
        BY <3>1, <3>2, <4>1, <1>1
    <3>3. CASE ~(j < i)
      <4>1. j + 1 \in 1 .. n + 1 /\ j + 1 > i /\ (j + 1) - 1 = j
        BY <3>3, <1>i
      <4> QED
        BY <3>1, <4>1, <1>3
    <3> QED
      BY <3>2, <3>3
  <2> QED
    BY <2>1, <2>2
<1>5. ASSUME NEW j \in 1 .. n + 1, NEW k \in 1 .. n + 1, r[j] = r[k]
      PROVE  j = k
  <2>1. ASSUME NEW x \in 1 .. n + 1
        PROVE  /\ x < i => x \in 1 .. n /\ r[x] = s[x] /\ r[x] \in Q
               /\ x > i => x - 1 \in 1 .. n /\ r[x] = s[x - 1] /\ r[x] \in Q
               /\ x = i => r[x] = t /\ r[x] \notin Q
               /\ x < i \/ x = i \/ x > i
    <3>1. x < i \/ x = i \/ x > i
      BY <1>i
    <3> QED
      BY <3>1, <1>1, <1>2, <1>3, <1>m
  <2>2. CASE j < i /\ k < i
    BY <2>1, <2>2, <1>5, <1>d
  <2>3. CASE j > i /\ k > i
    <3>1. j - 1 = k - 1
      BY <2>1, <2>3, <1>5, <1>d
    <3> QED
      BY <3>1, <1>i
  <2>4. CASE j < i /\ k > i
    <3>1. j = k - 1
      BY <2>1, <2>4, <1>5, <1>d
    <3> QED
      BY <3>1, <2>4, <1>i
  <2>5. CASE j > i /\ k < i
    <3>1. j - 1 = k
      BY <2>1, <2>5, <1>5, <1>d
    <3> QED
      BY <3>1, <2>5, <1>i
  <2>6. CASE j = i \/ k = i
    BY <2>1, <2>6, <1>5
  <2> QED
    BY <2>1, <2>2, <2>3, <2>4, <2>5, <2>6
<1>6. ASSUME NEW j \in 1 .. n + 1
      PROVE  mx[r[j]] = IF j = n + 1 THEN last ELSE r[j + 1]
  <2>1. CASE j < i - 1
    <3>1. j \in 1 .. n /\ j + 1 \in 1 .. n + 1 /\ j < i /\ j + 1 < i /\ j # i - 1 /\ j # n /\ j # n + 1
      BY <2>1, <1>i
    <3>2. r[j] = s[j] /\ r[j + 1] = s[j + 1]
      BY <3>1, <1>1
    <3>3. mx[s[j]] = nx[s[j]] /\ nx[s[j]] = s[j + 1]
      BY <3>1, <1>k, <1>l
    <3> QED
      BY <3>1, <3>2, <3>3
  <2>2. CASE j = i - 1
    <3>1. j \in 1 .. n /\ j + 1 = i /\ j < i /\ j # n + 1
      BY <2>2, <1>i
    <3>2. r[j] = s[j] /\ mx[s[j]] = t
      BY <2>2, <3>1, <1>1, <1>k
    <3> QED
      BY <3>1, <3>2, <1>2
  <2>3. CASE j = i
    <3>1. CASE i = n + 1
      BY <2>3, <3>1, <1>2, <1>k
    <3>2. CASE i # n + 1
      <4>1. i + 1 \in 1 .. n + 1 /\ i + 1 > i /\ (i + 1) - 1 = i
        BY <3>2, <1>i
      <4>2. r[i + 1] = s[i]
        BY <4>1, <1>3
      <4> QED
        BY <2>3, <3>2, <4>2, <1>2, <1>k
    <3> QED
      BY <3>1, <3>2
  <2>4. CASE j > i
    <3>1. /\ j - 1 \in 1 .. n /\ j - 1 # i - 1 /\ (j - 1) + 1 = j /\ i # n + 1
          /\ j - 1 = n <=> j = n + 1
      BY <2>4, <1>i
    <3>2. mx[s[j - 1]] = nx[s[j - 1]] /\ nx[s[j - 1]] = (IF j - 1 = n THEN end ELSE s[j])
      BY <3>1, <1>k, <1>l
    <3>3. r[j] = s[j - 1] /\ last = end
      BY <2>4, <3>1, <1>3, <1>k
    <3>4. CASE j = n + 1
      BY <3>1, <3>2, <3>3, <3>4
    <3>5. CASE j # n + 1
      <4>1. j + 1 \in 1 .. n + 1 /\ j + 1 > i /\ (j + 1) - 1 = j
        BY <2>4, <3>5, <1>i
      <4>2. r[j + 1] = s[j]
        BY <4>1, <1>3
      <4> QED
        BY <3>1, <3>2, <3>3, <3>5, <4>2
    <3> QED
      BY <3>4, <3>5
  <2>5. j < i - 1 \/ j = i - 1 \/ j = i \/ j > i
    BY <1>i
  <2> QED
    BY <2>1, <2>2, <2>3, <2>4, <2>5
<1>7. (IF i = 1 THEN t ELSE head) = r[1]
  <2>1. CASE i = 1
    BY <2>1, <1>2
  <2>2. CASE i # 1
    <3>1. 1 \in 1 .. n + 1 /\ 1 < i /\ n # 0
      BY <2>2, <1>i
    <3>2. r[1] = s[1]
      BY <3>1, <1>1
    <3> QED
      BY <2>2, <3>1, <3>2, <1>h
  <2> QED
    BY <2>1, <2>2
<1>8. n + 1 # 0
  BY <1>i
<1>9. ASSUME NEW j \in 1 .. n + 1
      PROVE  r[j] \in Q \cup {t}
  <2>1. j < i \/ j = i \/ j > i
    BY <1>i
  <2> QED
    BY <2>1, <1>1, <1>2, <1>3, <1>m
<1> QED
  BY <1>9, <1>4, <1>5, <1>6, <1>7, <1>8 DEF Threaded, FirstWith

(* The same of a sequence.                                                 *)
LEMMA LineInserted ==
  ASSUME NEW nx, NEW head, NEW end, NEW Q, NEW s, InLine(nx, head, end, Q, s),
         NEW t, t \notin Q, NEW n, n = Len(s), NEW i \in 1 .. n + 1,
         NEW P, NEW r \in Seq(P), Len(r) = n + 1, Entered(s, t, i, r, n),
         NEW mx, NEW last, LinkedAs(nx, end, s, t, i, n, mx, last)
  PROVE  InLine(mx, FirstWith(head, t, i), last, Q \cup {t}, r)
<1>1. n \in Nat /\ Threaded(nx, head, end, Q, s, n)
  BY LenProperties DEF InLine
<1>2. Threaded(mx, FirstWith(head, t, i), last, Q \cup {t}, r, n + 1)
  BY <1>1, ThreadInserted
<1> QED
  BY <1>2, LineIs

(* The i-th leaves the line: who led to it leads on.                       *)
Bridged(nx, t, Q, mx) ==
  \A g \in Q \ {t} : mx[g] = IF nx[g] = t THEN nx[t] ELSE nx[g]

FirstWithout(nx, head, t, n) == IF head # t THEN head ELSE IF n = 1 THEN 0 ELSE nx[t]

LastWithout(nx, end, t) == IF end # t THEN end ELSE nx[t]

(* A line that bridges its i-th is a line without it.                      *)
LEMMA ThreadRemoved ==
  ASSUME NEW nx, NEW head, NEW end, NEW Q, 0 \notin Q, NEW s, NEW n \in Nat,
         Threaded(nx, head, end, Q, s, n), end \in {0, head},
         NEW i \in 1 .. n, NEW t, t = s[i], NEW r, Left(s, i, r, n),
         NEW mx, Bridged(nx, t, Q, mx)
  PROVE  Threaded(mx, FirstWithout(nx, head, t, n), LastWithout(nx, end, t), Q \ {t}, r, n - 1)
<1>i. n \in Nat /\ i \in 1 .. n /\ n # 0
  OBVIOUS
<1>m. \A j \in 1 .. n : s[j] \in Q
  BY DEF Threaded
<1>o. \A g \in Q : \E j \in 1 .. n : s[j] = g
  BY DEF Threaded
<1>d. \A j, k \in 1 .. n : s[j] = s[k] => j = k
  BY DEF Threaded
<1>l. \A j \in 1 .. n : nx[s[j]] = IF j = n THEN end ELSE s[j + 1]
  BY DEF Threaded
<1>h. head = s[1]
  BY <1>i DEF Threaded
<1>r. \A j \in 1 .. n - 1 : r[j] = IF j < i THEN s[j] ELSE s[j + 1]
  BY DEF Left
<1>b. \A g \in Q \ {t} : mx[g] = IF nx[g] = t THEN nx[t] ELSE nx[g]
  BY DEF Bridged
<1>1. ASSUME NEW j \in 1 .. n - 1, j < i
      PROVE  j \in 1 .. n /\ j # i /\ r[j] = s[j]
  <2>1. j \in 1 .. n /\ j # i
    BY <1>i, <1>1
  <2> QED
    BY <2>1, <1>r, <1>1
<1>2. ASSUME NEW j \in 1 .. n - 1, ~(j < i)
      PROVE  j + 1 \in 1 .. n /\ j + 1 # i /\ r[j] = s[j + 1]
  <2>1. j + 1 \in 1 .. n /\ j + 1 # i
    BY <1>i, <1>2
  <2> QED
    BY <2>1, <1>r, <1>2
<1>4. \A j \in 1 .. n : s[j] = t <=> j = i
  BY <1>i, <1>d
<1>5. ASSUME NEW j \in 1 .. n - 1
      PROVE  r[j] \in Q \ {t}
  BY <1>1, <1>2, <1>4, <1>m
<1>7. ASSUME NEW g \in Q \ {t}
      PROVE  \E j \in 1 .. n - 1 : r[j] = g
  <2>1. PICK j \in 1 .. n : s[j] = g
    BY <1>o
  <2>2. j # i
    BY <2>1, <1>4
  <2>3. CASE j < i
    <3>1. j \in 1 .. n - 1
      BY <2>3, <1>i
    <3> QED
      BY <2>1, <2>3, <3>1, <1>1
  <2>4. CASE ~(j < i)
    <3>1. j - 1 \in 1 .. n - 1 /\ ~(j - 1 < i) /\ (j - 1) + 1 = j
      BY <2>2, <2>4, <1>i
    <3> QED
      BY <2>1, <3>1, <1>2
  <2> QED
    BY <2>3, <2>4
<1>8. ASSUME NEW j \in 1 .. n - 1, NEW k \in 1 .. n - 1, r[j] = r[k]
      PROVE  j = k
  <2>1. CASE j < i /\ k < i
    BY <2>1, <1>1, <1>8, <1>d
  <2>2. CASE ~(j < i) /\ ~(k < i)
    <3>1. j + 1 = k + 1
      BY <2>2, <1>2, <1>8, <1>d
    <3> QED
      BY <3>1, <1>i
  <2>3. CASE j < i /\ ~(k < i)
    <3>1. j = k + 1
      BY <2>3, <1>1, <1>2, <1>8, <1>d
    <3> QED
      BY <2>3, <3>1, <1>i
  <2>4. CASE ~(j < i) /\ k < i
    <3>1. j + 1 = k
      BY <2>4, <1>1, <1>2, <1>8, <1>d
    <3> QED
      BY <2>4, <3>1, <1>i
  <2> QED
    BY <2>1, <2>2, <2>3, <2>4
<1>9. ASSUME NEW j \in 1 .. n - 1
      PROVE  mx[r[j]] = IF j # n - 1 THEN r[j + 1] ELSE IF end # t THEN end ELSE nx[t]
  <2>1. mx[r[j]] = IF nx[r[j]] = t THEN nx[t] ELSE nx[r[j]]
    BY <1>5, <1>b
  <2>2. CASE j < i - 1
    <3>1. /\ j < i /\ j + 1 \in 1 .. n - 1 /\ j + 1 < i /\ j \in 1 .. n /\ j # n /\ j # n - 1
          /\ j + 1 \in 1 .. n /\ j + 1 # i
      BY <2>2, <1>i
    <3>2. r[j] = s[j] /\ r[j + 1] = s[j + 1] /\ s[j + 1] # t
      BY <3>1, <1>1, <1>4
    <3>3. nx[s[j]] = s[j + 1]
      BY <3>1, <1>l
    <3> QED
      BY <2>1, <3>1, <3>2, <3>3
  <2>3. CASE j = i - 1
    <3>1. j < i /\ j + 1 = i /\ j \in 1 .. n /\ j # n /\ 1 \in 1 .. n /\ i # 1
      BY <2>3, <1>i
    <3>2. r[j] = s[j] /\ nx[s[j]] = t
      BY <3>1, <1>1, <1>l
    <3>3. nx[t] = IF i = n THEN end ELSE s[i + 1]
      BY <1>i, <1>l
    <3>4. head # t /\ t # 0
      BY <3>1, <1>i, <1>h, <1>m, <1>4
    <3>5. CASE i = n
      <4>1. j = n - 1
        BY <2>3, <3>5
      <4> QED
        BY <2>1, <3>2, <3>3, <3>4, <3>5, <4>1
    <3>6. CASE i # n
      <4>1. j + 1 \in 1 .. n - 1 /\ ~(j + 1 < i) /\ (j + 1) + 1 = i + 1 /\ j # n - 1
        BY <3>1, <3>6, <1>i
      <4>2. r[j + 1] = s[i + 1]
        BY <4>1, <1>2
      <4> QED
        BY <2>1, <3>2, <3>3, <3>6, <4>1, <4>2
    <3> QED
      BY <3>5, <3>6
  <2>4. CASE j > i - 1
    <3>1. ~(j < i) /\ j + 1 \in 1 .. n /\ j + 1 # i
      BY <2>4, <1>i
    <3>2. r[j] = s[j + 1] /\ nx[s[j + 1]] = IF j + 1 = n THEN end ELSE s[(j + 1) + 1]
      BY <3>1, <1>2, <1>l
    <3>3. CASE j = n - 1
      <4>1. j + 1 = n
        BY <3>3, <1>i
      <4> QED
        BY <2>1, <3>2, <3>3, <4>1
    <3>4. CASE j # n - 1
      <4>1. /\ j + 1 # n /\ j + 1 \in 1 .. n - 1 /\ ~(j + 1 < i)
            /\ (j + 1) + 1 \in 1 .. n /\ (j + 1) + 1 # i
        BY <3>4, <2>4, <1>i
      <4>2. r[j + 1] = s[(j + 1) + 1] /\ s[(j + 1) + 1] # t
        BY <4>1, <1>2, <1>4
      <4> QED
        BY <2>1, <3>2, <3>4, <4>1, <4>2
    <3> QED
      BY <3>3, <3>4
  <2>5. j < i - 1 \/ j = i - 1 \/ j > i - 1
    BY <1>i
  <2> QED
    BY <2>2, <2>3, <2>4, <2>5
<1>10. (IF head # t THEN head ELSE IF n = 1 THEN 0 ELSE nx[t]) = IF n - 1 = 0 THEN 0 ELSE r[1]
  <2>1. (n = 1 <=> n - 1 = 0) /\ 1 \in 1 .. n
    BY <1>i
  <2>2. CASE n = 1
    <3>1. i = 1
      BY <2>2, <1>i
    <3> QED
      BY <2>1, <2>2, <3>1, <1>h
  <2>3. CASE n # 1 /\ i = 1
    <3>1. /\ 1 \in 1 .. n - 1 /\ ~(1 < i) /\ i # n /\ 1 + 1 = i + 1
      BY <2>3, <1>i
    <3>2. r[1] = s[i + 1]
      BY <3>1, <1>2
    <3>3. nx[t] = s[i + 1] /\ head = t
      BY <2>3, <3>1, <1>i, <1>h, <1>l
    <3> QED
      BY <2>1, <2>3, <3>2, <3>3
  <2>4. CASE n # 1 /\ i # 1
    <3>1. 1 \in 1 .. n - 1 /\ 1 < i
      BY <2>4, <1>i
    <3>2. r[1] = s[1] /\ s[1] # t
      BY <2>1, <2>4, <3>1, <1>1, <1>4
    <3> QED
      BY <2>1, <2>4, <3>2, <1>h
  <2> QED
    BY <2>2, <2>3, <2>4
<1>11. \A j \in 1 .. n - 1 :
          mx[r[j]] = IF j = n - 1 THEN (IF end # t THEN end ELSE nx[t]) ELSE r[j + 1]
  BY <1>9
<1> QED
  BY <1>5, <1>7, <1>8, <1>10, <1>11 DEF Threaded, FirstWithout, LastWithout

(* The same of a sequence.                                                 *)
LEMMA LineRemoved ==
  ASSUME NEW nx, NEW head, NEW end, NEW Q, 0 \notin Q, NEW s, InLine(nx, head, end, Q, s),
         end \in {0, head}, NEW n, n = Len(s), NEW i \in 1 .. n, NEW t, t = s[i],
         NEW P, NEW r \in Seq(P), Len(r) = n - 1, Left(s, i, r, n),
         NEW mx, Bridged(nx, t, Q, mx)
  PROVE  InLine(mx, FirstWithout(nx, head, t, n), LastWithout(nx, end, t), Q \ {t}, r)
<1>1. n \in Nat /\ Threaded(nx, head, end, Q, s, n)
  BY LenProperties DEF InLine
<1>2. Threaded(mx, FirstWithout(nx, head, t, n), LastWithout(nx, end, t), Q \ {t}, r, n - 1)
  BY <1>1, ThreadRemoved
<1> QED
  BY <1>2, LineIs

(* A ring looked at from behind its i-th is the same ring.                 *)
LEMMA ThreadTurned ==
  ASSUME NEW nx, NEW head, NEW Q, NEW s, NEW n \in Nat, Threaded(nx, head, head, Q, s, n),
         NEW i \in 1 .. n, NEW m, m = n - i, NEW t, t = nx[s[i]],
         NEW r, Turned(s, i, m, r, n)
  PROVE  Threaded(nx, t, t, Q, r, n)
<1>i. n \in Nat /\ i \in 1 .. n /\ n # 0 /\ m \in Nat /\ n = m + i
  OBVIOUS
<1>m. \A j \in 1 .. n : s[j] \in Q
  BY DEF Threaded
<1>o. \A g \in Q : \E j \in 1 .. n : s[j] = g
  BY DEF Threaded
<1>d. \A j, k \in 1 .. n : s[j] = s[k] => j = k
  BY DEF Threaded
<1>l. \A j \in 1 .. n : nx[s[j]] = IF j = n THEN s[1] ELSE s[j + 1]
  BY <1>i DEF Threaded
<1>r. \A j \in 1 .. n : r[j] = IF j <= m THEN s[j + i] ELSE s[j + i - n]
  BY DEF Turned
<1>1. ASSUME NEW j \in 1 .. n, j <= m
      PROVE  j + i \in 1 .. n /\ r[j] = s[j + i]
  <2>1. j + i \in 1 .. n
    BY <1>i, <1>1
  <2> QED
    BY <2>1, <1>r, <1>1
<1>2. ASSUME NEW j \in 1 .. n, ~(j <= m)
      PROVE  j - m \in 1 .. n /\ r[j] = s[j - m]
  <2>1. j - m \in 1 .. n /\ j - m = j + i - n
    BY <1>i, <1>2
  <2> QED
    BY <2>1, <1>r, <1>2
<1>4. ASSUME NEW g \in Q
      PROVE  \E j \in 1 .. n : r[j] = g
  <2>1. PICK k \in 1 .. n : s[k] = g
    BY <1>o
  <2>2. CASE k > i
    <3>1. k - i \in 1 .. n /\ k - i <= m /\ (k - i) + i = k
      BY <2>2, <1>i
    <3> QED
      BY <2>1, <3>1, <1>1
  <2>3. CASE ~(k > i)
    <3>1. k + m \in 1 .. n /\ ~(k + m <= m) /\ (k + m) - m = k
      BY <2>3, <1>i
    <3> QED
      BY <2>1, <3>1, <1>2
  <2> QED
    BY <2>2, <2>3
<1>5. ASSUME NEW j \in 1 .. n, NEW k \in 1 .. n, r[j] = r[k]
      PROVE  j = k
  <2>1. CASE j <= m /\ k <= m
    <3>1. j + i = k + i
      BY <2>1, <1>1, <1>5, <1>d
    <3> QED
      BY <3>1, <1>i
  <2>2. CASE ~(j <= m) /\ ~(k <= m)
    <3>1. j - m = k - m
      BY <2>2, <1>2, <1>5, <1>d
    <3> QED
      BY <3>1, <1>i
  <2>3. CASE j <= m /\ ~(k <= m)
    <3>1. j + i = k - m
      BY <2>3, <1>1, <1>2, <1>5, <1>d
    <3> QED
      BY <3>1, <1>i
  <2>4. CASE ~(j <= m) /\ k <= m
    <3>1. j - m = k + i
      BY <2>4, <1>1, <1>2, <1>5, <1>d
    <3> QED
      BY <3>1, <1>i
  <2> QED
    BY <2>1, <2>2, <2>3, <2>4
<1>6. t = r[1]
  <2>1. CASE i = n
    <3>1. 1 \in 1 .. n /\ ~(1 <= m) /\ 1 - m = 1
      BY <2>1, <1>i
    <3>2. r[1] = s[1]
      BY <3>1, <1>2
    <3> QED
      BY <2>1, <3>2, <1>i, <1>l
  <2>2. CASE i # n
    <3>1. 1 \in 1 .. n /\ 1 <= m /\ 1 + i = i + 1
      BY <2>2, <1>i
    <3>2. r[1] = s[i + 1]
      BY <3>1, <1>1
    <3> QED
      BY <2>2, <3>2, <1>i, <1>l
  <2> QED
    BY <2>1, <2>2
<1>7. ASSUME NEW j \in 1 .. n
      PROVE  nx[r[j]] = IF j = n THEN t ELSE r[j + 1]
  <2>1. CASE j < m
    <3>1. /\ j <= m /\ j + i \in 1 .. n /\ j + i # n /\ (j + i) + 1 = (j + 1) + i
          /\ j + 1 \in 1 .. n /\ j + 1 <= m /\ j # n
      BY <2>1, <1>i
    <3>2. r[j] = s[j + i] /\ r[j + 1] = s[(j + i) + 1]
      BY <3>1, <1>1
    <3>3. nx[s[j + i]] = s[(j + i) + 1]
      BY <3>1, <1>l
    <3> QED
      BY <3>1, <3>2, <3>3
  <2>2. CASE j = m
    <3>1. /\ j <= m /\ j + i = n /\ n \in 1 .. n /\ j # n
          /\ j + 1 \in 1 .. n /\ ~(j + 1 <= m) /\ (j + 1) - m = 1
      BY <2>2, <1>i
    <3>2. r[j] = s[n] /\ r[j + 1] = s[1]
      BY <3>1, <1>1, <1>2
    <3>3. nx[s[n]] = s[1]
      BY <3>1, <1>l
    <3> QED
      BY <3>1, <3>2, <3>3
  <2>3. CASE j > m
    <3>1. ~(j <= m)
      BY <2>3, <1>i
    <3>2. j - m \in 1 .. n /\ r[j] = s[j - m]
      BY <3>1, <1>2
    <3>3. CASE j = n
      <4>1. j - m = i
        BY <3>3, <1>i
      <4> QED
        BY <3>2, <3>3, <4>1
    <3>4. CASE j # n
      <4>1. /\ j + 1 \in 1 .. n /\ ~(j + 1 <= m)
            /\ j - m # n /\ (j - m) + 1 = (j + 1) - m
        BY <2>3, <3>4, <1>i
      <4>2. r[j + 1] = s[(j - m) + 1]
        BY <4>1, <1>2
      <4>3. nx[s[j - m]] = s[(j - m) + 1]
        BY <3>2, <4>1, <1>l
      <4> QED
        BY <3>2, <3>4, <4>2, <4>3
    <3> QED
      BY <3>3, <3>4
  <2>4. j < m \/ j = m \/ j > m
    BY <1>i
  <2> QED
    BY <2>1, <2>2, <2>3, <2>4
<1>8. ASSUME NEW j \in 1 .. n
      PROVE  r[j] \in Q
  BY <1>1, <1>2, <1>m
<1> QED
  BY <1>i, <1>8, <1>4, <1>5, <1>6, <1>7 DEF Threaded

(* A ring read from another of its members is the same line, turned.       *)
LEMMA LineTurned ==
  ASSUME NEW nx, NEW head, NEW Q, NEW s, InLine(nx, head, head, Q, s), NEW i \in 1 .. Len(s)
  PROVE  InLine(nx, nx[s[i]], nx[s[i]], Q, SubSeq(s, i + 1, Len(s)) \o SubSeq(s, 1, i))
<1>r. PICK r, t : r = SubSeq(s, i + 1, Len(s)) \o SubSeq(s, 1, i) /\ t = nx[s[i]]
  OBVIOUS
<1>1. s \in Seq(Q) /\ Len(s) \in Nat /\ Threaded(nx, head, head, Q, s, Len(s))
  BY LenProperties DEF InLine
<1>2. r \in Seq(Q) /\ Len(s) = Len(r) /\ Turned(s, i, Len(s) - i, r, Len(s))
  BY <1>1, <1>r, TurnedAt
<1>3. Threaded(nx, t, t, Q, r, Len(s))
  BY <1>1, <1>2, <1>r, ThreadTurned
<1> QED
  BY <1>r, <1>2, <1>3 DEF InLine

(* Ends of a sequence are places in it.                                    *)
LEMMA EntersLast ==
  ASSUME NEW Q, NEW s \in Seq(Q), NEW t
  PROVE  /\ Append(s, t) \in Seq(Q \cup {t}) /\ Len(Append(s, t)) = Len(s) + 1
         /\ Entered(s, t, Len(s) + 1, Append(s, t), Len(s))
<1>d. PICK n, r : n = Len(s) /\ r = Append(s, t)
  OBVIOUS
<1>1. n \in Nat /\ s \in Seq(Q \cup {t})
  BY <1>d, LenProperties, SeqMonotonic
<1>2. /\ r \in Seq(Q \cup {t}) /\ Len(r) = n + 1 /\ r[n + 1] = t
      /\ \A j \in 1 .. n : r[j] = s[j]
  BY <1>d, <1>1, AppendProperties
<1>3. ASSUME NEW j \in 1 .. n + 1
      PROVE  r[j] = IF j < n + 1 THEN s[j] ELSE IF j = n + 1 THEN t ELSE s[j - 1]
  <2>1. j < n + 1 => j \in 1 .. n
    BY <1>1
  <2>2. ~(j < n + 1) => j = n + 1
    BY <1>1
  <2> QED
    BY <1>2, <2>1, <2>2
<1> QED
  BY <1>d, <1>2, <1>3 DEF Entered

(* To go on top of a stack is to enter it at the first place.              *)
LEMMA EntersFirst ==
  ASSUME NEW Q, NEW s \in Seq(Q), NEW t, NEW n, n = Len(s), NEW r, r = <<t>> \o s
  PROVE  r \in Seq(Q \cup {t}) /\ Len(r) = n + 1 /\ Entered(s, t, 1, r, n)
<1>d. PICK d : d = <<t>>
  OBVIOUS
<1>1. n \in Nat /\ s \in Seq(Q \cup {t})
  BY LenProperties, SeqMonotonic
<1>2. d \in Seq(Q \cup {t}) /\ 1 = Len(d) /\ d[1] = t
  BY <1>d
<1>3. n + 1 = Len(d) + Len(s) /\ r = d \o s
  BY <1>d, <1>1, <1>2
<1>4. /\ r \in Seq(Q \cup {t}) /\ Len(r) = n + 1
      /\ \A j \in 1 .. n + 1 : r[j] = IF j <= 1 THEN d[j] ELSE s[j - 1]
  BY <1>1, <1>2, <1>3, Joined
<1>5. ASSUME NEW j \in 1 .. n + 1
      PROVE  r[j] = IF j < 1 THEN s[j] ELSE IF j = 1 THEN t ELSE s[j - 1]
  <2>1. ~(j < 1) /\ (j <= 1 <=> j = 1)
    BY <1>1
  <2> QED
    BY <1>2, <1>4, <2>1
<1> QED
  BY <1>4, <1>5 DEF Entered

(* To be popped off a stack is to leave it at the first place.             *)
LEMMA LeavesFirst ==
  ASSUME NEW Q, NEW s \in Seq(Q), s # <<>>, NEW n, n = Len(s), NEW r, r = Tail(s)
  PROVE  r \in Seq(Q) /\ Len(r) = n - 1 /\ Left(s, 1, r, n)
<1>1. n \in Nat
  BY LenProperties
<1>2. r \in Seq(Q) /\ Len(r) = n - 1 /\ \A j \in 1 .. n - 1 : r[j] = s[j + 1]
  BY HeadTailProperties
<1>3. \A j \in 1 .. n - 1 : ~(j < 1)
  BY <1>1
<1> QED
  BY <1>2, <1>3 DEF Left

(* A list without members.                                                 *)
LEMMA LineEmpty ==
  ASSUME NEW nx, NEW end, NEW Q, Q = {}, NEW s, s = <<>>
  PROVE  InLine(nx, 0, end, Q, s)
<1>1. s \in Seq(Q) /\ Len(s) = 0
  BY EmptySeq
<1>2. \A i \in 1 .. 0 : FALSE
  OBVIOUS
<1>3. Threaded(nx, 0, end, Q, s, 0)
  BY <1>2 DEF Threaded
<1> QED
  BY <1>1, <1>3 DEF InLine

(* A list is the sequence of what following its links meets.               *)
LEMMA LineFollowed ==
  ASSUME NEW L, L.next \in [Handle -> Handle0], NEW Q, Q \subseteq Handle,
         NEW head, NEW end, NEW s, InLine(L.next, head, end, Q, s)
  PROVE  s = Followed(L, head, Cardinality(Q))
<1>n. PICK n : n = Len(s)
  OBVIOUS
<1>1. s \in Seq(Q) /\ n \in Nat /\ s \in [1 .. n -> Q] /\ Threaded(L.next, head, end, Q, s, n)
  BY <1>n, LenProperties DEF InLine
<1>2. /\ \A j \in 1 .. n : s[j] \in Q /\ s[j] \in Handle
      /\ head = IF n = 0 THEN 0 ELSE s[1]
  BY <1>1 DEF Threaded
<1>3. \A j \in 1 .. n : L.next[s[j]] = IF j = n THEN end ELSE s[j + 1]
  BY <1>1 DEF Threaded
<1>4. n = Cardinality(Q)
  <2>1. s \in Bijection(1 .. n, Q)
    <3>1. s \in Injection(1 .. n, Q)
      BY <1>1 DEF Threaded, Injection, IsInjective
    <3>2. s \in Surjection(1 .. n, Q)
      BY <1>1 DEF Threaded, Surjection
    <3> QED
      BY <3>1, <3>2 DEF Bijection
  <2>2. ExistsBijection(1 .. n, Q)
    BY <2>1 DEF ExistsBijection
  <2> QED
    BY <1>1, <2>2, FS_CountingElements
<1> DEFINE I == Iterate(Succ(L), head)
           D == {k \in Nat : k < n => I[k] = s[k + 1]}
<1>5. I \in [Nat -> Handle0] /\ I[0] = head /\ \A k \in Nat : I[k + 1] = Succ(L)[I[k]]
  <2>1. Succ(L) \in [Handle0 -> Handle0]
    BY HandleFacts DEF Succ
  <2>2. head \in Handle0
    <3>1. n # 0 => 1 \in 1 .. n
      BY <1>1
    <3> QED
      BY <1>2, <3>1, HandleFacts
  <2>3. Rounds(Succ(L), head, Handle0, I)
    BY <2>1, <2>2, IterateRounds
  <2> HIDE DEF I
  <2> QED
    BY <2>3 DEF Rounds
<1> HIDE DEF I
<1>6. 0 \in D
  <2>1. 0 < n => I[0] = s[0 + 1]
    BY <1>1, <1>2, <1>5
  <2> QED
    BY <2>1
<1>7. ASSUME NEW k \in Nat, k \in D
      PROVE  k + 1 \in D
  <2> SUFFICES ASSUME k + 1 < n
               PROVE  I[k + 1] = s[(k + 1) + 1]
    OBVIOUS
  <2>1. k < n /\ k + 1 \in 1 .. n /\ k + 1 # n
    BY <1>1
  <2>2. I[k] = s[k + 1]
    BY <1>7, <2>1
  <2>3. s[k + 1] \in Handle /\ s[k + 1] # 0 /\ s[k + 1] \in Handle0
    BY <1>2, <2>1, HandleFacts
  <2>4. I[k + 1] = L.next[s[k + 1]]
    BY <1>5, <2>2, <2>3 DEF Succ
  <2> QED
    BY <1>3, <2>1, <2>4
<1>8. Nat \subseteq D
  <2> HIDE DEF D
  <2> QED
    BY <1>6, <1>7, NatSubsetInduction
<1>9. ASSUME NEW i \in 1 .. n
      PROVE  s[i] = I[i - 1]
  <2>1. i - 1 \in Nat /\ i - 1 < n /\ (i - 1) + 1 = i
    BY <1>1
  <2>2. i - 1 \in D
    BY <1>8, <2>1
  <2>3. I[i - 1] = s[(i - 1) + 1]
    BY <2>1, <2>2
  <2> QED
    BY <2>1, <2>3
<1>10. s = [i \in 1 .. n |-> I[i - 1]]
  BY <1>1, <1>9
<1> QED
  BY <1>4, <1>10 DEF Followed, I

-----------------------------------------------------------------------------
(* The ticks left to the threads of the timeout list: each waits w ticks   *)
(* longer than the one before it.                                          *)
Dues(w, s, e, n) ==
  \A i \in 1 .. n : e[s[i]] = w[s[i]] + (IF i = 1 THEN 0 ELSE e[s[i - 1]])

(* The waits determine the ticks left.                                     *)
LEMMA DuesUnique ==
  ASSUME NEW n \in Nat, NEW w, NEW s, NEW d, NEW e, Dues(w, s, d, n), Dues(w, s, e, n)
  PROVE  \A i \in 1 .. n : d[s[i]] = e[s[i]]
<1> DEFINE D == {k \in Nat : k + 1 <= n => d[s[k + 1]] = e[s[k + 1]]}
<1>1. /\ \A i \in 1 .. n : d[s[i]] = w[s[i]] + (IF i = 1 THEN 0 ELSE d[s[i - 1]])
      /\ \A i \in 1 .. n : e[s[i]] = w[s[i]] + (IF i = 1 THEN 0 ELSE e[s[i - 1]])
  BY DEF Dues
<1>2. 0 \in D
  <2>1. CASE 1 <= n
    <3>1. 1 \in 1 .. n /\ 0 + 1 = 1
      BY <2>1
    <3>2. d[s[1]] = w[s[1]] + 0 /\ e[s[1]] = w[s[1]] + 0
      BY <1>1, <3>1
    <3> QED
      BY <3>1, <3>2
  <2> QED
    BY <2>1
<1>3. ASSUME NEW k \in Nat, k \in D
      PROVE  k + 1 \in D
  <2> SUFFICES ASSUME (k + 1) + 1 <= n
               PROVE  d[s[(k + 1) + 1]] = e[s[(k + 1) + 1]]
    OBVIOUS
  <2>i. PICK i : i = (k + 1) + 1
    OBVIOUS
  <2>1. i \in 1 .. n /\ i # 1 /\ i - 1 = k + 1 /\ k + 1 <= n
    BY <2>i
  <2>2. d[s[i - 1]] = e[s[i - 1]]
    BY <1>3, <2>1
  <2>3. d[s[i]] = w[s[i]] + d[s[i - 1]] /\ e[s[i]] = w[s[i]] + e[s[i - 1]]
    BY <1>1, <2>1
  <2> QED
    BY <2>i, <2>2, <2>3
<1>4. Nat \subseteq D
  <2> HIDE DEF D
  <2> QED
    BY <1>2, <1>3, NatSubsetInduction
<1>5. ASSUME NEW i \in 1 .. n
      PROVE  d[s[i]] = e[s[i]]
  <2>1. i - 1 \in Nat /\ (i - 1) + 1 = i /\ i <= n
    OBVIOUS
  <2> HIDE DEF D
  <2>2. i - 1 \in D
    BY <1>4, <2>1
  <2> QED
    BY <2>1, <2>2 DEF D
<1> QED
  BY <1>5

(* Who is behind waits as long, or longer.                                 *)
LEMMA DuesGrow ==
  ASSUME NEW n \in Nat, NEW w, NEW s, NEW e, Dues(w, s, e, n),
         \A i \in 1 .. n : e[s[i]] \in Int /\ w[s[i]] \in Nat,
         NEW i \in 1 .. n, NEW j \in i .. n
  PROVE  e[s[i]] <= e[s[j]]
<1> DEFINE D == {k \in Nat : i + k <= n => e[s[i]] <= e[s[i + k]]}
<1>0. i + 0 = i
  OBVIOUS
<1>1. 0 \in D
  BY <1>0
<1>2. ASSUME NEW k \in Nat, k \in D
      PROVE  k + 1 \in D
  <2> SUFFICES ASSUME i + (k + 1) <= n
               PROVE  e[s[i]] <= e[s[i + (k + 1)]]
    OBVIOUS
  <2>1. i + k \in 1 .. n /\ i + k <= n /\ i + (k + 1) \in 1 .. n /\ i + (k + 1) # 1
        /\ (i + (k + 1)) - 1 = i + k
    OBVIOUS
  <2>2. e[s[i]] <= e[s[i + k]]
    BY <1>2, <2>1
  <2>3. e[s[i + (k + 1)]] = w[s[i + (k + 1)]] + e[s[i + k]]
    BY <2>1 DEF Dues
  <2>4. e[s[i]] \in Int /\ e[s[i + k]] \in Int /\ w[s[i + (k + 1)]] \in Nat
    BY <2>1
  <2> QED
    BY <2>2, <2>3, <2>4
<1>3. Nat \subseteq D
  <2> HIDE DEF D
  <2> QED
    BY <1>1, <1>2, NatSubsetInduction
<1>4. j - i \in Nat /\ i + (j - i) = j /\ j <= n
  OBVIOUS
<1>5. j - i \in D
  <2> HIDE DEF D
  <2> QED
    BY <1>3, <1>4
<1> QED
  BY <1>4, <1>5

(* Adding up the waits along the list gives the ticks left.                *)
LEMMA TicksAreDues ==
  ASSUME NEW L, NEW H, FieldsTyped(L, H), NEW s,
         InLine(L.next, L.TimeoutList, 0, Members(H, "timeout"), s)
  PROVE  /\ TicksLeft(L, H) \in [Handle -> Int]
         /\ \A h \in Handle : H[h] # "timeout" => TicksLeft(L, H)[h] = 0
         /\ Dues(L.timeout, s, TicksLeft(L, H), Len(s))
<1>n. PICK n, Q : n = Len(s) /\ Q = Members(H, "timeout")
  OBVIOUS
<1>0. Q \subseteq Handle /\ \A h \in Handle : h \in Q <=> H[h] = "timeout"
  BY <1>n, Places DEF PlacesTold
<1>1. s \in Seq(Q) /\ n \in Nat /\ Threaded(L.next, L.TimeoutList, 0, Q, s, n)
      /\ s \in [1 .. n -> Q]
  BY <1>n, LenProperties DEF InLine
<1>2. /\ \A j \in 1 .. n : s[j] \in Q /\ s[j] \in Handle /\ s[j] # 0
      /\ \A j \in 1 .. n : L.next[s[j]] = IF j = n THEN 0 ELSE s[j + 1]
      /\ L.TimeoutList = IF n = 0 THEN 0 ELSE s[1]
  BY <1>0, <1>1, HandleFacts DEF Threaded
<1>d. /\ \A g \in Q : \E j \in 1 .. n : s[j] = g
      /\ \A j, k \in 1 .. n : s[j] = s[k] => j = k
  BY <1>1 DEF Threaded
<1> DEFINE I == Iterate(AddWait(L), [p |-> L.TimeoutList, to |-> 0])
           D == {k \in Nat : k < n => I[k].p = s[k + 1]}
<1>3. I \in [Nat -> Ticking] /\ I[0] = [p |-> L.TimeoutList, to |-> 0]
      /\ \A k \in Nat : I[k + 1] = AddWait(L)[I[k]]
  <2>1. ASSUME NEW x \in Ticking, x.p # 0
        PROVE  [p |-> L.next[x.p], to |-> x.to + L.timeout[x.p]] \in Ticking
    <3>1. x.p \in Handle /\ x.to \in Int
      BY <2>1, HandleFacts DEF Ticking
    <3>2. L.next[x.p] \in Handle0 /\ x.to + L.timeout[x.p] \in Int
      BY <3>1 DEF FieldsTyped
    <3> QED
      BY <3>2 DEF Ticking
  <2>2. AddWait(L) \in [Ticking -> Ticking]
    BY <2>1 DEF AddWait
  <2>3. [p |-> L.TimeoutList, to |-> 0] \in Ticking
    BY DEF Ticking, FieldsTyped
  <2>4. Rounds(AddWait(L), [p |-> L.TimeoutList, to |-> 0], Ticking, I)
    BY <2>2, <2>3, IterateRounds
  <2> HIDE DEF I
  <2> QED
    BY <2>4 DEF Rounds
<1> HIDE DEF I
<1>4. \A k \in Nat : /\ I[k].p \in Handle0 /\ I[k].to \in Int
                     /\ I[k].p # 0 => /\ I[k + 1].p = L.next[I[k].p]
                                      /\ I[k + 1].to = I[k].to + L.timeout[I[k].p]
  <2> TAKE k \in Nat
  <2>1. I[k] \in Ticking /\ I[k + 1] = AddWait(L)[I[k]]
    BY <1>3
  <2> QED
    BY <2>1 DEF AddWait, Ticking
<1>5. 0 \in D
  BY <1>1, <1>2, <1>3
<1>6. ASSUME NEW k \in Nat, k \in D
      PROVE  k + 1 \in D
  <2> SUFFICES ASSUME k + 1 < n
               PROVE  I[k + 1].p = s[(k + 1) + 1]
    OBVIOUS
  <2>1. k < n /\ k + 1 \in 1 .. n /\ k + 1 # n
    BY <1>1
  <2>2. I[k].p = s[k + 1]
    BY <1>6, <2>1
  <2> QED
    BY <1>2, <1>4, <2>1, <2>2
<1>7. Nat \subseteq D
  <2> HIDE DEF D
  <2> QED
    BY <1>5, <1>6, NatSubsetInduction
<1>8. ASSUME NEW i \in 1 .. n
      PROVE  I[i - 1].p = s[i] /\ I[i].to = I[i - 1].to + L.timeout[s[i]]
             /\ i - 1 \in Nat /\ i \in Nat
  <2>1. i - 1 \in Nat /\ i \in Nat /\ i - 1 < n /\ (i - 1) + 1 = i
    BY <1>1
  <2>2. i - 1 \in D
    BY <1>7, <2>1
  <2>3. I[i - 1].p = s[(i - 1) + 1]
    BY <2>1, <2>2
  <2>4. I[i - 1].p = s[i] /\ s[i] # 0
    BY <1>2, <2>1, <2>3
  <2> QED
    BY <1>4, <2>1, <2>4
<1>9. s = Sleepers(L, H)
  <2>1. L.next \in [Handle -> Handle0]
    BY DEF FieldsTyped
  <2> QED
    BY <1>0, <1>n, <2>1, LineFollowed DEF Sleepers
<1> DEFINE T == TicksLeft(L, H)
<1>10. ASSUME NEW h \in Handle
       PROVE  T[h] = IF H[h] # "timeout" THEN 0
                     ELSE I[CHOOSE i \in DOMAIN s : s[i] = h].to
  BY <1>9 DEF TicksLeft, TicksTo, I
<1>11. ASSUME NEW i \in 1 .. n
       PROVE  T[s[i]] = I[i].to
  <2>1. H[s[i]] = "timeout" /\ s[i] \in Handle
    BY <1>0, <1>2
  <2>2. DOMAIN s = 1 .. n
    BY <1>1
  <2>3. (CHOOSE j \in DOMAIN s : s[j] = s[i]) = i
    <3>1. PICK N : N = DOMAIN s
      OBVIOUS
    <3>2. i \in N /\ \A j \in N : s[j] = s[i] => j = i
      BY <1>d, <2>2, <3>1
    <3>3. (CHOOSE j \in N : s[j] = s[i]) = i
      BY <3>2
    <3> QED
      BY <3>1, <3>3
  <2> QED
    BY <1>10, <2>1, <2>3
<1>12. T \in [Handle -> Int]
  <2>1. T = [h \in Handle |-> T[h]]
    BY DEF TicksLeft
  <2>2. ASSUME NEW h \in Handle
        PROVE  T[h] \in Int
    <3>1. CASE H[h] # "timeout"
      BY <3>1, <1>10
    <3>2. CASE H[h] = "timeout"
      <4>1. PICK i \in 1 .. n : s[i] = h
        BY <3>2, <1>0, <1>d
      <4> QED
        BY <4>1, <1>11, <1>8, <1>4
    <3> QED
      BY <3>1, <3>2
  <2> HIDE DEF T
  <2> QED
    BY <2>1, <2>2
<1>13. \A h \in Handle : H[h] # "timeout" => T[h] = 0
  BY <1>10
<1>14. ASSUME NEW i \in 1 .. n
       PROVE  T[s[i]] = L.timeout[s[i]] + (IF i = 1 THEN 0 ELSE T[s[i - 1]])
  <2>1. T[s[i]] = I[i - 1].to + L.timeout[s[i]]
    BY <1>8, <1>11
  <2>2. L.timeout[s[i]] \in Int
    BY <1>2 DEF FieldsTyped
  <2>3. CASE i = 1
    <3>1. I[i - 1].to = 0
      BY <1>3, <2>3
    <3> QED
      BY <2>1, <2>2, <2>3, <3>1
  <2>4. CASE i # 1
    <3>1. i - 1 \in 1 .. n
      BY <2>4, <1>1
    <3>2. I[i - 1].to = T[s[i - 1]] /\ I[i - 1].to \in Int
      BY <3>1, <1>11, <1>8, <1>4
    <3> QED
      BY <2>1, <2>2, <2>4, <3>2
  <2> QED
    BY <2>3, <2>4
<1> HIDE DEF T
<1>15. Dues(L.timeout, s, T, n)
  BY <1>14 DEF Dues
<1> QED
  BY <1>n, <1>12, <1>13, <1>15 DEF T

-----------------------------------------------------------------------------
(* The lists as the sequences f, r and a, and e the ticks left.            *)
FreeLine(L, H, f) == InLine(L.next, L.freeTCB, 0, Members(H, "free"), f)

ReadyLine(L, H, p, s) == InLine(L.next, L.readyQ[p], L.readyQ[p], ReadyAt(L, H, p), s)

SleepLine(L, H, a) == InLine(L.next, L.TimeoutList, 0, Members(H, "timeout"), a)

Timed(L, H, a, e) ==
  /\ e \in [Handle -> Int]
  /\ \A h \in Handle : H[h] # "timeout" => e[h] = 0
  /\ \A h \in Members(H, "timeout") : L.timeout[h] \in Nat
  /\ Dues(L.timeout, a, e, Len(a))

Strung(L, H, f, r, a, e) ==
  /\ FreeLine(L, H, f)
  /\ \A p \in Priority : ReadyLine(L, H, p, r[p])
  /\ r = [p \in Priority |-> r[p]]
  /\ SleepLine(L, H, a)
  /\ Timed(L, H, a, e)

(* They are what TcbRefinement reads off the links.                        *)
LEMMA StrungIs ==
  ASSUME NEW L, NEW H, FieldsTyped(L, H), NEW f, NEW r, NEW a, NEW e, Strung(L, H, f, r, a, e)
  PROVE  /\ f = FreeTCBs(L, H) /\ r = ReadyQs(L, H)
         /\ a = Sleepers(L, H) /\ e = TicksLeft(L, H)
<1>1. L.next \in [Handle -> Handle0]
  BY DEF FieldsTyped
<1>p. PlacesTold(L, H)
  BY Places
<1>2. f = FreeTCBs(L, H)
  <2>1. Members(H, "free") \subseteq Handle /\ FreeLine(L, H, f)
    BY <1>p DEF PlacesTold, Strung
  <2> QED
    BY <1>1, <2>1, LineFollowed DEF FreeTCBs, FreeLine
<1>3. r = ReadyQs(L, H)
  <2>1. ASSUME NEW p \in Priority
        PROVE  r[p] = ReadyOf(L, H, p)
    <3>1. ReadyAt(L, H, p) \subseteq Handle /\ ReadyLine(L, H, p, r[p])
      BY <1>p DEF PlacesTold, Strung
    <3> QED
      BY <1>1, <3>1, LineFollowed DEF ReadyOf, ReadyLine
  <2>2. r = [p \in Priority |-> r[p]]
    BY DEF Strung
  <2> QED
    BY <2>1, <2>2 DEF ReadyQs
<1>4. a = Sleepers(L, H)
  <2>1. Members(H, "timeout") \subseteq Handle /\ SleepLine(L, H, a)
    BY <1>p DEF PlacesTold, Strung
  <2> QED
    BY <1>1, <2>1, LineFollowed DEF Sleepers, SleepLine
<1>5. e = TicksLeft(L, H)
  <2> DEFINE d == TicksLeft(L, H)
             Q == Members(H, "timeout")
  <2>1. SleepLine(L, H, a) /\ Timed(L, H, a, e)
    BY DEF Strung
  <2>2. /\ d \in [Handle -> Int] /\ \A h \in Handle : H[h] # "timeout" => d[h] = 0
        /\ Dues(L.timeout, a, d, Len(a))
    BY <2>1, TicksAreDues DEF SleepLine
  <2>3. /\ e \in [Handle -> Int] /\ \A h \in Handle : H[h] # "timeout" => e[h] = 0
        /\ Dues(L.timeout, a, e, Len(a))
    BY <2>1 DEF Timed
  <2>4. /\ Len(a) \in Nat
        /\ \A g \in Q : \E i \in 1 .. Len(a) : a[i] = g
    BY <2>1, LenProperties DEF SleepLine, InLine, Threaded
  <2>5. \A i \in 1 .. Len(a) : d[a[i]] = e[a[i]]
    BY <2>2, <2>3, <2>4, DuesUnique
  <2>6. \A h \in Handle : H[h] = "timeout" => h \in Q
    BY <1>p DEF PlacesTold
  <2> HIDE DEF d, Q
  <2>7. ASSUME NEW h \in Handle
        PROVE  d[h] = e[h]
    <3>1. CASE H[h] # "timeout"
      BY <3>1, <2>2, <2>3
    <3>2. CASE H[h] = "timeout"
      BY <3>2, <2>4, <2>5, <2>6
    <3> QED
      BY <3>1, <3>2
  <2>8. d = e
    BY <2>2, <2>3, <2>7
  <2> QED
    BY <2>8 DEF d
<1> QED
  BY <1>2, <1>3, <1>4, <1>5

-----------------------------------------------------------------------------
(* What a call leaves alone.                                               *)
KeptFree(L, H, M, K) ==
  /\ M.freeTCB = L.freeTCB
  /\ \A h \in Handle : K[h] = "free" <=> H[h] = "free"
  /\ \A h \in Handle : H[h] = "free" => M.next[h] = L.next[h]

KeptReady(L, H, M, K, p) ==
  /\ M.readyQ[p] = L.readyQ[p]
  /\ \A h \in Handle : K[h] = "ready" /\ M.priority[h] = p <=> H[h] = "ready" /\ L.priority[h] = p
  /\ \A h \in Handle : H[h] = "ready" /\ L.priority[h] = p => M.next[h] = L.next[h]

KeptAsleep(L, H, M, K) ==
  /\ M.TimeoutList = L.TimeoutList /\ M.timeout = L.timeout
  /\ \A h \in Handle : K[h] = "timeout" <=> H[h] = "timeout"
  /\ \A h \in Handle : H[h] = "timeout" => M.next[h] = L.next[h]

(* A list whose head, members and links a routine leaves alone is strung   *)
(* up as it was.                                                           *)
LEMMA FreeSame ==
  ASSUME NEW L, NEW H, NEW M, NEW K, KeptFree(L, H, M, K), NEW f, FreeLine(L, H, f)
  PROVE  FreeLine(M, K, f)
<1>1. Members(K, "free") = Members(H, "free")
  BY DEF Members, KeptFree
<1>2. M.freeTCB = L.freeTCB /\ \A h \in Members(H, "free") : M.next[h] = L.next[h]
  BY DEF Members, KeptFree
<1> QED
  BY <1>1, <1>2, LineSame DEF FreeLine

LEMMA ReadySame ==
  ASSUME NEW L, NEW H, NEW M, NEW K, NEW p, KeptReady(L, H, M, K, p),
         NEW s, ReadyLine(L, H, p, s)
  PROVE  ReadyLine(M, K, p, s)
<1>1. ReadyAt(M, K, p) = ReadyAt(L, H, p)
  BY DEF ReadyAt, KeptReady
<1>2. M.readyQ[p] = L.readyQ[p] /\ \A h \in ReadyAt(L, H, p) : M.next[h] = L.next[h]
  BY DEF ReadyAt, KeptReady
<1> QED
  BY <1>1, <1>2, LineSame DEF ReadyLine

LEMMA SleepSame ==
  ASSUME NEW L, NEW H, NEW M, NEW K, KeptAsleep(L, H, M, K),
         NEW a, NEW e, SleepLine(L, H, a), Timed(L, H, a, e)
  PROVE  SleepLine(M, K, a) /\ Timed(M, K, a, e)
<1>1. Members(K, "timeout") = Members(H, "timeout")
  BY DEF Members, KeptAsleep
<1>2. M.TimeoutList = L.TimeoutList /\ \A h \in Members(H, "timeout") : M.next[h] = L.next[h]
  BY DEF Members, KeptAsleep
<1>3. SleepLine(M, K, a)
  BY <1>1, <1>2, LineSame DEF SleepLine
<1>4. Timed(M, K, a, e)
  BY <1>1 DEF Timed, KeptAsleep
<1> QED
  BY <1>3, <1>4

(* The first of a list is where its head points to.                        *)
LEMMA LineHead ==
  ASSUME NEW nx, NEW head, NEW end, NEW Q, 0 \notin Q, NEW s, InLine(nx, head, end, Q, s)
  PROVE  /\ head = 0 <=> s = <<>>
         /\ head = 0 <=> Q = {}
         /\ head # 0 => /\ 1 \in 1 .. Len(s) /\ s[1] = head /\ Head(s) = head /\ head \in Q
                        /\ Len(s) = 1 => nx[head] = end
<1>n. PICK n : n = Len(s)
  OBVIOUS
<1>1. s \in Seq(Q) /\ n \in Nat /\ Threaded(nx, head, end, Q, s, n) /\ (s = <<>> <=> n = 0)
  BY <1>n, LenProperties, EmptySeq DEF InLine
<1>2. head = IF n = 0 THEN 0 ELSE s[1]
  BY <1>1 DEF Threaded
<1>3. n # 0 => 1 \in 1 .. n
  BY <1>1
<1>4. n # 0 => s[1] \in Q /\ s[1] # 0 /\ nx[s[1]] = IF 1 = n THEN end ELSE s[1 + 1]
  BY <1>1, <1>3 DEF Threaded
<1>5. n = 0 => Q = {}
  BY <1>1 DEF Threaded
<1>6. s # <<>> => Head(s) = s[1]
  BY <1>1
<1> QED
  BY <1>n, <1>1, <1>2, <1>3, <1>4, <1>5, <1>6

(* The free list's head is the first of its sequence.                      *)
LEMMA FirstFreeTCB ==
  ASSUME NEW L, NEW H, WellFormed(L, H), L.freeTCB # 0,
         NEW f, NEW r, NEW a, NEW e, Strung(L, H, f, r, a, e)
  PROVE  f # <<>> /\ Head(f) = L.freeTCB /\ 1 \in 1 .. Len(f) /\ f[1] = L.freeTCB
<1>d. PICK t, Q : t = L.freeTCB /\ Q = Members(H, "free")
  OBVIOUS
<1>1. InLine(L.next, t, 0, Q, f)
  BY <1>d DEF Strung, FreeLine
<1>2. 0 \notin Q
  BY <1>d, HandleFacts DEF Members
<1> QED
  BY <1>1, <1>2, <1>d, LineHead

(* The first free TCB is taken off the stack.                              *)
LEMMA AllocTCBStrung ==
  ASSUME NEW L, NEW H, WellFormed(L, H), NEW pri \in Priority, L.freeTCB # 0,
         NEW M, M = TakeTCB(L, pri), NEW K, K = [H EXCEPT ![L.freeTCB] = "loose"],
         NEW f, NEW r, NEW a, NEW e, Strung(L, H, f, r, a, e)
  PROVE  Strung(M, K, Tail(f), r, a, e)
<1> DEFINE t == L.freeTCB
           Q == Members(H, "free")
<1>f. FieldsTyped(L, H)
  BY FieldTypes DEF WellFormed
<1>1. t \in Handle /\ H[t] = "free" /\ t # 0
  BY TakeTCBFields
<1>2. /\ M.next = [L.next EXCEPT ![t] = 0] /\ M.priority = [L.priority EXCEPT ![t] = pri]
      /\ M.freeTCB = L.next[t] /\ M.readyQ = L.readyQ
      /\ M.TimeoutList = L.TimeoutList /\ M.timeout = L.timeout
  BY <1>f DEF TakeTCB, FieldsTyped, Lists
<1>3. \A h \in Handle : /\ M.next[h] = IF h = t THEN 0 ELSE L.next[h]
                        /\ M.priority[h] = IF h = t THEN pri ELSE L.priority[h]
                        /\ K[h] = IF h = t THEN "loose" ELSE H[h]
  BY <1>f, <1>1, <1>2 DEF FieldsTyped
<1>4. FreeLine(L, H, f) /\ SleepLine(L, H, a) /\ Timed(L, H, a, e)
      /\ r = [p \in Priority |-> r[p]]
      /\ \A p \in Priority : ReadyLine(L, H, p, r[p])
  BY DEF Strung
<1>5. Q \subseteq Handle /\ 0 \notin Q /\ t \in Q /\ Members(K, "free") = Q \ {t}
  <2>1. Members(K, "free") = Q \ {t}
    BY <1>1, <1>3 DEF Members
  <2> QED
    BY <1>1, <2>1, HandleFacts DEF Members
<1>6. f # <<>> /\ Head(f) = t /\ 1 \in 1 .. Len(f) /\ f[1] = t
      /\ (Len(f) = 1 => L.next[t] = 0) /\ f \in Seq(Q)
  <2>1. InLine(L.next, t, 0, Q, f) /\ f \in Seq(Q)
    BY <1>4 DEF FreeLine, InLine
  <2> HIDE DEF Q, t
  <2> QED
    BY <1>1, <1>5, <2>1, LineHead
<1>7. FreeLine(M, K, Tail(f))
  <2> DEFINE n == Len(f)
             u == Tail(f)
  <2>1. u \in Seq(Q) /\ Len(u) = n - 1 /\ Left(f, 1, u, n)
    BY <1>6, LeavesFirst
  <2>2. Bridged(L.next, t, Q, M.next)
    <3>1. \A g \in Q : L.next[g] # t
      BY <1>1 DEF WellFormed, StackFormed, Stack
    <3> QED
      BY <1>3, <1>5, <3>1 DEF Bridged
  <2> HIDE DEF u, n
  <2>3. InLine(M.next, FirstWithout(L.next, t, t, n), LastWithout(L.next, 0, t), Q \ {t}, u)
    <3>1. InLine(L.next, t, 0, Q, f) /\ n = Len(f) /\ 1 \in 1 .. n
      BY <1>4, <1>6 DEF FreeLine, n
    <3> QED
      BY <1>5, <1>6, <2>1, <2>2, <3>1, LineRemoved
  <2>4. FirstWithout(L.next, t, t, n) = L.next[t] /\ LastWithout(L.next, 0, t) = 0
    BY <1>1, <1>6 DEF FirstWithout, LastWithout, n
  <2> QED
    BY <1>2, <1>5, <2>3, <2>4 DEF FreeLine, u
<1>8. \A p \in Priority : ReadyLine(M, K, p, r[p])
  <2> TAKE p \in Priority
  <2>1. KeptReady(L, H, M, K, p)
    BY <1>1, <1>3, <1>2 DEF KeptReady
  <2> QED
    BY <1>4, <2>1, ReadySame
<1>9. SleepLine(M, K, a) /\ Timed(M, K, a, e)
  <2>1. KeptAsleep(L, H, M, K)
    BY <1>1, <1>3, <1>2 DEF KeptAsleep
  <2> QED
    BY <1>4, <2>1, SleepSame
<1> QED
  BY <1>4, <1>6, <1>7, <1>8, <1>9 DEF Strung

(* A freed TCB is put on top of the stack.                                 *)
LEMMA FreeTCBStrung ==
  ASSUME NEW L, NEW H, WellFormed(L, H), NEW t \in Handle, H[t] = "loose",
         NEW M, M = iFreeTCB(L, t), NEW K, K = [H EXCEPT ![t] = "free"],
         NEW f, NEW r, NEW a, NEW e, Strung(L, H, f, r, a, e)
  PROVE  Strung(M, K, <<t>> \o f, r, a, e)
<1> DEFINE Q == Members(H, "free")
<1>f. FieldsTyped(L, H)
  BY FieldTypes DEF WellFormed
<1>2. /\ M.next = [L.next EXCEPT ![t] = L.freeTCB] /\ M.priority = L.priority
      /\ M.freeTCB = t /\ M.readyQ = L.readyQ
      /\ M.TimeoutList = L.TimeoutList /\ M.timeout = L.timeout
  BY <1>f DEF iFreeTCB, FieldsTyped, Lists
<1>3. \A h \in Handle : /\ M.next[h] = IF h = t THEN L.freeTCB ELSE L.next[h]
                        /\ M.priority[h] = L.priority[h]
                        /\ K[h] = IF h = t THEN "free" ELSE H[h]
  BY <1>f, <1>2 DEF FieldsTyped
<1>4. FreeLine(L, H, f) /\ SleepLine(L, H, a) /\ Timed(L, H, a, e)
      /\ r = [p \in Priority |-> r[p]]
      /\ \A p \in Priority : ReadyLine(L, H, p, r[p])
  BY DEF Strung
<1>5. Q \subseteq Handle /\ 0 \notin Q /\ t \notin Q /\ Members(K, "free") = Q \cup {t}
  BY <1>3, HandleFacts DEF Members
<1>7. FreeLine(M, K, <<t>> \o f)
  <2> DEFINE n == Len(f)
             u == <<t>> \o f
  <2>0. f \in Seq(Q) /\ InLine(L.next, L.freeTCB, 0, Q, f)
    BY <1>4 DEF FreeLine, InLine
  <2>1. u \in Seq(Q \cup {t}) /\ Len(u) = n + 1 /\ Entered(f, t, 1, u, n)
    BY <2>0, EntersFirst
  <2>2. n \in Nat /\ Threaded(L.next, L.freeTCB, 0, Q, f, n)
    BY <2>0, LenProperties DEF InLine
  <2> HIDE DEF u, n
  <2>3. 1 \in 1 .. n + 1 /\ (1 = n + 1 <=> n = 0) /\ \A j \in 1 .. n : j # 1 - 1
    BY <2>2
  <2>4. LinkedAs(L.next, 0, f, t, 1, n, M.next, 0)
    <3>1. M.next[t] = IF 1 = n + 1 THEN 0 ELSE f[1]
      BY <1>3, <2>2, <2>3 DEF Threaded
    <3>2. \A j \in 1 .. n : M.next[f[j]] = IF j = 1 - 1 THEN t ELSE L.next[f[j]]
      <4> TAKE j \in 1 .. n
      <4>1. f[j] \in Handle /\ f[j] # t /\ j # 1 - 1
        BY <1>5, <2>2, <2>3 DEF Threaded
      <4> QED
        BY <1>3, <4>1
    <3> QED
      BY <3>1, <3>2 DEF LinkedAs
  <2>5. InLine(M.next, FirstWith(L.freeTCB, t, 1), 0, Q \cup {t}, u)
    <3>1. n = Len(f)
      BY DEF n
    <3> QED
      BY <1>5, <2>0, <2>1, <2>3, <2>4, <3>1, LineInserted
  <2>6. FirstWith(L.freeTCB, t, 1) = t
    BY DEF FirstWith
  <2> QED
    BY <1>2, <1>5, <2>5, <2>6 DEF FreeLine, u
<1>8. \A p \in Priority : ReadyLine(M, K, p, r[p])
  <2> TAKE p \in Priority
  <2>1. KeptReady(L, H, M, K, p)
    BY <1>3, <1>2 DEF KeptReady
  <2> QED
    BY <1>4, <2>1, ReadySame
<1>9. SleepLine(M, K, a) /\ Timed(M, K, a, e)
  <2>1. KeptAsleep(L, H, M, K)
    BY <1>3, <1>2 DEF KeptAsleep
  <2> QED
    BY <1>4, <2>1, SleepSame
<1> QED
  BY <1>4, <1>7, <1>8, <1>9 DEF Strung

(* The links that a thread entering a ready queue changes.                 *)
LEMMA InsertIntoReadyQueueLinks ==
  ASSUME NEW L, NEW H, WellFormed(L, H), NEW t \in Handle, H[t] = "loose",
         NEW M, M = TCBInsertIntoReadyQueue(L, t),
         NEW p, p = L.priority[t], NEW h, h = L.readyQ[p], NEW l, l = L.prev[h]
  PROVE  /\ M.priority = L.priority /\ M.freeTCB = L.freeTCB
         /\ M.TimeoutList = L.TimeoutList /\ M.timeout = L.timeout
         /\ \A q \in Priority : q # p => M.readyQ[q] = L.readyQ[q]
         /\ M.readyQ[p] = IF h = 0 THEN t ELSE h
         /\ M.next[t] = IF h = 0 THEN t ELSE h
         /\ h # 0 => l \in ReadyAt(L, H, p)
         /\ \A g \in Handle : g # t => M.next[g] = IF h # 0 /\ g = l THEN t ELSE L.next[g]
<1>f. FieldsTyped(L, H) /\ PlacesTold(L, H) /\ p \in Priority /\ h \in Handle0
  BY FieldTypes, Places DEF WellFormed, FieldsTyped
<1>t. /\ L \in Lists /\ p \in Priority /\ h \in Handle0
      /\ L.next \in [Handle -> Handle0] /\ L.readyQ \in [Priority -> Handle0]
  BY <1>f DEF FieldsTyped
<1>1. L.next[t] = 0 /\ L.prev[t] = 0
  BY DEF WellFormed, LooseFormed, Members
<1>2. /\ M.priority = L.priority /\ M.freeTCB = L.freeTCB
      /\ M.TimeoutList = L.TimeoutList /\ M.timeout = L.timeout
  BY <1>t DEF TCBInsertIntoReadyQueue, Lists, Panic
<1>3. CASE h = 0
  <2>1. M.next = [L.next EXCEPT ![t] = t]
    BY <1>t, <1>3 DEF TCBInsertIntoReadyQueue, Lists
  <2>2. M.readyQ = [L.readyQ EXCEPT ![p] = t]
    BY <1>t, <1>3 DEF TCBInsertIntoReadyQueue, Lists
  <2>3. L.next \in [Handle -> Handle0] /\ L.readyQ \in [Priority -> Handle0] /\ p \in Priority
    BY <1>t
  <2>4. M.readyQ[p] = t /\ \A q \in Priority : q # p => M.readyQ[q] = L.readyQ[q]
    BY <2>2, <2>3, Zenon
  <2>5. M.next[t] = t /\ \A g \in Handle : g # t => M.next[g] = L.next[g]
    BY <2>1, <2>3
  <2> QED
    BY <1>2, <1>3, <2>4, <2>5
<1>4. CASE h # 0
  <2>1. h \in ReadyAt(L, H, p)
    BY <1>f, <1>4 DEF WellFormed, RingsFormed
  <2>2. l \in ReadyAt(L, H, p)
    BY <1>f, <2>1, Neighbours
  <2>3. l \in Handle /\ l # t /\ h # t
    BY <2>1, <2>2, <1>f DEF PlacesTold
  <2>4. l # 0
    BY <2>3, HandleFacts
  <2>5. M = [[L EXCEPT !.status[t] = @ \cup {"READY"}]
                EXCEPT !.next = Put(Put(@, t, h), l, t), !.prev = Put(Put(@, t, l), h, t)]
    <3>1. L \in Lists /\ L.next[t] = 0 /\ L.prev[t] = 0 /\ h # 0 /\ t # h /\ l # 0
      BY <1>1, <1>t, <1>4, <2>3, <2>4
    <3> QED
      BY <3>1, SMTT(25) DEF TCBInsertIntoReadyQueue, Lists
  <2>6. M.next = Put(Put(L.next, t, h), l, t) /\ M.readyQ = L.readyQ
    BY <1>t, <2>5 DEF Lists
  <2>7. Put(Put(L.next, t, h), l, t) = [L.next EXCEPT ![t] = h, ![l] = t]
    BY <2>3 DEF Put
  <2>8. \A g \in Handle : M.next[g] = IF g = l THEN t ELSE IF g = t THEN h ELSE L.next[g]
    BY <1>f, <2>6, <2>7 DEF FieldsTyped
  <2> QED
    BY <1>2, <1>4, <2>2, <2>3, <2>6, <2>8
<1> QED
  BY <1>3, <1>4

(* A thread made ready is the last of its queue.                           *)
LEMMA InsertIntoReadyQueueStrung ==
  ASSUME NEW L, NEW H, WellFormed(L, H), NEW t \in Handle, H[t] = "loose",
         NEW M, M = TCBInsertIntoReadyQueue(L, t), NEW K, K = [H EXCEPT ![t] = "ready"],
         NEW f, NEW r, NEW a, NEW e, Strung(L, H, f, r, a, e)
  PROVE  Strung(M, K, f, [r EXCEPT ![L.priority[t]] = Append(@, t)], a, e)
<1>d. PICK p, h, l, Q, s : /\ p = L.priority[t] /\ h = L.readyQ[p] /\ l = L.prev[h]
                           /\ Q = ReadyAt(L, H, p) /\ s = r[p]
  OBVIOUS
<1> DEFINE u == Append(s, t)
<1>f. FieldsTyped(L, H) /\ PlacesTold(L, H) /\ p \in Priority /\ h \in Handle0
  BY <1>d, FieldTypes, Places DEF WellFormed, FieldsTyped
<1>1. /\ M.priority = L.priority /\ M.freeTCB = L.freeTCB
      /\ M.TimeoutList = L.TimeoutList /\ M.timeout = L.timeout
      /\ \A q \in Priority : q # p => M.readyQ[q] = L.readyQ[q]
      /\ M.readyQ[p] = IF h = 0 THEN t ELSE h
      /\ M.next[t] = IF h = 0 THEN t ELSE h
      /\ h # 0 => l \in Q
      /\ \A g \in Handle : g # t => M.next[g] = IF h # 0 /\ g = l THEN t ELSE L.next[g]
  BY <1>d, InsertIntoReadyQueueLinks
<1>2. \A g \in Handle : K[g] = IF g = t THEN "ready" ELSE H[g]
  BY <1>f DEF FieldsTyped
<1>3. \A g \in Handle : g # t /\ ~(H[g] = "ready" /\ L.priority[g] = p) => M.next[g] = L.next[g]
  BY <1>1, <1>d, <1>f DEF PlacesTold
<1>4. FreeLine(L, H, f) /\ SleepLine(L, H, a) /\ Timed(L, H, a, e)
      /\ r = [q \in Priority |-> r[q]]
      /\ \A q \in Priority : ReadyLine(L, H, q, r[q])
  BY DEF Strung
<1>5. Q \subseteq Handle /\ 0 \notin Q /\ t \notin Q /\ ReadyAt(M, K, p) = Q \cup {t}
  <2>1. ReadyAt(M, K, p) = Q \cup {t}
    BY <1>1, <1>2, <1>d DEF ReadyAt
  <2> QED
    BY <2>1, <1>d, <1>f, HandleFacts DEF PlacesTold
<1>6. ReadyLine(M, K, p, u)
  <2>n. PICK n : n = Len(s)
    OBVIOUS
  <2>1. InLine(L.next, h, h, Q, s) /\ s \in Seq(Q) /\ n \in Nat /\ Threaded(L.next, h, h, Q, s, n)
    BY <2>n, <1>4, <1>d, <1>f, LenProperties DEF ReadyLine, InLine
  <2>2. u \in Seq(Q \cup {t}) /\ Len(u) = n + 1 /\ Entered(s, t, n + 1, u, n)
    <3>1. s \in Seq(Q)
      BY <2>1
    <3> QED
      BY <2>n, <3>1, EntersLast
  <2> HIDE DEF u
  <2>3. n + 1 \in 1 .. n + 1 /\ (n + 1 = 1 <=> n = 0) /\ (n + 1) - 1 = n /\ (n # 0 => n \in 1 .. n)
    BY <2>1
  <2>4. /\ \A j \in 1 .. n : s[j] \in Q
        /\ \A i, j \in 1 .. n : s[i] = s[j] => i = j
        /\ h = IF n = 0 THEN 0 ELSE s[1]
        /\ n # 0 => L.next[s[n]] = h
    BY <2>1, <2>3 DEF Threaded
  <2>5. h = 0 <=> n = 0
    <3>1. n # 0 => 1 \in 1 .. n
      BY <2>1
    <3> QED
      BY <2>4, <3>1, <1>5
  <2>6. n # 0 => l = s[n]
    <3> SUFFICES ASSUME n # 0 PROVE l = s[n]
      OBVIOUS
    <3>1. s[n] \in Q /\ L.next[s[n]] = h
      BY <2>3, <2>4
    <3>2. L.prev[L.next[s[n]]] = s[n]
      BY <3>1, <1>d, <1>f, Neighbours
    <3> QED
      BY <3>1, <3>2, <1>d
  <2>7. LinkedAs(L.next, h, s, t, n + 1, n, M.next, M.readyQ[p])
    <3>1. M.next[t] = M.readyQ[p]
      BY <1>1
    <3>2. ASSUME NEW j \in 1 .. n
          PROVE  M.next[s[j]] = IF j = (n + 1) - 1 THEN t ELSE L.next[s[j]]
      <4>1. n # 0
        BY <2>1
      <4>2. s[j] \in Handle /\ s[j] # t /\ (s[j] = l <=> j = n)
        BY <2>3, <2>4, <2>6, <4>1, <1>5
      <4> QED
        BY <4>1, <4>2, <2>3, <2>5, <1>1
    <3> QED
      BY <3>1, <3>2 DEF LinkedAs
  <2>8. InLine(M.next, FirstWith(h, t, n + 1), M.readyQ[p], Q \cup {t}, u)
    BY <2>n, <2>1, <2>2, <2>3, <2>7, <1>5, LineInserted
  <2>9. FirstWith(h, t, n + 1) = M.readyQ[p]
    BY <2>3, <2>5, <1>1 DEF FirstWith
  <2> QED
    BY <2>8, <2>9, <1>5 DEF ReadyLine
<1>7. FreeLine(M, K, f)
  <2>1. KeptFree(L, H, M, K)
    BY <1>1, <1>2, <1>3 DEF KeptFree
  <2> QED
    BY <2>1, <1>4, FreeSame
<1>8. ASSUME NEW q \in Priority, q # p
      PROVE  ReadyLine(M, K, q, r[q])
  <2>1. KeptReady(L, H, M, K, q)
    BY <1>1, <1>2, <1>3, <1>8, <1>d DEF KeptReady
  <2> QED
    BY <2>1, <1>4, ReadySame
<1>9. SleepLine(M, K, a) /\ Timed(M, K, a, e)
  <2>1. KeptAsleep(L, H, M, K)
    BY <1>1, <1>2, <1>3 DEF KeptAsleep
  <2> QED
    BY <2>1, <1>4, SleepSame
<1> DEFINE x == [r EXCEPT ![p] = Append(@, t)]
<1> HIDE DEF u
<1>10. x = [q \in Priority |-> x[q]] /\ \A q \in Priority : x[q] = IF q = p THEN u ELSE r[q]
  BY <1>4, <1>d, <1>f DEF u
<1>11. \A q \in Priority : ReadyLine(M, K, q, x[q])
  BY <1>6, <1>8, <1>10
<1> HIDE DEF x
<1>12. Strung(M, K, f, x, a, e)
  BY <1>7, <1>9, <1>10, <1>11 DEF Strung
<1> QED
  BY <1>12, <1>d DEF x

(* A thread between lists is on no ready queue; the routine changes        *)
(* nothing about the lists then.                                           *)
LEMMA RemoveFromNoQueueStrung ==
  ASSUME NEW L, NEW H, WellFormed(L, H), NEW t \in Handle, H[t] = "loose",
         NEW M, M = TCBRemoveFromReadyQueue(L, t), NEW K, K = [H EXCEPT ![t] = "loose"],
         NEW f, NEW r, NEW a, NEW e, Strung(L, H, f, r, a, e)
  PROVE  Strung(M, K, f, r, a, e)
<1>d. PICK p : p = L.priority[t]
  OBVIOUS
<1>f. FieldsTyped(L, H) /\ PlacesTold(L, H) /\ p \in Priority
  BY <1>d, FieldTypes, Places DEF WellFormed, FieldsTyped
<1>1. L.next[t] = 0 /\ L.prev[t] = 0
  BY DEF WellFormed, LooseFormed, Members
<1>2. /\ M.priority = L.priority /\ M.timeout = L.timeout
      /\ M.TimeoutList = L.TimeoutList /\ M.freeTCB = L.freeTCB
      /\ M.readyQ = [L.readyQ EXCEPT ![p] = HeadWithout(L, t)]
      /\ M.next = Put(IF L.next[t] = t THEN L.next ELSE Put(L.next, L.prev[t], L.next[t]), t, 0)
  BY <1>d, <1>f DEF TCBRemoveFromReadyQueue, Lists, FieldsTyped
<1>3. L.readyQ[p] # t
  BY <1>f, HandleFacts DEF WellFormed, RingsFormed, PlacesTold
<1>4. M.readyQ[p] = L.readyQ[p] /\ \A q \in Priority : M.readyQ[q] = L.readyQ[q]
  BY <1>d, <1>f, <1>2, <1>3 DEF HeadWithout, FieldsTyped
<1>5. \A g \in Handle : M.next[g] = L.next[g]
  <2>1. M.next = [L.next EXCEPT ![t] = 0]
    BY <1>1, <1>2, HandleFacts DEF Put
  <2> QED
    BY <1>1, <1>f, <2>1 DEF FieldsTyped
<1>6. K = H
  BY <1>f DEF FieldsTyped
<1>7. FreeLine(L, H, f) /\ SleepLine(L, H, a) /\ Timed(L, H, a, e)
      /\ r = [q \in Priority |-> r[q]]
      /\ \A q \in Priority : ReadyLine(L, H, q, r[q])
  BY DEF Strung
<1>8. KeptFree(L, H, M, H) /\ KeptAsleep(L, H, M, H) /\ \A q \in Priority : KeptReady(L, H, M, H, q)
  BY <1>2, <1>4, <1>5 DEF KeptFree, KeptAsleep, KeptReady
<1>9. FreeLine(M, H, f)
  BY <1>7, <1>8, FreeSame
<1>10. SleepLine(M, H, a) /\ Timed(M, H, a, e)
  BY <1>7, <1>8, SleepSame
<1>11. \A q \in Priority : ReadyLine(M, H, q, r[q])
  BY <1>7, <1>8, ReadySame
<1>12. Strung(M, H, f, r, a, e)
  BY <1>7, <1>9, <1>10, <1>11 DEF Strung
<1> QED
  BY <1>6, <1>12

(* Where a member of a list is, and the successor of a lone one.           *)
LEMMA LineHas ==
  ASSUME NEW nx, NEW head, NEW end, NEW Q, NEW s, InLine(nx, head, end, Q, s), NEW t \in Q
  PROVE  \E i \in DOMAIN s : s[i] = t
BY LenProperties DEF InLine, Threaded

(* A member of a ring leads to itself when it is the only one.             *)
LEMMA RingLone ==
  ASSUME NEW nx, NEW head, NEW Q, NEW s, InLine(nx, head, head, Q, s),
         NEW n, n = Len(s), NEW i \in 1 .. n
  PROVE  nx[s[i]] = s[i] <=> n = 1
<1>1. n \in Nat /\ Threaded(nx, head, head, Q, s, n)
  BY LenProperties DEF InLine
<1>2. /\ nx[s[i]] = IF i = n THEN head ELSE s[i + 1]
      /\ head = s[1]
      /\ \A j, k \in 1 .. n : s[j] = s[k] => j = k
  <2>1. n # 0
    BY <1>1
  <2> QED
    BY <1>1, <2>1 DEF Threaded
<1>3. CASE i = n
  <2>1. 1 \in 1 .. n
    BY <1>1
  <2>2. s[1] = s[i] <=> i = 1
    BY <1>2, <2>1
  <2> QED
    BY <1>2, <1>3, <2>2
<1>4. CASE i # n
  <2>1. i + 1 \in 1 .. n /\ i + 1 # i /\ n # 1
    BY <1>1, <1>4
  <2> QED
    BY <1>2, <1>4, <2>1
<1> QED
  BY <1>3, <1>4

(* The end of an empty list does not matter.                               *)
LEMMA LineEnded ==
  ASSUME NEW nx, NEW head, NEW end, NEW Q, NEW s, InLine(nx, head, end, Q, s), Len(s) = 0,
         NEW last
  PROVE  InLine(nx, head, last, Q, s)
<1>1. \A i \in 1 .. 0 : FALSE
  OBVIOUS
<1> QED
  BY <1>1 DEF InLine, Threaded

(* What RemoveAt does to a sequence.                                       *)
LEMMA LeavesAt ==
  ASSUME NEW Q, NEW s \in Seq(Q), NEW i \in 1 .. Len(s)
  PROVE  /\ RemoveAt(s, i) \in Seq(Q) /\ Len(RemoveAt(s, i)) = Len(s) - 1
         /\ Left(s, i, RemoveAt(s, i), Len(s))
<1>1. PICK r : r = RemoveAt(s, i)
  OBVIOUS
<1>2. r \in Seq(Q) /\ Len(r) = Len(s) - 1 /\ Left(s, i, r, Len(s))
  BY <1>1, RemovedAt
<1> QED
  BY <1>1, <1>2

(* The links that a thread leaving its ready queue changes.                *)
LEMMA RemoveFromReadyQueueLinks ==
  ASSUME NEW L, NEW H, WellFormed(L, H), NEW t \in Handle, H[t] = "ready",
         NEW M, M = TCBRemoveFromReadyQueue(L, t),
         NEW p, p = L.priority[t], NEW Q, Q = ReadyAt(L, H, p)
  PROVE  /\ M.priority = L.priority /\ M.freeTCB = L.freeTCB
         /\ M.TimeoutList = L.TimeoutList /\ M.timeout = L.timeout
         /\ \A q \in Priority : q # p => M.readyQ[q] = L.readyQ[q]
         /\ M.readyQ[p] = HeadWithout(L, t)
         /\ L.prev[t] \in Q
         /\ \A g \in Handle : g # t => M.next[g] = IF g = L.prev[t] THEN L.next[t] ELSE L.next[g]
         /\ \A g \in Q : L.next[g] = t <=> g = L.prev[t]
<1>f. FieldsTyped(L, H) /\ PlacesTold(L, H) /\ p \in Priority
  BY FieldTypes, Places DEF WellFormed, FieldsTyped
<1>t. /\ L \in Lists /\ L.next \in [Handle -> Handle0] /\ L.readyQ \in [Priority -> Handle0]
      /\ Q \subseteq Handle /\ t \in Q
  BY <1>f DEF FieldsTyped, PlacesTold
<1>1. /\ M.priority = L.priority /\ M.timeout = L.timeout
      /\ M.TimeoutList = L.TimeoutList /\ M.freeTCB = L.freeTCB
      /\ M.readyQ = [L.readyQ EXCEPT ![p] = HeadWithout(L, t)]
      /\ M.next = Put(IF L.next[t] = t THEN L.next ELSE Put(L.next, L.prev[t], L.next[t]), t, 0)
  BY <1>t DEF TCBRemoveFromReadyQueue, Lists
<1>2. /\ \A g \in Q : L.next[g] \in Q /\ L.prev[L.next[g]] = g
      /\ \A g \in Q : L.prev[g] \in Q /\ L.next[L.prev[g]] = g
  BY <1>f, Neighbours
<1>3. \A g \in Q : L.next[g] = t <=> g = L.prev[t]
  BY <1>t, <1>2
<1>4. \A g \in Handle : g # t => M.next[g] = IF g = L.prev[t] THEN L.next[t] ELSE L.next[g]
  <2>1. CASE L.next[t] = t
    <3>1. L.prev[t] = t
      BY <1>t, <1>3, <2>1
    <3>2. M.next = [L.next EXCEPT ![t] = 0]
      BY <1>1, <2>1 DEF Put
    <3> QED
      BY <1>t, <3>1, <3>2
  <2>2. CASE L.next[t] # t
    <3>1. L.prev[t] \in Handle
      BY <1>t, <1>2
    <3>2. M.next = [[L.next EXCEPT ![L.prev[t]] = L.next[t]] EXCEPT ![t] = 0]
      BY <1>1, <2>2, <3>1 DEF Put
    <3> QED
      BY <1>t, <3>1, <3>2, Zenon
  <2> QED
    BY <2>1, <2>2
<1>5. M.readyQ[p] = HeadWithout(L, t) /\ \A q \in Priority : q # p => M.readyQ[q] = L.readyQ[q]
  BY <1>f, <1>t, <1>1
<1> QED
  BY <1>t, <1>1, <1>2, <1>3, <1>4, <1>5

(* A thread leaves its queue, the others stay in their order.              *)
LEMMA RemoveFromReadyQueueStrung ==
  ASSUME NEW L, NEW H, WellFormed(L, H), NEW t \in Handle, H[t] = "ready",
         NEW M, M = TCBRemoveFromReadyQueue(L, t), NEW K, K = [H EXCEPT ![t] = "loose"],
         NEW f, NEW r, NEW a, NEW e, Strung(L, H, f, r, a, e),
         NEW i \in DOMAIN r[L.priority[t]], r[L.priority[t]][i] = t
  PROVE  Strung(M, K, f, [r EXCEPT ![L.priority[t]] = RemoveAt(@, i)], a, e)
<1>d. PICK p, h, Q, s : /\ p = L.priority[t] /\ h = L.readyQ[p]
                        /\ Q = ReadyAt(L, H, p) /\ s = r[p]
  OBVIOUS
<1> DEFINE u == RemoveAt(s, i)
<1>f. FieldsTyped(L, H) /\ PlacesTold(L, H) /\ p \in Priority /\ h \in Handle0
  BY <1>d, FieldTypes, Places DEF WellFormed, FieldsTyped
<1>1. /\ M.priority = L.priority /\ M.freeTCB = L.freeTCB
      /\ M.TimeoutList = L.TimeoutList /\ M.timeout = L.timeout
      /\ \A q \in Priority : q # p => M.readyQ[q] = L.readyQ[q]
      /\ M.readyQ[p] = HeadWithout(L, t)
      /\ L.prev[t] \in Q
      /\ \A g \in Handle : g # t => M.next[g] = IF g = L.prev[t] THEN L.next[t] ELSE L.next[g]
      /\ \A g \in Q : L.next[g] = t <=> g = L.prev[t]
  BY <1>d, RemoveFromReadyQueueLinks
<1>2. \A g \in Handle : K[g] = IF g = t THEN "loose" ELSE H[g]
  BY <1>f DEF FieldsTyped
<1>3. \A g \in Handle : ~(H[g] = "ready" /\ L.priority[g] = p) => M.next[g] = L.next[g] /\ g # t
  BY <1>1, <1>d, <1>f DEF PlacesTold
<1>4. FreeLine(L, H, f) /\ SleepLine(L, H, a) /\ Timed(L, H, a, e)
      /\ r = [q \in Priority |-> r[q]]
      /\ \A q \in Priority : ReadyLine(L, H, q, r[q])
  BY DEF Strung
<1>5. Q \subseteq Handle /\ 0 \notin Q /\ t \in Q /\ ReadyAt(M, K, p) = Q \ {t}
  <2>1. ReadyAt(M, K, p) = Q \ {t}
    BY <1>1, <1>2, <1>d DEF ReadyAt
  <2> QED
    <3>1. Q \subseteq Handle /\ t \in Q
      BY <1>d, <1>f DEF PlacesTold
    <3>2. 0 \notin Handle
      BY HandleFacts
    <3> QED
      BY <2>1, <3>1, <3>2
<1>6. ReadyLine(M, K, p, u)
  <2>n. PICK n : n = Len(s)
    OBVIOUS
  <2>0. InLine(L.next, h, h, Q, s)
    BY <1>4, <1>d, <1>f DEF ReadyLine
  <2>1. s \in Seq(Q) /\ n \in Nat /\ i \in 1 .. n /\ s[i] = t
    BY <2>n, <2>0, <1>d, LenProperties DEF InLine
  <2>2. u \in Seq(Q) /\ Len(u) = n - 1 /\ Left(s, i, u, n)
    BY <2>1, <2>n, LeavesAt
  <2> HIDE DEF u
  <2>3. Bridged(L.next, t, Q, M.next)
    BY <1>1, <1>5 DEF Bridged
  <2>4. InLine(M.next, FirstWithout(L.next, h, t, n), LastWithout(L.next, h, t), Q \ {t}, u)
    <3>1. t = s[i] /\ h \in {0, h} /\ i \in 1 .. n /\ 0 \notin Q
      BY <2>1, <1>5
    <3> QED
      BY <2>n, <2>0, <2>2, <2>3, <3>1, LineRemoved
  <2>5. L.next[t] = t <=> n = 1
    BY <2>n, <2>0, <2>1, RingLone
  <2>6. HeadWithout(L, t) = IF t # h THEN h ELSE IF L.next[t] = t THEN 0 ELSE L.next[t]
    BY <1>d DEF HeadWithout
  <2>7. FirstWithout(L.next, h, t, n) = M.readyQ[p]
    BY <1>1, <2>5, <2>6 DEF FirstWithout
  <2>8. InLine(M.next, M.readyQ[p], M.readyQ[p], Q \ {t}, u)
    <3>1. CASE n = 1
      <4>1. Len(u) = 0
        BY <2>2, <3>1
      <4> QED
        BY <2>4, <2>7, <4>1, LineEnded
    <3>2. CASE n # 1
      <4>1. LastWithout(L.next, h, t) = M.readyQ[p]
        BY <1>1, <2>5, <2>6, <3>2 DEF LastWithout
      <4> QED
        BY <2>4, <2>7, <4>1
    <3> QED
      BY <3>1, <3>2
  <2> QED
    BY <2>8, <1>5 DEF ReadyLine
<1>7. FreeLine(M, K, f)
  <2>1. KeptFree(L, H, M, K)
    BY <1>1, <1>2, <1>3 DEF KeptFree
  <2> QED
    BY <2>1, <1>4, FreeSame
<1>8. ASSUME NEW q \in Priority, q # p
      PROVE  ReadyLine(M, K, q, r[q])
  <2>1. KeptReady(L, H, M, K, q)
    BY <1>1, <1>2, <1>3, <1>8, <1>d DEF KeptReady
  <2> QED
    BY <2>1, <1>4, ReadySame
<1>9. SleepLine(M, K, a) /\ Timed(M, K, a, e)
  <2>1. KeptAsleep(L, H, M, K)
    BY <1>1, <1>2, <1>3 DEF KeptAsleep
  <2> QED
    BY <2>1, <1>4, SleepSame
<1> DEFINE x == [r EXCEPT ![p] = RemoveAt(@, i)]
<1> HIDE DEF u
<1>10. x = [q \in Priority |-> x[q]] /\ \A q \in Priority : x[q] = IF q = p THEN u ELSE r[q]
  BY <1>4, <1>d, <1>f DEF u
<1>11. \A q \in Priority : ReadyLine(M, K, q, x[q])
  BY <1>6, <1>8, <1>10
<1> HIDE DEF x
<1>12. Strung(M, K, f, x, a, e)
  BY <1>7, <1>9, <1>10, <1>11 DEF Strung
<1> QED
  BY <1>12, <1>d DEF x

(* The queue is turned: its first thread is the one behind t.              *)
LEMMA RotateStrung ==
  ASSUME NEW L, NEW H, WellFormed(L, H), NEW t \in Handle, H[t] = "ready",
         NEW M, M = [L EXCEPT !.readyQ[L.priority[t]] = L.next[t]],
         NEW f, NEW r, NEW a, NEW e, Strung(L, H, f, r, a, e),
         NEW i \in DOMAIN r[L.priority[t]], r[L.priority[t]][i] = t
  PROVE  /\ i \in 1 .. Len(r[L.priority[t]])
         /\ Strung(M, H, f, [r EXCEPT ![L.priority[t]] = SubSeq(@, i + 1, Len(@)) \o SubSeq(@, 1, i)],
                   a, e)
<1>d. PICK p, h, Q, s : /\ p = L.priority[t] /\ h = L.readyQ[p]
                        /\ Q = ReadyAt(L, H, p) /\ s = r[p]
  OBVIOUS
<1> DEFINE u == SubSeq(s, i + 1, Len(s)) \o SubSeq(s, 1, i)
<1>f. FieldsTyped(L, H) /\ PlacesTold(L, H) /\ p \in Priority /\ h \in Handle0
  BY <1>d, FieldTypes, Places DEF WellFormed, FieldsTyped
<1>t. L \in Lists /\ L.readyQ \in [Priority -> Handle0]
  BY <1>f DEF FieldsTyped
<1>1. /\ M.next = L.next /\ M.priority = L.priority /\ M.freeTCB = L.freeTCB
      /\ M.TimeoutList = L.TimeoutList /\ M.timeout = L.timeout
      /\ M.readyQ = [L.readyQ EXCEPT ![p] = L.next[t]]
  BY <1>d, <1>t DEF Lists
<1>2. M.readyQ[p] = L.next[t] /\ \A q \in Priority : q # p => M.readyQ[q] = L.readyQ[q]
  BY <1>1, <1>f, <1>t
<1>4. FreeLine(L, H, f) /\ SleepLine(L, H, a) /\ Timed(L, H, a, e)
      /\ r = [q \in Priority |-> r[q]]
      /\ \A q \in Priority : ReadyLine(L, H, q, r[q])
  BY DEF Strung
<1>5. ReadyAt(M, H, p) = Q
  BY <1>1, <1>d DEF ReadyAt
<1>6. i \in 1 .. Len(s) /\ ReadyLine(M, H, p, u)
  <2>0. InLine(L.next, h, h, Q, s)
    BY <1>4, <1>d, <1>f DEF ReadyLine
  <2>1. s \in Seq(Q) /\ i \in 1 .. Len(s) /\ s[i] = t
    BY <2>0, <1>d, LenProperties DEF InLine
  <2>2. InLine(L.next, L.next[t], L.next[t], Q, u)
    <3>1. InLine(L.next, L.next[s[i]], L.next[s[i]], Q, u)
      BY <2>0, <2>1, LineTurned
    <3> QED
      BY <2>1, <3>1
  <2> QED
    BY <1>1, <1>2, <1>5, <2>1, <2>2 DEF ReadyLine
<1>7. FreeLine(M, H, f)
  <2>1. KeptFree(L, H, M, H)
    BY <1>1 DEF KeptFree
  <2> QED
    BY <2>1, <1>4, FreeSame
<1>8. ASSUME NEW q \in Priority, q # p
      PROVE  ReadyLine(M, H, q, r[q])
  <2>1. KeptReady(L, H, M, H, q)
    BY <1>1, <1>2, <1>8 DEF KeptReady
  <2> QED
    BY <2>1, <1>4, ReadySame
<1>9. SleepLine(M, H, a) /\ Timed(M, H, a, e)
  <2>1. KeptAsleep(L, H, M, H)
    BY <1>1 DEF KeptAsleep
  <2> QED
    BY <2>1, <1>4, SleepSame
<1> DEFINE x == [r EXCEPT ![p] = SubSeq(@, i + 1, Len(@)) \o SubSeq(@, 1, i)]
<1> HIDE DEF u
<1>10. x = [q \in Priority |-> x[q]] /\ \A q \in Priority : x[q] = IF q = p THEN u ELSE r[q]
  BY <1>4, <1>d, <1>f DEF u
<1>11. \A q \in Priority : ReadyLine(M, H, q, x[q])
  BY <1>6, <1>8, <1>10
<1> HIDE DEF x
<1>12. Strung(M, H, f, x, a, e)
  BY <1>7, <1>9, <1>10, <1>11 DEF Strung
<1> QED
  BY <1>6, <1>12, <1>d DEF x

-----------------------------------------------------------------------------
(* What InsertAt does to a sequence.                                       *)
LEMMA EntersAt ==
  ASSUME NEW Q, NEW s \in Seq(Q), NEW t, NEW i \in 1 .. Len(s) + 1
  PROVE  /\ InsertAt(s, i, t) \in Seq(Q \cup {t}) /\ Len(InsertAt(s, i, t)) = Len(s) + 1
         /\ Entered(s, t, i, InsertAt(s, i, t), Len(s))
<1>1. PICK r : r = InsertAt(s, i, t)
  OBVIOUS
<1>2. r \in Seq(Q \cup {t}) /\ Len(r) = Len(s) + 1 /\ Entered(s, t, i, r, Len(s))
  BY <1>1, InsertedAt
<1> QED
  BY <1>1, <1>2

(* No list is longer than there are TCBs.                                  *)
LEMMA LineShort ==
  ASSUME NEW nx, NEW head, NEW end, NEW Q, Q \subseteq Handle,
         NEW s, InLine(nx, head, end, Q, s)
  PROVE  Len(s) \in Nat /\ Len(s) <= NR_TCB
<1>n. PICK n : n = Len(s)
  OBVIOUS
<1>1. n \in Nat /\ s \in [1 .. n -> Q] /\ Threaded(nx, head, end, Q, s, n)
  BY <1>n, LenProperties DEF InLine
<1>2. s \in Injection(1 .. n, Handle)
  <2>1. s \in [1 .. n -> Handle]
    BY <1>1
  <2> QED
    BY <1>1, <2>1 DEF Threaded, Injection, IsInjective
<1>3. NR_TCB \in Nat /\ IsFiniteSet(Handle) /\ Cardinality(Handle) = NR_TCB
  BY TcbAssumption, CountUpTo DEF Handle
<1>4. Cardinality(1 .. n) <= NR_TCB
  BY <1>2, <1>3, FS_Injection
<1>5. Cardinality(1 .. n) = n
  BY <1>1, CountUpTo
<1> QED
  BY <1>n, <1>1, <1>4, <1>5

(* The walk w of TCBInsertIntoTimeoutList has come to the i-th place of    *)
(* the list a: those before it are due before d.                           *)
Reached(a, e, d, i, n, w) ==
  /\ w.p = IF i = n + 1 THEN 0 ELSE a[i]
  /\ w.q = IF i = 1 THEN 0 ELSE a[i - 1]
  /\ w.to = d - (IF i = 1 THEN 0 ELSE e[a[i - 1]])
  /\ \A j \in 1 .. i - 1 : e[a[j]] < d

Spaced(L, a, e, n) ==
  /\ \A j \in 1 .. n : /\ a[j] \in Handle /\ a[j] # 0 /\ e[a[j]] \in Int
                       /\ L.timeout[a[j]] \in Nat
                       /\ L.next[a[j]] = IF j = n THEN 0 ELSE a[j + 1]
  /\ Dues(L.timeout, a, e, n)

(* A step of the walk goes on to the next place.                           *)
LEMMA WalkGoesOn ==
  ASSUME NEW L, NEW a, NEW e, NEW n \in Nat, NEW d \in Nat, NEW i \in 1 .. n + 1, NEW w \in Walk,
         Spaced(L, a, e, n), Reached(a, e, d, i, n, w), WalkOn(L, w)
  PROVE  i + 1 \in 1 .. n + 1 /\ Reached(a, e, d, i + 1, n, WalkStep(L)[w])
<1>s. /\ \A j \in 1 .. n : /\ a[j] \in Handle /\ a[j] # 0 /\ e[a[j]] \in Int
                           /\ L.timeout[a[j]] \in Nat
                           /\ L.next[a[j]] = IF j = n THEN 0 ELSE a[j + 1]
      /\ \A j \in 1 .. n : e[a[j]] = L.timeout[a[j]] + (IF j = 1 THEN 0 ELSE e[a[j - 1]])
  BY DEF Spaced, Dues
<1>1. WalkStep(L)[w] = [q |-> w.p, p |-> L.next[w.p], to |-> w.to - L.timeout[w.p]]
  BY DEF WalkStep
<1>2. PICK v : v = WalkStep(L)[w]
  OBVIOUS
<1>3. i # n + 1
  BY DEF Reached, WalkOn
<1>4. /\ i \in 1 .. n /\ i + 1 \in 1 .. n + 1 /\ i + 1 # 1 /\ (i + 1) - 1 = i
      /\ (i + 1 = n + 1 <=> i = n)
  BY <1>3
<1>5. w.p = a[i] /\ w.to = d - (IF i = 1 THEN 0 ELSE e[a[i - 1]]) /\ w.to > L.timeout[a[i]]
  BY <1>4 DEF Reached, WalkOn
<1>6. e[a[i]] = L.timeout[a[i]] + (IF i = 1 THEN 0 ELSE e[a[i - 1]])
  BY <1>s, <1>4
<1>7. /\ e[a[i]] \in Int /\ L.timeout[a[i]] \in Nat
      /\ (IF i = 1 THEN 0 ELSE e[a[i - 1]]) \in Int
  <2>1. i # 1 => i - 1 \in 1 .. n
    BY <1>4
  <2> QED
    BY <1>s, <1>4, <2>1
<1>8. e[a[i]] < d /\ w.to - L.timeout[a[i]] = d - e[a[i]]
  BY <1>5, <1>6, <1>7
<1>9. v.q = a[i] /\ v.p = L.next[a[i]] /\ v.to = d - e[a[i]]
  BY <1>1, <1>2, <1>5, <1>8
<1>10. \A j \in 1 .. (i + 1) - 1 : e[a[j]] < d
  <2>1. \A j \in 1 .. (i + 1) - 1 : j \in 1 .. i - 1 \/ j = i
    BY <1>4
  <2>2. \A j \in 1 .. i - 1 : e[a[j]] < d
    BY DEF Reached
  <2> QED
    BY <1>8, <2>1, <2>2
<1>11. L.next[a[i]] = IF i + 1 = n + 1 THEN 0 ELSE a[i + 1]
  BY <1>s, <1>4
<1> QED
  BY <1>2, <1>4, <1>9, <1>10, <1>11 DEF Reached

(* The rounds of the walk.                                                 *)
LEMMA WalkRounds ==
  ASSUME NEW L, NEW H, FieldsTyped(L, H), NEW d \in Int
  PROVE  LET s == [q |-> 0, p |-> L.TimeoutList, to |-> d]
         IN  Rounds(WalkStep(L), s, Walk, Iterate(WalkStep(L), s))
<1>1. ASSUME NEW x \in Walk, WalkOn(L, x)
      PROVE  [q |-> x.p, p |-> L.next[x.p], to |-> x.to - L.timeout[x.p]] \in Walk
  <2>1. x.p \in Handle /\ x.p \in Handle0 /\ x.to \in Int
    BY <1>1, HandleFacts DEF WalkOn, Walk
  <2>2. L.next[x.p] \in Handle0 /\ x.to - L.timeout[x.p] \in Int
    BY <2>1 DEF FieldsTyped
  <2> QED
    BY <2>1, <2>2 DEF Walk
<1>2. WalkStep(L) \in [Walk -> Walk]
  BY <1>1 DEF WalkStep
<1>3. [q |-> 0, p |-> L.TimeoutList, to |-> d] \in Walk
  BY HandleFacts DEF Walk, FieldsTyped
<1> QED
  BY <1>2, <1>3, IterateRounds

(* The walk comes to a place where it stops.                               *)
LEMMA WalkStops ==
  ASSUME NEW L, NEW H, WellFormed(L, H), NEW a, NEW e, SleepLine(L, H, a), Timed(L, H, a, e),
         NEW n, n = Len(a), NEW d \in Nat, NEW w, w = WalkEnd(L, d)
  PROVE  /\ n \in Nat /\ w \in Walk /\ ~WalkOn(L, w)
         /\ \E i \in 1 .. n + 1 : Reached(a, e, d, i, n, w)
<1>f. /\ L.TimeoutList \in Handle0 /\ L.next \in [Handle -> Handle0]
      /\ L.timeout \in [Handle -> Int] /\ Members(H, "timeout") \subseteq Handle
  BY FieldTypes, Places DEF WellFormed, FieldsTyped, PlacesTold
<1>1. /\ n \in Nat /\ n <= NR_TCB
      /\ Threaded(L.next, L.TimeoutList, 0, Members(H, "timeout"), a, n)
  BY <1>f, LineShort DEF SleepLine, InLine
<1>2. /\ e \in [Handle -> Int] /\ Dues(L.timeout, a, e, n)
      /\ \A h \in Members(H, "timeout") : L.timeout[h] \in Nat
  BY DEF Timed
<1>3. 0 \notin Handle
  BY HandleFacts
<1>4. \A j \in 1 .. n : /\ a[j] \in Handle /\ a[j] # 0 /\ e[a[j]] \in Int
                        /\ L.timeout[a[j]] \in Nat
                        /\ L.next[a[j]] = IF j = n THEN 0 ELSE a[j + 1]
  <2>1. ASSUME NEW j \in 1 .. n
        PROVE  a[j] \in Members(H, "timeout") /\ L.next[a[j]] = IF j = n THEN 0 ELSE a[j + 1]
    BY <1>1 DEF Threaded
  <2> QED
    BY <2>1, <1>f, <1>2, <1>3
<1>s. Spaced(L, a, e, n)
  BY <1>2, <1>4 DEF Spaced
<1> DEFINE start == [q |-> 0, p |-> L.TimeoutList, to |-> d]
           I == Iterate(WalkStep(L), start)
           D == {k \in Nat : \E i \in 1 .. n + 1 : /\ Reached(a, e, d, i, n, I[k])
                                                   /\ WalkOn(L, I[k]) => i = k + 1}
<1>5. I \in [Nat -> Walk] /\ I[0] = start /\ \A k \in Nat : I[k + 1] = WalkStep(L)[I[k]]
  <2>1. FieldsTyped(L, H) /\ d \in Int
    BY FieldTypes DEF WellFormed
  <2> QED
    BY <2>1, WalkRounds, ZenonT(60) DEF Rounds
<1>6. WalkEnd(L, d) = I[NR_TCB]
  BY DEF WalkEnd
<1> HIDE DEF I
<1>7. 0 \in D
  <2>1. 1 \in 1 .. n + 1 /\ (1 = n + 1 <=> n = 0) /\ \A j \in 1 .. 1 - 1 : FALSE
    BY <1>1
  <2>2. L.TimeoutList = IF n = 0 THEN 0 ELSE a[1]
    BY <1>1 DEF Threaded
  <2>3. Reached(a, e, d, 1, n, I[0])
    BY <1>5, <2>1, <2>2 DEF Reached
  <2> QED
    BY <2>1, <2>3
<1>8. ASSUME NEW k \in Nat, k \in D
      PROVE  k + 1 \in D
  <2>1. PICK i \in 1 .. n + 1 : Reached(a, e, d, i, n, I[k]) /\ (WalkOn(L, I[k]) => i = k + 1)
    BY <1>8
  <2>2. I[k] \in Walk /\ I[k + 1] = WalkStep(L)[I[k]]
    BY <1>5
  <2> SUFFICES \E j \in 1 .. n + 1 : /\ Reached(a, e, d, j, n, I[k + 1])
                                     /\ WalkOn(L, I[k + 1]) => j = (k + 1) + 1
    OBVIOUS
  <2> HIDE DEF D
  <2>3. CASE WalkOn(L, I[k])
    <3>1. i + 1 \in 1 .. n + 1 /\ Reached(a, e, d, i + 1, n, I[k + 1])
      BY <1>1, <1>s, <2>1, <2>2, <2>3, WalkGoesOn
    <3> QED
      BY <2>1, <2>3, <3>1
  <2>4. CASE ~WalkOn(L, I[k])
    <3>1. I[k + 1] = I[k]
      BY <2>2, <2>4 DEF WalkStep
    <3> QED
      BY <2>1, <2>4, <3>1
  <2> QED
    BY <2>3, <2>4
<1>9. Nat \subseteq D
  <2> HIDE DEF D
  <2> QED
    BY <1>7, <1>8, NatSubsetInduction
<1>10. NR_TCB \in Nat
  BY TcbAssumption
<1>11. PICK i \in 1 .. n + 1 : Reached(a, e, d, i, n, w) /\ (WalkOn(L, w) => i = NR_TCB + 1)
  <2>1. w = I[NR_TCB] /\ NR_TCB \in D
    BY <1>6, <1>9, <1>10
  <2> QED
    BY <2>1
<1>12. ~WalkOn(L, w)
  <2> SUFFICES ASSUME WalkOn(L, w) PROVE FALSE
    OBVIOUS
  <2>1. i = n + 1
    BY <1>1, <1>10, <1>11
  <2> QED
    BY <1>11, <2>1 DEF Reached, WalkOn
<1> QED
  BY <1>1, <1>5, <1>6, <1>10, <1>11, <1>12

(* The place where it stops is the one behind those due before d, and the  *)
(* ticks left there are no more than the wait of the TCB it stops at.      *)
LEMMA WalkPlace ==
  ASSUME NEW L, NEW H, WellFormed(L, H), NEW a, NEW e, SleepLine(L, H, a), Timed(L, H, a, e),
         NEW n, n = Len(a), NEW d \in Nat, NEW w, w = WalkEnd(L, d)
  PROVE  /\ n \in Nat /\ w \in Walk /\ w.to \in Nat
         /\ \E i \in 1 .. n + 1 : /\ Reached(a, e, d, i, n, w)
                                  /\ i # n + 1 => w.to <= L.timeout[a[i]]
                                  /\ \A j \in 1 .. n : e[a[j]] < d <=> j < i
<1>1. n \in Nat /\ w \in Walk /\ ~WalkOn(L, w)
  BY WalkStops
<1>2. PICK i \in 1 .. n + 1 : Reached(a, e, d, i, n, w)
  BY WalkStops
<1>3. \A j \in 1 .. n : e[a[j]] \in Int /\ L.timeout[a[j]] \in Nat /\ a[j] # 0
  <2>1. \A j \in 1 .. n : a[j] \in Members(H, "timeout") /\ a[j] \in Handle
    BY Places DEF SleepLine, InLine, Threaded, PlacesTold
  <2>2. 0 \notin Handle
    BY HandleFacts
  <2> QED
    BY <2>1, <2>2 DEF Timed
<1>4. Dues(L.timeout, a, e, n)
  BY DEF Timed
<1>5. w.to \in Nat
  <2>1. CASE i = 1
    BY <1>2, <2>1 DEF Reached
  <2>2. CASE i # 1
    <3>1. i - 1 \in 1 .. i - 1 /\ i - 1 \in 1 .. n
      BY <1>1, <2>2
    <3>2. e[a[i - 1]] < d /\ w.to = d - e[a[i - 1]]
      BY <1>2, <2>2, <3>1 DEF Reached
    <3> QED
      BY <1>3, <3>1, <3>2
  <2> QED
    BY <2>1, <2>2
<1>6. i # n + 1 => i \in 1 .. n /\ w.to <= L.timeout[a[i]] /\ d <= e[a[i]]
  <2> SUFFICES ASSUME i # n + 1 PROVE i \in 1 .. n /\ w.to <= L.timeout[a[i]] /\ d <= e[a[i]]
    OBVIOUS
  <2>1. i \in 1 .. n /\ (i # 1 => i - 1 \in 1 .. n)
    BY <1>1
  <2>2. w.p = a[i] /\ w.to = d - (IF i = 1 THEN 0 ELSE e[a[i - 1]])
    BY <1>2 DEF Reached
  <2>3. ~(w.to > L.timeout[a[i]])
    BY <1>1, <1>3, <2>1, <2>2 DEF WalkOn
  <2>4. e[a[i]] = L.timeout[a[i]] + (IF i = 1 THEN 0 ELSE e[a[i - 1]])
    BY <1>4, <2>1 DEF Dues
  <2>5. (IF i = 1 THEN 0 ELSE e[a[i - 1]]) \in Int /\ L.timeout[a[i]] \in Nat /\ e[a[i]] \in Int
    BY <1>3, <2>1
  <2>6. w.to <= L.timeout[a[i]]
    BY <1>5, <2>3, <2>5
  <2> QED
    BY <2>1, <2>2, <2>4, <2>5, <2>6
<1>7. ASSUME NEW j \in 1 .. n
      PROVE  e[a[j]] < d <=> j < i
  <2>1. CASE j < i
    <3>1. j \in 1 .. i - 1
      BY <1>1, <2>1
    <3> QED
      BY <1>2, <2>1, <3>1 DEF Reached
  <2>2. CASE ~(j < i)
    <3>1. i # n + 1 /\ i \in 1 .. n /\ j \in i .. n
      BY <1>1, <2>2
    <3>2. e[a[i]] <= e[a[j]]
      BY <1>1, <1>3, <1>4, <3>1, DuesGrow
    <3> QED
      BY <1>3, <1>6, <2>2, <3>1, <3>2
  <2> QED
    BY <2>1, <2>2
<1> QED
  BY <1>1, <1>2, <1>5, <1>6, <1>7

(* A thread due after d ticks enters the list at its i-th place: the one   *)
(* after it waits that much less.                                          *)
WaitsEntered(w, v, s, e, t, d, i, n) ==
  /\ v[t] = d - (IF i = 1 THEN 0 ELSE e[s[i - 1]])
  /\ \A j \in 1 .. n : v[s[j]] = IF j = i THEN w[s[j]] - v[t] ELSE w[s[j]]

DuesKept(w, e, x, s, n) ==
  \A j \in 1 .. n : e[s[j]] \in Int /\ w[s[j]] \in Int /\ x[s[j]] = e[s[j]]

(* Who enters takes its ticks from the one behind it: nobody else's        *)
(* change.                                                                 *)
LEMMA DuesInserted ==
  ASSUME NEW n \in Nat, NEW w, NEW s, NEW e, Dues(w, s, e, n),
         NEW i \in 1 .. n + 1, NEW t, NEW r, Entered(s, t, i, r, n),
         NEW d \in Int, NEW v, WaitsEntered(w, v, s, e, t, d, i, n),
         NEW x, x[t] = d, DuesKept(w, e, x, s, n)
  PROVE  Dues(v, r, x, n + 1)
<1>d. \A j \in 1 .. n : e[s[j]] = w[s[j]] + (IF j = 1 THEN 0 ELSE e[s[j - 1]])
  BY DEF Dues
<1>r. \A j \in 1 .. n + 1 : r[j] = IF j < i THEN s[j] ELSE IF j = i THEN t ELSE s[j - 1]
  BY DEF Entered
<1>v. /\ v[t] = d - (IF i = 1 THEN 0 ELSE e[s[i - 1]])
      /\ \A j \in 1 .. n : v[s[j]] = IF j = i THEN w[s[j]] - v[t] ELSE w[s[j]]
  BY DEF WaitsEntered
<1>x. \A j \in 1 .. n : e[s[j]] \in Int /\ w[s[j]] \in Int /\ x[s[j]] = e[s[j]]
  BY DEF DuesKept
<1>i. n \in Nat /\ i \in 1 .. n + 1
  OBVIOUS
<1> SUFFICES ASSUME NEW j \in 1 .. n + 1
             PROVE  x[r[j]] = v[r[j]] + (IF j = 1 THEN 0 ELSE x[r[j - 1]])
  BY DEF Dues
<1>1. CASE j < i
  <2>1. j \in 1 .. n /\ j # i /\ (j # 1 => j - 1 \in 1 .. n /\ j - 1 \in 1 .. n + 1 /\ j - 1 < i)
    BY <1>i, <1>1
  <2>2. r[j] = s[j] /\ (j # 1 => r[j - 1] = s[j - 1])
    BY <1>r, <1>1, <2>1
  <2>3. v[s[j]] = w[s[j]] /\ x[s[j]] = e[s[j]] /\ (j # 1 => x[s[j - 1]] = e[s[j - 1]])
    BY <1>v, <1>x, <2>1
  <2> QED
    BY <1>d, <2>1, <2>2, <2>3
<1>2. CASE j = i
  <2>1. r[j] = t
    BY <1>r, <1>i, <1>2
  <2>2. CASE j = 1
    BY <1>v, <1>2, <2>1, <2>2
  <2>3. CASE j # 1
    <3>1. j - 1 \in 1 .. n /\ j - 1 \in 1 .. n + 1 /\ j - 1 < i
      BY <1>i, <1>2, <2>3
    <3>2. r[j - 1] = s[j - 1] /\ x[s[j - 1]] = e[s[j - 1]] /\ e[s[j - 1]] \in Int
      BY <1>r, <1>x, <3>1
    <3>3. v[t] = d - e[s[j - 1]]
      BY <1>v, <1>2, <2>3
    <3> QED
      BY <2>1, <2>3, <3>2, <3>3
  <2> QED
    BY <2>2, <2>3
<1>3. CASE j = i + 1
  <2>1. i \in 1 .. n /\ ~(j < i) /\ j # i /\ j - 1 = i /\ j # 1 /\ ~(i < i)
    BY <1>i, <1>3
  <2>2. r[j] = s[i] /\ r[j - 1] = t
    BY <1>r, <1>i, <2>1
  <2>3. v[s[i]] = w[s[i]] - v[t] /\ x[s[i]] = e[s[i]] /\ w[s[i]] \in Int
    BY <1>v, <1>x, <2>1
  <2>4. CASE i = 1
    BY <1>d, <1>v, <2>1, <2>2, <2>3, <2>4
  <2>5. CASE i # 1
    <3>1. i - 1 \in 1 .. n
      BY <1>i, <2>5
    <3>2. e[s[i]] = w[s[i]] + e[s[i - 1]] /\ v[t] = d - e[s[i - 1]] /\ e[s[i - 1]] \in Int
      BY <1>d, <1>v, <1>x, <2>1, <2>5, <3>1
    <3> QED
      BY <2>1, <2>2, <2>3, <3>2
  <2> QED
    BY <2>4, <2>5
<1>4. CASE j > i + 1
  <2>1. /\ j - 1 \in 1 .. n /\ j - 1 # 1 /\ j # 1 /\ ~(j < i) /\ j # i /\ j - 1 # i
        /\ j - 1 \in 1 .. n + 1 /\ ~(j - 1 < i) /\ (j - 1) - 1 \in 1 .. n
    BY <1>i, <1>4
  <2>2. r[j] = s[j - 1] /\ r[j - 1] = s[(j - 1) - 1]
    BY <1>r, <2>1
  <2>3. /\ v[s[j - 1]] = w[s[j - 1]] /\ x[s[j - 1]] = e[s[j - 1]]
        /\ x[s[(j - 1) - 1]] = e[s[(j - 1) - 1]]
    BY <1>v, <1>x, <2>1
  <2>4. e[s[j - 1]] = w[s[j - 1]] + e[s[(j - 1) - 1]]
    BY <1>d, <2>1
  <2> QED
    BY <2>1, <2>2, <2>3, <2>4
<1>5. j < i \/ j = i \/ j = i + 1 \/ j > i + 1
  BY <1>i
<1> QED
  BY <1>1, <1>2, <1>3, <1>4, <1>5

(* The i-th leaves: the one after it waits for it too.                     *)
WaitsLeft(w, v, s, i, n) ==
  \A j \in 1 .. n : j # i => v[s[j]] = IF j = i + 1 THEN w[s[j]] + w[s[i]] ELSE w[s[j]]

DuesKeptBut(w, e, x, s, i, n) ==
  \A j \in 1 .. n : e[s[j]] \in Int /\ w[s[j]] \in Int /\ (j # i => x[s[j]] = e[s[j]])

(* Who leaves gives its ticks to the one behind it: nobody else's change.  *)
LEMMA DuesRemoved ==
  ASSUME NEW n \in Nat, NEW w, NEW s, NEW e, Dues(w, s, e, n),
         NEW i \in 1 .. n, NEW r, Left(s, i, r, n),
         NEW v, WaitsLeft(w, v, s, i, n),
         NEW x, DuesKeptBut(w, e, x, s, i, n)
  PROVE  Dues(v, r, x, n - 1)
<1>d. \A j \in 1 .. n : e[s[j]] = w[s[j]] + (IF j = 1 THEN 0 ELSE e[s[j - 1]])
  BY DEF Dues
<1>r. \A j \in 1 .. n - 1 : r[j] = IF j < i THEN s[j] ELSE s[j + 1]
  BY DEF Left
<1>v. \A j \in 1 .. n : j # i => v[s[j]] = IF j = i + 1 THEN w[s[j]] + w[s[i]] ELSE w[s[j]]
  BY DEF WaitsLeft
<1>x. \A j \in 1 .. n : e[s[j]] \in Int /\ w[s[j]] \in Int /\ (j # i => x[s[j]] = e[s[j]])
  BY DEF DuesKeptBut
<1>i. n \in Nat /\ i \in 1 .. n
  OBVIOUS
<1> SUFFICES ASSUME NEW j \in 1 .. n - 1
             PROVE  x[r[j]] = v[r[j]] + (IF j = 1 THEN 0 ELSE x[r[j - 1]])
  BY DEF Dues
<1>1. CASE j < i
  <2>1. /\ j \in 1 .. n /\ j # i /\ j # i + 1
        /\ (j # 1 => j - 1 \in 1 .. n /\ j - 1 \in 1 .. n - 1 /\ j - 1 < i /\ j - 1 # i)
    BY <1>i, <1>1
  <2>2. r[j] = s[j] /\ (j # 1 => r[j - 1] = s[j - 1])
    BY <1>r, <1>1, <2>1
  <2>3. v[s[j]] = w[s[j]] /\ x[s[j]] = e[s[j]] /\ (j # 1 => x[s[j - 1]] = e[s[j - 1]])
    BY <1>v, <1>x, <2>1
  <2> QED
    BY <1>d, <2>1, <2>2, <2>3
<1>2. CASE j = i
  <2>1. i + 1 \in 1 .. n /\ i + 1 # i /\ i + 1 # 1 /\ (i + 1) - 1 = i /\ ~(j < i)
    BY <1>i, <1>2
  <2>2. r[j] = s[i + 1]
    BY <1>r, <1>2, <2>1
  <2>3. v[s[i + 1]] = w[s[i + 1]] + w[s[i]] /\ x[s[i + 1]] = e[s[i + 1]]
        /\ w[s[i + 1]] \in Int /\ w[s[i]] \in Int
    BY <1>v, <1>x, <1>i, <2>1
  <2>4. e[s[i + 1]] = w[s[i + 1]] + e[s[i]]
    BY <1>d, <2>1
  <2>5. CASE i = 1
    <3>1. e[s[i]] = w[s[i]] + 0
      BY <1>d, <1>i, <2>5
    <3> QED
      BY <1>2, <2>2, <2>3, <2>4, <2>5, <3>1
  <2>6. CASE i # 1
    <3>1. i - 1 \in 1 .. n /\ i - 1 \in 1 .. n - 1 /\ i - 1 < i /\ i - 1 # i
      BY <1>i, <2>6
    <3>2. e[s[i]] = w[s[i]] + e[s[i - 1]] /\ e[s[i - 1]] \in Int /\ x[s[i - 1]] = e[s[i - 1]]
      BY <1>d, <1>x, <1>i, <2>6, <3>1
    <3>3. r[j - 1] = s[i - 1]
      BY <1>r, <1>2, <3>1
    <3> QED
      BY <1>2, <2>2, <2>3, <2>4, <2>6, <3>2, <3>3
  <2> QED
    BY <2>5, <2>6
<1>3. CASE j > i
  <2>1. /\ j + 1 \in 1 .. n /\ j + 1 # i /\ j + 1 # i + 1 /\ j + 1 # 1 /\ (j + 1) - 1 = j
        /\ ~(j < i) /\ j # i /\ j \in 1 .. n
        /\ j # 1 /\ j - 1 \in 1 .. n - 1 /\ ~(j - 1 < i) /\ (j - 1) + 1 = j
    BY <1>i, <1>3
  <2>2. r[j] = s[j + 1] /\ r[j - 1] = s[j]
    BY <1>r, <2>1
  <2>3. v[s[j + 1]] = w[s[j + 1]] /\ x[s[j + 1]] = e[s[j + 1]] /\ x[s[j]] = e[s[j]]
    BY <1>v, <1>x, <2>1
  <2>4. e[s[j + 1]] = w[s[j + 1]] + e[s[j]]
    BY <1>d, <2>1
  <2> QED
    BY <2>1, <2>2, <2>3, <2>4
<1>4. j < i \/ j = i \/ j > i
  BY <1>i
<1> QED
  BY <1>1, <1>2, <1>3, <1>4

(* The links and waits that a thread entering the timeout list changes.    *)
LEMMA InsertIntoTimeoutListLinks ==
  ASSUME NEW L, NEW H, WellFormed(L, H), NEW t \in Handle, H[t] = "loose",
         NEW d \in Int, NEW M, M = TCBInsertIntoTimeoutList(L, t, d),
         NEW w, w = WalkEnd(L, d), NEW q, q = w.q, NEW p, p = w.p
  PROVE  /\ M.priority = L.priority /\ M.readyQ = L.readyQ /\ M.freeTCB = L.freeTCB
         /\ M.TimeoutList = IF q = 0 THEN t ELSE L.TimeoutList
         /\ \A g \in Handle : M.next[g] = IF g = t THEN p ELSE IF g = q THEN t ELSE L.next[g]
         /\ \A g \in Handle : M.timeout[g] = IF g = t THEN w.to
                                             ELSE IF g = p THEN L.timeout[g] - w.to
                                             ELSE L.timeout[g]
<1> DEFINE R == [L EXCEPT !.status[t] = @ \cup {"TIMEOUT"}]
<1>t. L \in Lists /\ L.next \in [Handle -> Handle0] /\ L.TimeoutList \in Handle0
  BY FieldTypes DEF WellFormed, FieldsTyped
<1>1. L.next[t] = 0 /\ L.prev[t] = 0 /\ L.TimeoutList # t
  <2>1. L.TimeoutList # t
    BY HandleFacts DEF WellFormed, ChainFormed, Chain, Members
  <2> QED
    BY <2>1 DEF WellFormed, LooseFormed, Members
<1>2. /\ q \in Handle0 /\ p \in Handle0 /\ (q # 0 => q \in Members(H, "timeout"))
      /\ p # t
  <2>1. /\ q \in Handle0 /\ p \in Handle0 /\ (q # 0 => q \in Members(H, "timeout"))
        /\ p = L.TimeoutList \/ \E g \in Members(H, "timeout") : p = L.next[g]
    BY WalkEndsOnList DEF Walk
  <2>2. p \in Members(H, "timeout") \cup {0}
    BY <2>1 DEF WellFormed, ChainFormed, Chain
  <2> QED
    BY <2>1, <2>2, HandleFacts DEF Members
<1>3. M = LinkTimeout(R, t, w)
  <2>1. /\ R.next = L.next /\ R.prev = L.prev /\ R.timeout = L.timeout
        /\ R.TimeoutList = L.TimeoutList
    BY <1>t DEF Lists
  <2>2. WalkEnd(R, d) = w
    BY <2>1 DEF WalkEnd, WalkStep, WalkOn
  <2> HIDE DEF R
  <2>3. TCBInsertIntoTimeoutList(L, t, d)
          = IF R.next[t] # 0 \/ R.prev[t] # 0 THEN Panic(R) ELSE LinkTimeout(R, t, WalkEnd(L, d))
    BY <1>1, <2>1 DEF TCBInsertIntoTimeoutList, R
  <2> QED
    BY <1>1, <2>1, <2>2, <2>3
<1>4. /\ M.priority = L.priority /\ M.readyQ = L.readyQ /\ M.freeTCB = L.freeTCB
      /\ M.next = Put([L.next EXCEPT ![t] = p], q, t)
      /\ M.TimeoutList = IF q = 0 THEN t ELSE L.TimeoutList
      /\ M.timeout = [h \in Handle |-> CASE h = t -> w.to
                                         [] h = p -> L.timeout[h] - w.to
                                         [] OTHER -> L.timeout[h]]
  BY <1>t, <1>3 DEF LinkTimeout, Lists
<1>5. \A g \in Handle : M.next[g] = IF g = t THEN p ELSE IF g = q THEN t ELSE L.next[g]
  <2>1. q # t
    BY <1>2, HandleFacts DEF Members
  <2> QED
    BY <1>t, <1>2, <1>4, <2>1, HandleFacts DEF Put
<1>6. ASSUME NEW g \in Handle
      PROVE  M.timeout[g] = IF g = t THEN w.to
                            ELSE IF g = p THEN L.timeout[g] - w.to ELSE L.timeout[g]
  BY <1>2, <1>4
<1> QED
  BY <1>4, <1>5, <1>6

(* A thread goes to sleep behind those that wake before it.                *)
LEMMA InsertIntoTimeoutListStrung ==
  ASSUME NEW L, NEW H, WellFormed(L, H), NEW t \in Handle, H[t] = "loose", NEW d \in Nat,
         NEW M, M = TCBInsertIntoTimeoutList(L, t, d), NEW K, K = [H EXCEPT ![t] = "timeout"],
         NEW f, NEW r, NEW a, NEW e, Strung(L, H, f, r, a, e)
  PROVE  \E i \in 1 .. Len(a) + 1 :
           /\ \A j \in DOMAIN a : e[a[j]] < d <=> j < i
           /\ Strung(M, K, f, r, InsertAt(a, i, t), [e EXCEPT ![t] = d])
<1>d. PICK Q, n, w, q, p, x : /\ Q = Members(H, "timeout") /\ n = Len(a)
                              /\ w = WalkEnd(L, d) /\ q = w.q /\ p = w.p
                              /\ x = [e EXCEPT ![t] = d]
  OBVIOUS
<1>f. /\ L.next \in [Handle -> Handle0] /\ H \in [Handle -> Homes]
      /\ L.timeout \in [Handle -> Int]
  BY FieldTypes DEF WellFormed, FieldsTyped
<1>1. /\ M.priority = L.priority /\ M.readyQ = L.readyQ /\ M.freeTCB = L.freeTCB
      /\ M.TimeoutList = IF q = 0 THEN t ELSE L.TimeoutList
      /\ \A g \in Handle : M.next[g] = IF g = t THEN p ELSE IF g = q THEN t ELSE L.next[g]
      /\ \A g \in Handle : M.timeout[g] = IF g = t THEN w.to
                                          ELSE IF g = p THEN L.timeout[g] - w.to
                                          ELSE L.timeout[g]
  BY <1>d, InsertIntoTimeoutListLinks
<1>2. \A g \in Handle : K[g] = IF g = t THEN "timeout" ELSE H[g]
  BY <1>f
<1>3. FreeLine(L, H, f) /\ SleepLine(L, H, a) /\ Timed(L, H, a, e)
      /\ r = [g \in Priority |-> r[g]]
      /\ \A g \in Priority : ReadyLine(L, H, g, r[g])
  BY DEF Strung
<1>4. /\ n \in Nat /\ w \in Walk /\ w.to \in Nat
      /\ \E i \in 1 .. n + 1 : /\ Reached(a, e, d, i, n, w)
                               /\ i # n + 1 => w.to <= L.timeout[a[i]]
                               /\ \A j \in 1 .. n : e[a[j]] < d <=> j < i
  BY <1>d, <1>3, WalkPlace
<1>5. PICK i \in 1 .. n + 1 : /\ Reached(a, e, d, i, n, w)
                              /\ i # n + 1 => w.to <= L.timeout[a[i]]
                              /\ \A j \in 1 .. n : e[a[j]] < d <=> j < i
  BY <1>4
<1>6. Q \subseteq Handle /\ 0 \notin Q /\ t \notin Q /\ Members(K, "timeout") = Q \cup {t}
      /\ 0 \notin Handle
  <2>1. 0 \notin Handle
    BY HandleFacts
  <2> QED
    BY <1>d, <1>2, <2>1 DEF Members
<1>7. /\ InLine(L.next, L.TimeoutList, 0, Q, a)
      /\ a \in Seq(Q) /\ DOMAIN a = 1 .. n
      /\ \A j \in 1 .. n : a[j] \in Q /\ a[j] \in Handle /\ a[j] # 0 /\ a[j] # t
      /\ \A j, k \in 1 .. n : a[j] = a[k] => j = k
  BY <1>3, <1>d, <1>6, LenProperties DEF SleepLine, InLine, Threaded
<1>8. /\ p = (IF i = n + 1 THEN 0 ELSE a[i]) /\ q = (IF i = 1 THEN 0 ELSE a[i - 1])
      /\ w.to = d - (IF i = 1 THEN 0 ELSE e[a[i - 1]])
  BY <1>5, <1>d DEF Reached
<1>9. /\ i # 1 => i - 1 \in 1 .. n
      /\ i # n + 1 => i \in 1 .. n
      /\ \A j \in 1 .. n : j = i - 1 => i # 1
  BY <1>4
<1>10. /\ q = 0 <=> i = 1
       /\ \A j \in 1 .. n : (a[j] = q <=> j = i - 1) /\ (a[j] = p <=> j = i)
  <2>1. ASSUME NEW j \in 1 .. n
        PROVE  a[j] = q <=> j = i - 1
    BY <1>7, <1>8, <1>9
  <2>2. ASSUME NEW j \in 1 .. n
        PROVE  a[j] = p <=> j = i
    <3>1. j # n + 1
      BY <1>4
    <3> QED
      BY <1>7, <1>8, <1>9, <3>1
  <2> QED
    BY <1>7, <1>8, <1>9, <2>1, <2>2
<1> DEFINE u == InsertAt(a, i, t)
<1>11. u \in Seq(Q \cup {t}) /\ Len(u) = n + 1 /\ Entered(a, t, i, u, n)
  BY <1>7, <1>d, EntersAt
<1> HIDE DEF u
<1>12. SleepLine(M, K, u)
  <2>1. LinkedAs(L.next, 0, a, t, i, n, M.next, 0)
    <3>1. M.next[t] = IF i = n + 1 THEN 0 ELSE a[i]
      BY <1>1, <1>8
    <3>2. ASSUME NEW j \in 1 .. n
          PROVE  M.next[a[j]] = IF j = i - 1 THEN t ELSE L.next[a[j]]
      BY <1>1, <1>7, <1>10
    <3> QED
      BY <3>1, <3>2 DEF LinkedAs
  <2>2. InLine(M.next, FirstWith(L.TimeoutList, t, i), 0, Q \cup {t}, u)
    BY <1>d, <1>6, <1>7, <1>11, <2>1, LineInserted
  <2>3. FirstWith(L.TimeoutList, t, i) = M.TimeoutList
    BY <1>1, <1>10 DEF FirstWith
  <2> QED
    BY <1>6, <2>2, <2>3 DEF SleepLine
<1>13. Timed(M, K, u, x)
  <2>1. /\ e \in [Handle -> Int] /\ Dues(L.timeout, a, e, n)
        /\ \A h \in Handle : H[h] # "timeout" => e[h] = 0
        /\ \A h \in Q : L.timeout[h] \in Nat
    BY <1>3, <1>d DEF Timed
  <2>2. x \in [Handle -> Int] /\ \A h \in Handle : x[h] = IF h = t THEN d ELSE e[h]
    BY <1>d, <2>1
  <2>3. \A h \in Handle : K[h] # "timeout" => x[h] = 0
    BY <1>2, <2>1, <2>2
  <2>4. \A h \in Q \cup {t} : M.timeout[h] \in Nat
    <3>1. M.timeout[t] \in Nat
      BY <1>1, <1>4
    <3>2. ASSUME NEW h \in Q, h # p
          PROVE  M.timeout[h] \in Nat
      BY <1>1, <1>6, <2>1, <3>2
    <3>3. ASSUME NEW h \in Q, h = p
          PROVE  M.timeout[h] \in Nat
      <4>1. i # n + 1 /\ h = a[i] /\ h # t
        BY <1>6, <1>8, <3>3
      <4>2. w.to <= L.timeout[h] /\ L.timeout[h] \in Nat
        BY <1>5, <2>1, <4>1
      <4>3. M.timeout[h] = L.timeout[h] - w.to
        BY <1>1, <1>6, <3>3, <4>1
      <4> QED
        BY <1>4, <4>2, <4>3
    <3> QED
      BY <3>1, <3>2, <3>3
  <2>5. Dues(M.timeout, u, x, n + 1)
    <3>1. WaitsEntered(L.timeout, M.timeout, a, e, t, d, i, n)
      <4>1. M.timeout[t] = w.to
        BY <1>1
      <4>2. ASSUME NEW j \in 1 .. n
            PROVE  M.timeout[a[j]] = IF j = i THEN L.timeout[a[j]] - M.timeout[t] ELSE L.timeout[a[j]]
        BY <1>1, <1>7, <1>10, <4>1
      <4> QED
        BY <1>8, <4>1, <4>2 DEF WaitsEntered
    <3>2. DuesKept(L.timeout, e, x, a, n)
      BY <1>f, <1>7, <2>1, <2>2 DEF DuesKept
    <3>3. x[t] = d /\ d \in Int
      BY <2>2
    <3> QED
      BY <1>4, <1>11, <2>1, <3>1, <3>2, <3>3, DuesInserted
  <2> QED
    BY <1>6, <1>11, <2>2, <2>3, <2>4, <2>5 DEF Timed
<1>14. \A g \in Handle : H[g] # "timeout" /\ g # t => M.next[g] = L.next[g]
  <2>1. q = 0 \/ q \in Q
    BY <1>7, <1>8, <1>9
  <2> QED
    BY <1>1, <1>6, <1>d, <2>1 DEF Members
<1>15. FreeLine(M, K, f)
  <2>1. KeptFree(L, H, M, K)
    BY <1>1, <1>2, <1>14 DEF KeptFree
  <2> QED
    BY <2>1, <1>3, FreeSame
<1>16. ASSUME NEW g \in Priority
       PROVE  ReadyLine(M, K, g, r[g])
  <2>1. KeptReady(L, H, M, K, g)
    BY <1>1, <1>2, <1>14 DEF KeptReady
  <2> QED
    BY <2>1, <1>3, ReadySame
<1>17. Strung(M, K, f, r, u, x)
  BY <1>3, <1>12, <1>13, <1>15, <1>16 DEF Strung
<1> QED
  BY <1>d, <1>5, <1>7, <1>17 DEF u

(* t has been unlinked from the timeout list, and the TCB after it waits   *)
(* for it too.                                                             *)
Unthreaded(L, M, t) ==
  /\ M.priority = L.priority /\ M.readyQ = L.readyQ /\ M.freeTCB = L.freeTCB
  /\ M.TimeoutList = IF L.TimeoutList = t THEN L.next[t] ELSE L.TimeoutList
  /\ \A g \in Handle : M.next[g] = IF g = t THEN 0
                                   ELSE IF g = L.prev[t] THEN L.next[t] ELSE L.next[g]
  /\ \A g \in Handle : g # t => M.timeout[g] = IF g = L.next[t] THEN L.timeout[g] + L.timeout[t]
                                               ELSE L.timeout[g]

(* So the timeout list loses one thread and every other list stays.        *)
LEMMA UnthreadedStrung ==
  ASSUME NEW L, NEW H, WellFormed(L, H), NEW t \in Handle, H[t] = "timeout",
         NEW M, Unthreaded(L, M, t), NEW K, K = [H EXCEPT ![t] = "loose"],
         NEW f, NEW r, NEW a, NEW e, Strung(L, H, f, r, a, e),
         NEW i \in DOMAIN a, a[i] = t
  PROVE  Strung(M, K, f, r, RemoveAt(a, i), [e EXCEPT ![t] = 0])
<1>d. PICK Q, n, x : Q = Members(H, "timeout") /\ n = Len(a) /\ x = [e EXCEPT ![t] = 0]
  OBVIOUS
<1>f. H \in [Handle -> Homes] /\ L.timeout \in [Handle -> Int]
  BY FieldTypes DEF WellFormed, FieldsTyped
<1>1. /\ M.priority = L.priority /\ M.readyQ = L.readyQ /\ M.freeTCB = L.freeTCB
      /\ M.TimeoutList = IF L.TimeoutList = t THEN L.next[t] ELSE L.TimeoutList
      /\ \A g \in Handle : M.next[g] = IF g = t THEN 0
                                       ELSE IF g = L.prev[t] THEN L.next[t] ELSE L.next[g]
      /\ \A g \in Handle : g # t =>
           M.timeout[g] = IF g = L.next[t] THEN L.timeout[g] + L.timeout[t] ELSE L.timeout[g]
  BY DEF Unthreaded
<1>2. \A g \in Handle : K[g] = IF g = t THEN "loose" ELSE H[g]
  BY <1>f
<1>3. FreeLine(L, H, f) /\ SleepLine(L, H, a) /\ Timed(L, H, a, e)
      /\ r = [g \in Priority |-> r[g]]
      /\ \A g \in Priority : ReadyLine(L, H, g, r[g])
  BY DEF Strung
<1>4. Q \subseteq Handle /\ 0 \notin Q /\ t \in Q /\ t # 0 /\ Members(K, "timeout") = Q \ {t}
  <2>1. 0 \notin Handle
    BY HandleFacts
  <2> QED
    BY <1>d, <1>2, <2>1 DEF Members
<1>5. /\ L.prev[t] = 0 \/ L.prev[t] \in Q
      /\ \A g \in Q : L.next[g] = t <=> g = L.prev[t]
  BY <1>4, <1>d DEF WellFormed, ChainFormed, Chain
<1>6. /\ InLine(L.next, L.TimeoutList, 0, Q, a)
      /\ a \in Seq(Q) /\ n \in Nat /\ i \in 1 .. n
      /\ \A j \in 1 .. n : a[j] \in Q /\ a[j] \in Handle /\ a[j] # 0
      /\ \A j \in 1 .. n : L.next[a[j]] = IF j = n THEN 0 ELSE a[j + 1]
      /\ \A j, k \in 1 .. n : a[j] = a[k] => j = k
  BY <1>3, <1>d, <1>4, LenProperties DEF SleepLine, InLine, Threaded
<1> DEFINE u == RemoveAt(a, i)
<1>7. u \in Seq(Q) /\ Len(u) = n - 1 /\ Left(a, i, u, n)
  BY <1>6, <1>d, LeavesAt
<1> HIDE DEF u
<1>8. SleepLine(M, K, u)
  <2>1. Bridged(L.next, t, Q, M.next)
    BY <1>1, <1>4, <1>5 DEF Bridged
  <2>2. InLine(M.next, FirstWithout(L.next, L.TimeoutList, t, n), LastWithout(L.next, 0, t), Q \ {t}, u)
    <3>1. 0 \in {0, L.TimeoutList} /\ t = a[i]
      OBVIOUS
    <3> QED
      BY <1>d, <1>4, <1>6, <1>7, <2>1, <3>1, LineRemoved
  <2>3. FirstWithout(L.next, L.TimeoutList, t, n) = M.TimeoutList
    <3>1. n = 1 => L.next[t] = 0
      BY <1>6
    <3> QED
      BY <1>1, <3>1 DEF FirstWithout
  <2>4. LastWithout(L.next, 0, t) = 0
    BY <1>4 DEF LastWithout
  <2> QED
    BY <1>4, <2>2, <2>3, <2>4 DEF SleepLine
<1>9. Timed(M, K, u, x)
  <2>1. /\ e \in [Handle -> Int] /\ Dues(L.timeout, a, e, n)
        /\ \A h \in Handle : H[h] # "timeout" => e[h] = 0
        /\ \A h \in Q : L.timeout[h] \in Nat
    BY <1>3, <1>d DEF Timed
  <2>2. x \in [Handle -> Int] /\ \A h \in Handle : x[h] = IF h = t THEN 0 ELSE e[h]
    BY <1>d, <2>1
  <2>3. \A h \in Handle : K[h] # "timeout" => x[h] = 0
    BY <1>2, <2>1, <2>2
  <2>4. \A h \in Q \ {t} : M.timeout[h] \in Nat
    BY <1>1, <1>4, <2>1
  <2>5. WaitsLeft(L.timeout, M.timeout, a, i, n)
    <3>1. ASSUME NEW j \in 1 .. n, j # i
          PROVE  M.timeout[a[j]] = IF j = i + 1 THEN L.timeout[a[j]] + L.timeout[a[i]]
                                   ELSE L.timeout[a[j]]
      <4>1. a[j] # t /\ a[j] \in Handle
        BY <1>6, <3>1
      <4>2. a[j] = L.next[t] <=> j = i + 1
        <5>1. L.next[t] = IF i = n THEN 0 ELSE a[i + 1]
          BY <1>6
        <5>2. i # n => i + 1 \in 1 .. n
          BY <1>6
        <5>3. i = n => j # i + 1
          BY <1>6
        <5> QED
          BY <1>6, <5>1, <5>2, <5>3
      <4> QED
        BY <1>1, <4>1, <4>2
    <3> QED
      BY <3>1 DEF WaitsLeft
  <2>6. DuesKeptBut(L.timeout, e, x, a, i, n)
    BY <1>f, <1>6, <2>1, <2>2 DEF DuesKeptBut
  <2>7. Dues(M.timeout, u, x, n - 1)
    BY <1>6, <1>7, <2>1, <2>5, <2>6, DuesRemoved
  <2> QED
    BY <1>4, <1>7, <2>2, <2>3, <2>4, <2>7 DEF Timed
<1>10. \A g \in Handle : H[g] # "timeout" => M.next[g] = L.next[g]
  <2>1. \A g \in Handle : H[g] # "timeout" => g # t /\ g # L.prev[t]
    BY <1>4, <1>5, <1>d, HandleFacts DEF Members
  <2> QED
    BY <1>1, <2>1
<1>11. FreeLine(M, K, f)
  <2>1. KeptFree(L, H, M, K)
    BY <1>1, <1>2, <1>10 DEF KeptFree
  <2> QED
    BY <2>1, <1>3, FreeSame
<1>12. ASSUME NEW g \in Priority
       PROVE  ReadyLine(M, K, g, r[g])
  <2>1. KeptReady(L, H, M, K, g)
    BY <1>1, <1>2, <1>10 DEF KeptReady
  <2> QED
    BY <2>1, <1>3, ReadySame
<1>13. Strung(M, K, f, r, u, x)
  BY <1>3, <1>8, <1>9, <1>11, <1>12 DEF Strung
<1> QED
  BY <1>d, <1>13 DEF u

(* A thread is taken from the timeout list before its time.                *)
LEMMA RemoveFromTimeoutListStrung ==
  ASSUME NEW L, NEW H, WellFormed(L, H), NEW t \in Handle, H[t] = "timeout",
         NEW M, M = TCBRemoveFromTimeoutList(L, t), NEW K, K = [H EXCEPT ![t] = "loose"],
         NEW f, NEW r, NEW a, NEW e, Strung(L, H, f, r, a, e),
         NEW i \in DOMAIN a, a[i] = t
  PROVE  Strung(M, K, f, r, RemoveAt(a, i), [e EXCEPT ![t] = 0])
<1>d. PICK n, l : n = L.next[t] /\ l = L.prev[t]
  OBVIOUS
<1>t. /\ L \in Lists /\ L.next \in [Handle -> Handle0] /\ L.timeout \in [Handle -> Int]
      /\ n \in Handle0 /\ l \in Handle0
  BY <1>d, FieldTypes DEF WellFormed, FieldsTyped
<1>1. /\ M.priority = L.priority /\ M.readyQ = L.readyQ /\ M.freeTCB = L.freeTCB
      /\ M.TimeoutList = IF L.TimeoutList = t THEN n ELSE L.TimeoutList
      /\ M.timeout = WaitsWithout(L, t)
      /\ M.next = Put(Put(L.next, l, n), t, 0)
  BY <1>t, <1>d DEF TCBRemoveFromTimeoutList, Lists
<1>2. ASSUME NEW g \in Handle
      PROVE  M.next[g] = IF g = t THEN 0 ELSE IF g = l THEN n ELSE L.next[g]
  <2>1. Put(L.next, l, n) \in [Handle -> Handle0]
        /\ (g = l => Put(L.next, l, n)[g] = n) /\ (g # l => Put(L.next, l, n)[g] = L.next[g])
    BY <1>t DEF Put
  <2> QED
    BY <1>1, <2>1 DEF Put
<1>3. ASSUME NEW g \in Handle, g # t
      PROVE  M.timeout[g] = IF g = n THEN L.timeout[g] + L.timeout[t] ELSE L.timeout[g]
  BY <1>1, <1>d DEF WaitsWithout
<1>4. Unthreaded(L, M, t)
  BY <1>1, <1>2, <1>3, <1>d DEF Unthreaded
<1> QED
  BY <1>4, UnthreadedStrung

(* The thread whose wait is over is the first of the list.                 *)
LEMMA FirstSleeper ==
  ASSUME NEW L, NEW H, WellFormed(L, H), L.TimeoutList # 0, L.timeout[L.TimeoutList] = 0,
         NEW f, NEW r, NEW a, NEW e, Strung(L, H, f, r, a, e)
  PROVE  /\ a # <<>> /\ Head(a) = L.TimeoutList /\ L.TimeoutList \in Handle
         /\ 1 \in DOMAIN a /\ a[1] = L.TimeoutList /\ e[L.TimeoutList] = 0
<1>d. PICK t, Q : t = L.TimeoutList /\ Q = Members(H, "timeout")
  OBVIOUS
<1>t. L.timeout \in [Handle -> Int] /\ t \in Handle0
  BY <1>d, FieldTypes DEF WellFormed, FieldsTyped
<1>1. t \in Handle /\ 0 \notin Q
  BY <1>d, <1>t, HandleFacts DEF Members
<1>6. SleepLine(L, H, a) /\ Timed(L, H, a, e)
  BY DEF Strung
<1>7. a # <<>> /\ Head(a) = t /\ 1 \in 1 .. Len(a) /\ a[1] = t /\ a \in Seq(Q)
  <2>1. InLine(L.next, t, 0, Q, a) /\ a \in Seq(Q) /\ t # 0
    BY <1>6, <1>d DEF SleepLine, InLine
  <2> QED
    BY <1>1, <2>1, LineHead
<1>8. 1 \in DOMAIN a
  BY <1>7, LenProperties
<1>9. e[t] = 0
  <2>1. e[a[1]] = L.timeout[a[1]] + 0
    BY <1>6, <1>7 DEF Timed, Dues
  <2> QED
    BY <1>7, <1>d, <2>1
<1> QED
  BY <1>1, <1>7, <1>8, <1>9, <1>d

LEMMA PopTimeoutListStrung ==
  ASSUME NEW L, NEW H, WellFormed(L, H), L.TimeoutList # 0, L.timeout[L.TimeoutList] = 0,
         NEW M, M = TCBPopTimeoutList(L), NEW K, K = [H EXCEPT ![L.TimeoutList] = "loose"],
         NEW f, NEW r, NEW a, NEW e, Strung(L, H, f, r, a, e)
  PROVE  Strung(M, K, f, r, RemoveAt(a, 1), [e EXCEPT ![L.TimeoutList] = 0])
<1>d. PICK t, n, Q : t = L.TimeoutList /\ n = L.next[t] /\ Q = Members(H, "timeout")
  OBVIOUS
<1>t. /\ L \in Lists /\ L.next \in [Handle -> Handle0] /\ L.timeout \in [Handle -> Int]
      /\ t \in Handle0
  BY <1>d, FieldTypes DEF WellFormed, FieldsTyped
<1>1. t \in Q /\ t \in Handle /\ H[t] = "timeout" /\ L.prev[t] = 0 /\ 0 \notin Handle /\ 0 \notin Q
  <2>1. 0 \notin Handle
    BY HandleFacts
  <2> QED
    BY <1>d, <2>1 DEF WellFormed, ChainFormed, Chain, Members
<1>2. /\ M.priority = L.priority /\ M.readyQ = L.readyQ /\ M.freeTCB = L.freeTCB
      /\ M.TimeoutList = n /\ M.timeout = L.timeout /\ M.next = Put(L.next, t, 0)
  BY <1>t, <1>d DEF TCBPopTimeoutList, Lists
<1>3. \A g \in Handle : M.next[g] = IF g = t THEN 0 ELSE L.next[g]
  BY <1>1, <1>2, <1>t DEF Put
<1>4. \A g \in Handle : L.timeout[g] = L.timeout[g] + L.timeout[t]
  BY <1>t, <1>d
<1>5. Unthreaded(L, M, t)
  BY <1>1, <1>2, <1>3, <1>4, <1>d DEF Unthreaded
<1>6. 1 \in DOMAIN a /\ a[1] = t
  BY <1>d, FirstSleeper
<1>7. Strung(M, K, f, r, RemoveAt(a, 1), [e EXCEPT ![t] = 0])
  BY <1>1, <1>5, <1>6, <1>d, UnthreadedStrung
<1> QED
  BY <1>7, <1>d

-----------------------------------------------------------------------------
(* At boot TCB 1 is loose and the others are the free list, in order.      *)
LEMMA BootStrung ==
  ASSUME NEW L, L = BootLists,
         NEW H, H = [h \in Handle |-> IF h = 1 THEN "loose" ELSE "free"]
  PROVE  Strung(L, H, [i \in 1 .. NR_TCB - 1 |-> i + 1], [p \in Priority |-> <<>>], <<>>,
                [h \in Handle |-> 0])
<1>d. PICK f, n : f = [i \in 1 .. NR_TCB - 1 |-> i + 1] /\ n = NR_TCB - 1
  OBVIOUS
<1>1. NR_TCB \in Nat /\ NR_TCB > 1 /\ n \in Nat /\ n # 0 /\ NR_TCB = n + 1
  BY <1>d, TcbAssumption
<1>2. /\ L.next = [h \in Handle |-> IF h \in {1, NR_TCB} THEN 0 ELSE h + 1]
      /\ L.readyQ = [p \in Priority |-> 0] /\ L.TimeoutList = 0 /\ L.freeTCB = 2
  BY DEF BootLists
<1>3. /\ Members(H, "free") = 2 .. NR_TCB /\ Members(H, "timeout") = {}
      /\ \A p \in Priority : ReadyAt(L, H, p) = {}
  BY <1>1 DEF Members, ReadyAt, Handle
<1>4. FreeLine(L, H, f)
  <2>1. f \in Seq(Nat) /\ Len(f) = n
    <3>1. f \in [1 .. n -> Nat]
      BY <1>1, <1>d
    <3>2. f \in Seq(Nat)
      BY <1>1, <3>1, SeqDef
    <3> QED
      BY <1>1, <3>1, <3>2, LenProperties
  <2>2. Threaded(L.next, 2, 0, 2 .. NR_TCB, f, n)
    <3>1. \A i \in 1 .. n : f[i] = i + 1
      BY <1>d
    <3>2. \A i \in 1 .. n : f[i] \in 2 .. NR_TCB
      BY <1>1, <3>1
    <3>3. ASSUME NEW g \in 2 .. NR_TCB
          PROVE  \E i \in 1 .. n : f[i] = g
      <4>1. g - 1 \in 1 .. n /\ (g - 1) + 1 = g
        BY <1>1
      <4> QED
        BY <3>1, <4>1
    <3>4. \A i, j \in 1 .. n : f[i] = f[j] => i = j
      BY <1>1, <3>1
    <3>5. 2 = IF n = 0 THEN 0 ELSE f[1]
      BY <1>1, <3>1
    <3>6. ASSUME NEW i \in 1 .. n
          PROVE  L.next[f[i]] = IF i = n THEN 0 ELSE f[i + 1]
      <4>1. i + 1 \in Handle /\ i + 1 # 1 /\ (i + 1 = NR_TCB <=> i = n)
        BY <1>1 DEF Handle
      <4>2. i # n => i + 1 \in 1 .. n
        BY <1>1
      <4> QED
        BY <1>2, <3>1, <4>1, <4>2
    <3> QED
      BY <3>2, <3>3, <3>4, <3>5, <3>6 DEF Threaded
  <2> QED
    BY <1>2, <1>3, <2>1, <2>2, LineIs DEF FreeLine
<1>5. ASSUME NEW p \in Priority
      PROVE  ReadyLine(L, H, p, <<>>)
  BY <1>2, <1>3, LineEmpty DEF ReadyLine
<1>6. SleepLine(L, H, <<>>)
  BY <1>2, <1>3, LineEmpty DEF SleepLine
<1>7. Timed(L, H, <<>>, [h \in Handle |-> 0])
  <2>1. \A i \in 1 .. 0 : FALSE
    OBVIOUS
  <2> QED
    BY <1>3, <2>1 DEF Timed, Dues
<1> QED
  BY <1>4, <1>5, <1>6, <1>7, <1>d DEF Strung

-----------------------------------------------------------------------------
(* The inductive invariant of the refinement: the lists are well formed,   *)
(* and the sequences read off their links are what the lists string up.    *)
StrungInv ==
  /\ WellFormed(lists, home)
  /\ Strung(lists, home, FreeTCBs(lists, home), ReadyQs(lists, home),
            Sleepers(lists, home), TicksLeft(lists, home))

(* The sequences a call leaves are those read off the links after it.      *)
LEMMA StrungNext ==
  ASSUME WellFormed(lists', home'), NEW f, NEW r, NEW a, NEW e,
         Strung(lists', home', f, r, a, e)
  PROVE  /\ StrungInv'
         /\ FreeTCBs(lists', home') = f /\ ReadyQs(lists', home') = r
         /\ Sleepers(lists', home') = a /\ TicksLeft(lists', home') = e
<1>1. FieldsTyped(lists', home')
  BY FieldTypes DEF WellFormed
<1>2. /\ f = FreeTCBs(lists', home') /\ r = ReadyQs(lists', home')
      /\ a = Sleepers(lists', home') /\ e = TicksLeft(lists', home')
  BY <1>1, StrungIs
<1>3. StrungInv'
  BY <1>2 DEF StrungInv
<1> QED
  BY <1>2, <1>3

(* Who is in the hands of a caller once h has moved.                       *)
LEMMA HeldMoved ==
  ASSUME WellFormed(lists, home), NEW h \in Handle, NEW place, Moved(h, place)
  PROVE  Members(home', "loose") = IF place = "loose" THEN Members(home, "loose") \cup {h}
                                   ELSE Members(home, "loose") \ {h}
<1>1. home \in [Handle -> Homes]
  BY DEF WellFormed, ListsOK
<1> QED
  BY <1>1 DEF Moved, Members

(* The operators of ThreadLists are those of the library.                  *)
LEMMA SequencesAgree ==
  /\ \A s, i, x : Abstract!InsertAt(s, i, x) = InsertAt(s, i, x)
  /\ \A s, i : Abstract!RemoveAt(s, i) = RemoveAt(s, i)
BY DEF InsertAt, RemoveAt, Abstract!InsertAt, Abstract!RemoveAt

(* From here on one lemma per routine: the step of ThreadLists that a call *)
(* of it is.                                                               *)
LEMMA AllocTCBStep ==
  ASSUME StrungInv, WellFormed(lists', home'), NEW p \in Priority, AllocTCB(p)
  PROVE  StrungInv' /\ Abstract!Alloc(p)
<1>d. PICK f, r, a, e, t : /\ f = FreeTCBs(lists, home) /\ r = ReadyQs(lists, home)
                           /\ a = Sleepers(lists, home) /\ e = TicksLeft(lists, home)
                           /\ t = lists.freeTCB
  OBVIOUS
<1>1. WellFormed(lists, home) /\ Strung(lists, home, f, r, a, e)
  BY <1>d DEF StrungInv
<1>2. lists.freeTCB # 0 /\ lists' = TakeTCB(lists, p) /\ home' = [home EXCEPT ![lists.freeTCB] = "loose"]
  BY DEF AllocTCB, Moved
<1>3. f # <<>> /\ Head(f) = t /\ Strung(lists', home', Tail(f), r, a, e)
  <2>1. f # <<>> /\ Head(f) = t
    BY <1>1, <1>2, <1>d, FirstFreeTCB
  <2>2. Strung(lists', home', Tail(f), r, a, e)
    BY <1>1, <1>2, AllocTCBStrung
  <2> QED
    BY <2>1, <2>2
<1>4. /\ StrungInv'
      /\ FreeTCBs(lists', home') = Tail(f) /\ ReadyQs(lists', home') = r
      /\ Sleepers(lists', home') = a /\ TicksLeft(lists', home') = e
  BY <1>3, StrungNext
<1>5. t \in Handle
  BY <1>1, <1>2, <1>d, TakeTCBFields
<1>6. Members(home', "loose") = Members(home, "loose") \cup {t}
  BY <1>1, <1>5, <1>d, HeldMoved DEF AllocTCB
<1>7. lists'.priority = [lists.priority EXCEPT ![t] = p]
  <2>1. lists \in Lists
    BY <1>1 DEF WellFormed, ListsOK
  <2> QED
    BY <1>2, <1>d, <2>1 DEF TakeTCB, Lists
<1> QED
  BY <1>3, <1>4, <1>6, <1>7, <1>d DEF Abstract!Alloc

LEMMA FreeTCBStep ==
  ASSUME StrungInv, WellFormed(lists', home'), NEW t \in Handle, FreeTCB(t)
  PROVE  StrungInv' /\ Abstract!Free(t)
<1>d. PICK f, r, a, e : /\ f = FreeTCBs(lists, home) /\ r = ReadyQs(lists, home)
                        /\ a = Sleepers(lists, home) /\ e = TicksLeft(lists, home)
  OBVIOUS
<1>1. WellFormed(lists, home) /\ Strung(lists, home, f, r, a, e)
  BY <1>d DEF StrungInv
<1>2. home[t] = "loose" /\ lists' = iFreeTCB(lists, t) /\ home' = [home EXCEPT ![t] = "free"]
  BY DEF FreeTCB, Moved
<1>3. Strung(lists', home', <<t>> \o f, r, a, e)
  BY <1>1, <1>2, FreeTCBStrung
<1>4. /\ StrungInv'
      /\ FreeTCBs(lists', home') = <<t>> \o f /\ ReadyQs(lists', home') = r
      /\ Sleepers(lists', home') = a /\ TicksLeft(lists', home') = e
  BY <1>3, StrungNext
<1>6. Members(home', "loose") = Members(home, "loose") \ {t} /\ t \in Members(home, "loose")
  <2>1. Moved(t, "free")
    BY DEF FreeTCB
  <2>2. t \in Members(home, "loose")
    BY <1>2 DEF Members
  <2> QED
    BY <1>1, <2>1, <2>2, HeldMoved
<1>7. lists'.priority = lists.priority
  <2>1. lists \in Lists
    BY <1>1 DEF WellFormed, ListsOK
  <2> QED
    BY <1>2, <2>1 DEF iFreeTCB, Lists
<1> QED
  BY <1>4, <1>6, <1>7, <1>d DEF Abstract!Free

LEMMA InsertIntoReadyQueueStep ==
  ASSUME StrungInv, WellFormed(lists', home'), NEW t \in Handle, InsertIntoReadyQueue(t)
  PROVE  StrungInv' /\ Abstract!MakeReady(t)
<1>d. PICK f, r, a, e : /\ f = FreeTCBs(lists, home) /\ r = ReadyQs(lists, home)
                        /\ a = Sleepers(lists, home) /\ e = TicksLeft(lists, home)
  OBVIOUS
<1>1. WellFormed(lists, home) /\ Strung(lists, home, f, r, a, e)
  BY <1>d DEF StrungInv
<1>2. /\ home[t] = "loose" /\ lists' = TCBInsertIntoReadyQueue(lists, t)
      /\ home' = [home EXCEPT ![t] = "ready"]
  BY DEF InsertIntoReadyQueue, Moved
<1>3. Strung(lists', home', f, [r EXCEPT ![lists.priority[t]] = Append(@, t)], a, e)
  BY <1>1, <1>2, InsertIntoReadyQueueStrung
<1>4. /\ StrungInv'
      /\ FreeTCBs(lists', home') = f
      /\ ReadyQs(lists', home') = [r EXCEPT ![lists.priority[t]] = Append(@, t)]
      /\ Sleepers(lists', home') = a /\ TicksLeft(lists', home') = e
  BY <1>3, StrungNext
<1>6. Members(home', "loose") = Members(home, "loose") \ {t} /\ t \in Members(home, "loose")
  <2>1. Moved(t, "ready")
    BY DEF InsertIntoReadyQueue
  <2>2. t \in Members(home, "loose")
    BY <1>2 DEF Members
  <2> QED
    BY <1>1, <2>1, <2>2, HeldMoved
<1>7. lists'.priority = lists.priority
  BY <1>1, <1>2, InsertIntoReadyQueueLinks
<1> QED
  BY <1>4, <1>6, <1>7, <1>d DEF Abstract!MakeReady

(* A thread between lists is on no queue, and nothing happens to it.       *)
LEMMA RemoveFromReadyQueueStep ==
  ASSUME StrungInv, WellFormed(lists', home'), NEW t \in Handle, RemoveFromReadyQueue(t)
  PROVE  StrungInv' /\ (Abstract!Unready(t) \/ UNCHANGED Abstract!vars)
<1>d. PICK f, r, a, e, p : /\ f = FreeTCBs(lists, home) /\ r = ReadyQs(lists, home)
                           /\ a = Sleepers(lists, home) /\ e = TicksLeft(lists, home)
                           /\ p = lists.priority[t]
  OBVIOUS
<1>1. WellFormed(lists, home) /\ Strung(lists, home, f, r, a, e)
  BY <1>d DEF StrungInv
<1>2. /\ home[t] \in {"ready", "loose"} /\ lists' = TCBRemoveFromReadyQueue(lists, t)
      /\ home' = [home EXCEPT ![t] = "loose"]
  BY DEF RemoveFromReadyQueue, Moved
<1>3. CASE home[t] = "ready"
  <2>1. p \in Priority /\ t \in ReadyAt(lists, home, p)
    BY <1>1, <1>3, <1>d, FieldTypes DEF WellFormed, FieldsTyped, ReadyAt
  <2>2. ReadyLine(lists, home, p, r[p])
    BY <1>1, <2>1 DEF Strung
  <2>3. PICK i \in DOMAIN r[p] : r[p][i] = t
    BY <2>1, <2>2, LineHas DEF ReadyLine
  <2>4. Strung(lists', home', f, [r EXCEPT ![lists.priority[t]] = RemoveAt(@, i)], a, e)
    BY <1>1, <1>2, <1>3, <1>d, <2>3, RemoveFromReadyQueueStrung
  <2>5. /\ StrungInv'
        /\ FreeTCBs(lists', home') = f
        /\ ReadyQs(lists', home') = [r EXCEPT ![p] = RemoveAt(@, i)]
        /\ Sleepers(lists', home') = a /\ TicksLeft(lists', home') = e
    BY <1>d, <2>4, StrungNext
  <2>6. Members(home', "loose") = Members(home, "loose") \cup {t}
    <3>1. Moved(t, "loose")
      BY DEF RemoveFromReadyQueue
    <3> QED
      BY <1>1, <3>1, HeldMoved
  <2>7. lists'.priority = lists.priority
    BY <1>1, <1>2, <1>3, RemoveFromReadyQueueLinks
  <2>8. Abstract!Unready(t)
    BY <1>d, <2>3, <2>5, <2>6, <2>7, SequencesAgree DEF Abstract!Unready
  <2> QED
    BY <2>5, <2>8
<1>4. CASE home[t] = "loose"
  <2>1. Strung(lists', home', f, r, a, e) /\ home' = home /\ lists'.priority = lists.priority
    <3>1. Strung(lists', home', f, r, a, e)
      BY <1>1, <1>2, <1>4, RemoveFromNoQueueStrung
    <3>2. lists \in Lists /\ home \in [Handle -> Homes]
      BY <1>1 DEF WellFormed, ListsOK
    <3>3. home' = home
      BY <1>2, <1>4, <3>2
    <3>4. lists'.priority = lists.priority
      BY <1>2, <3>2 DEF TCBRemoveFromReadyQueue, Lists
    <3> QED
      BY <3>1, <3>3, <3>4
  <2>2. /\ StrungInv'
        /\ FreeTCBs(lists', home') = f /\ ReadyQs(lists', home') = r
        /\ Sleepers(lists', home') = a /\ TicksLeft(lists', home') = e
    BY <2>1, StrungNext
  <2> QED
    BY <1>d, <2>1, <2>2 DEF Abstract!vars
<1> QED
  BY <1>2, <1>3, <1>4

LEMMA InsertIntoTimeoutListStep ==
  ASSUME StrungInv, WellFormed(lists', home'), NEW t \in Handle, NEW d \in Timeouts,
         InsertIntoTimeoutList(t, d)
  PROVE  StrungInv' /\ Abstract!Sleep(t, d)
<1>d. PICK f, r, a, e : /\ f = FreeTCBs(lists, home) /\ r = ReadyQs(lists, home)
                        /\ a = Sleepers(lists, home) /\ e = TicksLeft(lists, home)
  OBVIOUS
<1>1. WellFormed(lists, home) /\ Strung(lists, home, f, r, a, e)
  BY <1>d DEF StrungInv
<1>2. /\ home[t] = "loose" /\ lists' = TCBInsertIntoTimeoutList(lists, t, d)
      /\ home' = [home EXCEPT ![t] = "timeout"] /\ d \in Nat
  BY TcbAssumption DEF InsertIntoTimeoutList, Moved
<1>3. PICK i \in 1 .. Len(a) + 1 :
        /\ \A j \in DOMAIN a : e[a[j]] < d <=> j < i
        /\ Strung(lists', home', f, r, InsertAt(a, i, t), [e EXCEPT ![t] = d])
  BY <1>1, <1>2, InsertIntoTimeoutListStrung
<1>4. /\ StrungInv'
      /\ FreeTCBs(lists', home') = f /\ ReadyQs(lists', home') = r
      /\ Sleepers(lists', home') = InsertAt(a, i, t)
      /\ TicksLeft(lists', home') = [e EXCEPT ![t] = d]
  BY <1>3, StrungNext
<1>6. Members(home', "loose") = Members(home, "loose") \ {t} /\ t \in Members(home, "loose")
  <2>1. Moved(t, "timeout")
    BY DEF InsertIntoTimeoutList
  <2>2. t \in Members(home, "loose")
    BY <1>2 DEF Members
  <2> QED
    BY <1>1, <2>1, <2>2, HeldMoved
<1>7. lists'.priority = lists.priority
  <2>1. d \in Int
    BY <1>2
  <2> QED
    BY <1>1, <1>2, <2>1, InsertIntoTimeoutListLinks
<1>8. \E k \in 1 .. Len(a) + 1 : /\ \A j \in DOMAIN a : e[a[j]] < d <=> j < k
                                 /\ Sleepers(lists', home') = InsertAt(a, k, t)
  BY <1>3, <1>4
<1> QED
  BY <1>4, <1>6, <1>7, <1>8, <1>d, SequencesAgree DEF Abstract!Sleep

LEMMA RemoveFromTimeoutListStep ==
  ASSUME StrungInv, WellFormed(lists', home'), NEW t \in Handle, RemoveFromTimeoutList(t)
  PROVE  StrungInv' /\ Abstract!Wake(t)
<1>d. PICK f, r, a, e : /\ f = FreeTCBs(lists, home) /\ r = ReadyQs(lists, home)
                        /\ a = Sleepers(lists, home) /\ e = TicksLeft(lists, home)
  OBVIOUS
<1>1. WellFormed(lists, home) /\ Strung(lists, home, f, r, a, e)
  BY <1>d DEF StrungInv
<1>2. /\ home[t] = "timeout" /\ lists' = TCBRemoveFromTimeoutList(lists, t)
      /\ home' = [home EXCEPT ![t] = "loose"]
  BY DEF RemoveFromTimeoutList, Moved
<1>3. PICK i \in DOMAIN a : a[i] = t
  <2>1. SleepLine(lists, home, a) /\ t \in Members(home, "timeout")
    BY <1>1, <1>2 DEF Strung, Members
  <2> QED
    BY <2>1, LineHas DEF SleepLine
<1>4. Strung(lists', home', f, r, RemoveAt(a, i), [e EXCEPT ![t] = 0])
  BY <1>1, <1>2, <1>3, RemoveFromTimeoutListStrung
<1>5. /\ StrungInv'
      /\ FreeTCBs(lists', home') = f /\ ReadyQs(lists', home') = r
      /\ Sleepers(lists', home') = RemoveAt(a, i)
      /\ TicksLeft(lists', home') = [e EXCEPT ![t] = 0]
  BY <1>4, StrungNext
<1>6. Members(home', "loose") = Members(home, "loose") \cup {t}
  <2>1. Moved(t, "loose")
    BY DEF RemoveFromTimeoutList
  <2> QED
    BY <1>1, <2>1, HeldMoved
<1>7. lists'.priority = lists.priority
  <2>1. lists \in Lists
    BY <1>1 DEF WellFormed, ListsOK
  <2> QED
    BY <1>2, <2>1 DEF TCBRemoveFromTimeoutList, Lists
<1> QED
  BY <1>3, <1>5, <1>6, <1>7, <1>d, SequencesAgree DEF Abstract!Wake

LEMMA PopTimeoutListStep ==
  ASSUME StrungInv, WellFormed(lists', home'), PopTimeoutList
  PROVE  StrungInv' /\ Abstract!Expire
<1>d. PICK f, r, a, e, t : /\ f = FreeTCBs(lists, home) /\ r = ReadyQs(lists, home)
                           /\ a = Sleepers(lists, home) /\ e = TicksLeft(lists, home)
                           /\ t = lists.TimeoutList
  OBVIOUS
<1>1. WellFormed(lists, home) /\ Strung(lists, home, f, r, a, e)
  BY <1>d DEF StrungInv
<1>2. /\ lists.TimeoutList # 0 /\ lists.timeout[lists.TimeoutList] = 0
      /\ lists' = TCBPopTimeoutList(lists)
      /\ home' = [home EXCEPT ![lists.TimeoutList] = "loose"]
  BY DEF PopTimeoutList, Moved
<1>3. /\ a # <<>> /\ Head(a) = t /\ t \in Handle /\ e[t] = 0
      /\ 1 \in DOMAIN a /\ a[1] = t
  BY <1>1, <1>2, <1>d, FirstSleeper
<1>4. Strung(lists', home', f, r, RemoveAt(a, 1), [e EXCEPT ![lists.TimeoutList] = 0])
  BY <1>1, <1>2, PopTimeoutListStrung
<1>5. /\ StrungInv'
      /\ FreeTCBs(lists', home') = f /\ ReadyQs(lists', home') = r
      /\ Sleepers(lists', home') = RemoveAt(a, 1)
      /\ TicksLeft(lists', home') = [e EXCEPT ![t] = 0]
  BY <1>4, <1>d, StrungNext
<1>6. Members(home', "loose") = Members(home, "loose") \cup {t}
  <2>1. Moved(t, "loose")
    BY <1>d DEF PopTimeoutList
  <2> QED
    BY <1>1, <1>3, <2>1, HeldMoved
<1>7. lists'.priority = lists.priority
  <2>1. lists \in Lists
    BY <1>1 DEF WellFormed, ListsOK
  <2> QED
    BY <1>2, <2>1 DEF TCBPopTimeoutList, Lists
<1> QED
  BY <1>3, <1>4, <1>5, <1>6, <1>7, <1>d, SequencesAgree DEF Abstract!Expire, Abstract!Wake

LEMMA RotateStep ==
  ASSUME StrungInv, WellFormed(lists', home'), NEW t \in Handle, Rotate(t)
  PROVE  StrungInv' /\ \E p \in Priority : Abstract!Turn(p)
<1>d. PICK f, r, a, e, p : /\ f = FreeTCBs(lists, home) /\ r = ReadyQs(lists, home)
                           /\ a = Sleepers(lists, home) /\ e = TicksLeft(lists, home)
                           /\ p = lists.priority[t]
  OBVIOUS
<1>1. WellFormed(lists, home) /\ Strung(lists, home, f, r, a, e)
  BY <1>d DEF StrungInv
<1>2. /\ home[t] = "ready" /\ home' = home
      /\ lists' = [lists EXCEPT !.readyQ[lists.priority[t]] = lists.next[t]]
  BY DEF Rotate
<1>3. p \in Priority /\ t \in ReadyAt(lists, home, p)
  BY <1>1, <1>2, <1>d, FieldTypes DEF WellFormed, FieldsTyped, ReadyAt
<1>4. ReadyLine(lists, home, p, r[p])
  BY <1>1, <1>3 DEF Strung
<1>5. PICK i \in DOMAIN r[p] : r[p][i] = t
  BY <1>3, <1>4, LineHas DEF ReadyLine
<1>6. /\ i \in 1 .. Len(r[p])
      /\ Strung(lists', home', f, [r EXCEPT ![p] = SubSeq(@, i + 1, Len(@)) \o SubSeq(@, 1, i)], a, e)
  BY <1>1, <1>2, <1>5, <1>d, RotateStrung
<1>7. /\ StrungInv'
      /\ FreeTCBs(lists', home') = f
      /\ ReadyQs(lists', home') = [r EXCEPT ![p] = SubSeq(@, i + 1, Len(@)) \o SubSeq(@, 1, i)]
      /\ Sleepers(lists', home') = a /\ TicksLeft(lists', home') = e
  BY <1>6, StrungNext
<1>8. lists'.priority = lists.priority
  <2>1. lists \in Lists
    BY <1>1 DEF WellFormed, ListsOK
  <2> QED
    BY <1>2, <2>1 DEF Lists
<1>9. Abstract!Turn(p)
  BY <1>2, <1>6, <1>7, <1>8, <1>d DEF Abstract!Turn
<1> QED
  BY <1>3, <1>7, <1>9

(* At boot the sequences are those of ThreadLists.                         *)
LEMMA BootSequences ==
  ASSUME Init
  PROVE  StrungInv /\ Abstract!Init
<1>d. PICK f, r, e : /\ f = [i \in 1 .. NR_TCB - 1 |-> i + 1] /\ r = [p \in Priority |-> <<>>]
                     /\ e = [h \in Handle |-> 0]
  OBVIOUS
<1>1. WellFormed(lists, home) /\ FieldsTyped(lists, home)
  BY BootWellFormed, FieldTypes DEF Init, WellFormed
<1>2. Strung(lists, home, f, r, <<>>, e)
  BY <1>d, BootStrung DEF Init
<1>3. /\ f = FreeTCBs(lists, home) /\ r = ReadyQs(lists, home)
      /\ <<>> = Sleepers(lists, home) /\ e = TicksLeft(lists, home)
  BY <1>1, <1>2, StrungIs
<1>4. StrungInv
  BY <1>1, <1>2, <1>3 DEF StrungInv
<1>5. Members(home, "loose") = {1}
  BY HandleFacts DEF Init, Members
<1>6. lists.priority = [h \in Handle |-> BootPriority]
  BY DEF Init, BootLists
<1> QED
  BY <1>3, <1>4, <1>5, <1>6, <1>d DEF Abstract!Init

(* Every call of tcb.c is the step of ThreadLists of the same meaning.     *)
LEMMA CallIsStep ==
  ASSUME StrungInv, [Next]_vars
  PROVE  StrungInv' /\ [Abstract!Next]_(Abstract!vars)
<1>w. WellFormed(lists', home')
  BY CallKeeps DEF StrungInv
<1>1. CASE \E pri \in Priority : AllocTCB(pri)
  BY <1>1, <1>w, AllocTCBStep DEF Abstract!Next
<1>2. CASE \E h \in Handle : FreeTCB(h)
  BY <1>2, <1>w, FreeTCBStep DEF Abstract!Next
<1>3. CASE \E h \in Handle : InsertIntoReadyQueue(h)
  BY <1>3, <1>w, InsertIntoReadyQueueStep DEF Abstract!Next
<1>4. CASE \E h \in Handle : RemoveFromReadyQueue(h)
  BY <1>4, <1>w, RemoveFromReadyQueueStep DEF Abstract!Next
<1>5. CASE \E h \in Handle, to \in Timeouts : InsertIntoTimeoutList(h, to)
  BY <1>5, <1>w, InsertIntoTimeoutListStep DEF Abstract!Next
<1>6. CASE \E h \in Handle : RemoveFromTimeoutList(h)
  BY <1>6, <1>w, RemoveFromTimeoutListStep DEF Abstract!Next
<1>7. CASE PopTimeoutList
  BY <1>7, <1>w, PopTimeoutListStep DEF Abstract!Next
<1>8. CASE \E h \in Handle : Rotate(h)
  BY <1>8, <1>w, RotateStep DEF Abstract!Next
<1>9. CASE UNCHANGED vars
  <2>1. lists' = lists /\ home' = home
    BY <1>9 DEF vars
  <2> QED
    BY <2>1 DEF StrungInv, Abstract!vars
<1> QED
  BY <1>1, <1>2, <1>3, <1>4, <1>5, <1>6, <1>7, <1>8, <1>9 DEF Next

(***************************************************************************)
(* The linked lists of tcb.c, for every number of TCBs, priorities and     *)
(* timeouts, are the sequences of ThreadLists: the free list is a stack,   *)
(* each ready queue first come, first served, and putting a thread on the  *)
(* timeout list or taking it off, which adjusts the wait of the thread     *)
(* behind it, changes the ticks left to no other thread (tcb.c 110-367).   *)
(***************************************************************************)
THEOREM ListsAreSequences == Spec => ImplementsThreadLists
<1>1. Init => StrungInv /\ Abstract!Init
  BY BootSequences
<1>2. StrungInv /\ [Next]_vars => StrungInv' /\ [Abstract!Next]_(Abstract!vars)
  BY CallIsStep
<1> QED
  BY <1>1, <1>2, PTL DEF Spec, ImplementsThreadLists, Abstract!Spec

=============================================================================
