--------------------------- MODULE MsgQueue_proofs ---------------------------
(***************************************************************************)
(* The message queues of kernel/msg.c, for any number of blocks and of     *)
(* mailboxes: every block is on the free list or in one queue, and a queue *)
(* is read in the order it was written.                                    *)
(*                                                                         *)
(* The argument names what the links mean.  S gives every mailbox, and the *)
(* free list as number 0, the sequence of its blocks; O gives every block  *)
(* the place it is in.  The lemmas speak of one value N of the record of   *)
(* globals, so that they serve every module that has such a variable.      *)
(***************************************************************************)
EXTENDS MsgQueue, Iteration_proofs, SequenceTheorems

Box0 == Mailboxes \cup {0}

First(N, b) == IF b = 0 THEN N.freeMSG ELSE N.head[b]

LastOf(s) == IF s = <<>> THEN 0 ELSE s[Len(s)]

(* The links lead from h through s to the end.                             *)
Chain(link, h, s) ==
  /\ s \in Seq(Msg)
  /\ h = IF s = <<>> THEN 0 ELSE s[1]
  /\ \A i \in 1 .. Len(s) : link[s[i]] = IF i = Len(s) THEN 0 ELSE s[i + 1]

(* The blocks in place b are those of s, each once.                        *)
Holds(s, O, b) ==
  /\ \A i \in 1 .. Len(s) : O[s[i]] = b
  /\ \A i, j \in 1 .. Len(s) : s[i] = s[j] => i = j
  /\ \A m \in Msg : O[m] = b => \E i \in 1 .. Len(s) : s[i] = m

Queue(link, h, s, O, b) == Chain(link, h, s) /\ Holds(s, O, b)

-----------------------------------------------------------------------------
(* One queue.                                                              *)

LEMMA QueueEnds ==
  ASSUME NEW link, NEW h, NEW s, NEW O, NEW b, Queue(link, h, s, O, b)
  PROVE  /\ Len(s) \in Nat
         /\ \A i \in 1 .. Len(s) : s[i] \in Msg
         /\ s = <<>> <=> h = 0
         /\ s = <<>> <=> Len(s) = 0
         /\ s = <<>> <=> LastOf(s) = 0
         /\ h # 0 => h \in Msg /\ h = s[1] /\ O[h] = b
         /\ LastOf(s) # 0 => LastOf(s) \in Msg /\ O[LastOf(s)] = b
<1>1. /\ s \in Seq(Msg) /\ Len(s) \in Nat
      /\ \A i \in 1 .. Len(s) : s[i] \in Msg
      /\ s = <<>> <=> Len(s) = 0
  BY LenProperties, EmptySeq DEF Queue, Chain
<1>2. 0 \notin Msg
  BY DEF Msg
<1>3. CASE s = <<>>
  BY <1>1, <1>3 DEF Queue, Chain, LastOf
<1>4. CASE s # <<>>
  <2>1. 1 \in 1 .. Len(s) /\ Len(s) \in 1 .. Len(s)
    BY <1>1, <1>4
  <2> QED
    BY <2>1, <1>1, <1>2, <1>4 DEF Queue, Chain, Holds, LastOf
<1> QED
  BY <1>3, <1>4

(* A place whose blocks and their links are not touched stays as it is.    *)
LEMMA QueueKept ==
  ASSUME NEW link, NEW h, NEW s, NEW O, NEW b, Queue(link, h, s, O, b),
         NEW link2, NEW O2, NEW m,
         O[m] # b, O2[m] # b,
         \A n \in Msg \ {m} : O2[n] = O[n],
         \A n \in Msg : O[n] = b => link2[n] = link[n]
  PROVE  Queue(link2, h, s, O2, b)
<1>1. \A i \in 1 .. Len(s) : s[i] \in Msg /\ O[s[i]] = b /\ O2[s[i]] = b
  <2>1. \A i \in 1 .. Len(s) : s[i] \in Msg
    BY QueueEnds
  <2>2. \A i \in 1 .. Len(s) : O[s[i]] = b
    BY DEF Queue, Holds
  <2> QED
    BY <2>1, <2>2
<1>2. \A n \in Msg : O2[n] = b => O[n] = b
  OBVIOUS
<1> QED
  BY <1>1, <1>2 DEF Queue, Chain, Holds

(* The first block leaves.                                                 *)
LEMMA QueuePopped ==
  ASSUME NEW link, NEW h, NEW s, NEW O, NEW b, Queue(link, h, s, O, b), h # 0,
         NEW link2, NEW O2, O2[h] # b,
         \A n \in Msg \ {h} : O2[n] = O[n] /\ (O[n] = b => link2[n] = link[n])
  PROVE  /\ Queue(link2, link[h], Tail(s), O2, b)
         /\ LastOf(Tail(s)) = IF link[h] = 0 THEN 0 ELSE LastOf(s)
<1> DEFINE t == Tail(s)
<1>1. /\ s \in Seq(Msg) /\ s # <<>> /\ Len(s) \in Nat \ {0} /\ h = s[1]
      /\ \A i \in 1 .. Len(s) : s[i] \in Msg
  BY QueueEnds DEF Queue, Chain
<1>2. t \in Seq(Msg) /\ Len(t) = Len(s) - 1 /\ \A i \in 1 .. Len(t) : t[i] = s[i + 1]
  BY <1>1, HeadTailProperties
<1> HIDE DEF t
<1>3. t = <<>> <=> Len(s) = 1
  <2>1. t = <<>> => Len(t) = 0
    BY EmptySeq
  <2>2. t # <<>> => Len(t) # 0
    BY <1>2, EmptySeq
  <2> QED
    BY <2>1, <2>2, <1>1, <1>2
<1>4. \A i \in 1 .. Len(t) : /\ i + 1 \in 1 .. Len(s)
                             /\ t[i] \in Msg \ {h}
                             /\ O[t[i]] = b
  <2> TAKE i \in 1 .. Len(t)
  <2>1. i + 1 \in 1 .. Len(s) /\ 1 \in 1 .. Len(s) /\ i + 1 # 1 /\ t[i] = s[i + 1]
    BY <1>1, <1>2
  <2> QED
    BY <2>1, <1>1 DEF Queue, Holds
<1>5. Chain(link2, link[h], t)
  <2>1. link[h] = IF t = <<>> THEN 0 ELSE t[1]
    BY <1>1, <1>2, <1>3 DEF Queue, Chain
  <2>2. \A i \in 1 .. Len(t) : link2[t[i]] = IF i = Len(t) THEN 0 ELSE t[i + 1]
    <3> TAKE i \in 1 .. Len(t)
    <3>1. link2[t[i]] = link[s[i + 1]]
      BY <1>2, <1>4
    <3>2. link[s[i + 1]] = IF i + 1 = Len(s) THEN 0 ELSE s[i + 2]
      BY <1>4 DEF Queue, Chain
    <3>3. i # Len(t) => i + 1 \in 1 .. Len(t) /\ t[i + 1] = s[i + 2]
      BY <1>1, <1>2
    <3> QED
      BY <3>1, <3>2, <3>3, <1>1, <1>2
  <2> QED
    BY <2>1, <2>2, <1>2 DEF Chain
<1>6. Holds(t, O2, b)
  <2>1. \A i, j \in 1 .. Len(t) : t[i] = t[j] => i = j
    <3> SUFFICES ASSUME NEW i \in 1 .. Len(t), NEW j \in 1 .. Len(t), t[i] = t[j]
                 PROVE  i = j
      OBVIOUS
    <3>1. i + 1 \in 1 .. Len(s) /\ j + 1 \in 1 .. Len(s) /\ s[i + 1] = s[j + 1]
      BY <1>2, <1>4
    <3>2. i + 1 = j + 1
      BY <3>1 DEF Queue, Holds
    <3> QED
      BY <3>2
  <2>2. ASSUME NEW m \in Msg, O2[m] = b
        PROVE  \E i \in 1 .. Len(t) : t[i] = m
    <3>1. m # h /\ O[m] = b
      BY <2>2
    <3>2. PICK i \in 1 .. Len(s) : s[i] = m
      BY <3>1 DEF Queue, Holds
    <3>3. i - 1 \in 1 .. Len(t) /\ (i - 1) + 1 = i
      BY <3>1, <3>2, <1>1, <1>2
    <3>4. t[i - 1] = m
      BY <3>2, <3>3, <1>2
    <3> QED
      BY <3>3, <3>4
  <2> QED
    BY <2>1, <2>2, <1>4 DEF Holds
<1>7. LastOf(t) = IF link[h] = 0 THEN 0 ELSE LastOf(s)
  <2>1. 0 \notin Msg
    BY DEF Msg
  <2>2. CASE t = <<>>
    BY <2>2, <1>5 DEF Chain, LastOf
  <2>3. CASE t # <<>>
    <3>1. Len(t) \in 1 .. Len(t) /\ 1 \in 1 .. Len(t)
      BY <2>3, <1>1, <1>2, <1>3
    <3>2. t[Len(t)] = s[Len(s)] /\ link[h] \in Msg
      BY <3>1, <2>3, <1>1, <1>2, <1>4, <1>5 DEF Chain
    <3> QED
      BY <3>2, <2>1, <2>3, <1>1 DEF LastOf
  <2> QED
    BY <2>2, <2>3
<1> QED
  BY <1>5, <1>6, <1>7 DEF Queue, t

(* A block is put before the others.                                       *)
LEMMA QueuePushed ==
  ASSUME NEW link, NEW h, NEW s, NEW O, NEW b, Queue(link, h, s, O, b),
         NEW m \in Msg, O[m] # b,
         NEW link2, NEW O2, O2[m] = b, link2[m] = h,
         \A n \in Msg \ {m} : O2[n] = O[n] /\ (O[n] = b => link2[n] = link[n])
  PROVE  Queue(link2, m, <<m>> \o s, O2, b)
<1> DEFINE t == <<m>> \o s
<1>1. /\ s \in Seq(Msg) /\ Len(s) \in Nat
      /\ \A i \in 1 .. Len(s) : s[i] \in Msg /\ O[s[i]] = b /\ s[i] # m
  BY QueueEnds DEF Queue, Chain, Holds
<1>2. /\ t \in Seq(Msg) /\ Len(t) = Len(s) + 1 /\ t # <<>> /\ t[1] = m
      /\ \A i \in 1 .. Len(s) : t[i + 1] = s[i]
  <2>1. <<m>> \in Seq(Msg) /\ Len(<<m>>) = 1 /\ <<m>>[1] = m
    OBVIOUS
  <2>2. /\ t \in Seq(Msg) /\ Len(t) = 1 + Len(s)
        /\ \A i \in 1 .. 1 + Len(s) : t[i] = IF i <= 1 THEN <<m>>[i] ELSE s[i - 1]
    BY <2>1, <1>1, ConcatProperties
  <2> HIDE DEF t
  <2>3. 1 \in 1 .. 1 + Len(s) /\ \A i \in 1 .. Len(s) : i + 1 \in 1 .. 1 + Len(s) /\ (i + 1) - 1 = i
    BY <1>1
  <2>4. t # <<>>
    BY <2>2, <1>1, EmptySeq
  <2> QED
    BY <2>1, <2>2, <2>3, <2>4, <1>1
<1> HIDE DEF t
<1>3. \A i \in 1 .. Len(t) : \/ i = 1 /\ t[i] = m
                             \/ i # 1 /\ i - 1 \in 1 .. Len(s) /\ t[i] = s[i - 1]
  <2> TAKE i \in 1 .. Len(t)
  <2>1. CASE i = 1
    BY <2>1, <1>2
  <2>2. CASE i # 1
    <3>1. i - 1 \in 1 .. Len(s) /\ (i - 1) + 1 = i
      BY <2>2, <1>1, <1>2
    <3> QED
      BY <3>1, <2>2, <1>2
  <2> QED
    BY <2>1, <2>2
<1>4. Chain(link2, m, t)
  <2> SUFFICES ASSUME NEW i \in 1 .. Len(t)
               PROVE  link2[t[i]] = IF i = Len(t) THEN 0 ELSE t[i + 1]
    BY <1>2 DEF Chain
  <2>1. CASE i = 1
    <3>1. h = IF s = <<>> THEN 0 ELSE s[1]
      BY DEF Queue, Chain
    <3>2. s = <<>> <=> Len(s) = 0
      BY QueueEnds
    <3>3. s # <<>> => 1 \in 1 .. Len(s) /\ t[1 + 1] = s[1]
      BY <3>2, <1>1, <1>2
    <3> QED
      BY <2>1, <3>1, <3>2, <3>3, <1>1, <1>2
  <2>2. CASE i # 1
    <3>1. i - 1 \in 1 .. Len(s) /\ t[i] = s[i - 1]
      BY <2>2, <1>3
    <3>2. link2[t[i]] = link[s[i - 1]]
      BY <3>1, <1>1
    <3>3. link[s[i - 1]] = IF i - 1 = Len(s) THEN 0 ELSE s[(i - 1) + 1]
      BY <3>1 DEF Queue, Chain
    <3>4. i - 1 # Len(s) => i \in 1 .. Len(s) /\ t[i + 1] = s[(i - 1) + 1]
      <4>1. (i - 1) + 1 = i
        OBVIOUS
      <4> QED
        BY <4>1, <3>1, <1>1, <1>2
    <3> QED
      BY <3>2, <3>3, <3>4, <1>1, <1>2
  <2> QED
    BY <2>1, <2>2
<1>5. Holds(t, O2, b)
  <2>1. \A i \in 1 .. Len(t) : O2[t[i]] = b
    BY <1>1, <1>3
  <2>2. \A i, j \in 1 .. Len(t) : t[i] = t[j] => i = j
    <3> SUFFICES ASSUME NEW i \in 1 .. Len(t), NEW j \in 1 .. Len(t), t[i] = t[j]
                 PROVE  i = j
      OBVIOUS
    <3>1. CASE i = 1 \/ j = 1
      BY <3>1, <1>1, <1>3
    <3>2. CASE i # 1 /\ j # 1
      <4>1. s[i - 1] = s[j - 1] /\ i - 1 \in 1 .. Len(s) /\ j - 1 \in 1 .. Len(s)
        BY <3>2, <1>3
      <4>2. i - 1 = j - 1
        BY <4>1 DEF Queue, Holds
      <4> QED
        BY <4>2
    <3> QED
      BY <3>1, <3>2
  <2>3. ASSUME NEW n \in Msg, O2[n] = b
        PROVE  \E i \in 1 .. Len(t) : t[i] = n
    <3>1. CASE n = m
      <4>1. 1 \in 1 .. Len(t)
        BY <1>1, <1>2
      <4> QED
        BY <4>1, <3>1, <1>2
    <3>2. CASE n # m
      <4>1. PICK i \in 1 .. Len(s) : s[i] = n
        BY <3>2, <2>3 DEF Queue, Holds
      <4>2. i + 1 \in 1 .. Len(t) /\ t[i + 1] = n
        BY <4>1, <1>1, <1>2
      <4> QED
        BY <4>2
    <3> QED
      BY <3>1, <3>2
  <2> QED
    BY <2>1, <2>2, <2>3 DEF Holds
<1> QED
  BY <1>4, <1>5 DEF Queue, t

(* A block is put behind the others.                                       *)
LEMMA QueueAppended ==
  ASSUME NEW link, NEW h, NEW s, NEW O, NEW b, Queue(link, h, s, O, b),
         NEW m \in Msg, O[m] # b,
         NEW link2, NEW O2, O2[m] = b, link2[m] = 0,
         s # <<>> => link2[LastOf(s)] = m,
         \A n \in Msg \ {m} : /\ O2[n] = O[n]
                              /\ n # LastOf(s) => link2[n] = link[n]
  PROVE  /\ Queue(link2, IF s = <<>> THEN m ELSE h, Append(s, m), O2, b)
         /\ LastOf(Append(s, m)) = m
<1> DEFINE t == Append(s, m)
<1>1. /\ s \in Seq(Msg) /\ Len(s) \in Nat /\ (s = <<>> <=> Len(s) = 0)
      /\ \A i \in 1 .. Len(s) : s[i] \in Msg /\ O[s[i]] = b /\ s[i] # m
  BY QueueEnds DEF Queue, Chain, Holds
<1>2. /\ t \in Seq(Msg) /\ Len(t) = Len(s) + 1 /\ t # <<>> /\ t[Len(s) + 1] = m
      /\ \A i \in 1 .. Len(s) : t[i] = s[i]
  <2>1. /\ t \in Seq(Msg) /\ Len(t) = Len(s) + 1
        /\ \A i \in 1 .. Len(s) : t[i] = s[i]
        /\ t[Len(s) + 1] = m
    BY <1>1, AppendProperties
  <2> HIDE DEF t
  <2>2. t # <<>>
    BY <2>1, <1>1, EmptySeq
  <2> QED
    BY <2>1, <2>2
<1> HIDE DEF t
<1>3. \A i \in 1 .. Len(t) : \/ i = Len(t) /\ t[i] = m
                             \/ i # Len(t) /\ i \in 1 .. Len(s) /\ t[i] = s[i]
  BY <1>1, <1>2
<1>4. Chain(link2, IF s = <<>> THEN m ELSE h, t)
  <2>1. (IF s = <<>> THEN m ELSE h) = t[1]
    BY <1>1, <1>2 DEF Queue, Chain
  <2>2. ASSUME NEW i \in 1 .. Len(t)
        PROVE  link2[t[i]] = IF i = Len(t) THEN 0 ELSE t[i + 1]
    <3>1. CASE i = Len(t)
      BY <3>1, <1>1, <1>2
    <3>2. CASE i = Len(s)
      BY <3>2, <1>1, <1>2 DEF LastOf
    <3>3. CASE i # Len(t) /\ i # Len(s)
      <4>1. i \in 1 .. Len(s) /\ i + 1 \in 1 .. Len(s) /\ Len(s) \in 1 .. Len(s)
        BY <3>3, <1>1, <1>2
      <4>2. s[i] # LastOf(s)
        BY <4>1, <3>3, <1>1 DEF Queue, Holds, LastOf
      <4>3. link2[t[i]] = link[s[i]] /\ t[i + 1] = s[i + 1]
        BY <4>1, <4>2, <1>1, <1>2
      <4> QED
        BY <4>1, <4>3, <3>3 DEF Queue, Chain
    <3> QED
      BY <3>1, <3>2, <3>3
  <2> QED
    BY <2>1, <2>2, <1>2 DEF Chain
<1>5. Holds(t, O2, b)
  <2>1. \A i \in 1 .. Len(t) : O2[t[i]] = b
    BY <1>1, <1>3
  <2>2. \A i, j \in 1 .. Len(t) : t[i] = t[j] => i = j
    <3> SUFFICES ASSUME NEW i \in 1 .. Len(t), NEW j \in 1 .. Len(t), t[i] = t[j]
                 PROVE  i = j
      OBVIOUS
    <3> QED
      BY <1>1, <1>3 DEF Queue, Holds
  <2>3. ASSUME NEW n \in Msg, O2[n] = b
        PROVE  \E i \in 1 .. Len(t) : t[i] = n
    <3>1. CASE n = m
      <4>1. Len(s) + 1 \in 1 .. Len(t)
        BY <1>1, <1>2
      <4> QED
        BY <4>1, <3>1, <1>2
    <3>2. CASE n # m
      <4>1. PICK i \in 1 .. Len(s) : s[i] = n
        BY <3>2, <2>3 DEF Queue, Holds
      <4>2. i \in 1 .. Len(t) /\ t[i] = n
        BY <4>1, <1>1, <1>2
      <4> QED
        BY <4>2
    <3> QED
      BY <3>1, <3>2
  <2> QED
    BY <2>1, <2>2, <2>3 DEF Holds
<1>6. LastOf(t) = m
  BY <1>2 DEF LastOf
<1> QED
  BY <1>4, <1>5, <1>6 DEF Queue, t

-----------------------------------------------------------------------------
(* All queues and the free list.                                           *)

(* What MBXQueueMsg and MBXDequeueMsg rely on at mailbox b.                *)
Tidy(N, s, b) ==
  /\ N.tail[b] = LastOf(s)
  /\ N.count[b] \in Nat
  /\ Len(s) <= N.count[b]
  /\ N.size[b] \in Nat
  /\ N.strategy[b] = "OLDEST" => N.count[b] <= N.size[b]

Ordered(N, S, O) ==
  /\ S \in [Box0 -> Seq(Msg)]
  /\ O \in [Msg -> Box0]
  /\ \A b \in Box0 : Queue(N.link, First(N, b), S[b], O, b)
  /\ \A m \in Msg : O[m] = 0 => N.rep[m] = 0
  /\ \A b \in Mailboxes : Tidy(N, S[b], b)

(* The other mailboxes are the same in N and R, and no block but m counts  *)
(* other repetitions.                                                      *)
Elsewhere(N, R, b) ==
  /\ \A c \in Mailboxes \ {b} : /\ R.head[c] = N.head[c]
                                /\ R.tail[c] = N.tail[c]
                                /\ R.count[c] = N.count[c]
  /\ R.size = N.size
  /\ R.strategy = N.strategy

(* The first free block has become the last one of the queue at b.         *)
LinkedLast(N, R, b, m) ==
  /\ m = N.freeMSG
  /\ m # 0
  /\ R.freeMSG = N.link[m]
  /\ R.link[m] = 0
  /\ N.tail[b] # 0 => R.link[N.tail[b]] = m
  /\ \A n \in Msg \ {m} : n # N.tail[b] => R.link[n] = N.link[n]
  /\ R.rep = N.rep
  /\ R.head[b] = IF N.tail[b] = 0 THEN m ELSE N.head[b]
  /\ R.tail[b] = m
  /\ R.count[b] = N.count[b] + 1
  /\ Elsewhere(N, R, b)

(* The first block of the queue at b has become the first free one.        *)
FreedFirst(N, R, b, m) ==
  /\ m = N.head[b]
  /\ m # 0
  /\ R.freeMSG = m
  /\ R.link[m] = N.freeMSG
  /\ R.rep[m] = 0
  /\ \A n \in Msg \ {m} : R.link[n] = N.link[n] /\ R.rep[n] = N.rep[n]
  /\ R.head[b] = N.link[m]
  /\ R.tail[b] = IF N.link[m] = 0 THEN 0 ELSE N.tail[b]
  /\ R.count[b] = N.count[b] - 1
  /\ Elsewhere(N, R, b)

ToBack(S, m, b)  == [S EXCEPT ![0] = Tail(@), ![b] = Append(@, m)]
ToFront(S, m, b) == [S EXCEPT ![b] = Tail(@), ![0] = <<m>> \o @]

LEMMA BoxNotZero == 0 \in Box0 /\ 0 \notin Msg /\ \A b \in Mailboxes : b # 0 /\ b \in Box0
BY MessagesAssumption DEF Box0, Msg

LEMMA QueuedLast ==
  ASSUME NEW N, NEW S, NEW O, Ordered(N, S, O), NEW b \in Mailboxes, NEW m,
         NEW R, LinkedLast(N, R, b, m),
         N.strategy[b] = "OLDEST" => N.count[b] + 1 <= N.size[b]
  PROVE  Ordered(R, ToBack(S, m, b), [O EXCEPT ![m] = b])
<1> DEFINE S2 == ToBack(S, m, b)
           O2 == [O EXCEPT ![m] = b]
<1>1. 0 \in Box0 /\ b \in Box0 /\ b # 0 /\ 0 \notin Msg
  BY BoxNotZero
<1>2. First(N, 0) = m /\ First(R, 0) = N.link[m]
  BY DEF First, LinkedLast
<1>3. Queue(N.link, m, S[0], O, 0) /\ Queue(N.link, N.head[b], S[b], O, b)
  BY <1>1, <1>2 DEF Ordered, First
<1>4. m \in Msg /\ O[m] = 0
  BY <1>3, QueueEnds DEF LinkedLast
<1>5. /\ S2[0] = Tail(S[0])
      /\ S2[b] = Append(S[b], m)
      /\ \A c \in Box0 \ {0, b} : S2[c] = S[c]
      /\ O2[m] = b
      /\ \A n \in Msg \ {m} : O2[n] = O[n]
  BY <1>1, <1>4 DEF Ordered, ToBack
<1>6. N.tail[b] = LastOf(S[b]) /\ (S[b] = <<>> <=> N.tail[b] = 0)
  <2>1. N.tail[b] = LastOf(S[b])
    BY DEF Ordered, Tidy
  <2> QED
    BY <2>1, <1>3, QueueEnds
<1>7. N.tail[b] # 0 => N.tail[b] \in Msg /\ O[N.tail[b]] = b
  BY <1>3, <1>6, QueueEnds
<1> HIDE DEF S2, O2
<1>8. S2 \in [Box0 -> Seq(Msg)] /\ O2 \in [Msg -> Box0]
  <2>1. S[0] \in Seq(Msg) /\ S[0] # <<>> /\ S[b] \in Seq(Msg)
    BY <1>1, <1>3, QueueEnds DEF Ordered, LinkedLast
  <2>2. Tail(S[0]) \in Seq(Msg) /\ Append(S[b], m) \in Seq(Msg)
    BY <2>1, <1>4, HeadTailProperties, AppendProperties
  <2> QED
    BY <2>2, <1>1, <1>4 DEF Ordered, S2, O2, ToBack
<1>9. Queue(R.link, First(R, 0), S2[0], O2, 0)
  <2>1. m # 0 /\ O2[m] # 0
    BY <1>1, <1>5 DEF LinkedLast
  <2>2. \A n \in Msg \ {m} : O2[n] = O[n] /\ (O[n] = 0 => R.link[n] = N.link[n])
    BY <1>1, <1>5, <1>7 DEF LinkedLast
  <2> QED
    BY <2>1, <2>2, <1>2, <1>3, <1>5, QueuePopped
<1>10. Queue(R.link, First(R, b), S2[b], O2, b) /\ LastOf(S2[b]) = m
  <2>1. O[m] # b /\ O2[m] = b /\ R.link[m] = 0
    BY <1>1, <1>4, <1>5 DEF LinkedLast
  <2>2. S[b] # <<>> => R.link[LastOf(S[b])] = m
    BY <1>6 DEF LinkedLast
  <2>3. \A n \in Msg \ {m} : O2[n] = O[n] /\ (n # LastOf(S[b]) => R.link[n] = N.link[n])
    BY <1>5, <1>6 DEF LinkedLast
  <2>4. First(R, b) = IF S[b] = <<>> THEN m ELSE N.head[b]
    BY <1>1, <1>6 DEF LinkedLast, First
  <2> QED
    BY <2>1, <2>2, <2>3, <2>4, <1>3, <1>4, <1>5, QueueAppended
<1>11. ASSUME NEW c \in Box0, c # 0, c # b
       PROVE  Queue(R.link, First(R, c), S2[c], O2, c)
  <2>1. Queue(N.link, First(N, c), S[c], O, c)
    BY DEF Ordered
  <2>2. First(R, c) = First(N, c) /\ S2[c] = S[c]
    <3>1. c \in Mailboxes \ {b}
      BY <1>11 DEF Box0
    <3> QED
      BY <3>1, <1>5, <1>11 DEF LinkedLast, Elsewhere, First
  <2>3. O[m] # c /\ O2[m] # c /\ \A n \in Msg \ {m} : O2[n] = O[n]
    BY <1>4, <1>5, <1>11
  <2>4. \A n \in Msg : O[n] = c => n # m /\ n # N.tail[b]
    BY <1>1, <1>4, <1>7, <1>11
  <2>5. \A n \in Msg : O[n] = c => R.link[n] = N.link[n]
    BY <2>4 DEF LinkedLast
  <2> QED
    BY <2>1, <2>2, <2>3, <2>5, QueueKept
<1>12. \A n \in Msg : O2[n] = 0 => R.rep[n] = 0
  BY <1>1, <1>5 DEF Ordered, LinkedLast
<1>13. Tidy(R, S2[b], b)
  <2>1. Len(S2[b]) = Len(S[b]) + 1 /\ Len(S[b]) \in Nat
    BY <1>1, <1>3, <1>4, <1>5, QueueEnds, AppendProperties DEF Ordered
  <2>2. Tidy(N, S[b], b)
    BY DEF Ordered
  <2>3. R.tail[b] = LastOf(S2[b])
    BY <1>10 DEF LinkedLast
  <2>4. R.count[b] = N.count[b] + 1 /\ R.size[b] = N.size[b] /\ R.strategy[b] = N.strategy[b]
    BY DEF LinkedLast, Elsewhere
  <2>5. R.count[b] \in Nat /\ Len(S2[b]) <= R.count[b]
    BY <2>1, <2>2, <2>4 DEF Tidy
  <2>6. R.size[b] \in Nat
    BY <2>2, <2>4 DEF Tidy
  <2> QED
    BY <2>3, <2>4, <2>5, <2>6 DEF Tidy
<1>14. ASSUME NEW c \in Mailboxes, c # b
       PROVE  Tidy(R, S2[c], c)
  <2>1. c \in Box0 \ {0, b}
    BY <1>14, BoxNotZero
  <2>2. S2[c] = S[c]
    BY <2>1, <1>5
  <2>3. /\ R.tail[c] = N.tail[c] /\ R.count[c] = N.count[c]
        /\ R.size = N.size /\ R.strategy = N.strategy
    BY <1>14 DEF LinkedLast, Elsewhere
  <2>4. Tidy(N, S[c], c)
    BY DEF Ordered
  <2> QED
    BY <2>2, <2>3, <2>4 DEF Tidy
<1> QED
  BY <1>8, <1>9, <1>10, <1>11, <1>12, <1>13, <1>14 DEF Ordered, S2, O2

LEMMA FirstFreed ==
  ASSUME NEW N, NEW S, NEW O, Ordered(N, S, O), NEW b \in Mailboxes, NEW m,
         NEW R, FreedFirst(N, R, b, m)
  PROVE  Ordered(R, ToFront(S, m, b), [O EXCEPT ![m] = 0])
<1> DEFINE S2 == ToFront(S, m, b)
           O2 == [O EXCEPT ![m] = 0]
<1>1. 0 \in Box0 /\ b \in Box0 /\ b # 0 /\ 0 \notin Msg
  BY BoxNotZero
<1>2. /\ First(N, 0) = N.freeMSG /\ First(R, 0) = m
      /\ First(N, b) = m /\ First(R, b) = N.link[m]
  BY <1>1 DEF First, FreedFirst
<1>3. Queue(N.link, N.freeMSG, S[0], O, 0) /\ Queue(N.link, m, S[b], O, b)
  BY <1>1, <1>2 DEF Ordered
<1>4. m \in Msg /\ O[m] = b
  BY <1>3, QueueEnds DEF FreedFirst
<1>5. /\ S2[b] = Tail(S[b])
      /\ S2[0] = <<m>> \o S[0]
      /\ \A c \in Box0 \ {0, b} : S2[c] = S[c]
      /\ O2[m] = 0
      /\ \A n \in Msg \ {m} : O2[n] = O[n]
  BY <1>1, <1>4 DEF Ordered, ToFront
<1> HIDE DEF S2, O2
<1>6. S[b] \in Seq(Msg) /\ S[b] # <<>> /\ S[0] \in Seq(Msg) /\ <<m>> \in Seq(Msg)
  BY <1>1, <1>3, <1>4, QueueEnds DEF Ordered, FreedFirst
<1>7. S2 \in [Box0 -> Seq(Msg)] /\ O2 \in [Msg -> Box0]
  <2>1. Tail(S[b]) \in Seq(Msg) /\ <<m>> \o S[0] \in Seq(Msg)
    BY <1>6, HeadTailProperties, ConcatProperties
  <2> QED
    BY <2>1, <1>1, <1>4 DEF Ordered, S2, O2, ToFront
<1>8. /\ Queue(R.link, N.link[m], S2[b], O2, b)
      /\ LastOf(S2[b]) = IF N.link[m] = 0 THEN 0 ELSE LastOf(S[b])
  <2>1. m # 0 /\ O2[m] # b
    BY <1>1, <1>5 DEF FreedFirst
  <2>2. \A n \in Msg \ {m} : O2[n] = O[n] /\ (O[n] = b => R.link[n] = N.link[n])
    BY <1>5 DEF FreedFirst
  <2> QED
    BY <2>1, <2>2, <1>3, <1>5, QueuePopped
<1>9. Queue(R.link, m, S2[0], O2, 0)
  <2>1. O[m] # 0 /\ O2[m] = 0 /\ R.link[m] = N.freeMSG
    BY <1>1, <1>4, <1>5 DEF FreedFirst
  <2>2. \A n \in Msg \ {m} : O2[n] = O[n] /\ (O[n] = 0 => R.link[n] = N.link[n])
    BY <1>5 DEF FreedFirst
  <2> QED
    BY <2>1, <2>2, <1>3, <1>4, <1>5, QueuePushed
<1>10. ASSUME NEW c \in Box0, c # 0, c # b
       PROVE  Queue(R.link, First(R, c), S2[c], O2, c)
  <2>1. Queue(N.link, First(N, c), S[c], O, c)
    BY DEF Ordered
  <2>2. First(R, c) = First(N, c) /\ S2[c] = S[c]
    <3>1. c \in Mailboxes \ {b}
      BY <1>10 DEF Box0
    <3> QED
      BY <3>1, <1>5, <1>10 DEF FreedFirst, Elsewhere, First
  <2>3. O[m] # c /\ O2[m] # c /\ \A n \in Msg \ {m} : O2[n] = O[n]
    BY <1>4, <1>5, <1>10
  <2>4. \A n \in Msg : O[n] = c => R.link[n] = N.link[n]
    BY <1>4, <1>10 DEF FreedFirst
  <2> QED
    BY <2>1, <2>2, <2>3, <2>4, QueueKept
<1>11. \A n \in Msg : O2[n] = 0 => R.rep[n] = 0
  <2>1. R.rep[m] = 0 /\ \A n \in Msg \ {m} : R.rep[n] = N.rep[n]
    BY DEF FreedFirst
  <2>2. \A n \in Msg : O[n] = 0 => N.rep[n] = 0
    BY DEF Ordered
  <2> QED
    BY <2>1, <2>2, <1>5
<1>12. Tidy(R, S2[b], b)
  <2>1. Len(S2[b]) = Len(S[b]) - 1 /\ Len(S[b]) \in Nat \ {0}
    BY <1>3, <1>5, <1>6, QueueEnds, HeadTailProperties
  <2>2. Tidy(N, S[b], b)
    BY DEF Ordered
  <2>3. R.tail[b] = LastOf(S2[b])
    BY <1>8, <2>2 DEF FreedFirst, Tidy
  <2>4. R.count[b] = N.count[b] - 1 /\ R.size[b] = N.size[b] /\ R.strategy[b] = N.strategy[b]
    BY DEF FreedFirst, Elsewhere
  <2>5. R.count[b] \in Nat /\ Len(S2[b]) <= R.count[b] /\ N.count[b] \in Nat
    BY <2>1, <2>2, <2>4 DEF Tidy
  <2>6. R.strategy[b] = "OLDEST" => R.count[b] <= R.size[b]
    BY <2>2, <2>4 DEF Tidy
  <2>7. R.size[b] \in Nat
    BY <2>2, <2>4 DEF Tidy
  <2> QED
    BY <2>3, <2>5, <2>6, <2>7 DEF Tidy
<1>13. ASSUME NEW c \in Mailboxes, c # b
       PROVE  Tidy(R, S2[c], c)
  <2>1. c \in Box0 \ {0, b}
    BY <1>13, BoxNotZero
  <2>2. S2[c] = S[c]
    BY <2>1, <1>5
  <2>3. /\ R.tail[c] = N.tail[c] /\ R.count[c] = N.count[c]
        /\ R.size = N.size /\ R.strategy = N.strategy
    BY <1>13 DEF FreedFirst, Elsewhere
  <2>4. Tidy(N, S[c], c)
    BY DEF Ordered
  <2> QED
    BY <2>2, <2>3, <2>4 DEF Tidy
<1> QED
  BY <1>1, <1>2, <1>7, <1>8, <1>9, <1>10, <1>11, <1>12, <1>13 DEF Ordered, S2, O2

(* No block has moved: the places are what they were.                      *)
LEMMA NothingMoved ==
  ASSUME NEW N, NEW S, NEW O, Ordered(N, S, O), NEW R,
         R.link = N.link, R.freeMSG = N.freeMSG, R.head = N.head,
         \A m \in Msg : O[m] = 0 => R.rep[m] = 0,
         \A b \in Mailboxes : Tidy(R, S[b], b)
  PROVE  Ordered(R, S, O)
<1>1. \A b \in Box0 : First(R, b) = First(N, b)
  BY DEF First
<1> QED
  BY <1>1 DEF Ordered

-----------------------------------------------------------------------------
(* The functions of msg.c.                                                 *)

LEMMA MessagesFields ==
  ASSUME NEW N \in Messages
  PROVE  /\ N.link \in [Msg -> Msg0]
         /\ N.body \in [Msg -> Bodies \cup {NoBody}]
         /\ N.rep \in [Msg -> 0 .. MaxRepeat]
         /\ N.freeMSG \in Msg0
         /\ N.head \in [Mailboxes -> Msg0]
         /\ N.tail \in [Mailboxes -> Msg0]
         /\ N.count \in [Mailboxes -> Int]
BY DEF Messages

(* The globals other than the mailboxes' strategies and sizes are written. *)
Written(N, link, body, rep, free, head, tail, count) ==
  [N EXCEPT !.link = link, !.body = body, !.rep = rep, !.freeMSG = free,
            !.head = head, !.tail = tail, !.count = count]

LEMMA WrittenFields ==
  ASSUME NEW N \in Messages, NEW link, NEW body, NEW rep, NEW free,
         NEW head, NEW tail, NEW count
  PROVE  /\ Written(N, link, body, rep, free, head, tail, count).link = link
         /\ Written(N, link, body, rep, free, head, tail, count).body = body
         /\ Written(N, link, body, rep, free, head, tail, count).rep = rep
         /\ Written(N, link, body, rep, free, head, tail, count).freeMSG = free
         /\ Written(N, link, body, rep, free, head, tail, count).head = head
         /\ Written(N, link, body, rep, free, head, tail, count).tail = tail
         /\ Written(N, link, body, rep, free, head, tail, count).count = count
         /\ Written(N, link, body, rep, free, head, tail, count).size = N.size
         /\ Written(N, link, body, rep, free, head, tail, count).strategy = N.strategy
BY DEF Written, Messages

LEMMA WrittenTyped ==
  ASSUME NEW N \in Messages, NEW link \in [Msg -> Msg0],
         NEW body \in [Msg -> Bodies \cup {NoBody}], NEW rep \in [Msg -> 0 .. MaxRepeat],
         NEW free \in Msg0, NEW head \in [Mailboxes -> Msg0],
         NEW tail \in [Mailboxes -> Msg0], NEW count \in [Mailboxes -> Int]
  PROVE  Written(N, link, body, rep, free, head, tail, count) \in Messages
BY DEF Written, Messages

(* Other links and other ends for the queues.                              *)
Linked(N, link, head, tail) == [N EXCEPT !.link = link, !.head = head, !.tail = tail]

LEMMA LinkedWritten ==
  ASSUME NEW N \in Messages, NEW link, NEW head, NEW tail
  PROVE  Linked(N, link, head, tail)
           = Written(N, link, N.body, N.rep, N.freeMSG, head, tail, N.count)
BY DEF Linked, Written, Messages

(* What FreeMsg makes of N for a block m.                                  *)
Freed(N, m, R) ==
  /\ R \in Messages
  /\ R.link = [N.link EXCEPT ![m] = N.freeMSG]
  /\ R.body = [N.body EXCEPT ![m] = NoBody]
  /\ R.rep = [N.rep EXCEPT ![m] = 0]
  /\ R.freeMSG = m
  /\ R.head = N.head /\ R.tail = N.tail /\ R.count = N.count
  /\ R.size = N.size /\ R.strategy = N.strategy

LEMMA FreeMsgFields ==
  ASSUME NEW N \in Messages, NEW m \in Msg
  PROVE  Freed(N, m, FreeMsg(N, m))
<1> DEFINE R == FreeMsg(N, m)
           link == [N.link EXCEPT ![m] = N.freeMSG]
           body == [N.body EXCEPT ![m] = NoBody]
           rep == [N.rep EXCEPT ![m] = 0]
<1>1. R = [N EXCEPT !.link = link, !.freeMSG = m, !.body = body, !.rep = rep]
  BY DEF FreeMsg
<1>2. /\ link \in [Msg -> Msg0] /\ m \in Msg0
      /\ body \in [Msg -> Bodies \cup {NoBody}]
      /\ rep \in [Msg -> 0 .. MaxRepeat]
  <2>1. m \in Msg0 /\ 0 \in 0 .. MaxRepeat
    BY MessagesAssumption DEF Msg, Msg0
  <2> QED
    BY <2>1, MessagesFields
<1> HIDE DEF R, link, body, rep
<1>3. R = Written(N, link, body, rep, m, N.head, N.tail, N.count)
  BY <1>1 DEF Written, Messages
<1>4. R \in Messages
  BY <1>2, <1>3, MessagesFields, WrittenTyped
<1>5. /\ R.link = link /\ R.body = body /\ R.rep = rep /\ R.freeMSG = m
      /\ R.head = N.head /\ R.tail = N.tail /\ R.count = N.count
      /\ R.size = N.size /\ R.strategy = N.strategy
  BY <1>3, WrittenFields
<1>6. Freed(N, m, R)
  BY <1>4, <1>5 DEF Freed, link, body, rep
<1> QED
  BY <1>6 DEF R

(* A message is taken: the first one, or none and mq_count may still go    *)
(* down by one.                                                            *)
LEMMA TakeMsgFields ==
  ASSUME NEW N \in Messages, NEW b \in Mailboxes, NEW R, R = TakeMsg(N, b)
  PROVE  /\ R \in Messages
         /\ N.count[b] = 0 => R = N
         /\ N.count[b] # 0 /\ N.head[b] = 0 =>
              R = [N EXCEPT !.count[b] = @ - 1]
         /\ N.count[b] # 0 /\ N.head[b] # 0 =>
              /\ FreedFirst(N, R, b, N.head[b])
              /\ \A n \in Msg \ {N.head[b]} : R.body[n] = N.body[n]
<1>1. 0 \notin Msg /\ \A m \in Msg0 : m # 0 => m \in Msg
  BY MessagesAssumption DEF Msg, Msg0
<1>2. N.head[b] \in Msg0 /\ N.count[b] \in Int
  BY DEF Messages
<1>3. CASE N.count[b] = 0
  BY <1>1, <1>3 DEF TakeMsg, Dequeued, MBXDequeueMsg, FreeMsg
<1>4. CASE N.count[b] # 0 /\ N.head[b] = 0
  <2>1. R = [N EXCEPT !.count[b] = @ - 1]
    BY <1>1, <1>4 DEF TakeMsg, Dequeued, MBXDequeueMsg, FreeMsg
  <2>2. [N.count EXCEPT ![b] = @ - 1] \in [Mailboxes -> Int]
    BY <1>2 DEF Messages
  <2>3. R = [N EXCEPT !.count = [N.count EXCEPT ![b] = @ - 1]]
    BY <2>1
  <2>4. R \in Messages
    BY <2>2, <2>3 DEF Messages
  <2> QED
    BY <1>4, <2>1, <2>4
<1>5. CASE N.count[b] # 0 /\ N.head[b] # 0
  <2>1. PICK h \in Msg : h = N.head[b]
    BY <1>1, <1>2, <1>5
  <2>2. PICK D : D = MBXDequeueMsg(N, b)
    OBVIOUS
  <2> DEFINE link == [N.link EXCEPT ![h] = h]
             head == [N.head EXCEPT ![b] = N.link[h]]
             tail == [N.tail EXCEPT ![b] = IF N.link[h] = 0 THEN 0 ELSE @]
             count == [N.count EXCEPT ![b] = @ - 1]
  <2>3. D = Written(N, link, N.body, N.rep, N.freeMSG, head, tail, count)
    <3>1. D = [N EXCEPT !.count[b] = @ - 1,
                        !.head[b]  = N.link[h],
                        !.tail[b]  = IF N.link[h] = 0 THEN 0 ELSE @,
                        !.link[h]  = h]
      BY <1>5, <2>1, <2>2 DEF MBXDequeueMsg, LinkOf
    <3>2. D = [N EXCEPT !.count = count, !.head = head, !.tail = tail, !.link = link]
      BY <3>1
    <3> HIDE DEF link, head, tail, count
    <3> QED
      BY <3>2 DEF Written, Messages
  <2>4. /\ D.link = link /\ D.body = N.body /\ D.rep = N.rep /\ D.freeMSG = N.freeMSG
        /\ D.head = head /\ D.tail = tail /\ D.count = count
        /\ D.size = N.size /\ D.strategy = N.strategy
    <3> HIDE DEF link, head, tail, count
    <3> QED
      BY <2>3, WrittenFields
  <2>5. D \in Messages
    <3>1. 0 \in Msg0 /\ h \in Msg0
      BY MessagesAssumption DEF Msg, Msg0
    <3>2. /\ link \in [Msg -> Msg0] /\ head \in [Mailboxes -> Msg0]
          /\ tail \in [Mailboxes -> Msg0] /\ count \in [Mailboxes -> Int]
      BY <3>1, MessagesFields
    <3> HIDE DEF link, head, tail, count
    <3> QED
      BY <2>3, <3>2, MessagesFields, WrittenTyped
  <2>6. R = FreeMsg(D, h)
    BY <1>5, <2>1, <2>2 DEF TakeMsg, Dequeued
  <2>7. /\ R \in Messages
        /\ R.link = [D.link EXCEPT ![h] = D.freeMSG]
        /\ R.body = [D.body EXCEPT ![h] = NoBody]
        /\ R.rep = [D.rep EXCEPT ![h] = 0]
        /\ R.freeMSG = h
        /\ R.head = D.head /\ R.tail = D.tail /\ R.count = D.count
        /\ R.size = D.size /\ R.strategy = D.strategy
    <3>1. Freed(D, h, R)
      BY <2>5, <2>6, FreeMsgFields
    <3> QED
      BY <3>1 DEF Freed
  <2>8. /\ R.link[h] = N.freeMSG /\ R.rep[h] = 0
        /\ \A n \in Msg \ {h} : /\ R.link[n] = N.link[n]
                                /\ R.rep[n] = N.rep[n]
                                /\ R.body[n] = N.body[n]
    BY <2>3, <2>4, <2>7 DEF Messages
  <2>9. /\ R.head[b] = N.link[h]
        /\ R.tail[b] = IF N.link[h] = 0 THEN 0 ELSE N.tail[b]
        /\ R.count[b] = N.count[b] - 1
        /\ Elsewhere(N, R, b)
    BY <2>3, <2>4, <2>7 DEF Messages, Elsewhere
  <2>10. FreedFirst(N, R, b, h)
    BY <2>1, <2>7, <2>8, <2>9, <1>5 DEF FreedFirst
  <2> QED
    BY <2>1, <2>7, <2>8, <2>10, <1>5
<1> QED
  BY <1>3, <1>4, <1>5

(* The loop of NEWEST has a value of its type in every round.              *)
LEMMA DropOldTyped ==
  ASSUME NEW b \in Mailboxes
  PROVE  DropOld(b) \in [Messages -> Messages]
<1>1. SUFFICES ASSUME NEW N \in Messages
               PROVE  DropOld(b)[N] \in Messages
  <2>1. DropOld(b) = [N \in Messages |-> DropOld(b)[N]]
    BY DEF DropOld
  <2> QED
    BY <2>1
<1>2. PICK h : h = LinkOf(N, N.head[b])
  OBVIOUS
<1>3. h \in Msg0 /\ (h \notin Msg => FreeMsg(N, h) = N)
  BY <1>2, MessagesAssumption DEF LinkOf, Messages, Msg, Msg0, FreeMsg
<1>4. PICK F \in Messages : F = FreeMsg(N, h)
  BY <1>3, FreeMsgFields DEF Freed
<1>5. PICK R : R = [F EXCEPT !.count[b] = @ - 1, !.head[b] = h]
  OBVIOUS
<1>6. R \in Messages
  <2> DEFINE count == [F.count EXCEPT ![b] = @ - 1]
             head == [F.head EXCEPT ![b] = h]
  <2>1. R = [F EXCEPT !.count = count, !.head = head]
    BY <1>5
  <2>2. count \in [Mailboxes -> Int] /\ head \in [Mailboxes -> Msg0]
    BY <1>3, MessagesFields
  <2> HIDE DEF count, head
  <2>3. R = Written(F, F.link, F.body, F.rep, F.freeMSG, head, F.tail, count)
    BY <2>1 DEF Written, Messages
  <2> QED
    BY <2>2, <2>3, MessagesFields, WrittenTyped
<1>7. DropOld(b)[N] \in {N, R}
  <2>1. DropOld(b)[N] =
          IF Overfull(N, b)
          THEN LET htmp == LinkOf(N, N.head[b])
               IN  [FreeMsg(N, htmp) EXCEPT !.count[b] = @ - 1, !.head[b] = htmp]
          ELSE N
    BY DEF DropOld
  <2> QED
    BY <2>1, <1>2, <1>4, <1>5
<1> QED
  BY <1>6, <1>7

(* So has the walk to the tail, and the loop of OLDEST.                    *)
LEMMA TailWalkTyped ==
  ASSUME NEW N \in Messages, NEW b \in Mailboxes, NEW m \in Msg0, NEW w,
         w = Iterate(TailWalk(N, b), [msg |-> m, tmp |-> N.head[b]])[NR_MSG]
  PROVE  w.msg \in Msg0 /\ w.tmp \in Msg0
<1> DEFINE T == [msg : Msg0, tmp : Msg0]
           f == TailWalk(N, b)
           s == [msg |-> m, tmp |-> N.head[b]]
<1>1. f \in [T -> T]
  <2>1. \A x \in Msg0 : LinkOf(N, x) \in Msg0
    BY MessagesAssumption DEF LinkOf, Messages, Msg, Msg0
  <2> QED
    BY <2>1 DEF TailWalk
<1>2. s \in T
  BY DEF Messages
<1> HIDE DEF T, f, s
<1>3. Iterate(f, s) \in [Nat -> T]
  BY <1>1, <1>2, IterateDef
<1>4. w \in T
  BY <1>3, MessagesAssumption DEF f, s
<1> QED
  BY <1>4 DEF T

LEMMA DropNewTyped ==
  ASSUME NEW b \in Mailboxes, NEW T, T = [M : Messages, msg : Msg0]
  PROVE  DropNew(b) \in [T -> T]
<1>1. DropNew(b) = [d \in T |-> DropNew(b)[d]]
  BY DEF DropNew
<1>2. SUFFICES ASSUME NEW d \in T
               PROVE  DropNew(b)[d] \in T
  BY <1>1
<1>3. PICK w : w = Iterate(TailWalk(d.M, b), [msg |-> d.msg, tmp |-> d.M.head[b]])[NR_MSG]
  OBVIOUS
<1>4. d.M \in Messages /\ d.msg \in Msg0
  OBVIOUS
<1>5. w.msg \in Msg0 /\ w.tmp \in Msg0
  BY <1>3, <1>4, TailWalkTyped
<1>6. w.tmp \notin Msg => FreeMsg(d.M, w.tmp) = d.M
  BY DEF FreeMsg
<1>7. PICK F \in Messages : F = FreeMsg(d.M, w.tmp)
  BY <1>4, <1>5, <1>6, FreeMsgFields DEF Freed
<1>8. PICK R : R = [F EXCEPT !.count[b] = @ - 1, !.tail[b] = w.msg]
  OBVIOUS
<1>9. R \in Messages
  <2> DEFINE count == [F.count EXCEPT ![b] = @ - 1]
             tail == [F.tail EXCEPT ![b] = w.msg]
  <2>1. R = [F EXCEPT !.count = count, !.tail = tail]
    BY <1>8
  <2>2. count \in [Mailboxes -> Int] /\ tail \in [Mailboxes -> Msg0]
    BY <1>5, MessagesFields
  <2> HIDE DEF count, tail
  <2>3. R = Written(F, F.link, F.body, F.rep, F.freeMSG, F.head, tail, count)
    BY <2>1 DEF Written, Messages
  <2> QED
    BY <2>2, <2>3, MessagesFields, WrittenTyped
<1>10. DropNew(b)[d] \in {d, [M |-> R, msg |-> w.msg]}
  <2>1. DropNew(b)[d] =
          IF Overfull(d.M, b)
          THEN LET v == Iterate(TailWalk(d.M, b), [msg |-> d.msg, tmp |-> d.M.head[b]])[NR_MSG]
               IN  [M   |-> [FreeMsg(d.M, v.tmp) EXCEPT !.count[b] = @ - 1, !.tail[b] = v.msg],
                    msg |-> v.msg]
          ELSE d
    BY DEF DropNew
  <2> QED
    BY <2>1, <1>3, <1>7, <1>8
<1>11. [M |-> R, msg |-> w.msg] \in T
  BY <1>5, <1>9
<1> QED
  BY <1>10, <1>11

(* A queue that is not overfull is left alone.                             *)
LEMMA DropNewStops ==
  ASSUME NEW b \in Mailboxes, NEW N \in Messages, ~Overfull(N, b), NEW m \in Msg0
  PROVE  Iterate(DropNew(b), [M |-> N, msg |-> m])[1].M = N
<1> DEFINE T == [M : Messages, msg : Msg0]
           f == DropNew(b)
           s == [M |-> N, msg |-> m]
<1>1. f \in [T -> T]
  BY DropNewTyped
<1>2. s \in T
  OBVIOUS
<1>3. f[s] = s
  BY DEF DropNew
<1> HIDE DEF T, f, s
<1>4. /\ Iterate(f, s) \in [Nat -> T]
      /\ Iterate(f, s)[0] = s
      /\ \A n \in Nat : Iterate(f, s)[n+1] = f[Iterate(f, s)[n]]
  BY <1>1, <1>2, IterateDef
<1>5. 0 \in Nat /\ 0 + 1 = 1
  OBVIOUS
<1>6. Iterate(f, s)[1] = s
  BY <1>3, <1>4, <1>5
<1> QED
  BY <1>6 DEF f, s

(* The last message at b says body and can count another repetition.       *)
Countable(N, b, body) ==
  /\ N.tail[b] # 0
  /\ N.body[N.tail[b]] = body
  /\ N.rep[N.tail[b]] < MaxRepeat

(* The three ends of a send.  The message has become the last one,         *)
Appended(N, R, b, body) ==
  /\ R \in Messages
  /\ ~Countable(N, b, body)
  /\ LinkedLast(N, R, b, N.freeMSG)
  /\ R.body = [N.body EXCEPT ![N.freeMSG] = body]

(* its block is free again,                                                *)
BlockBack(N, R, b) ==
  /\ R \in Messages
  /\ R.link = N.link /\ R.freeMSG = N.freeMSG
  /\ R.head = N.head /\ R.tail = N.tail
  /\ R.size = N.size /\ R.strategy = N.strategy
  /\ R.body = [N.body EXCEPT ![N.freeMSG] = NoBody]

(* because it was counted at the last one,                                 *)
Counted(N, R, b, body) ==
  /\ BlockBack(N, R, b)
  /\ Countable(N, b, body)
  /\ R.count = [N.count EXCEPT ![b] = @ + 1]
  /\ R.rep[N.freeMSG] = 0
  /\ R.rep[N.tail[b]] = N.rep[N.tail[b]] + 1
  /\ \A n \in Msg \ {N.freeMSG, N.tail[b]} : R.rep[n] = N.rep[n]

(* or because it did not fit.                                              *)
Refused(N, R, b) ==
  /\ BlockBack(N, R, b)
  /\ N.strategy[b] = "OLDEST" /\ N.count[b] = N.size[b]
  /\ R.count = N.count
  /\ R.rep = [N.rep EXCEPT ![N.freeMSG] = 0]

OneMore(A, b) == [A EXCEPT !.count[b] = @ + 1]

(* The part of MBXQueueMsg that links the block; m was just allocated.     *)
LEMMA LinkMsgEnds ==
  ASSUME NEW N \in Messages, NEW b \in Mailboxes, NEW body \in Bodies,
         NEW m \in Msg, m = N.freeMSG, N.tail[b] # m,
         NEW A, A = AllocMsg(N, body),
         NEW C, C = OneMore(A, b),
         NEW R, R = LinkMsg(C, b, m)
  PROVE  Appended(N, R, b, body) \/ Counted(N, R, b, body)
<1> DEFINE said == [N.body EXCEPT ![m] = body]
           count == [N.count EXCEPT ![b] = @ + 1]
<1>a. A = [N EXCEPT !.freeMSG = N.link[m], !.body = said]
  BY DEF AllocMsg
<1>b. /\ A.link = N.link /\ A.rep = N.rep /\ A.head = N.head /\ A.tail = N.tail
      /\ A.count = N.count /\ A.size = N.size /\ A.strategy = N.strategy
  <2> HIDE DEF said
  <2> QED
    BY <1>a DEF Messages
<1>1. C = Written(N, N.link, said, N.rep, N.link[m], N.head, N.tail, count)
  <2>1. C = [A EXCEPT !.count = count]
    BY <1>b DEF OneMore
  <2> HIDE DEF said, count
  <2> QED
    BY <2>1, <1>a DEF Written, Messages
<1>c. said \in [Msg -> Bodies \cup {NoBody}] /\ count \in [Mailboxes -> Int] /\ N.link[m] \in Msg0
  BY MessagesFields
<1> HIDE DEF said, count
<1>d. /\ C.link = N.link /\ C.rep = N.rep /\ C.head = N.head /\ C.tail = N.tail
      /\ C.size = N.size /\ C.strategy = N.strategy
      /\ C.freeMSG = N.link[m] /\ C.body = said /\ C.count = count
  BY <1>1, WrittenFields
<1>2. /\ C.count = [N.count EXCEPT ![b] = @ + 1]
      /\ C.freeMSG = N.link[m]
      /\ C.body = [N.body EXCEPT ![m] = body]
  BY <1>d DEF said, count
<1>3. /\ C.link = N.link /\ C.rep = N.rep /\ C.head = N.head /\ C.tail = N.tail
      /\ C.size = N.size /\ C.strategy = N.strategy
  BY <1>d
<1>4. C \in Messages
  <2>1. /\ N.link \in [Msg -> Msg0] /\ N.rep \in [Msg -> 0 .. MaxRepeat]
        /\ N.head \in [Mailboxes -> Msg0] /\ N.tail \in [Mailboxes -> Msg0]
    BY MessagesFields
  <2>2. Written(N, N.link, said, N.rep, N.link[m], N.head, N.tail, count) \in Messages
    BY <2>1, <1>c, WrittenTyped
  <2> QED
    BY <2>2, <1>1
<1>5. PICK last \in Msg0 : last = N.tail[b]
  BY DEF Messages
<1>6. last # 0 => last \in Msg
  BY MessagesAssumption DEF Msg, Msg0
<1>7. m # 0 /\ last # m
  BY <1>5, MessagesAssumption DEF Msg
<1>8. CASE Repeats(C, m, last)
  <2>1. last \in Msg /\ N.body[last] = body /\ N.rep[last] < MaxRepeat
    BY <1>2, <1>3, <1>6, <1>7, <1>8 DEF Repeats, Messages
  <2>2. PICK E : E = [C EXCEPT !.rep[last] = @ + 1]
    OBVIOUS
  <2> DEFINE rep == [N.rep EXCEPT ![last] = @ + 1]
  <2>a. rep \in [Msg -> 0 .. MaxRepeat]
    <3>1. N.rep \in [Msg -> 0 .. MaxRepeat]
      BY MessagesFields
    <3>2. N.rep[last] + 1 \in 0 .. MaxRepeat
      BY <3>1, <2>1, MessagesAssumption
    <3> QED
      BY <3>1, <3>2
  <2>b. E = Written(C, C.link, C.body, rep, C.freeMSG, C.head, C.tail, C.count)
    <3>1. E = [C EXCEPT !.rep = rep]
      BY <2>2, <1>3
    <3> HIDE DEF rep
    <3> QED
      BY <3>1, <1>4 DEF Written, Messages
  <2> HIDE DEF rep
  <2>c. /\ E.link = C.link /\ E.head = C.head /\ E.tail = C.tail
        /\ E.freeMSG = C.freeMSG /\ E.count = C.count /\ E.body = C.body
        /\ E.size = C.size /\ E.strategy = C.strategy /\ E.rep = rep
    BY <2>b, <1>4, WrittenFields
  <2>3. E.rep = [N.rep EXCEPT ![last] = @ + 1]
    BY <2>c DEF rep
  <2>4. E \in Messages
    BY <2>a, <2>b, <1>4, MessagesFields, WrittenTyped
  <2>5. /\ E.link = N.link /\ E.head = N.head /\ E.tail = N.tail
        /\ E.freeMSG = N.link[m] /\ E.count = C.count /\ E.body = C.body
        /\ E.size = N.size /\ E.strategy = N.strategy
    BY <2>c, <1>2, <1>3
  <2>6. R = FreeMsg(E, m)
    BY <2>2, <1>3, <1>5, <1>8 DEF LinkMsg
  <2>7. Freed(E, m, R)
    BY <2>4, <2>6, FreeMsgFields
  <2>8. R.link = N.link
    BY <2>5, <2>7 DEF Freed, Messages
  <2>9. R.body = [N.body EXCEPT ![m] = NoBody]
    <3>1. R.body = [[N.body EXCEPT ![m] = body] EXCEPT ![m] = NoBody]
      BY <2>5, <2>7, <1>2 DEF Freed
    <3> QED
      BY <3>1 DEF Messages
  <2>10. BlockBack(N, R, b)
    BY <2>5, <2>7, <2>8, <2>9 DEF Freed, BlockBack
  <2>11. /\ R.rep[m] = 0
         /\ R.rep[last] = N.rep[last] + 1
         /\ \A n \in Msg \ {m, last} : R.rep[n] = N.rep[n]
    <3>1. R.rep = [E.rep EXCEPT ![m] = 0]
      BY <2>7 DEF Freed
    <3>2. N.rep \in [Msg -> 0 .. MaxRepeat]
      BY DEF Messages
    <3> HIDE DEF Messages
    <3> QED
      BY <3>1, <3>2, <2>1, <2>3, <1>7
  <2>12. R.count = [N.count EXCEPT ![b] = @ + 1]
    <3>1. R.count = E.count
      BY <2>7 DEF Freed
    <3> QED
      BY <3>1, <2>5, <1>2
  <2>13. Counted(N, R, b, body)
    <3>1. last # 0
      BY <2>1, MessagesAssumption DEF Msg
    <3> QED
      BY <3>1, <2>1, <2>10, <2>11, <2>12, <1>5 DEF Counted, Countable
  <2> QED
    BY <2>13
<1>9. CASE ~Repeats(C, m, last)
  <2>a. PICK link : link = [n \in Msg |-> CASE n = m    -> 0
                                        [] n = last -> m
                                        [] OTHER    -> C.link[n]]
    OBVIOUS
  <2>b. PICK head : head = [C.head EXCEPT ![b] = IF last = 0 THEN m ELSE @]
    OBVIOUS
  <2>c. PICK tail : tail = [C.tail EXCEPT ![b] = m]
    OBVIOUS
  <2>1. R = Linked(C, link, head, tail)
    <3>1. C.tail[b] = last
      BY <1>3, <1>5
    <3>2. LinkMsg(C, b, m) =
            IF Repeats(C, m, C.tail[b]) THEN FreeMsg([C EXCEPT !.rep[C.tail[b]] = @ + 1], m)
            ELSE [C EXCEPT !.link    = [n \in Msg |-> CASE n = m         -> 0
                                                       [] n = C.tail[b] -> m
                                                       [] OTHER         -> C.link[n]],
                           !.head[b] = IF C.tail[b] = 0 THEN m ELSE @,
                           !.tail[b] = m]
      BY DEF LinkMsg
    <3>3. link = [n \in Msg |-> CASE n = m         -> 0
                               [] n = C.tail[b] -> m
                               [] OTHER         -> C.link[n]]
      BY <2>a, <3>1
    <3>4. ~Repeats(C, m, C.tail[b])
      BY <3>1, <1>9
    <3>5. R = [C EXCEPT !.link = link, !.head[b] = IF C.tail[b] = 0 THEN m ELSE @, !.tail[b] = m]
      BY <3>2, <3>3, <3>4
    <3>6. R = [C EXCEPT !.link = link,
                        !.head = [C.head EXCEPT ![b] = IF C.tail[b] = 0 THEN m ELSE @],
                        !.tail = [C.tail EXCEPT ![b] = m]]
      BY <3>5
    <3>7. head = [C.head EXCEPT ![b] = IF C.tail[b] = 0 THEN m ELSE @]
      BY <2>b, <3>1
    <3> QED
      BY <2>c, <3>6, <3>7 DEF Linked
  <2>d. R = Written(C, link, C.body, C.rep, C.freeMSG, head, tail, C.count)
    BY <2>1, <1>4, LinkedWritten
  <2>2. /\ link[m] = 0
        /\ last # 0 => link[last] = m
        /\ \A n \in Msg \ {m} : n # last => link[n] = N.link[n]
    BY <2>a, <1>3, <1>6, <1>7
  <2>3. R \in Messages
    <3>1. 0 \in Msg0 /\ m \in Msg0
      BY MessagesAssumption DEF Msg, Msg0
    <3>2. link \in [Msg -> Msg0]
      <4>1. N.link \in [Msg -> Msg0]
        BY DEF Messages
      <4> QED
        BY <2>a, <4>1, <1>3, <3>1
    <3>3. head \in [Mailboxes -> Msg0] /\ tail \in [Mailboxes -> Msg0]
      <4>1. N.head \in [Mailboxes -> Msg0] /\ N.tail \in [Mailboxes -> Msg0]
        BY DEF Messages
      <4>2. C.head \in [Mailboxes -> Msg0] /\ C.tail \in [Mailboxes -> Msg0]
        BY <4>1, <1>3
      <4> QED
        BY <2>b, <2>c, <4>2, <3>1
    <3>4. /\ C.body \in [Msg -> Bodies \cup {NoBody}] /\ C.rep \in [Msg -> 0 .. MaxRepeat]
          /\ C.freeMSG \in Msg0 /\ C.count \in [Mailboxes -> Int]
      BY <1>4, MessagesFields
    <3>5. Written(C, link, C.body, C.rep, C.freeMSG, head, tail, C.count) \in Messages
      BY <3>2, <3>3, <3>4, <1>4, WrittenTyped
    <3> QED
      BY <3>5, <2>d
  <2>4. /\ R.link = link /\ R.head = head /\ R.tail = tail
        /\ R.freeMSG = N.link[m] /\ R.body = [N.body EXCEPT ![m] = body]
        /\ R.rep = N.rep /\ R.count = [N.count EXCEPT ![b] = @ + 1]
        /\ R.size = N.size /\ R.strategy = N.strategy
    <3>1. /\ R.link = link /\ R.head = head /\ R.tail = tail
          /\ R.freeMSG = C.freeMSG /\ R.body = C.body /\ R.rep = C.rep
          /\ R.count = C.count /\ R.size = C.size /\ R.strategy = C.strategy
      BY <2>d, <1>4, WrittenFields
    <3> QED
      BY <3>1, <1>2, <1>3
  <2>5. /\ R.head[b] = IF last = 0 THEN m ELSE N.head[b]
        /\ R.tail[b] = m
        /\ R.count[b] = N.count[b] + 1
        /\ Elsewhere(N, R, b)
    <3>1. /\ N.head \in [Mailboxes -> Msg0] /\ N.tail \in [Mailboxes -> Msg0]
          /\ N.count \in [Mailboxes -> Int]
      BY DEF Messages
    <3>2. head[b] = (IF last = 0 THEN m ELSE N.head[b]) /\ tail[b] = m
      BY <2>b, <2>c, <3>1, <1>3
    <3>3. \A c \in Mailboxes \ {b} : head[c] = N.head[c] /\ tail[c] = N.tail[c]
      BY <2>b, <2>c, <3>1, <1>3
    <3>4. R.count[b] = N.count[b] + 1 /\ \A c \in Mailboxes \ {b} : R.count[c] = N.count[c]
      BY <3>1, <2>4
    <3> QED
      BY <3>2, <3>3, <3>4, <2>4 DEF Elsewhere
  <2>6. LinkedLast(N, R, b, m)
    BY <2>2, <2>4, <2>5, <1>5, <1>7 DEF LinkedLast
  <2>7. ~Countable(N, b, body)
    <3>1. C.body[m] = body /\ C.rep = N.rep /\ (last # 0 => C.body[last] = N.body[last])
      BY <1>2, <1>3, <1>6, <1>7 DEF Messages
    <3> QED
      BY <3>1, <1>5, <1>9 DEF Countable, Repeats
  <2> QED
    BY <2>3, <2>4, <2>6, <2>7 DEF Appended
<1> QED
  BY <1>8, <1>9

LEMMA SentEnds ==
  ASSUME NEW N \in Messages, NEW b \in Mailboxes, NEW body \in Bodies,
         N.freeMSG # 0, N.tail[b] # N.freeMSG,
         N.strategy[b] = "NEWEST" => N.count[b] + 1 <= N.size[b],
         N.strategy[b] = "OLDEST" => N.count[b] <= N.size[b],
         NEW R, R = Sent(N, b, body)
  PROVE  \/ /\ Appended(N, R, b, body) \/ Counted(N, R, b, body)
            /\ N.strategy[b] = "OLDEST" => N.count[b] + 1 <= N.size[b]
         \/ Refused(N, R, b)
<1>1. PICK m \in Msg : m = N.freeMSG
  BY MessagesAssumption DEF Messages, Msg, Msg0
<1>2. PICK A : A = AllocMsg(N, body)
  OBVIOUS
<1>3. /\ A = [N EXCEPT !.freeMSG = N.link[m], !.body = A.body]
      /\ A.body = [N.body EXCEPT ![m] = body]
  BY <1>1, <1>2 DEF AllocMsg, Messages
<1>4. A \in Messages
  <2>1. A.body \in [Msg -> Bodies \cup {NoBody}] /\ N.link[m] \in Msg0
    BY <1>3 DEF Messages
  <2> QED
    BY <1>3, <2>1 DEF Messages
<1>5. /\ A.count = N.count /\ A.size = N.size /\ A.strategy = N.strategy
      /\ A.link = N.link /\ A.freeMSG = N.link[m] /\ A.rep = N.rep
      /\ A.head = N.head /\ A.tail = N.tail
  BY <1>3 DEF Messages
<1>6. PICK C : C = OneMore(A, b)
  OBVIOUS
<1>7. C.count[b] = N.count[b] + 1 /\ C.size[b] = N.size[b]
  BY <1>4, <1>5, <1>6 DEF Messages, OneMore
<1>8. PICK excess : excess = IF Overfull(C, b) THEN C.count[b] - C.size[b] ELSE 0
  OBVIOUS
<1>9. N.size[b] \in Nat /\ N.count[b] \in Int
  BY MessagesAssumption DEF Messages
<1>10. /\ N.strategy[b] = "NEWEST" => excess = 0
       /\ N.strategy[b] = "OLDEST" /\ excess # 0 => excess = 1 /\ N.count[b] = N.size[b]
       /\ N.strategy[b] = "OLDEST" /\ excess = 0 => N.count[b] + 1 <= N.size[b]
  BY <1>7, <1>8, <1>9 DEF Overfull
<1>11. R = MBXQueueMsg(A, b, m)
  BY <1>1, <1>2 DEF Sent
<1>12. R = CASE A.strategy[b] = "UNLIMITED" -> LinkMsg(C, b, m)
             [] A.strategy[b] = "NEWEST" -> LinkMsg(Iterate(DropOld(b), C)[excess], b, m)
             [] A.strategy[b] = "OLDEST" ->
                  IF excess = 0 THEN LinkMsg(C, b, m)
                  ELSE Iterate(DropNew(b), [M |-> FreeMsg(A, m), msg |-> m])[excess].M
  BY <1>6, <1>8, <1>11 DEF MBXQueueMsg, OneMore
<1>13. A.strategy[b] = N.strategy[b]
  BY <1>5
<1>14. CASE N.strategy[b] = "OLDEST" /\ excess # 0
  <2>1. PICK F : F = FreeMsg(A, m)
    OBVIOUS
  <2>2. Freed(A, m, F)
    BY <2>1, <1>4, FreeMsgFields
  <2>3. F \in Messages /\ ~Overfull(F, b)
    BY <2>2, <1>5, <1>9, <1>10, <1>14 DEF Freed, Overfull
  <2>8. R = F
    <3>1. R = Iterate(DropNew(b), [M |-> FreeMsg(A, m), msg |-> m])[excess].M
      BY <1>12, <1>13, <1>14
    <3>2. excess = 1
      BY <1>10, <1>14
    <3> QED
      BY <3>1, <3>2, <2>1, <2>3, DropNewStops DEF Msg, Msg0
  <2>9. R.link = N.link
    BY <2>2, <2>8, <1>5 DEF Freed, Messages
  <2>10. R.body = [N.body EXCEPT ![m] = NoBody]
    <3>1. R.body = [[N.body EXCEPT ![m] = body] EXCEPT ![m] = NoBody]
      BY <2>2, <2>8, <1>3 DEF Freed
    <3> QED
      BY <3>1 DEF Messages
  <2>11. BlockBack(N, R, b)
    BY <2>2, <2>8, <2>9, <2>10, <1>1, <1>5 DEF Freed, BlockBack
  <2>12. R.count = N.count /\ R.rep = [N.rep EXCEPT ![m] = 0]
    BY <2>2, <2>8, <1>5 DEF Freed
  <2>13. N.count[b] = N.size[b]
    BY <1>10, <1>14
  <2> QED
    BY <2>11, <2>12, <2>13, <1>1, <1>14 DEF Refused
<1>15. CASE ~(N.strategy[b] = "OLDEST" /\ excess # 0)
  <2>1. N.strategy[b] \in {"UNLIMITED", "OLDEST", "NEWEST"}
    BY DEF Messages, Strategy
  <2>2. R = LinkMsg(C, b, m)
    <3>1. CASE N.strategy[b] = "NEWEST"
      <4>1. C \in Messages
        <5>1. C = [A EXCEPT !.count = [A.count EXCEPT ![b] = @ + 1]]
          BY <1>6 DEF OneMore
        <5>2. [A.count EXCEPT ![b] = @ + 1] \in [Mailboxes -> Int]
          BY <1>4 DEF Messages
        <5> QED
          BY <5>1, <5>2, <1>4 DEF Messages
      <4>2. Iterate(DropOld(b), C)[0] = C
        BY <4>1, DropOldTyped, IterateDef
      <4>3. R = LinkMsg(Iterate(DropOld(b), C)[excess], b, m)
        BY <3>1, <1>12, <1>13
      <4> QED
        BY <4>2, <4>3, <3>1, <1>10
    <3>2. CASE N.strategy[b] = "UNLIMITED"
      BY <3>2, <1>12, <1>13
    <3>3. CASE N.strategy[b] = "OLDEST"
      BY <3>3, <1>12, <1>13, <1>15
    <3> QED
      BY <2>1, <3>1, <3>2, <3>3
  <2>3. Appended(N, R, b, body) \/ Counted(N, R, b, body)
    BY <2>2, <1>1, <1>2, <1>6, LinkMsgEnds
  <2> QED
    BY <2>3, <1>10, <1>15
<1> QED
  BY <1>14, <1>15

-----------------------------------------------------------------------------
(* What the blocks of a queue say to a reader.                             *)

Says(N, s) == [i \in 1 .. Len(s) |-> [body |-> N.body[s[i]], rep |-> N.rep[s[i]]]]

(* A queue says the same as long as nothing is written to its blocks.      *)
LEMMA SaysSame ==
  ASSUME NEW N, NEW R, NEW s,
         \A i \in 1 .. Len(s) : R.body[s[i]] = N.body[s[i]] /\ R.rep[s[i]] = N.rep[s[i]]
  PROVE  Says(R, s) = Says(N, s)
BY DEF Says

LEMMA SaysFirstGone ==
  ASSUME NEW N, NEW s \in Seq(Msg), s # <<>>
  PROVE  /\ Says(N, s) # <<>>
         /\ Says(N, Tail(s)) = Tail(Says(N, s))
<1> DEFINE t == Tail(s)
           T == {[body |-> N.body[m], rep |-> N.rep[m]] : m \in Msg}
           c == Says(N, s)
           d == Says(N, t)
<1>1. Len(s) \in Nat \ {0} /\ \A i \in 1 .. Len(s) : s[i] \in Msg
  BY LenProperties, EmptySeq
<1>2. t \in Seq(Msg) /\ Len(t) = Len(s) - 1 /\ \A i \in 1 .. Len(t) : t[i] = s[i + 1]
  BY HeadTailProperties
<1> HIDE DEF t
<1>3. \A i \in 1 .. Len(t) : t[i] \in Msg
  BY <1>2, LenProperties
<1>4. c \in Seq(T) /\ Len(c) = Len(s)
  BY <1>1 DEF Says
<1>5. d \in Seq(T) /\ Len(d) = Len(t)
  BY <1>1, <1>2, <1>3 DEF Says
<1>6. c # <<>>
  BY <1>1, <1>4, EmptySeq
<1>7. /\ \A i \in 1 .. Len(s) : c[i] = [body |-> N.body[s[i]], rep |-> N.rep[s[i]]]
      /\ \A i \in 1 .. Len(t) : d[i] = [body |-> N.body[t[i]], rep |-> N.rep[t[i]]]
  BY DEF Says
<1> HIDE DEF T, c, d
<1>8. /\ Tail(c) \in Seq(T) /\ Len(Tail(c)) = Len(c) - 1
      /\ \A i \in 1 .. Len(Tail(c)) : Tail(c)[i] = c[i + 1]
  BY <1>4, <1>6, HeadTailProperties
<1>9. \A i \in 1 .. Len(d) : d[i] = Tail(c)[i]
  <2> TAKE i \in 1 .. Len(d)
  <2>1. /\ i \in 1 .. Len(t) /\ i \in 1 .. Len(Tail(c)) /\ i + 1 \in 1 .. Len(s)
        /\ t[i] = s[i + 1]
    BY <1>1, <1>2, <1>4, <1>5, <1>8
  <2> QED
    BY <2>1, <1>7, <1>8
<1>10. d = Tail(c)
  <2>1. Len(d) = Len(Tail(c))
    BY <1>2, <1>4, <1>5, <1>8
  <2> QED
    BY <2>1, <1>5, <1>8, <1>9, SeqEqual
<1> QED
  BY <1>6, <1>10 DEF c, d, t

LEMMA SaysOneMore ==
  ASSUME NEW N, NEW R, NEW s \in Seq(Msg), NEW m \in Msg,
         \A i \in 1 .. Len(s) : R.body[s[i]] = N.body[s[i]] /\ R.rep[s[i]] = N.rep[s[i]]
  PROVE  Says(R, Append(s, m)) = Append(Says(N, s), [body |-> R.body[m], rep |-> R.rep[m]])
<1> DEFINE t == Append(s, m)
           e == [body |-> R.body[m], rep |-> R.rep[m]]
           T == {[body |-> N.body[n], rep |-> N.rep[n]] : n \in Msg} \cup {e}
           c == Says(N, s)
           d == Says(R, t)
<1>1. Len(s) \in Nat /\ \A i \in 1 .. Len(s) : s[i] \in Msg
  BY LenProperties
<1>2. /\ Len(t) = Len(s) + 1 /\ t[Len(s) + 1] = m
      /\ \A i \in 1 .. Len(s) : t[i] = s[i]
  BY AppendProperties
<1> HIDE DEF t
<1>3. \A i \in 1 .. Len(t) : i \in 1 .. Len(s) \/ i = Len(s) + 1
  BY <1>1, <1>2
<1>4. c \in Seq(T) /\ Len(c) = Len(s)
  BY <1>1 DEF Says
<1>5. /\ \A i \in 1 .. Len(s) : c[i] = [body |-> N.body[s[i]], rep |-> N.rep[s[i]]]
      /\ \A i \in 1 .. Len(t) : d[i] = [body |-> R.body[t[i]], rep |-> R.rep[t[i]]]
  BY DEF Says
<1>6. /\ \A i \in 1 .. Len(s) : d[i] = c[i] /\ c[i] \in T
      /\ d[Len(s) + 1] = e
  <2>1. Len(s) + 1 \in 1 .. Len(t) /\ \A i \in 1 .. Len(s) : i \in 1 .. Len(t)
    BY <1>1, <1>2
  <2>2. \A i \in 1 .. Len(s) : c[i] \in T
    <3> SUFFICES ASSUME NEW i \in 1 .. Len(s) PROVE c[i] \in T
      OBVIOUS
    <3>1. PICK n \in Msg : n = s[i]
      BY <1>1
    <3>2. c[i] = [body |-> N.body[n], rep |-> N.rep[n]]
      BY <1>5, <3>1
    <3> HIDE DEF c
    <3> QED
      BY <3>2
  <2>3. d[Len(s) + 1] = e
    BY <2>1, <1>2, <1>5
  <2>4. ASSUME NEW i \in 1 .. Len(s)
        PROVE  d[i] = c[i]
    <3>1. d[i] = [body |-> R.body[s[i]], rep |-> R.rep[s[i]]]
      BY <2>1, <1>2, <1>5
    <3> QED
      BY <3>1, <1>5
  <2> QED
    BY <2>2, <2>3, <2>4
<1>7. d \in Seq(T) /\ Len(d) = Len(s) + 1
  <2>1. d = [i \in 1 .. Len(t) |-> d[i]]
    BY DEF Says
  <2>2. \A i \in 1 .. Len(t) : d[i] \in T
    BY <1>3, <1>6
  <2> HIDE DEF d, T
  <2>3. d \in [1 .. Len(s) + 1 -> T]
    BY <2>1, <2>2, <1>2
  <2> QED
    BY <2>3, <1>1
<1>8. e \in T
  OBVIOUS
<1> HIDE DEF T, c, d, e
<1>9. /\ Append(c, e) \in Seq(T) /\ Len(Append(c, e)) = Len(s) + 1
      /\ \A i \in 1 .. Len(s) : Append(c, e)[i] = c[i]
      /\ Append(c, e)[Len(s) + 1] = e
  BY <1>4, <1>8, AppendProperties
<1>10. \A i \in 1 .. Len(d) : d[i] = Append(c, e)[i]
  <2> TAKE i \in 1 .. Len(d)
  <2>1. i \in 1 .. Len(s) \/ i = Len(s) + 1
    BY <1>1, <1>7
  <2> QED
    BY <2>1, <1>6, <1>9
<1>11. d = Append(c, e)
  BY <1>7, <1>9, <1>10, SeqEqual
<1> QED
  BY <1>11 DEF c, d, e, t

(* One more repetition is counted at the last message.                     *)
CountedAtEnd(N, R, s) ==
  /\ \A i, j \in 1 .. Len(s) : s[i] = s[j] => i = j
  /\ \A i \in 1 .. Len(s) : R.body[s[i]] = N.body[s[i]]
  /\ \A i \in 1 .. Len(s) : s[i] # LastOf(s) => R.rep[s[i]] = N.rep[s[i]]
  /\ R.rep[LastOf(s)] = N.rep[LastOf(s)] + 1

LEMMA SaysCounted ==
  ASSUME NEW N, NEW R, NEW s \in Seq(Msg), s # <<>>, CountedAtEnd(N, R, s)
  PROVE  /\ Says(N, s) # <<>>
         /\ Says(R, s) = [Says(N, s) EXCEPT ![Len(Says(N, s))].rep = @ + 1]
<1>1. Len(s) \in Nat \ {0}
  BY LenProperties, EmptySeq
<1>2. DOMAIN Says(N, s) = 1 .. Len(s) /\ Len(Says(N, s)) = Len(s) /\ Says(N, s) # <<>>
  <2>1. \A i \in 1 .. Len(s) : s[i] \in Msg
    BY LenProperties
  <2> DEFINE T == {[body |-> N.body[m], rep |-> N.rep[m]] : m \in Msg}
             c == Says(N, s)
  <2>2. c \in Seq(T) /\ Len(c) = Len(s) /\ DOMAIN c = 1 .. Len(s)
    BY <1>1, <2>1 DEF Says
  <2> HIDE DEF c, T
  <2>3. c # <<>>
    BY <1>1, <2>2, EmptySeq
  <2> QED
    BY <2>2, <2>3 DEF c
<1>3. \A i \in 1 .. Len(s) : s[i] = LastOf(s) <=> i = Len(s)
  <2>1. Len(s) \in 1 .. Len(s) /\ LastOf(s) = s[Len(s)]
    BY <1>1 DEF LastOf
  <2> QED
    BY <2>1 DEF CountedAtEnd
<1>4. [Says(N, s) EXCEPT ![Len(s)].rep = @ + 1]
        = [i \in 1 .. Len(s) |-> IF i = Len(s) THEN [Says(N, s)[i] EXCEPT !.rep = @ + 1]
                                               ELSE Says(N, s)[i]]
  BY <1>1, <1>2
<1>5. ASSUME NEW i \in 1 .. Len(s)
      PROVE  Says(R, s)[i] = IF i = Len(s) THEN [Says(N, s)[i] EXCEPT !.rep = @ + 1]
                                           ELSE Says(N, s)[i]
  BY <1>3 DEF Says, CountedAtEnd
<1>6. Says(R, s) = [i \in 1 .. Len(s) |-> Says(R, s)[i]]
  BY DEF Says
<1> QED
  BY <1>2, <1>4, <1>5, <1>6

(* The queue q with one more message.                                      *)
Gained(q, m) ==
  IF q # <<>> /\ Last(q).body = m /\ Last(q).rep < MaxRepeat
  THEN [q EXCEPT ![Len(q)].rep = @ + 1]
  ELSE Append(q, [body |-> m, rep |-> 0])

LEMMA GainedGains ==
  ASSUME NEW q, NEW m
  PROVE  Gains(q, Gained(q, m), m)
BY DEF Gains, Gained

LEMMA SaysLast ==
  ASSUME NEW N, NEW s \in Seq(Msg)
  PROVE  /\ Says(N, s) = <<>> <=> s = <<>>
         /\ s # <<>> => /\ Last(Says(N, s)).body = N.body[LastOf(s)]
                       /\ Last(Says(N, s)).rep = N.rep[LastOf(s)]
<1>1. Len(s) \in Nat /\ (s = <<>> <=> Len(s) = 0)
  BY LenProperties, EmptySeq
<1>2. s # <<>> => Says(N, s) # <<>>
  BY SaysFirstGone
<1>3. s = <<>> => Says(N, s) = <<>>
  BY EmptySeq DEF Says
<1>4. ASSUME s # <<>>
      PROVE  /\ Last(Says(N, s)).body = N.body[LastOf(s)]
             /\ Last(Says(N, s)).rep = N.rep[LastOf(s)]
  <2>1. Len(s) \in 1 .. Len(s)
    BY <1>1, <1>4
  <2>2. /\ Len(Says(N, s)) = Len(s)
        /\ Says(N, s)[Len(s)] = [body |-> N.body[s[Len(s)]], rep |-> N.rep[s[Len(s)]]]
    BY <2>1, <1>1 DEF Says
  <2> QED
    BY <2>2, <1>4 DEF Last, LastOf
<1> QED
  BY <1>2, <1>3, <1>4

LEMMA CountedIsGained ==
  ASSUME NEW N, NEW R, NEW s \in Seq(Msg), s # <<>>, CountedAtEnd(N, R, s),
         N.rep[LastOf(s)] < MaxRepeat
  PROVE  Says(R, s) = Gained(Says(N, s), N.body[LastOf(s)])
<1>1. /\ Says(N, s) # <<>>
      /\ Says(R, s) = [Says(N, s) EXCEPT ![Len(Says(N, s))].rep = @ + 1]
  BY SaysCounted
<1>2. /\ Last(Says(N, s)).body = N.body[LastOf(s)]
      /\ Last(Says(N, s)).rep = N.rep[LastOf(s)]
  BY SaysLast
<1> QED
  BY <1>1, <1>2 DEF Gained

-----------------------------------------------------------------------------
(* The steps keep every block in a place, and every queue in its order.    *)

Unread(N, S, R, S2, c) == S2[c] = S[c] /\ Says(R, S2[c]) = Says(N, S[c])

UnreadBut(N, S, R, S2, b) == \A c \in Mailboxes \ {b} : Unread(N, S, R, S2, c)

(* The first message has left the queue at b.                              *)
FirstRead(N, S, R, S2, O2, b) ==
  /\ Ordered(R, S2, O2)
  /\ S2[b] = Tail(S[b])
  /\ Says(R, S2[b]) = Tail(Says(N, S[b]))
  /\ UnreadBut(N, S, R, S2, b)

LEMMA ElsewhereUnread ==
  ASSUME NEW N, NEW S, NEW O, Ordered(N, S, O), NEW c \in Mailboxes,
         NEW R, NEW S2, S2[c] = S[c], NEW m, O[m] # c, NEW l, O[l] # c,
         \A n \in Msg \ {m, l} : R.body[n] = N.body[n] /\ R.rep[n] = N.rep[n]
  PROVE  Unread(N, S, R, S2, c)
<1>1. Queue(N.link, First(N, c), S[c], O, c)
  BY BoxNotZero DEF Ordered
<1>2. \A i \in 1 .. Len(S[c]) : S[c][i] \in Msg
  BY <1>1, QueueEnds
<1>3. \A i \in 1 .. Len(S[c]) : O[S[c][i]] = c
  BY <1>1 DEF Queue, Holds
<1>4. \A i \in 1 .. Len(S[c]) : /\ R.body[S[c][i]] = N.body[S[c][i]]
                               /\ R.rep[S[c][i]] = N.rep[S[c][i]]
  BY <1>2, <1>3
<1>5. Says(R, S[c]) = Says(N, S[c])
  BY <1>4, SaysSame
<1> QED
  BY <1>5 DEF Unread

(* Where TakeMsg finds a message.                                          *)
LEMMA HeadFound ==
  ASSUME NEW N, NEW S, NEW O, Ordered(N, S, O), NEW b \in Mailboxes
  PROVE  /\ S[b] \in Seq(Msg) /\ Tidy(N, S[b], b)
         /\ Queue(N.link, N.head[b], S[b], O, b)
         /\ S[b] = <<>> => N.head[b] = 0 /\ Dequeued(N, b) = 0 /\ N.tail[b] = 0
         /\ S[b] # <<>> => /\ N.head[b] \in Msg
                          /\ O[N.head[b]] = b
                          /\ N.count[b] # 0
                          /\ Dequeued(N, b) = N.head[b]
                          /\ N.tail[b] \in Msg
                          /\ O[N.tail[b]] = b
<1>1. S[b] \in Seq(Msg) /\ Tidy(N, S[b], b) /\ Queue(N.link, N.head[b], S[b], O, b)
  BY BoxNotZero DEF Ordered, First
<1>2. /\ Len(S[b]) \in Nat
      /\ S[b] = <<>> <=> N.head[b] = 0
      /\ S[b] = <<>> <=> Len(S[b]) = 0
      /\ S[b] = <<>> <=> LastOf(S[b]) = 0
      /\ N.head[b] # 0 => N.head[b] \in Msg /\ O[N.head[b]] = b
      /\ LastOf(S[b]) # 0 => LastOf(S[b]) \in Msg /\ O[LastOf(S[b])] = b
  BY <1>1, QueueEnds
<1>3. S[b] # <<>> => N.count[b] # 0
  BY <1>1, <1>2 DEF Tidy
<1>4. N.tail[b] = LastOf(S[b])
  BY <1>1 DEF Tidy
<1> QED
  BY <1>1, <1>2, <1>3, <1>4 DEF Dequeued

LEMMA TakeMsgKeeps ==
  ASSUME NEW N \in Messages, NEW S, NEW O, Ordered(N, S, O), NEW b \in Mailboxes,
         NEW R, R = TakeMsg(N, b)
  PROVE  /\ S[b] = <<>> => /\ Ordered(R, S, O)
                           /\ \A c \in Mailboxes : Unread(N, S, R, S, c)
         /\ S[b] # <<>> =>
              \E S2 \in [Box0 -> Seq(Msg)], O2 \in [Msg -> Box0] :
                FirstRead(N, S, R, S2, O2, b)
<1>1. R \in Messages
  BY TakeMsgFields
<1>2. S[b] \in Seq(Msg) /\ Tidy(N, S[b], b) /\ Queue(N.link, N.head[b], S[b], O, b)
  BY HeadFound
<1>3. CASE S[b] = <<>>
  <2>1. N.head[b] = 0
    BY <1>3, HeadFound
  <2>2. \/ R = N
        \/ N.count[b] # 0 /\ R = [N EXCEPT !.count[b] = @ - 1]
    BY <2>1, TakeMsgFields
  <2>3. /\ R.link = N.link /\ R.freeMSG = N.freeMSG /\ R.head = N.head /\ R.tail = N.tail
        /\ R.rep = N.rep /\ R.body = N.body /\ R.size = N.size /\ R.strategy = N.strategy
    BY <2>2 DEF Messages
  <2>4. ASSUME NEW c \in Mailboxes
        PROVE  Tidy(R, S[c], c)
    <3>1. Tidy(N, S[c], c)
      BY DEF Ordered
    <3>2. CASE R = N \/ c # b
      <4>1. R.count[c] = N.count[c]
        BY <2>2, <3>2 DEF Messages
      <4> QED
        BY <3>1, <4>1, <2>3 DEF Tidy
    <3>3. CASE R # N /\ c = b
      <4>1. N.count[b] # 0 /\ R.count[b] = N.count[b] - 1
        BY <2>2, <3>3 DEF Messages
      <4>2. Len(S[b]) = 0
        BY <1>3
      <4> QED
        BY <3>1, <3>3, <4>1, <4>2, <2>3 DEF Tidy
    <3> QED
      BY <3>2, <3>3
  <2>5. \A m \in Msg : O[m] = 0 => R.rep[m] = 0
    BY <2>3 DEF Ordered
  <2>6. Ordered(R, S, O)
    BY <2>3, <2>4, <2>5, NothingMoved
  <2>7. \A c \in Mailboxes : Unread(N, S, R, S, c)
    BY <2>3 DEF Unread, Says
  <2> QED
    BY <1>3, <2>6, <2>7
<1>4. CASE S[b] # <<>>
  <2>1. PICK m \in Msg : m = N.head[b]
    BY <1>4, HeadFound
  <2>2. O[m] = b /\ N.count[b] # 0 /\ m # 0
    BY <2>1, <1>4, HeadFound, BoxNotZero
  <2>3. FreedFirst(N, R, b, m) /\ \A n \in Msg \ {m} : R.body[n] = N.body[n]
    BY <2>1, <2>2, TakeMsgFields
  <2>4. PICK S2 : S2 = ToFront(S, m, b)
    OBVIOUS
  <2>5. PICK O2 : O2 = [O EXCEPT ![m] = 0]
    OBVIOUS
  <2>6. Ordered(R, S2, O2)
    BY <2>3, <2>4, <2>5, FirstFreed
  <2>7. S2 \in [Box0 -> Seq(Msg)] /\ O2 \in [Msg -> Box0]
    BY <2>6 DEF Ordered
  <2>8. S2[b] = Tail(S[b]) /\ \A c \in Mailboxes \ {b} : S2[c] = S[c]
    <3>1. b \in Box0 /\ b # 0 /\ \A c \in Mailboxes : c \in Box0 /\ c # 0
      BY BoxNotZero
    <3>2. S \in [Box0 -> Seq(Msg)]
      BY DEF Ordered
    <3> QED
      BY <2>4, <3>1, <3>2 DEF ToFront
  <2>9. ASSUME NEW c \in Mailboxes \ {b}
        PROVE  Unread(N, S, R, S2, c)
    <3>1. \A n \in Msg \ {m, m} : R.body[n] = N.body[n] /\ R.rep[n] = N.rep[n]
      BY <2>3 DEF FreedFirst
    <3> QED
      BY <3>1, <2>2, <2>8, ElsewhereUnread
  <2>10. Says(R, S2[b]) = Tail(Says(N, S[b]))
    <3>1. Queue(R.link, First(R, b), S2[b], O2, b)
      BY <2>6, BoxNotZero DEF Ordered
    <3>2. \A i \in 1 .. Len(S2[b]) : S2[b][i] \in Msg
      BY <3>1, QueueEnds
    <3>3. \A i \in 1 .. Len(S2[b]) : O2[S2[b][i]] = b
      BY <3>1 DEF Queue, Holds
    <3>4. O2[m] # b
      BY <2>5, BoxNotZero DEF Ordered
    <3>5. \A i \in 1 .. Len(S2[b]) : /\ R.body[S2[b][i]] = N.body[S2[b][i]]
                                    /\ R.rep[S2[b][i]] = N.rep[S2[b][i]]
      BY <3>2, <3>3, <3>4, <2>3 DEF FreedFirst
    <3>6. Says(R, S2[b]) = Says(N, S2[b])
      BY <3>5, SaysSame
    <3> QED
      BY <3>6, <2>8, <1>2, <1>4, SaysFirstGone
  <2> QED
    BY <1>4, <2>6, <2>7, <2>8, <2>9, <2>10 DEF FirstRead, UnreadBut
<1> QED
  BY <1>3, <1>4

(* A send changes one queue: it gains the message, unless that is refused. *)
MessageIn(N, S, R, S2, O2, b, body) ==
  /\ Ordered(R, S2, O2)
  /\ \/ Says(R, S2[b]) = Gained(Says(N, S[b]), body)
     \/ N.strategy[b] = "OLDEST" /\ Says(R, S2[b]) = Says(N, S[b])
  /\ UnreadBut(N, S, R, S2, b)

LEMMA SentKeeps ==
  ASSUME NEW N \in Messages, NEW S, NEW O, Ordered(N, S, O), NEW b \in Mailboxes,
         NEW body \in Bodies, N.freeMSG # 0,
         N.strategy[b] = "NEWEST" => N.count[b] + 1 <= N.size[b],
         NEW R, R = Sent(N, b, body)
  PROVE  /\ R \in Messages
         /\ Elsewhere(N, R, b)
         /\ \E S2 \in [Box0 -> Seq(Msg)], O2 \in [Msg -> Box0] :
              MessageIn(N, S, R, S2, O2, b, body)
<1>1. S[b] \in Seq(Msg) /\ Tidy(N, S[b], b) /\ Queue(N.link, N.head[b], S[b], O, b)
  BY HeadFound
<1>2. PICK m \in Msg : m = N.freeMSG
  BY MessagesAssumption DEF Messages, Msg, Msg0
<1>3. O[m] = 0 /\ m # 0
  <2>1. Queue(N.link, m, S[0], O, 0)
    BY <1>2, BoxNotZero DEF Ordered, First
  <2> QED
    BY <2>1, <1>2, QueueEnds
<1>4. N.tail[b] # m
  <2>1. b # 0
    BY BoxNotZero
  <2>2. N.tail[b] # 0 => O[N.tail[b]] = b
    BY HeadFound
  <2> QED
    BY <2>1, <2>2, <1>3
<1>5. N.strategy[b] = "OLDEST" => N.count[b] <= N.size[b]
  BY <1>1 DEF Tidy
<1>6. \/ /\ Appended(N, R, b, body) \/ Counted(N, R, b, body)
         /\ N.strategy[b] = "OLDEST" => N.count[b] + 1 <= N.size[b]
      \/ Refused(N, R, b)
  BY <1>2, <1>4, <1>5, SentEnds
<1>7. \A i \in 1 .. Len(S[b]) : S[b][i] \in Msg /\ S[b][i] # m
  <2>1. \A i \in 1 .. Len(S[b]) : S[b][i] \in Msg
    BY <1>1, QueueEnds
  <2>2. \A i \in 1 .. Len(S[b]) : O[S[b][i]] = b
    BY <1>1 DEF Queue, Holds
  <2> QED
    BY <2>1, <2>2, <1>3, BoxNotZero
<1>8. CASE Appended(N, R, b, body) /\ (N.strategy[b] = "OLDEST" => N.count[b] + 1 <= N.size[b])
  <2>1. /\ R \in Messages /\ LinkedLast(N, R, b, m)
        /\ R.body = [N.body EXCEPT ![m] = body]
    BY <1>2, <1>8 DEF Appended
  <2>2. R.rep = N.rep
    BY <2>1 DEF LinkedLast
  <2>3. Elsewhere(N, R, b)
    BY <2>1 DEF LinkedLast
  <2>4. PICK S2 : S2 = ToBack(S, m, b)
    OBVIOUS
  <2>5. PICK O2 : O2 = [O EXCEPT ![m] = b]
    OBVIOUS
  <2>6. Ordered(R, S2, O2)
    BY <2>1, <2>4, <2>5, <1>8, QueuedLast
  <2>7. S2[b] = Append(S[b], m) /\ \A c \in Mailboxes \ {b} : S2[c] = S[c]
    <3>1. b \in Box0 /\ b # 0 /\ \A c \in Mailboxes : c \in Box0 /\ c # 0
      BY BoxNotZero
    <3>2. S \in [Box0 -> Seq(Msg)]
      BY DEF Ordered
    <3> QED
      BY <2>4, <3>1, <3>2 DEF ToBack
  <2>8. /\ R.body[m] = body /\ R.rep[m] = 0
        /\ \A n \in Msg \ {m} : R.body[n] = N.body[n] /\ R.rep[n] = N.rep[n]
    BY <2>1, <2>2, <1>3 DEF Messages, Ordered
  <2>9. ASSUME NEW c \in Mailboxes \ {b}
        PROVE  Unread(N, S, R, S2, c)
    <3>1. \A n \in Msg \ {m, m} : R.body[n] = N.body[n] /\ R.rep[n] = N.rep[n]
      BY <2>8
    <3>2. O[m] # c
      BY <1>3, BoxNotZero
    <3> QED
      BY <3>1, <3>2, <2>7, ElsewhereUnread
  <2>10. Says(R, S2[b]) = Append(Says(N, S[b]), [body |-> body, rep |-> 0])
    <3>1. \A i \in 1 .. Len(S[b]) : /\ R.body[S[b][i]] = N.body[S[b][i]]
                                   /\ R.rep[S[b][i]] = N.rep[S[b][i]]
      BY <1>7, <2>8
    <3>2. Says(R, Append(S[b], m)) = Append(Says(N, S[b]), [body |-> R.body[m], rep |-> R.rep[m]])
      <4>1. PICK s \in Seq(Msg) : s = S[b]
        BY <1>1
      <4>2. \A i \in 1 .. Len(s) : R.body[s[i]] = N.body[s[i]] /\ R.rep[s[i]] = N.rep[s[i]]
        BY <3>1, <4>1
      <4>3. Says(R, Append(s, m)) = Append(Says(N, s), [body |-> R.body[m], rep |-> R.rep[m]])
        BY <4>2, SaysOneMore, ZenonT(60)
      <4> QED
        BY <4>1, <4>3
    <3> QED
      BY <3>2, <2>7, <2>8
  <2>11. Says(R, S2[b]) = Gained(Says(N, S[b]), body)
    <3>1. /\ Says(N, S[b]) # <<>> => S[b] # <<>>
          /\ S[b] # <<>> => /\ Last(Says(N, S[b])).body = N.body[LastOf(S[b])]
                           /\ Last(Says(N, S[b])).rep = N.rep[LastOf(S[b])]
      BY <1>1, SaysLast
    <3>2. N.tail[b] = LastOf(S[b]) /\ (S[b] # <<>> => N.tail[b] # 0)
      BY <1>1, HeadFound, BoxNotZero DEF Tidy
    <3>3. ~Countable(N, b, body)
      BY <1>8 DEF Appended
    <3>4. ~(/\ Says(N, S[b]) # <<>> /\ Last(Says(N, S[b])).body = body
            /\ Last(Says(N, S[b])).rep < MaxRepeat)
      BY <3>1, <3>2, <3>3 DEF Countable
    <3> QED
      BY <3>4, <2>10 DEF Gained
  <2>12. S2 \in [Box0 -> Seq(Msg)] /\ O2 \in [Msg -> Box0]
    BY <2>6 DEF Ordered
  <2> QED
    BY <2>1, <2>3, <2>6, <2>9, <2>11, <2>12 DEF MessageIn, UnreadBut
<1>9. CASE Counted(N, R, b, body) /\ (N.strategy[b] = "OLDEST" => N.count[b] + 1 <= N.size[b])
  <2>1. BlockBack(N, R, b) /\ N.tail[b] # 0
    BY <1>9 DEF Counted, Countable
  <2>2. PICK l : l = N.tail[b]
    OBVIOUS
  <2>3. S[b] # <<>> /\ l = LastOf(S[b]) /\ l \in Msg /\ O[l] = b
    BY <2>1, <2>2, <1>1, HeadFound DEF Tidy
  <2>4. /\ R \in Messages /\ R.strategy = N.strategy /\ R.size = N.size
        /\ R.link = N.link /\ R.freeMSG = N.freeMSG /\ R.head = N.head /\ R.tail = N.tail
        /\ R.body = [N.body EXCEPT ![m] = NoBody]
    BY <2>1, <1>2 DEF BlockBack
  <2>5. /\ R.count = [N.count EXCEPT ![b] = @ + 1]
        /\ R.rep[m] = 0 /\ R.rep[l] = N.rep[l] + 1
        /\ \A n \in Msg \ {m, l} : R.rep[n] = N.rep[n]
    BY <2>2, <1>2, <1>9 DEF Counted
  <2>6. \A n \in Msg \ {m} : R.body[n] = N.body[n]
    BY <2>4 DEF Messages
  <2>7. R.count[b] = N.count[b] + 1 /\ \A c \in Mailboxes \ {b} : R.count[c] = N.count[c]
    BY <2>5 DEF Messages
  <2>8. Ordered(R, S, O)
    <3>1. ASSUME NEW n \in Msg, O[n] = 0
          PROVE  R.rep[n] = 0
      <4>1. n # l
        BY <2>3, <3>1, BoxNotZero
      <4> QED
        BY <4>1, <2>5, <3>1 DEF Ordered
    <3>2. ASSUME NEW c \in Mailboxes
          PROVE  Tidy(R, S[c], c)
      <4>1. Tidy(N, S[c], c)
        BY DEF Ordered
      <4>2. CASE c # b
        BY <4>1, <4>2, <2>4, <2>7 DEF Tidy
      <4>3. CASE c = b
        <5>1. Len(S[b]) \in Nat
          BY <1>1, QueueEnds
        <5> QED
          BY <4>1, <4>3, <5>1, <1>9, <2>4, <2>7 DEF Tidy
      <4> QED
        BY <4>2, <4>3
    <3> QED
      BY <3>1, <3>2, <2>4, NothingMoved
  <2>9. ASSUME NEW c \in Mailboxes \ {b}
        PROVE  Unread(N, S, R, S, c)
    <3>1. \A n \in Msg \ {m, l} : R.body[n] = N.body[n] /\ R.rep[n] = N.rep[n]
      BY <2>5, <2>6
    <3>2. O[m] # c /\ O[l] # c
      BY <1>3, <2>3, BoxNotZero
    <3> QED
      BY <3>1, <3>2, ElsewhereUnread
  <2>10. Says(R, S[b]) = Gained(Says(N, S[b]), body)
    <3>1. \A i, j \in 1 .. Len(S[b]) : S[b][i] = S[b][j] => i = j
      BY <1>1 DEF Queue, Holds
    <3>2. \A i \in 1 .. Len(S[b]) : R.body[S[b][i]] = N.body[S[b][i]]
      BY <1>7, <2>6
    <3>3. \A i \in 1 .. Len(S[b]) : S[b][i] # LastOf(S[b]) => R.rep[S[b][i]] = N.rep[S[b][i]]
      BY <1>7, <2>3, <2>5
    <3>4. R.rep[LastOf(S[b])] = N.rep[LastOf(S[b])] + 1
      BY <2>3, <2>5
    <3>5. CountedAtEnd(N, R, S[b])
      BY <3>1, <3>2, <3>3, <3>4 DEF CountedAtEnd
    <3>6. S[b] \in Seq(Msg) /\ S[b] # <<>>
      BY <1>1, <2>3
    <3>7. N.body[LastOf(S[b])] = body /\ N.rep[LastOf(S[b])] < MaxRepeat
      BY <2>2, <2>3, <1>9 DEF Counted, Countable
    <3>8. Says(R, S[b]) = Gained(Says(N, S[b]), N.body[LastOf(S[b])])
      BY <3>5, <3>6, <3>7, CountedIsGained
    <3> QED
      BY <3>7, <3>8
  <2>11. S \in [Box0 -> Seq(Msg)] /\ O \in [Msg -> Box0]
    BY DEF Ordered
  <2>12. Elsewhere(N, R, b)
    BY <2>4, <2>7 DEF Elsewhere
  <2> QED
    BY <2>4, <2>8, <2>9, <2>10, <2>11, <2>12 DEF MessageIn, UnreadBut
<1>10. CASE Refused(N, R, b)
  <2>1. BlockBack(N, R, b)
    BY <1>10 DEF Refused
  <2>2. /\ R \in Messages /\ R.strategy = N.strategy /\ R.size = N.size
        /\ R.link = N.link /\ R.freeMSG = N.freeMSG /\ R.head = N.head /\ R.tail = N.tail
        /\ R.body = [N.body EXCEPT ![m] = NoBody]
    BY <2>1, <1>2 DEF BlockBack
  <2>3. R.count = N.count /\ R.rep = [N.rep EXCEPT ![m] = 0]
    BY <1>2, <1>10 DEF Refused
  <2>4. /\ R.rep[m] = 0
        /\ \A n \in Msg \ {m} : R.body[n] = N.body[n] /\ R.rep[n] = N.rep[n]
    BY <2>2, <2>3 DEF Messages
  <2>5. Ordered(R, S, O)
    <3>1. \A n \in Msg : O[n] = 0 => R.rep[n] = 0
      BY <2>4 DEF Ordered
    <3>2. \A c \in Mailboxes : Tidy(R, S[c], c)
      BY <2>2, <2>3 DEF Ordered, Tidy
    <3> QED
      BY <3>1, <3>2, <2>2, NothingMoved
  <2>6. ASSUME NEW c \in Mailboxes
        PROVE  Unread(N, S, R, S, c)
    <3>1. \A n \in Msg \ {m, m} : R.body[n] = N.body[n] /\ R.rep[n] = N.rep[n]
      BY <2>4
    <3>2. O[m] # c
      BY <1>3, BoxNotZero
    <3> QED
      BY <3>1, <3>2, ElsewhereUnread
  <2>7. N.strategy[b] = "OLDEST" /\ Says(R, S[b]) = Says(N, S[b])
    BY <2>6, <1>10 DEF Unread, Refused
  <2>8. S \in [Box0 -> Seq(Msg)] /\ O \in [Msg -> Box0]
    BY DEF Ordered
  <2>9. Elsewhere(N, R, b)
    BY <2>2, <2>3 DEF Elsewhere
  <2> QED
    BY <2>2, <2>5, <2>6, <2>7, <2>8, <2>9 DEF MessageIn, UnreadBut
<1> QED
  BY <1>6, <1>8, <1>9, <1>10

LEMMA TakeMsgElsewhere ==
  ASSUME NEW N \in Messages, NEW b \in Mailboxes, NEW R, R = TakeMsg(N, b)
  PROVE  Elsewhere(N, R, b)
<1>1. CASE N.count[b] # 0 /\ N.head[b] # 0
  <2>1. FreedFirst(N, R, b, N.head[b])
    BY <1>1, TakeMsgFields
  <2> QED
    BY <2>1 DEF FreedFirst
<1>2. CASE ~(N.count[b] # 0 /\ N.head[b] # 0)
  <2>1. R = N \/ R = [N EXCEPT !.count[b] = @ - 1]
    BY <1>2, TakeMsgFields
  <2> QED
    BY <2>1 DEF Messages, Elsewhere
<1> QED
  BY <1>1, <1>2

(* A queue has at most as many messages as there are blocks.               *)
LEMMA QueueShort ==
  ASSUME NEW link, NEW h, NEW s, NEW O, NEW b, Queue(link, h, s, O, b)
  PROVE  Len(s) \in 0 .. NR_MSG
<1> DEFINE f == [i \in 1 .. Len(s) |-> s[i]]
<1>1. Len(s) \in Nat /\ NR_MSG \in Nat /\ \A i \in 1 .. Len(s) : s[i] \in Msg
  BY QueueEnds, MessagesAssumption
<1>2. f \in Injection(1 .. Len(s), Msg)
  BY <1>1 DEF Queue, Holds, Injection, IsInjective
<1>3. /\ IsFiniteSet(Msg)
      /\ Cardinality(Msg) = NR_MSG
      /\ Cardinality(1 .. Len(s)) = Len(s)
  BY <1>1, CountUpTo DEF Msg
<1>4. Cardinality(1 .. Len(s)) <= Cardinality(Msg)
  BY <1>2, <1>3, FS_Injection
<1> QED
  BY <1>1, <1>3, <1>4

(* After k rounds the loop of FMTK_EmptyMbx has freed k messages or all.   *)
Emptied(N, S, b, e, k) ==
  /\ Elsewhere(N, e.M, b)
  /\ \E S2 \in [Box0 -> Seq(Msg)], O2 \in [Msg -> Box0] :
       /\ Ordered(e.M, S2, O2)
       /\ UnreadBut(N, S, e.M, S2, b)
       /\ S2[b] = <<>> \/ (e.more /\ Len(S2[b]) + k <= NR_MSG)

LEMMA EmptyRoundFrees ==
  ASSUME NEW N \in Messages, NEW S, NEW b \in Mailboxes,
         NEW e \in Emptying, NEW k \in Nat, Emptied(N, S, b, e, k),
         NEW r, r = EmptyRound(b)[e]
  PROVE  r \in Emptying /\ Emptied(N, S, b, r, k + 1)
<1>1. PICK S2 \in [Box0 -> Seq(Msg)], O2 \in [Msg -> Box0] :
        /\ Ordered(e.M, S2, O2)
        /\ UnreadBut(N, S, e.M, S2, b)
        /\ S2[b] = <<>> \/ (e.more /\ Len(S2[b]) + k <= NR_MSG)
  BY DEF Emptied
<1>2. PICK K \in Messages : K = e.M
  BY DEF Emptying
<1>3. Elsewhere(N, K, b)
  BY <1>2 DEF Emptied
<1>a. Ordered(K, S2, O2) /\ UnreadBut(N, S, K, S2, b)
  BY <1>1, <1>2
<1>4. CASE e.more = FALSE
  <2>1. r = e /\ S2[b] = <<>>
    BY <1>1, <1>4 DEF EmptyRound, Emptying
  <2> QED
    BY <2>1, <1>1, <1>2, <1>3 DEF Emptied
<1>5. CASE e.more # FALSE
  <2>1. PICK R : R = TakeMsg(K, b)
    OBVIOUS
  <2>2. PICK more : more = (Dequeued(K, b) # 0)
    OBVIOUS
  <2>3. R \in Messages /\ Elsewhere(K, R, b)
    BY <2>1, TakeMsgFields, TakeMsgElsewhere
  <2>4. r = [M |-> R, more |-> more]
    BY <1>2, <1>5, <2>1, <2>2 DEF EmptyRound, Emptying
  <2>5. r \in Emptying /\ r.M = R /\ r.more = more
    BY <2>2, <2>3, <2>4 DEF Emptying
  <2>6. Elsewhere(N, R, b)
    BY <1>3, <2>3 DEF Elsewhere
  <2>7. CASE S2[b] = <<>>
    <3>1. Ordered(R, S2, O2) /\ \A c \in Mailboxes : Unread(K, S2, R, S2, c)
      BY <1>a, <2>1, <2>7, TakeMsgKeeps
    <3>2. UnreadBut(N, S, R, S2, b)
      BY <1>a, <3>1 DEF Unread, UnreadBut
    <3> QED
      BY <2>5, <2>6, <2>7, <3>1, <3>2 DEF Emptied
  <2>8. CASE S2[b] # <<>>
    <3>1. PICK S3 \in [Box0 -> Seq(Msg)], O3 \in [Msg -> Box0] :
            FirstRead(K, S2, R, S3, O3, b)
      BY <1>a, <2>1, <2>8, TakeMsgKeeps
    <3>2. UnreadBut(N, S, R, S3, b)
      BY <1>a, <3>1 DEF FirstRead, Unread, UnreadBut
    <3>3. more = TRUE
      <4>1. K.head[b] \in Msg /\ Dequeued(K, b) = K.head[b]
        BY <1>a, <2>8, HeadFound
      <4> QED
        BY <4>1, <2>2, BoxNotZero
    <3>4. Len(S3[b]) + (k + 1) <= NR_MSG
      <4>1. S2[b] \in Seq(Msg) /\ Len(S2[b]) + k <= NR_MSG
        BY <1>1, <2>8, BoxNotZero
      <4>2. Len(S2[b]) \in Nat /\ Len(S3[b]) = Len(S2[b]) - 1
        BY <4>1, <2>8, <3>1, LenProperties, HeadTailProperties DEF FirstRead
      <4>3. PICK n \in Int : n = NR_MSG
        BY MessagesAssumption
      <4>4. PICK x \in Nat : x = Len(S2[b])
        BY <4>2
      <4>5. x + k <= n
        BY <4>1, <4>3, <4>4
      <4>6. (x - 1) + (k + 1) <= n
        BY <4>5
      <4> QED
        BY <4>2, <4>3, <4>4, <4>6
    <3> QED
      BY <2>5, <2>6, <3>1, <3>2, <3>3, <3>4 DEF Emptied, FirstRead
  <2> QED
    BY <2>7, <2>8
<1> QED
  BY <1>4, <1>5

LEMMA EmptyQueueKeeps ==
  ASSUME NEW N \in Messages, NEW S, NEW O, Ordered(N, S, O), NEW b \in Mailboxes,
         NEW R, R = EmptyQueue(N, b)
  PROVE  /\ R \in Messages
         /\ Elsewhere(N, R, b)
         /\ \E S2 \in [Box0 -> Seq(Msg)], O2 \in [Msg -> Box0] :
              /\ Ordered(R, S2, O2)
              /\ S2[b] = <<>>
              /\ UnreadBut(N, S, R, S2, b)
<1> DEFINE f == EmptyRound(b)
           s == [M |-> N, more |-> TRUE]
           I == Iterate(f, s)
           D == {k \in Nat : Emptied(N, S, b, I[k], k)}
<1>1. f \in [Emptying -> Emptying]
  <2>1. ASSUME NEW e \in Emptying
        PROVE  f[e] \in Emptying
    <3>1. TakeMsg(e.M, b) \in Messages
      BY TakeMsgFields DEF Emptying
    <3> QED
      BY <3>1 DEF EmptyRound, Emptying
  <2>2. f = [e \in Emptying |-> f[e]]
    BY DEF EmptyRound
  <2> HIDE DEF f
  <2> QED
    BY <2>1, <2>2
<1>2. s \in Emptying /\ s.M = N /\ s.more = TRUE
  BY DEF Emptying
<1> HIDE DEF f, s, D
<1>3. I \in [Nat -> Emptying] /\ I[0] = s /\ \A n \in Nat : I[n+1] = f[I[n]]
  <2>1. s \in Emptying
    BY <1>2
  <2> QED
    BY <1>1, <2>1, IterateDef
<1> HIDE DEF I
<1> USE DEF D
<1>4. 0 \in D
  <2>1. Len(S[b]) + 0 <= NR_MSG
    <3>1. Queue(N.link, N.head[b], S[b], O, b)
      BY HeadFound
    <3>2. Len(S[b]) \in 0 .. NR_MSG
      BY <3>1, QueueShort
    <3> QED
      BY <3>2, MessagesAssumption
  <2>2. Elsewhere(N, N, b) /\ UnreadBut(N, S, N, S, b)
    BY DEF Elsewhere, Unread, UnreadBut
  <2>3. S \in [Box0 -> Seq(Msg)] /\ O \in [Msg -> Box0]
    BY DEF Ordered
  <2>4. Emptied(N, S, b, s, 0)
    BY <1>2, <2>1, <2>2, <2>3 DEF Emptied
  <2> QED
    BY <1>3, <2>4
<1>5. ASSUME NEW k \in Nat, k \in D
      PROVE  k + 1 \in D
  <2>1. I[k] \in Emptying /\ Emptied(N, S, b, I[k], k) /\ I[k + 1] = f[I[k]]
    BY <1>3, <1>5
  <2>2. Emptied(N, S, b, I[k + 1], k + 1)
    BY <2>1, EmptyRoundFrees DEF f
  <2> QED
    BY <2>2
<1> HIDE DEF D
<1>6. Nat \subseteq D
  BY <1>4, <1>5, NatSubsetInduction
<1>7. PICK k \in Nat : k = NR_MSG + 1
  BY MessagesAssumption
<1>8. PICK e \in Emptying : e = I[k]
  BY <1>3
<1>9. e.M = R /\ Emptied(N, S, b, e, k)
  BY <1>6, <1>7, <1>8 DEF D, I, f, s, EmptyQueue
<1>10. PICK S2 \in [Box0 -> Seq(Msg)], O2 \in [Msg -> Box0] :
         /\ Ordered(R, S2, O2)
         /\ UnreadBut(N, S, R, S2, b)
         /\ S2[b] = <<>> \/ Len(S2[b]) + k <= NR_MSG
  BY <1>9 DEF Emptied
<1>11. S2[b] = <<>>
  <2>1. Len(S2[b]) \in Nat
    <3>1. S2[b] \in Seq(Msg)
      BY BoxNotZero
    <3> QED
      BY <3>1, LenProperties
  <2>2. PICK x \in Nat : x = Len(S2[b])
    BY <2>1
  <2>3. ~(x + k <= NR_MSG)
    BY <1>7, MessagesAssumption
  <2> QED
    BY <2>2, <2>3, <1>10
<1>12. R \in Messages
  BY <1>9 DEF Emptying
<1> QED
  BY <1>9, <1>10, <1>11, <1>12 DEF Emptied

-----------------------------------------------------------------------------
(* What a reader of the links finds.                                       *)

(* One round of a reader that starts at h.                                 *)
Grow(link, h) ==
  [s \in Seq(Msg) |->
     LET n == IF s = <<>> THEN h ELSE link[Last(s)]
     IN  IF n = 0 \/ Contains(s, n) THEN s ELSE Append(s, n)]

(* The reader has met the first k blocks, and goes on to the next.         *)
GrowsOn(link, h, s, k) ==
  /\ k < Len(s) => Grow(link, h)[SubSeq(s, 1, k)] = SubSeq(s, 1, k + 1)
  /\ k = Len(s) => Grow(link, h)[SubSeq(s, 1, k)] = SubSeq(s, 1, k)

LEMMA GrowNext ==
  ASSUME NEW link, NEW h, NEW s, NEW O, NEW b, Queue(link, h, s, O, b)
  PROVE  \A k \in 0 .. Len(s) : GrowsOn(link, h, s, k)
<1> TAKE k \in 0 .. Len(s)
<1>a. PICK q : q = SubSeq(s, 1, k)
  OBVIOUS
<1>1. /\ s \in Seq(Msg) /\ Len(s) \in Nat /\ k \in Nat /\ k <= Len(s)
      /\ \A i \in 1 .. Len(s) : s[i] \in Msg
  BY QueueEnds DEF Queue, Chain
<1>2. \A i \in 1 .. k : i \in 1 .. Len(s)
  BY <1>1
<1>3. /\ q \in Seq(Msg)
      /\ Len(q) = k
      /\ \A i \in 1 .. k : q[i] = s[i]
  <2>1. \A i \in 1 .. k : s[i] \in Msg
    BY <1>1, <1>2
  <2>2. /\ q \in Seq(Msg)
        /\ Len(q) = IF 1 <= k THEN k - 1 + 1 ELSE 0
        /\ \A i \in 1 .. k - 1 + 1 : q[i] = s[1 + i - 1]
    BY <2>1, <1>1, <1>a, SubSeqProperties
  <2>3. k - 1 + 1 = k /\ \A i \in 1 .. k : 1 + i - 1 = i
    BY <1>1
  <2>4. Len(q) = k
    BY <2>2, <1>1
  <2> QED
    BY <2>2, <2>3, <2>4
<1>4. q = <<>> <=> k = 0
  <2>1. q = <<>> => Len(q) = 0
    BY EmptySeq
  <2>2. q # <<>> => Len(q) # 0
    BY <1>3, EmptySeq
  <2> QED
    BY <2>1, <2>2, <1>3
<1>5. PICK n : n = IF q = <<>> THEN h ELSE link[Last(q)]
  OBVIOUS
<1>6. n = IF k = Len(s) THEN 0 ELSE s[k + 1]
  <2>1. CASE k = 0
    <3>1. s = <<>> <=> Len(s) = 0
      BY QueueEnds
    <3>2. h = IF s = <<>> THEN 0 ELSE s[1]
      BY DEF Queue, Chain
    <3> QED
      BY <2>1, <3>1, <3>2, <1>4, <1>5
  <2>2. CASE k # 0
    <3>1. k \in 1 .. k /\ k \in 1 .. Len(s)
      BY <2>2, <1>1
    <3>2. Last(q) = s[k]
      BY <3>1, <1>3 DEF Last
    <3>3. n = link[s[k]]
      BY <2>2, <3>2, <1>4, <1>5
    <3> QED
      BY <3>1, <3>3 DEF Queue, Chain
  <2> QED
    BY <2>1, <2>2
<1>7. Grow(link, h)[q] = IF n = 0 \/ Contains(q, n) THEN q ELSE Append(q, n)
  BY <1>3, <1>5 DEF Grow
<1>8. ASSUME k < Len(s)
      PROVE  Grow(link, h)[q] = SubSeq(s, 1, k + 1)
  <2>1. k + 1 \in 1 .. Len(s) /\ k # Len(s)
    BY <1>1, <1>8
  <2>2. n = s[k + 1] /\ n \in Msg /\ n # 0
    BY <2>1, <1>1, <1>6, BoxNotZero
  <2>3. ~Contains(q, n)
    <3>1. ASSUME NEW i \in 1 .. k, q[i] = n
          PROVE  FALSE
      <4>1. s[i] = s[k + 1] /\ i \in 1 .. Len(s)
        BY <3>1, <2>2, <1>2, <1>3
      <4>2. i = k + 1
        BY <4>1, <2>1 DEF Queue, Holds
      <4> QED
        BY <4>2, <1>1
    <3> QED
      BY <3>1, <1>3 DEF Contains
  <2>4. Grow(link, h)[q] = Append(q, n)
    BY <2>2, <2>3, <1>7
  <2>5. SubSeq(s, 1, k + 1) = Append(q, n)
    <3>1. /\ Append(q, n) \in Seq(Msg) /\ Len(Append(q, n)) = k + 1
          /\ \A i \in 1 .. k : Append(q, n)[i] = s[i]
          /\ Append(q, n)[k + 1] = s[k + 1]
      BY <2>2, <1>3, AppendProperties
    <3>2. \A i \in 1 .. k + 1 : s[i] \in Msg
      BY <2>1, <1>1
    <3>3. PICK r : r = SubSeq(s, 1, k + 1)
      OBVIOUS
    <3>4. /\ r \in Seq(Msg)
          /\ Len(r) = IF 1 <= k + 1 THEN (k + 1) - 1 + 1 ELSE 0
          /\ \A i \in 1 .. (k + 1) - 1 + 1 : r[i] = s[1 + i - 1]
      BY <3>2, <3>3, <1>1, SubSeqProperties
    <3>5. Len(r) = k + 1
      BY <3>4, <1>1
    <3>6. \A i \in 1 .. Len(r) : r[i] = Append(q, n)[i]
      <4> TAKE i \in 1 .. Len(r)
      <4>1. i \in 1 .. k \/ i = k + 1
        BY <3>5, <1>1
      <4>2. i \in 1 .. (k + 1) - 1 + 1 /\ 1 + i - 1 = i
        BY <3>5, <1>1
      <4>3. r[i] = s[i]
        BY <4>2, <3>4
      <4> QED
        BY <4>1, <4>3, <3>1
    <3> QED
      BY <3>1, <3>3, <3>4, <3>5, <3>6, SeqEqual
  <2> QED
    BY <2>1, <2>4, <2>5
<1>9. ASSUME k = Len(s)
      PROVE  Grow(link, h)[q] = q
  BY <1>3, <1>6, <1>7, <1>9
<1> QED
  BY <1>a, <1>1, <1>8, <1>9 DEF GrowsOn

(* So after NR_MSG rounds it has met them all.                             *)
LEMMA WalkIsChain ==
  ASSUME NEW link \in [Msg -> Msg0], NEW h, NEW s, NEW O, NEW b, Queue(link, h, s, O, b)
  PROVE  Iterate(Grow(link, h), <<>>)[NR_MSG] = s
<1> DEFINE f == Grow(link, h)
           e == <<>>
           Q == Seq(Msg)
           I == Iterate(f, e)
           Met(n) == SubSeq(s, 1, IF n <= Len(s) THEN n ELSE Len(s))
           D == {n \in Nat : I[n] = Met(n)}
<1>1. /\ s \in Seq(Msg) /\ Len(s) \in Nat
      /\ h # 0 => h \in Msg
      /\ \A m \in Msg : link[m] # 0 => link[m] \in Msg
  BY QueueEnds, MessagesAssumption DEF Queue, Chain, Msg, Msg0
<1>2. f \in [Q -> Q]
  <2>1. ASSUME NEW q \in Q
        PROVE  f[q] \in Q
    <3>1. PICK n : n = IF q = <<>> THEN h ELSE link[Last(q)]
      OBVIOUS
    <3>2. q # <<>> => Last(q) \in Msg
      BY LenProperties, EmptySeq DEF Last
    <3>3. n # 0 => n \in Msg
      BY <3>1, <3>2, <1>1
    <3>4. f[q] = IF n = 0 \/ Contains(q, n) THEN q ELSE Append(q, n)
      BY <3>1 DEF Grow
    <3> QED
      BY <3>3, <3>4, AppendProperties
  <2>2. f = [q \in Q |-> f[q]]
    BY DEF Grow
  <2> HIDE DEF f
  <2> QED
    BY <2>1, <2>2
<1>3. e \in Q
  BY EmptySeq
<1> HIDE DEF f, e, D, Q
<1>4. /\ I \in [Nat -> Q]
      /\ I[0] = e
      /\ \A n \in Nat : I[n+1] = f[I[n]]
  BY <1>2, <1>3, IterateDef
<1> HIDE DEF I
<1>5. 0 \in D
  <2>1. SubSeq(s, 1, 0) = e
    BY SubSeqEmpty DEF e
  <2>2. Met(0) = SubSeq(s, 1, 0)
    BY <1>1
  <2> QED
    BY <2>1, <2>2, <1>4 DEF D
<1>6. ASSUME NEW n \in Nat, n \in D
      PROVE  n + 1 \in D
  <2>1. PICK q : q = I[n]
    OBVIOUS
  <2>2. q = Met(n) /\ I[n + 1] = f[q]
    BY <2>1, <1>4, <1>6 DEF D
  <2>3. CASE n < Len(s)
    <3>1. n \in 0 .. Len(s) /\ n + 1 <= Len(s) /\ n <= Len(s)
      BY <2>3, <1>1
    <3>2. q = SubSeq(s, 1, n) /\ Met(n + 1) = SubSeq(s, 1, n + 1)
      BY <3>1, <2>2
    <3>3. Grow(link, h)[q] = SubSeq(s, 1, n + 1)
      <4>1. GrowsOn(link, h, s, n)
        BY <3>1, GrowNext
      <4> QED
        BY <4>1, <3>2, <2>3 DEF GrowsOn
    <3> HIDE DEF Met
    <3> QED
      BY <3>2, <3>3, <2>2 DEF D, f
  <2>4. CASE ~(n < Len(s))
    <3>1. PICK k : k = Len(s)
      OBVIOUS
    <3>2. k \in 0 .. Len(s) /\ ~(n + 1 <= Len(s)) /\ (n <= Len(s) => n = Len(s))
      BY <2>4, <3>1, <1>1
    <3>3. q = SubSeq(s, 1, k) /\ Met(n + 1) = SubSeq(s, 1, k)
      BY <3>1, <3>2, <2>2
    <3>4. Grow(link, h)[q] = q
      <4>1. GrowsOn(link, h, s, k)
        BY <3>2, GrowNext
      <4> QED
        BY <4>1, <3>1, <3>3 DEF GrowsOn
    <3> HIDE DEF Met
    <3>5. q = Met(n + 1)
      BY <3>3
    <3> QED
      BY <3>4, <3>5, <2>2 DEF D, f
  <2> QED
    BY <2>3, <2>4
<1> HIDE DEF D
<1>7. Nat \subseteq D
  BY <1>5, <1>6, NatSubsetInduction
<1>8. NR_MSG \in D
  BY <1>7, MessagesAssumption
<1>9. I[NR_MSG] = SubSeq(s, 1, Len(s))
  <2>1. Len(s) \in 0 .. NR_MSG
    BY QueueShort
  <2>2. NR_MSG <= Len(s) => NR_MSG = Len(s)
    BY <2>1, MessagesAssumption
  <2> QED
    BY <1>8, <2>2 DEF D
<1>10. SubSeq(s, 1, Len(s)) = s
  BY <1>1, SubSeqFull
<1> QED
  BY <1>9, <1>10 DEF I, f, e

LEMMA ContentSays ==
  ASSUME NEW N \in Messages, NEW S, NEW O, Ordered(N, S, O)
  PROVE  /\ From(N, N.freeMSG) = S[0]
         /\ \A b \in Mailboxes : /\ QueueOf(N, b) = S[b]
                                /\ Content(N, b) = Says(N, S[b])
<1>1. ASSUME NEW h, NEW c, Queue(N.link, h, S[c], O, c)
      PROVE  From(N, h) = S[c]
  <2>1. N.link \in [Msg -> Msg0]
    BY DEF Messages
  <2>2. From(N, h) = Iterate(Grow(N.link, h), <<>>)[NR_MSG]
    BY DEF From, Grow
  <2> QED
    BY <1>1, <2>1, <2>2, WalkIsChain
<1>2. From(N, N.freeMSG) = S[0]
  <2>1. Queue(N.link, N.freeMSG, S[0], O, 0)
    BY BoxNotZero DEF Ordered, First
  <2> QED
    BY <1>1, <2>1
<1>3. ASSUME NEW b \in Mailboxes
      PROVE  QueueOf(N, b) = S[b]
  <2>1. Queue(N.link, N.head[b], S[b], O, b)
    BY HeadFound
  <2> QED
    BY <1>1, <2>1 DEF QueueOf
<1>4. ASSUME NEW b \in Mailboxes
      PROVE  Content(N, b) = Says(N, S[b])
  <2>1. S[b] \in Seq(Msg)
    BY HeadFound
  <2>2. DOMAIN S[b] = 1 .. Len(S[b])
    BY <2>1, LenProperties
  <2> QED
    BY <2>2, <1>3 DEF Content, Says
<1> QED
  BY <1>2, <1>3, <1>4

-----------------------------------------------------------------------------
(* A function defined by recursion along the links reads every queue.      *)

(* F says of a block what e says of it and then what it says of the next.  *)
Reads(F, link, e) ==
  F = [m \in Msg0 |-> IF m = 0 THEN <<>> ELSE <<e[m]>> \o F[link[m]]]

(* What e says of the blocks of s from the i-th on.                        *)
Rest(e, s, i) == [j \in 1 .. Len(s) + 1 - i |-> e[s[i + j - 1]]]

LEMMA RestNext ==
  ASSUME NEW e, NEW s \in Seq(Msg)
  PROVE  /\ Rest(e, s, Len(s) + 1) = <<>>
         /\ \A i \in 1 .. Len(s) : Rest(e, s, i) = <<e[s[i]]>> \o Rest(e, s, i + 1)
<1>1. Len(s) \in Nat /\ \A i \in 1 .. Len(s) : s[i] \in Msg
  BY LenProperties
<1>2. Rest(e, s, Len(s) + 1) = <<>>
  <2>1. Len(s) + 1 - (Len(s) + 1) = 0 /\ 1 .. 0 = {}
    BY <1>1
  <2>2. Rest(e, s, Len(s) + 1) = [j \in {} |-> e[s[Len(s) + 1 + j - 1]]]
    BY <2>1 DEF Rest
  <2>3. Rest(e, s, Len(s) + 1) \in Seq(Msg) /\ Len(Rest(e, s, Len(s) + 1)) = 0
    <3>1. Rest(e, s, Len(s) + 1) = [j \in 1 .. 0 |-> e[s[Len(s) + 1 + j - 1]]]
      BY <2>1, <2>2
    <3>2. Rest(e, s, Len(s) + 1) \in [1 .. 0 -> Msg]
      BY <2>1, <3>1
    <3> QED
      BY <3>2
  <2> QED
    BY <2>3, EmptySeq
<1>3. ASSUME NEW i \in 1 .. Len(s)
      PROVE  Rest(e, s, i) = <<e[s[i]]>> \o Rest(e, s, i + 1)
  <2> DEFINE T == {e[m] : m \in Msg}
             x == e[s[i]]
             a == Rest(e, s, i)
             r == Rest(e, s, i + 1)
             n == Len(s) - i
  <2>1. /\ n \in Nat /\ Len(s) + 1 - i = n + 1 /\ Len(s) + 1 - (i + 1) = n
        /\ \A j \in 1 .. n + 1 : i + j - 1 \in 1 .. Len(s)
        /\ \A j \in 1 .. n : (i + 1) + j - 1 = i + (j + 1) - 1 /\ j + 1 \in 1 .. n + 1
    BY <1>1
  <2>2. \A j \in 1 .. n + 1 : a[j] = e[s[i + j - 1]]
    BY <2>1 DEF Rest
  <2>3. \A j \in 1 .. n : r[j] = e[s[(i + 1) + j - 1]]
    BY <2>1 DEF Rest
  <2>4. a = [j \in 1 .. n + 1 |-> a[j]] /\ r = [j \in 1 .. n |-> r[j]]
    BY <2>1 DEF Rest
  <2>5. \A j \in 1 .. n + 1 : e[s[i + j - 1]] \in T
    BY <1>1, <2>1
  <2>6. x \in T
    BY <1>1
  <2> HIDE DEF T, a, r, n
  <2>7. \A j \in 1 .. n : r[j] = a[j + 1]
    BY <2>1, <2>2, <2>3
  <2>8. a[1] = x
    <3>1. 1 \in 1 .. n + 1 /\ i + 1 - 1 = i
      BY <2>1
    <3> QED
      BY <3>1, <2>2
  <2>9. /\ \A j \in 1 .. n + 1 : a[j] \in T
        /\ \A j \in 1 .. n : r[j] \in T
    <3>1. \A j \in 1 .. n + 1 : a[j] \in T
      BY <2>2, <2>5, Zenon
    <3>2. \A j \in 1 .. n : j + 1 \in 1 .. n + 1
      BY <2>1
    <3> QED
      BY <3>1, <3>2, <2>7, Zenon
  <2>10. a \in Seq(T) /\ Len(a) = n + 1 /\ r \in Seq(T) /\ Len(r) = n
    <3>1. a \in [1 .. n + 1 -> T] /\ r \in [1 .. n -> T]
      BY <2>4, <2>9
    <3> QED
      BY <3>1, <2>1
  <2> HIDE DEF x
  <2>11. <<x>> \in Seq(T) /\ Len(<<x>>) = 1 /\ <<x>>[1] = x
    BY <2>6
  <2>12. PICK c : c = <<x>> \o r
    OBVIOUS
  <2>13. /\ c \in Seq(T) /\ Len(c) = 1 + n
         /\ \A j \in 1 .. 1 + n : c[j] = IF j <= 1 THEN <<x>>[j] ELSE r[j - 1]
    BY <2>10, <2>11, <2>12, ConcatProperties
  <2>14. \A j \in 1 .. Len(a) : a[j] = c[j]
    <3> TAKE j \in 1 .. Len(a)
    <3>1. CASE j = 1
      BY <3>1, <2>1, <2>8, <2>11, <2>13
    <3>2. CASE j # 1
      <4>1. j - 1 \in 1 .. n /\ (j - 1) + 1 = j /\ j \in 1 .. 1 + n /\ ~(j <= 1)
        BY <3>2, <2>1, <2>10
      <4> QED
        BY <4>1, <2>7, <2>13
    <3> QED
      BY <3>1, <3>2
  <2>15. a = c
    BY <2>1, <2>10, <2>13, <2>14, SeqEqual
  <2> QED
    BY <2>12, <2>15 DEF a, r, x
<1> QED
  BY <1>2, <1>3

(* Where the i-th block of a queue leads.                                  *)
Step(s, i) == IF i = Len(s) + 1 THEN 0 ELSE s[i]

LEMMA QueueLeads ==
  ASSUME NEW link, NEW h, NEW s, NEW O, NEW b, Queue(link, h, s, O, b)
  PROVE  /\ s \in Seq(Msg) /\ Len(s) \in Nat
         /\ h = Step(s, 1)
         /\ \A i \in 1 .. Len(s) : /\ s[i] \in Msg /\ Step(s, i) = s[i] /\ O[s[i]] = b
                                   /\ link[s[i]] = Step(s, i + 1)
<1>1. /\ s \in Seq(Msg) /\ Len(s) \in Nat
      /\ \A i \in 1 .. Len(s) : s[i] \in Msg
      /\ s = <<>> <=> Len(s) = 0
  BY QueueEnds DEF Queue, Chain
<1>2. h = Step(s, 1)
  BY <1>1 DEF Queue, Chain, Step
<1>3. ASSUME NEW i \in 1 .. Len(s)
      PROVE  Step(s, i) = s[i] /\ O[s[i]] = b /\ link[s[i]] = Step(s, i + 1)
  BY <1>1 DEF Queue, Chain, Holds, Step
<1> QED
  BY <1>1, <1>2, <1>3

LEMMA ReadsQueue ==
  ASSUME NEW link, NEW h, NEW s, NEW O, NEW b, Queue(link, h, s, O, b),
         NEW e, NEW F, Reads(F, link, e)
  PROVE  F[h] = [i \in 1 .. Len(s) |-> e[s[i]]]
<1> DEFINE L == Len(s)
           D == {k \in Nat : k <= L => F[Step(s, L + 1 - k)] = Rest(e, s, L + 1 - k)}
<1>1. /\ s \in Seq(Msg) /\ L \in Nat /\ h = Step(s, 1)
      /\ \A i \in 1 .. L : /\ s[i] \in Msg /\ Step(s, i) = s[i]
                           /\ link[s[i]] = Step(s, i + 1)
  BY QueueLeads
<1>2. /\ 0 \in Msg0 /\ \A m \in Msg : m \in Msg0 /\ m # 0
  BY MessagesAssumption DEF Msg, Msg0
<1>3. /\ F[0] = <<>>
      /\ \A m \in Msg : F[m] = <<e[m]>> \o F[link[m]]
  <2>1. \A m \in Msg0 : F[m] = IF m = 0 THEN <<>> ELSE <<e[m]>> \o F[link[m]]
    BY DEF Reads
  <2> QED
    BY <2>1, <1>2
<1>4. /\ Rest(e, s, L + 1) = <<>>
      /\ \A i \in 1 .. L : Rest(e, s, i) = <<e[s[i]]>> \o Rest(e, s, i + 1)
  BY <1>1, RestNext
<1> HIDE DEF L
<1>5. 0 \in D
  <2>1. L + 1 - 0 = L + 1 /\ Step(s, L + 1) = 0
    BY <1>1 DEF Step, L
  <2> QED
    BY <2>1, <1>3, <1>4
<1>6. ASSUME NEW k \in Nat, k \in D
      PROVE  k + 1 \in D
  <2> SUFFICES ASSUME k + 1 <= L
               PROVE  F[Step(s, L + 1 - (k + 1))] = Rest(e, s, L + 1 - (k + 1))
    OBVIOUS
  <2>1. PICK i \in 1 .. L : i = L - k
    BY <1>1
  <2>2. L + 1 - (k + 1) = i /\ L + 1 - k = i + 1 /\ k <= L
    BY <2>1, <1>1
  <2>3. F[Step(s, i + 1)] = Rest(e, s, i + 1)
    BY <2>2, <1>6
  <2>4. F[Step(s, i)] = <<e[s[i]]>> \o F[Step(s, i + 1)]
    BY <1>1, <1>3
  <2> QED
    BY <2>2, <2>3, <2>4, <1>4
<1> HIDE DEF D
<1>7. Nat \subseteq D
  BY <1>5, <1>6, NatSubsetInduction
<1>8. F[Step(s, 1)] = Rest(e, s, 1)
  <2>1. L \in D /\ L <= L /\ L + 1 - L = 1
    BY <1>1, <1>7
  <2> QED
    BY <2>1 DEF D
<1>9. Rest(e, s, 1) = [i \in 1 .. Len(s) |-> e[s[i]]]
  <2>1. Len(s) + 1 - 1 = Len(s) /\ \A i \in 1 .. Len(s) : 1 + i - 1 = i
    BY <1>1 DEF L
  <2> QED
    BY <2>1 DEF Rest
<1> QED
  BY <1>1, <1>8, <1>9

(* There is such a function when every block is in a queue or alone.       *)
LEMMA ReaderExists ==
  ASSUME NEW link, NEW C, NEW head, NEW S, NEW O,
         \A c \in C : Queue(link, head[c], S[c], O, c),
         \A m \in Msg : O[m] \notin C => link[m] = 0,
         NEW e
  PROVE  \E F : Reads(F, link, e)
<1> DEFINE At(m) == CHOOSE i \in 1 .. Len(S[O[m]]) : S[O[m]][i] = m
           Told(m) == IF m = 0 THEN <<>>
                      ELSE IF O[m] \in C THEN Rest(e, S[O[m]], At(m)) ELSE <<e[m]>>
           F == [m \in Msg0 |-> Told(m)]
<1>1. /\ 0 \in Msg0 /\ \A m \in Msg0 : m # 0 <=> m \in Msg
  BY MessagesAssumption DEF Msg, Msg0
<1>2. F[0] = <<>>
  BY <1>1
<1>3. ASSUME NEW c \in C, NEW i \in 1 .. Len(S[c])
      PROVE  F[S[c][i]] = Rest(e, S[c], i)
  <2>1. Queue(link, head[c], S[c], O, c)
    OBVIOUS
  <2>2. S[c][i] \in Msg /\ O[S[c][i]] = c
    BY <2>1, QueueLeads
  <2>3. \A j \in 1 .. Len(S[c]) : S[c][j] = S[c][i] => j = i
    BY <2>1 DEF Queue, Holds
  <2>4. At(S[c][i]) = i
    BY <2>2, <2>3
  <2>5. S[c][i] \in Msg0 /\ S[c][i] # 0
    BY <2>2, <1>1 DEF Msg, Msg0
  <2> HIDE DEF At
  <2> QED
    BY <2>2, <2>4, <2>5
<1>4. ASSUME NEW m \in Msg, O[m] \notin C
      PROVE  F[m] = <<e[m]>>
  <2>1. m \in Msg0 /\ m # 0
    BY <1>1 DEF Msg, Msg0
  <2> HIDE DEF At
  <2> QED
    BY <2>1, <1>4
<1>5. F = [m \in Msg0 |-> F[m]]
  OBVIOUS
<1> HIDE DEF F
<1>6. ASSUME NEW m \in Msg
      PROVE  F[m] = <<e[m]>> \o F[link[m]]
  <2>1. CASE O[m] \in C
    <3>1. PICK s, c : c = O[m] /\ s = S[c]
      OBVIOUS
    <3>2. Queue(link, head[c], s, O, c) /\ c \in C
      BY <2>1, <3>1
    <3>3. PICK i \in 1 .. Len(s) : s[i] = m
      BY <3>1, <3>2 DEF Queue, Holds
    <3>4. s \in Seq(Msg) /\ Len(s) \in Nat /\ link[m] = Step(s, i + 1)
      BY <3>2, <3>3, QueueLeads
    <3>5. F[m] = Rest(e, s, i)
      BY <3>1, <3>2, <3>3, <1>3
    <3>6. F[link[m]] = Rest(e, s, i + 1)
      <4>1. CASE i = Len(s)
        <5>1. link[m] = 0 /\ Rest(e, s, i + 1) = <<>>
          BY <4>1, <3>4, RestNext DEF Step
        <5> QED
          BY <5>1, <1>2
      <4>2. CASE i # Len(s)
        <5>1. i + 1 \in 1 .. Len(s) /\ link[m] = s[i + 1]
          BY <4>2, <3>4 DEF Step
        <5> QED
          BY <5>1, <3>1, <3>2, <1>3
      <4> QED
        BY <4>1, <4>2
    <3>7. Rest(e, s, i) = <<e[m]>> \o Rest(e, s, i + 1)
      BY <3>3, <3>4, RestNext
    <3> QED
      BY <3>5, <3>6, <3>7
  <2>2. CASE O[m] \notin C
    <3>1. F[m] = <<e[m]>> /\ F[link[m]] = <<>>
      BY <2>2, <1>2, <1>4
    <3>2. PICK x : x = e[m]
      OBVIOUS
    <3>3. <<x>> \o <<>> = <<x>>
      <4>1. <<x>> \in Seq({x})
        OBVIOUS
      <4> QED
        BY <4>1, ConcatEmptySeq
    <3> QED
      BY <3>1, <3>2, <3>3
  <2> QED
    BY <2>1, <2>2
<1>7. F = [m \in Msg0 |-> IF m = 0 THEN <<>> ELSE <<e[m]>> \o F[link[m]]]
  <2>1. \A m \in Msg0 : F[m] = IF m = 0 THEN <<>> ELSE <<e[m]>> \o F[link[m]]
    BY <1>1, <1>2, <1>6
  <2> QED
    BY <2>1, <1>5
<1> QED
  BY <1>7 DEF Reads

(* Not all blocks are queued while one is free.                            *)
LEMMA QueuedFew ==
  ASSUME NEW N, NEW S, NEW O, Ordered(N, S, O), N.freeMSG # 0,
         NEW U, U = UNION {{b} \X (1 .. Len(S[b])) : b \in Mailboxes}
  PROVE  IsFiniteSet(U) /\ Cardinality(U) < NR_MSG
<1> DEFINE f == [u \in U |-> S[u[1]][u[2]]]
<1> PICK m : m = N.freeMSG
  OBVIOUS
<1>1. ASSUME NEW u \in U
      PROVE  u[1] \in Mailboxes /\ u[2] \in 1 .. Len(S[u[1]]) /\ u = <<u[1], u[2]>>
  OBVIOUS
<1>2. m \in Msg /\ O[m] = 0
  <2>1. Queue(N.link, m, S[0], O, 0)
    BY BoxNotZero DEF Ordered, First
  <2> QED
    BY <2>1, QueueEnds
<1>3. ASSUME NEW b \in Mailboxes, NEW i \in 1 .. Len(S[b])
      PROVE  /\ S[b][i] \in Msg \ {m} /\ O[S[b][i]] = b
             /\ \A j \in 1 .. Len(S[b]) : S[b][i] = S[b][j] => i = j
  <2>1. Queue(N.link, N.head[b], S[b], O, b) /\ b # 0
    BY HeadFound, BoxNotZero
  <2>2. S[b][i] \in Msg /\ O[S[b][i]] = b
    BY <2>1, QueueLeads
  <2> QED
    BY <2>1, <2>2, <1>2 DEF Queue, Holds
<1>4. f \in [U -> Msg \ {m}]
  BY <1>1, <1>3
<1>5. ASSUME NEW u \in U, NEW v \in U, f[u] = f[v]
      PROVE  u = v
  <2>1. PICK b, i : b = u[1] /\ i = u[2]
    OBVIOUS
  <2>2. PICK c, j : c = v[1] /\ j = v[2]
    OBVIOUS
  <2>3. /\ b \in Mailboxes /\ i \in 1 .. Len(S[b]) /\ u = <<b, i>>
        /\ c \in Mailboxes /\ j \in 1 .. Len(S[c]) /\ v = <<c, j>>
    BY <2>1, <2>2, <1>1
  <2>4. S[b][i] = S[c][j]
    BY <2>1, <2>2, <1>5
  <2>5. O[S[b][i]] = b /\ O[S[c][j]] = c
    BY <2>3, <1>3
  <2>6. b = c
    BY <2>4, <2>5
  <2>7. i = j
    BY <2>3, <2>4, <2>6, <1>3
  <2> QED
    BY <2>3, <2>6, <2>7
<1>6. f \in Injection(U, Msg \ {m})
  <2> HIDE DEF f
  <2> QED
    BY <1>4, <1>5 DEF Injection, IsInjective
<1>7. IsFiniteSet(Msg \ {m}) /\ Cardinality(Msg \ {m}) = NR_MSG - 1
  <2>1. NR_MSG \in Nat /\ IsFiniteSet(Msg) /\ Cardinality(Msg) = NR_MSG
    BY MessagesAssumption, CountUpTo DEF Msg
  <2> QED
    BY <2>1, <1>2, FS_RemoveElement
<1>8. IsFiniteSet(U) /\ Cardinality(U) <= Cardinality(Msg \ {m})
  BY <1>6, <1>7, FS_Injection
<1> QED
  <2>1. Cardinality(U) \in Nat /\ NR_MSG \in Nat
    BY <1>8, FS_CardinalityType, MessagesAssumption
  <2> QED
    BY <2>1, <1>7, <1>8

-----------------------------------------------------------------------------
(* FMTK_Initialize links the blocks in the order of their numbers.         *)
LEMMA FreshOrdered ==
  ASSUME NEW size \in Sizes, NEW strategy \in Strategy,
         NEW N, N = FreshMessages(size, strategy)
  PROVE  /\ N \in Messages
         /\ \A b \in Mailboxes : N.strategy[b] = strategy
         /\ \E S \in [Box0 -> Seq(Msg)], O \in [Msg -> Box0] : Ordered(N, S, O)
<1>1. NR_MSG \in Nat \ {0} /\ MaxRepeat \in Nat /\ size \in Nat
  BY MessagesAssumption
<1>2. /\ N.link = [m \in Msg |-> IF m = NR_MSG THEN 0 ELSE m + 1]
      /\ N.body = [m \in Msg |-> NoBody]
      /\ N.rep = [m \in Msg |-> 0]
      /\ N.freeMSG = 1
      /\ N.head = [b \in Mailboxes |-> 0]
      /\ N.tail = [b \in Mailboxes |-> 0]
      /\ N.count = [b \in Mailboxes |-> 0]
      /\ N.size = [b \in Mailboxes |-> size]
      /\ N.strategy = [b \in Mailboxes |-> strategy]
  BY DEF FreshMessages
<1>3. N \in Messages
  <2>1. /\ N.link \in [Msg -> Msg0]
        /\ N.rep \in [Msg -> 0 .. MaxRepeat]
        /\ N.freeMSG \in Msg0
        /\ 0 \in Msg0
    BY <1>1, <1>2 DEF Msg, Msg0
  <2>2. /\ N.head \in [Mailboxes -> Msg0]
        /\ N.tail \in [Mailboxes -> Msg0]
        /\ N.body \in [Msg -> Bodies \cup {NoBody}]
    BY <1>2, <2>1
  <2>3. /\ N.count \in [Mailboxes -> Int]
        /\ N.size \in [Mailboxes -> Sizes]
        /\ N.strategy \in [Mailboxes -> Strategy]
    BY <1>2
  <2>4. N = [link |-> N.link, body |-> N.body, rep |-> N.rep, freeMSG |-> N.freeMSG,
             head |-> N.head, tail |-> N.tail, count |-> N.count, size |-> N.size,
             strategy |-> N.strategy]
    BY DEF FreshMessages
  <2> QED
    BY <2>1, <2>2, <2>3, <2>4 DEF Messages
<1> DEFINE all == [i \in 1 .. NR_MSG |-> i]
<1>4. PICK S : S = [b \in Box0 |-> IF b = 0 THEN all ELSE <<>>]
  OBVIOUS
<1>5. PICK O : O = [m \in Msg |-> 0]
  OBVIOUS
<1>6. /\ all \in Seq(Msg) /\ Len(all) = NR_MSG
      /\ \A i \in 1 .. NR_MSG : all[i] = i
  BY <1>1 DEF Msg
<1> HIDE DEF all
<1>7. all # <<>>
  BY <1>1, <1>6, EmptySeq
<1>8. S \in [Box0 -> Seq(Msg)] /\ O \in [Msg -> Box0]
  <2>1. <<>> \in Seq(Msg) /\ 0 \in Box0
    BY EmptySeq, BoxNotZero
  <2> QED
    BY <2>1, <1>4, <1>5, <1>6
<1>9. S[0] = all /\ \A b \in Mailboxes : S[b] = <<>> /\ b # 0
  BY <1>4, BoxNotZero
<1>10. ASSUME NEW b \in Box0
       PROVE  Queue(N.link, First(N, b), S[b], O, b)
  <2>1. CASE b = 0
    <3>1. Chain(N.link, First(N, b), S[b])
      <4>1. First(N, b) = 1 /\ S[b] = all
        BY <2>1, <1>2, <1>9 DEF First
      <4>2. \A i \in 1 .. NR_MSG : i \in Msg /\ (i # NR_MSG => i + 1 \in 1 .. NR_MSG)
        BY <1>1 DEF Msg
      <4>3. \A i \in 1 .. Len(all) : N.link[all[i]] = IF i = Len(all) THEN 0 ELSE all[i + 1]
        BY <4>2, <1>2, <1>6
      <4>4. all[1] = 1
        BY <1>1, <1>6
      <4> QED
        BY <4>1, <4>3, <4>4, <1>6, <1>7 DEF Chain
    <3>2. Holds(S[b], O, b)
      BY <2>1, <1>5, <1>6, <1>9 DEF Holds, Msg
    <3> QED
      BY <3>1, <3>2 DEF Queue
  <2>2. CASE b # 0
    <3>1. b \in Mailboxes
      BY <2>2 DEF Box0
    <3>2. First(N, b) = 0 /\ S[b] = <<>>
      BY <2>2, <3>1, <1>2, <1>9 DEF First
    <3>3. <<>> \in Seq(Msg) /\ Len(<<>>) = 0 /\ 1 .. Len(<<>>) = {}
      BY EmptySeq
    <3>4. Chain(N.link, 0, <<>>)
      BY <3>3 DEF Chain
    <3>5. Holds(<<>>, O, b)
      BY <2>2, <3>3, <1>5 DEF Holds
    <3> QED
      BY <3>2, <3>4, <3>5 DEF Queue
  <2> QED
    BY <2>1, <2>2
<1>11. ASSUME NEW b \in Mailboxes
       PROVE  Tidy(N, S[b], b)
  <2>1. S[b] = <<>> /\ Len(<<>>) = 0
    BY <1>9, EmptySeq
  <2> QED
    BY <2>1, <1>1, <1>2 DEF Tidy, LastOf
<1>12. \A m \in Msg : N.rep[m] = 0
  BY <1>2
<1>13. Ordered(N, S, O)
  BY <1>8, <1>10, <1>11, <1>12 DEF Ordered
<1> QED
  BY <1>2, <1>3, <1>8, <1>13

-----------------------------------------------------------------------------
(* The theorems.                                                           *)

(* Mailboxes are given their strategy while they are empty, and the        *)
(* strategy NEWEST, whose trimming frees the block behind the head and     *)
(* makes it the head (msg.c 287), is not among them.                       *)
SetWhileEmpty == ~LateChange /\ "NEWEST" \notin FirstStrategies \cup NewStrategies

QueueInv ==
  /\ SetWhileEmpty
  /\ M \in Messages
  /\ \A b \in Mailboxes : M.strategy[b] # "NEWEST"
  /\ \E S \in [Box0 -> Seq(Msg)], O \in [Msg -> Box0] : Ordered(M, S, O)

LEMMA InitQueues == SetWhileEmpty /\ Init => QueueInv
<1> SUFFICES ASSUME SetWhileEmpty, Init PROVE QueueInv
  OBVIOUS
<1>1. PICK size \in Sizes, strategy \in FirstStrategies : M = FreshMessages(size, strategy)
  BY DEF Init
<1>2. strategy \in Strategy /\ strategy # "NEWEST"
  BY MsgQueueAssumption DEF SetWhileEmpty
<1> QED
  BY <1>1, <1>2, FreshOrdered DEF QueueInv, SetWhileEmpty

(* A step that keeps the invariant and every queue in its order.           *)
GoodStep == QueueInv' /\ \A b \in Mailboxes : InOrder(Content(M, b), Content(M', b))

LEMMA StepIsGood ==
  ASSUME NEW S, NEW O, SetWhileEmpty, M \in Messages, Ordered(M, S, O),
         M' \in Messages, \A b \in Mailboxes : M'.strategy[b] # "NEWEST",
         NEW S2 \in [Box0 -> Seq(Msg)], NEW O2 \in [Msg -> Box0], Ordered(M', S2, O2),
         \A b \in Mailboxes : InOrder(Says(M, S[b]), Says(M', S2[b]))
  PROVE  GoodStep
<1>1. PICK R : R = M'
  OBVIOUS
<1>2. R \in Messages /\ Ordered(R, S2, O2)
  BY <1>1
<1>3. \A b \in Mailboxes : Content(M, b) = Says(M, S[b]) /\ Content(R, b) = Says(R, S2[b])
  BY <1>2, ContentSays
<1>4. \A b \in Mailboxes : InOrder(Content(M, b), Content(R, b))
  BY <1>1, <1>3
<1>5. QueueInv'
  BY DEF QueueInv, SetWhileEmpty
<1> QED
  BY <1>1, <1>4, <1>5 DEF GoodStep

LEMMA QueueStep == QueueInv /\ [Next]_vars => GoodStep
<1> SUFFICES ASSUME QueueInv, [Next]_vars
             PROVE  GoodStep
  OBVIOUS
<1>1. PICK S \in [Box0 -> Seq(Msg)], O \in [Msg -> Box0] : Ordered(M, S, O)
  BY DEF QueueInv
<1>2. /\ SetWhileEmpty /\ M \in Messages
      /\ \A b \in Mailboxes : M.strategy[b] # "NEWEST"
  BY DEF QueueInv
<1>3. ASSUME UNCHANGED M
      PROVE  GoodStep
  <2>1. QueueInv'
    BY <1>3, <1>1, <1>2 DEF QueueInv, SetWhileEmpty
  <2>2. \A b \in Mailboxes : Content(M', b) = Content(M, b)
    BY <1>3
  <2> QED
    BY <2>1, <2>2 DEF GoodStep, InOrder
<1>4. ASSUME NEW b \in Mailboxes, NEW body \in Bodies, Send(b, body)
      PROVE  GoodStep
  <2>1. M.freeMSG # 0 /\ M' = Sent(M, b, body)
    BY <1>4 DEF Send, Accepts
  <2>2. M.strategy[b] = "NEWEST" => M.count[b] + 1 <= M.size[b]
    BY <1>2
  <2>3. M' \in Messages /\ Elsewhere(M, M', b)
    BY <2>1, <2>2, <1>1, <1>2, SentKeeps
  <2>4. PICK S2 \in [Box0 -> Seq(Msg)], O2 \in [Msg -> Box0] : MessageIn(M, S, M', S2, O2, b, body)
    BY <2>1, <2>2, <1>1, <1>2, SentKeeps
  <2>5. Ordered(M', S2, O2)
    BY <2>4 DEF MessageIn
  <2>6. \A c \in Mailboxes : InOrder(Says(M, S[c]), Says(M', S2[c]))
    <3> TAKE c \in Mailboxes
    <3>1. CASE c = b
      BY <3>1, <2>4, GainedGains DEF MessageIn, InOrder
    <3>2. CASE c # b
      BY <3>2, <2>4 DEF MessageIn, UnreadBut, Unread, InOrder
    <3> QED
      BY <3>1, <3>2
  <2>7. \A c \in Mailboxes : M'.strategy[c] # "NEWEST"
    BY <2>3, <1>2 DEF Elsewhere
  <2> QED
    BY <2>3, <2>5, <2>6, <2>7, <1>1, <1>2, StepIsGood
<1>5. ASSUME NEW b \in Mailboxes, Receive(b)
      PROVE  GoodStep
  <2>1. M' = TakeMsg(M, b)
    BY <1>5 DEF Receive
  <2>2. M' \in Messages /\ Elsewhere(M, M', b)
    BY <2>1, <1>2, TakeMsgFields, TakeMsgElsewhere
  <2>3. \A c \in Mailboxes : M'.strategy[c] # "NEWEST"
    BY <2>2, <1>2 DEF Elsewhere
  <2>4. CASE S[b] = <<>>
    <3>1. Ordered(M', S, O) /\ \A c \in Mailboxes : Unread(M, S, M', S, c)
      BY <2>1, <2>4, <1>1, <1>2, TakeMsgKeeps
    <3>2. \A c \in Mailboxes : InOrder(Says(M, S[c]), Says(M', S[c]))
      BY <3>1 DEF Unread, InOrder
    <3> QED
      BY <3>1, <3>2, <2>2, <2>3, <1>1, <1>2, StepIsGood
  <2>5. CASE S[b] # <<>>
    <3>1. PICK S2 \in [Box0 -> Seq(Msg)], O2 \in [Msg -> Box0] : FirstRead(M, S, M', S2, O2, b)
      BY <2>1, <2>5, <1>1, <1>2, TakeMsgKeeps
    <3>2. Ordered(M', S2, O2)
      BY <3>1 DEF FirstRead
    <3>3. Says(M, S[b]) # <<>>
      <4>1. S[b] \in Seq(Msg)
        BY BoxNotZero
      <4> QED
        BY <4>1, <2>5, SaysFirstGone
    <3>4. \A c \in Mailboxes : InOrder(Says(M, S[c]), Says(M', S2[c]))
      <4> TAKE c \in Mailboxes
      <4>1. CASE c = b
        BY <4>1, <3>1, <3>3 DEF FirstRead, InOrder
      <4>2. CASE c # b
        BY <4>2, <3>1 DEF FirstRead, UnreadBut, Unread, InOrder
      <4> QED
        BY <4>1, <4>2
    <3> QED
      BY <3>2, <3>4, <2>2, <2>3, <1>1, <1>2, StepIsGood
  <2> QED
    BY <2>4, <2>5
<1>6. ASSUME NEW b \in Mailboxes, EmptyMbx(b)
      PROVE  GoodStep
  <2>1. M' = EmptyQueue(M, b)
    BY <1>6 DEF EmptyMbx
  <2>2. M' \in Messages /\ Elsewhere(M, M', b)
    BY <2>1, <1>1, <1>2, EmptyQueueKeeps
  <2>3. PICK S2 \in [Box0 -> Seq(Msg)], O2 \in [Msg -> Box0] :
          /\ Ordered(M', S2, O2)
          /\ S2[b] = <<>>
          /\ UnreadBut(M, S, M', S2, b)
    BY <2>1, <1>1, <1>2, EmptyQueueKeeps
  <2>4. Says(M', <<>>) = <<>>
    BY EmptySeq DEF Says
  <2>5. \A c \in Mailboxes : InOrder(Says(M, S[c]), Says(M', S2[c]))
    <3> TAKE c \in Mailboxes
    <3>1. CASE c = b
      BY <3>1, <2>3, <2>4 DEF InOrder
    <3>2. CASE c # b
      BY <3>2, <2>3 DEF UnreadBut, Unread, InOrder
    <3> QED
      BY <3>1, <3>2
  <2>6. \A c \in Mailboxes : M'.strategy[c] # "NEWEST"
    BY <2>2, <1>2 DEF Elsewhere
  <2> QED
    BY <2>2, <2>3, <2>5, <2>6, <1>1, <1>2, StepIsGood
<1>7. ASSUME NEW b \in Mailboxes, NEW s \in NewStrategies, NEW n \in Sizes,
             SetMbxMsgQueStrategy(b, s, n)
      PROVE  GoodStep
  <2>1. M.count[b] = 0 /\ s \in Strategy /\ s # "NEWEST" /\ n \in Nat
    BY <1>2, <1>7, MsgQueueAssumption, MessagesAssumption DEF SetMbxMsgQueStrategy, SetWhileEmpty
  <2>2. PICK R : R = M'
    OBVIOUS
  <2>3. R = [M EXCEPT !.strategy = [M.strategy EXCEPT ![b] = s], !.size = [M.size EXCEPT ![b] = n]]
    BY <2>2, <1>7, <1>2 DEF SetMbxMsgQueStrategy, Messages
  <2>4. /\ R.link = M.link /\ R.freeMSG = M.freeMSG /\ R.head = M.head /\ R.tail = M.tail
        /\ R.rep = M.rep /\ R.body = M.body /\ R.count = M.count
        /\ R.strategy = [M.strategy EXCEPT ![b] = s]
        /\ R.size = [M.size EXCEPT ![b] = n]
    BY <2>3, <1>2 DEF Messages
  <2>5. R \in Messages
    <3>1. M.strategy \in [Mailboxes -> Strategy] /\ M.size \in [Mailboxes -> Sizes]
      BY <1>2 DEF Messages
    <3>2. R.strategy \in [Mailboxes -> Strategy] /\ R.size \in [Mailboxes -> Sizes]
      BY <3>1, <2>1, <2>4
    <3> QED
      BY <3>2, <2>3, <2>4, <1>2 DEF Messages
  <2>6. ASSUME NEW c \in Mailboxes
        PROVE  Tidy(R, S[c], c) /\ R.strategy[c] # "NEWEST"
    <3>1. Tidy(M, S[c], c)
      BY <1>1 DEF Ordered
    <3>2. CASE c = b
      <4>1. R.strategy[c] = s /\ R.size[c] = n /\ R.count[c] = 0
        BY <3>2, <2>1, <2>4, <1>2 DEF Messages
      <4> QED
        BY <3>1, <3>2, <4>1, <2>1, <2>4 DEF Tidy
    <3>3. CASE c # b
      <4>1. R.strategy[c] = M.strategy[c] /\ R.size[c] = M.size[c]
        BY <3>3, <2>4, <1>2 DEF Messages
      <4> QED
        BY <3>1, <4>1, <2>4, <1>2 DEF Tidy
    <3> QED
      BY <3>2, <3>3
  <2>7. Ordered(R, S, O)
    <3>1. \A m \in Msg : O[m] = 0 => R.rep[m] = 0
      BY <1>1, <2>4 DEF Ordered
    <3> QED
      BY <3>1, <2>4, <2>6, <1>1, NothingMoved
  <2>8. \A c \in Mailboxes : InOrder(Says(M, S[c]), Says(R, S[c]))
    BY <2>4 DEF Says, InOrder
  <2> QED
    BY <2>2, <2>5, <2>6, <2>7, <2>8, <1>1, <1>2, StepIsGood
<1> QED
  BY <1>3, <1>4, <1>5, <1>6, <1>7 DEF Next, vars

(* The invariant of the message queues.                                    *)
THEOREM QueuesKeepInv == SetWhileEmpty /\ Spec => []QueueInv
<1>1. QueueInv /\ [Next]_vars => QueueInv'
  BY QueueStep DEF GoodStep
<1> QED
  BY InitQueues, <1>1, PTL DEF Spec

(* Every variable keeps its type.                                          *)
COROLLARY QueuesTyped == SetWhileEmpty /\ Spec => []TypeOK
<1>1. QueueInv => TypeOK
  BY DEF QueueInv, TypeOK
<1> QED
  BY <1>1, QueuesKeepInv, PTL

(* Messages leave a queue in the order they came (msg.c 267-421, 613-629). *)
THEOREM QueuesAreFifo == SetWhileEmpty /\ Spec => Fifo
<1>1. QueueInv /\ [Next]_vars
        => [\A b \in Mailboxes : InOrder(Content(M, b), Content(M', b))]_vars
  BY QueueStep DEF GoodStep
<1> QED
  BY QueuesKeepInv, <1>1, PTL DEF Spec, Fifo

(* No block is lost and none is in two places (msg.c 198-421).             *)
THEOREM BlocksStayConserved == SetWhileEmpty /\ Spec => []BlocksConserved
<1>1. QueueInv => BlocksConserved
  <2> SUFFICES ASSUME QueueInv PROVE BlocksConserved
    OBVIOUS
  <2>1. M \in Messages
    BY DEF QueueInv
  <2>2. PICK S \in [Box0 -> Seq(Msg)], O \in [Msg -> Box0] : Ordered(M, S, O)
    BY DEF QueueInv
  <2> DEFINE In(b) == {m \in Msg : O[m] = b}
  <2>3. ASSUME NEW b \in Box0
        PROVE  ToSet(S[b]) = In(b)
    <3>1. Queue(M.link, First(M, b), S[b], O, b)
      BY <2>2 DEF Ordered
    <3>2. \A i \in 1 .. Len(S[b]) : S[b][i] \in Msg
      BY <3>1, QueueEnds
    <3>3. DOMAIN S[b] = 1 .. Len(S[b])
      BY LenProperties
    <3>4. PICK s : s = S[b]
      OBVIOUS
    <3>5. Holds(s, O, b)
      BY <3>1, <3>4 DEF Queue
    <3>6. ToSet(s) = {s[i] : i \in 1 .. Len(s)}
      BY <3>3, <3>4 DEF ToSet
    <3>7. \A i \in 1 .. Len(s) : s[i] \in Msg
      BY <3>2, <3>4
    <3>8. {s[i] : i \in 1 .. Len(s)} \subseteq In(b)
      BY <3>5, <3>7 DEF Holds
    <3>9. In(b) \subseteq {s[i] : i \in 1 .. Len(s)}
      BY <3>5 DEF Holds
    <3> QED
      BY <3>4, <3>6, <3>8, <3>9
  <2>4. \A b \in Mailboxes : ToSet(QueueOf(M, b)) = In(b)
    BY <2>1, <2>2, <2>3, ContentSays, BoxNotZero
  <2>5. From(M, M.freeMSG) = S[0]
    BY <2>1, <2>2, ContentSays
  <2>6. ToSet(From(M, M.freeMSG)) = In(0)
    BY <2>3, <2>5 DEF Box0
  <2>7. Msg \ In(0) = UNION {In(b) : b \in Mailboxes}
    BY <2>2, BoxNotZero DEF Box0
  <2>8. \A a, b \in Mailboxes : a # b => In(a) \cap In(b) = {}
    OBVIOUS
  <2>9. UNION {ToSet(QueueOf(M, b)) : b \in Mailboxes} = UNION {In(b) : b \in Mailboxes}
    BY <2>4
  <2>10. \A a, b \in Mailboxes :
           a # b => ToSet(QueueOf(M, a)) \cap ToSet(QueueOf(M, b)) = {}
    BY <2>4, <2>8
  <2> QED
    BY <2>6, <2>7, <2>9, <2>10 DEF BlocksConserved
<1> QED
  BY QueuesKeepInv, <1>1, PTL

(* A send to an unlimited mailbox adds the message and keeps the others    *)
(* (msg.c 279).                                                            *)
THEOREM UnlimitedQueuesLoseNone == SetWhileEmpty /\ Spec => []UnlimitedLosesNone
<1>1. QueueInv => UnlimitedLosesNone
  <2> SUFFICES ASSUME QueueInv, NEW b \in Mailboxes, NEW body \in Bodies,
                      Accepts(b), M.strategy[b] = "UNLIMITED"
               PROVE  Gains(Content(M, b), Content(Sent(M, b, body), b), body)
    BY DEF UnlimitedLosesNone
  <2>1. M \in Messages /\ M.freeMSG # 0
    BY DEF QueueInv, Accepts
  <2>2. PICK S \in [Box0 -> Seq(Msg)], O \in [Msg -> Box0] : Ordered(M, S, O)
    BY DEF QueueInv
  <2>3. PICK R : R = Sent(M, b, body)
    OBVIOUS
  <2>4. /\ R \in Messages
        /\ \E S2 \in [Box0 -> Seq(Msg)], O2 \in [Msg -> Box0] :
             MessageIn(M, S, R, S2, O2, b, body)
    BY <2>1, <2>2, <2>3, SentKeeps
  <2>5. PICK S2, O2 : MessageIn(M, S, R, S2, O2, b, body)
    BY <2>4
  <2>6. Ordered(R, S2, O2) /\ Gains(Says(M, S[b]), Says(R, S2[b]), body)
    BY <2>5, GainedGains DEF MessageIn
  <2>7. Content(M, b) = Says(M, S[b])
    BY <2>1, <2>2, ContentSays
  <2>8. Content(R, b) = Says(R, S2[b])
    BY <2>4, <2>6, ContentSays
  <2> QED
    BY <2>3, <2>6, <2>7, <2>8
<1> QED
  BY QueuesKeepInv, <1>1, PTL

(* No message is stranded (msg.c 336-352, 404-421).                        *)
THEOREM NothingGetsStranded == SetWhileEmpty /\ Spec => []NothingStranded
<1>1. QueueInv => NothingStranded
  <2> SUFFICES ASSUME QueueInv, NEW b \in Mailboxes, NEW q, q = QueueOf(M, b)
               PROVE  /\ M.tail[b] = IF q = <<>> THEN 0 ELSE Last(q)
                      /\ M.count[b] >= Len(q)
    BY DEF NothingStranded
  <2>1. M \in Messages
    BY DEF QueueInv
  <2>2. PICK S \in [Box0 -> Seq(Msg)], O \in [Msg -> Box0] : Ordered(M, S, O)
    BY DEF QueueInv
  <2>3. q = S[b]
    BY <2>1, <2>2, ContentSays
  <2>4. Tidy(M, q, b) /\ q \in Seq(Msg)
    BY <2>2, <2>3, HeadFound
  <2>5. Len(q) \in Nat
    BY <2>4, LenProperties
  <2> QED
    BY <2>4, <2>5 DEF Tidy, LastOf, Last
<1> QED
  BY QueuesKeepInv, <1>1, PTL

=============================================================================
