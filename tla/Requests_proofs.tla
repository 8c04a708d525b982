--------------------------- MODULE Requests_proofs ---------------------------
(***************************************************************************)
(* Proofs about module Requests, for any number of clients, servers,       *)
(* mailboxes, request blocks and services.                                 *)
(*                                                                         *)
(* The inductive invariant names the place of every request block: not     *)
(* under way, in the queue of a mailbox, handed to a thread, or with a     *)
(* server.  That a place is a function of the block says that a request is *)
(* nowhere else, and each part of the invariant says of one variable that  *)
(* it agrees with the places.  A second witness numbers the free blocks    *)
(* from the bottom of their stack.                                         *)
(***************************************************************************)
EXTENDS Requests, Iteration_proofs, SequenceTheorems

Msgs  == [type : {"MT_RQB", "MT_RESP"}, hRqb : Rqb]
Entry == [body : Msgs, rep : Nat]

At(kind, x) == [kind |-> kind, at |-> x]
Nowhere     == At("none", 0)
InQueue(b)  == At("queue", b)
InHand(t)   == At("hand", t)
InWork(t)   == At("work", t)
Place == {Nowhere} \cup {InQueue(b) : b \in Boxes} \cup {InHand(t) : t \in Threads}
                   \cup {InWork(t) : t \in Servers}

(* Queue q holds each request of S once and no other.                      *)
Holds(q, S) ==
  /\ q \in Seq(Entry)
  /\ \A i, j \in DOMAIN q : q[i].body.hRqb = q[j].body.hRqb => i = j
  /\ \A i \in DOMAIN q : q[i].body.hRqb \in S
  /\ \A h \in S : \E i \in DOMAIN q : q[i].body.hRqb = h

(* A request is for a mailbox no client reads, an answer for its asker's,  *)
(* as the record A of who has asked says.                                  *)
IsFor(A, m, b) ==
  /\ m.type = "MT_RQB"  => \A c \in Clients : Home[c] # b
  /\ m.type = "MT_RESP" => A[m.hRqb] \in Clients /\ Home[A[m.hRqb]] = b

QueuesPlaced(P) ==
  /\ queue \in [Boxes -> Seq(Entry)]
  /\ \A b \in Boxes : Holds(queue[b], {h \in Rqb : P[h] = InQueue(b)})
  /\ \A b \in Boxes : \A i \in DOMAIN queue[b] : IsFor(asked, queue[b][i].body, b)

(* Threads wait once, at their own mailboxes, without work of any kind.    *)
WaitersFree ==
  /\ waiting \in [Boxes -> Seq(Threads)]
  /\ \A b \in Boxes : \A i, j \in DOMAIN waiting[b] :
       waiting[b][i] = waiting[b][j] => i = j
  /\ \A b \in Boxes : \A i \in DOMAIN waiting[b] :
       LET t == waiting[b][i]
       IN  Home[t] = b /\ handed[t] = NoMessage /\ (t \in Servers => serving[t] = 0)

HandedPlaced(P) ==
  /\ handed \in [Threads -> Msgs \cup {NoMessage}]
  /\ \A t \in Threads : handed[t] # NoMessage =>
       /\ P[handed[t].hRqb] = InHand(t)
       /\ IsFor(asked, handed[t], Home[t])
       /\ t \in Servers => serving[t] = 0
  /\ \A h \in Rqb, t \in Threads : P[h] = InHand(t) =>
       handed[t] # NoMessage /\ handed[t].hRqb = h

WorkPlaced(P) ==
  /\ serving \in [Servers -> Rqb \cup {0}]
  /\ \A t \in Servers : serving[t] # 0 => P[serving[t]] = InWork(t)
  /\ \A h \in Rqb, t \in Servers : P[h] = InWork(t) => serving[t] = h

AskedPlaced(P) ==
  /\ asked \in [Rqb -> Clients \cup {NoClient}]
  /\ \A h \in Rqb : asked[h] = NoClient <=> P[h] = Nowhere
  /\ \A h \in Rqb : asked[h] # NoClient =>
                      request_block[h].response_mbx = Home[asked[h]]

Placed(P) ==
  QueuesPlaced(P) /\ WaitersFree /\ HandedPlaced(P) /\ WorkPlaced(P) /\ AskedPlaced(P)

(* s numbers the free blocks from the bottom, 0 being the end of the array.*)
Stacked(s) ==
  /\ nRequest \in Nat
  /\ s \in [0 .. nRequest -> 1 .. NR_RQB + 1]
  /\ s[0] = NR_RQB + 1
  /\ s[nRequest] = FreeRQB
  /\ \A i, j \in 0 .. nRequest : s[i] = s[j] => i = j
  /\ \A i \in 1 .. nRequest :
       asked[s[i]] = NoClient /\ request_block[s[i]].next = s[i - 1]

Fields ==
  /\ request_block \in [Rqb -> [magic : Magic, next : 1 .. NR_RQB + 1,
                                response_mbx : Box0]]
  /\ service \in [Service -> [name : Names \cup {NoName}, service_mbx : Box0]]
  /\ spare \in Seq(Boxes)
  /\ \A c \in Clients :
       /\ \A s \in Service : service[s].service_mbx # Home[c]
       /\ \A i \in DOMAIN spare : spare[i] # Home[c]

RequestsInv ==
  /\ Fields
  /\ \E P \in [Rqb -> Place] : Placed(P)
  /\ \E s \in [0 .. nRequest -> 1 .. NR_RQB + 1] : Stacked(s)

-----------------------------------------------------------------------------
(* Queues of requests.                                                     *)

(* A request that is not in a queue is appended to it, never counted as a  *)
(* repetition.                                                             *)
LEMMA EnqueuedHolds ==
  ASSUME NEW S \in SUBSET Rqb, NEW q, Holds(q, S), NEW m \in Msgs, m.hRqb \notin S
  PROVE  /\ Enqueued(q, m) = Append(q, [body |-> m, rep |-> 0])
         /\ Holds(Enqueued(q, m), S \cup {m.hRqb})
<1> DEFINE e == [body |-> m, rep |-> 0]
           r == Append(q, e)
<1>1. q \in Seq(Entry) /\ e \in Entry
  BY DEF Holds, Entry
<1>2. /\ Len(q) \in Nat
      /\ DOMAIN q = 1 .. Len(q)
      /\ \A i \in DOMAIN q : q[i] \in Entry
  BY <1>1, LenProperties
<1>3. /\ r \in Seq(Entry)
      /\ Len(r) = Len(q) + 1
      /\ \A i \in 1 .. Len(q) : r[i] = q[i]
      /\ r[Len(q) + 1] = e
  BY <1>1, AppendProperties
<1>4. DOMAIN r = 1 .. Len(q) + 1
  BY <1>3, LenProperties
<1>5. Enqueued(q, m) = r
  <2>1. q # <<>> => Len(q) \in DOMAIN q
    BY <1>1, <1>2, EmptySeq
  <2>2. q # <<>> => Last(q).body # m
    BY <2>1 DEF Last, Holds
  <2> QED
    BY <2>2 DEF Enqueued
<1>6. \A i \in 1 .. Len(q) : q[i].body.hRqb # m.hRqb
  BY <1>2 DEF Holds
<1>7. e.body.hRqb = m.hRqb
  OBVIOUS
<1> HIDE DEF e, r
<1>8. \A i, j \in DOMAIN r : r[i].body.hRqb = r[j].body.hRqb => i = j
  BY <1>2, <1>3, <1>4, <1>6, <1>7 DEF Holds
<1>9. \A i \in DOMAIN r : r[i].body.hRqb \in S \cup {m.hRqb}
  BY <1>2, <1>3, <1>4, <1>7 DEF Holds
<1>10. \A h \in S \cup {m.hRqb} : \E i \in DOMAIN r : r[i].body.hRqb = h
  BY <1>2, <1>3, <1>4, <1>7 DEF Holds
<1> QED
  BY <1>3, <1>5, <1>8, <1>9, <1>10 DEF Holds, e, r

(* Taking the first entry takes its request from the queue.                *)
LEMMA TailHolds ==
  ASSUME NEW S \in SUBSET Rqb, NEW q, Holds(q, S), q # <<>>
  PROVE  /\ Head(q) \in Entry
         /\ Head(q) = q[1] /\ 1 \in DOMAIN q
         /\ Head(q).body.hRqb \in S
         /\ \A i \in DOMAIN Tail(q) : Tail(q)[i] = q[i + 1] /\ i + 1 \in DOMAIN q
         /\ Holds(Tail(q), S \ {Head(q).body.hRqb})
<1> DEFINE r == Tail(q)
<1>1. q \in Seq(Entry)
  BY DEF Holds
<1>2. /\ Len(q) \in Nat \ {0}
      /\ DOMAIN q = 1 .. Len(q)
      /\ \A i \in DOMAIN q : q[i] \in Entry
  BY <1>1, LenProperties, EmptySeq
<1>3. /\ r \in Seq(Entry)
      /\ Len(r) = Len(q) - 1
      /\ \A i \in 1 .. Len(r) : r[i] = q[i + 1]
  BY <1>1, HeadTailProperties
<1>4. DOMAIN r = 1 .. Len(q) - 1
  BY <1>3, LenProperties
<1>5. Head(q) = q[1] /\ 1 \in DOMAIN q
  BY <1>1, <1>2
<1> HIDE DEF r
<1>6. \A i \in DOMAIN r : r[i] = q[i + 1] /\ i + 1 \in DOMAIN q /\ i + 1 # 1
  BY <1>2, <1>3, <1>4
<1>7. \A h \in S \ {q[1].body.hRqb} : \E i \in DOMAIN r : r[i].body.hRqb = h
  <2> SUFFICES ASSUME NEW h \in S \ {q[1].body.hRqb}
               PROVE  \E i \in DOMAIN r : r[i].body.hRqb = h
    OBVIOUS
  <2>1. PICK i \in DOMAIN q : q[i].body.hRqb = h
    BY DEF Holds
  <2>2. i # 1
    BY <2>1
  <2>3. i - 1 \in DOMAIN r /\ r[i - 1] = q[i]
    BY <1>2, <1>4, <1>3, <2>2
  <2> QED
    BY <2>1, <2>3
<1>8. \A i, j \in DOMAIN r : r[i].body.hRqb = r[j].body.hRqb => i = j
  <2>1. \A i, j \in DOMAIN r : r[i].body.hRqb = r[j].body.hRqb => i + 1 = j + 1
    BY <1>6 DEF Holds
  <2> QED
    BY <2>1, <1>2, <1>4
<1>9. \A i \in DOMAIN r : r[i].body.hRqb \in S \ {q[1].body.hRqb}
  BY <1>6, <1>5 DEF Holds
<1> QED
  BY <1>2, <1>3, <1>5, <1>6, <1>7, <1>8, <1>9 DEF Holds, r

(* A queue has at most as many entries as there are request blocks.        *)
LEMMA QueueShort ==
  ASSUME NEW S \in SUBSET Rqb, NEW q, Holds(q, S)
  PROVE  Len(q) \in 0 .. NR_RQB
<1> DEFINE f == [i \in 1 .. Len(q) |-> q[i].body.hRqb]
<1>1. Len(q) \in Nat /\ DOMAIN q = 1 .. Len(q)
  BY LenProperties DEF Holds
<1>2. f \in Injection(1 .. Len(q), Rqb)
  BY <1>1 DEF Holds, Injection, IsInjective
<1>3. NR_RQB \in Nat
  BY RequestsAssumption
<1>4. /\ IsFiniteSet(Rqb)
      /\ Cardinality(Rqb) = NR_RQB
      /\ Cardinality(1 .. Len(q)) = Len(q)
  BY <1>1, <1>3, CountUpTo DEF Rqb
<1>5. Cardinality(1 .. Len(q)) <= Cardinality(Rqb)
  BY <1>2, <1>4, FS_Injection
<1> QED
  BY <1>1, <1>3, <1>4, <1>5

-----------------------------------------------------------------------------
(* Sending a message.  What the sender did before is given by what asked   *)
(* and serving may have become.                                            *)

(* Nothing else knows of the request, and servers at most give up theirs.  *)
Detached(P, h) ==
  /\ \A b \in Boxes : P[h] # InQueue(b)
  /\ \A t \in Threads : P[h] # InHand(t)

SenderKeeps(h) ==
  /\ \A g \in Rqb \ {h} : asked'[g] = asked[g]
  /\ serving' \in [Servers -> Rqb \cup {0}]
  /\ \A t \in Servers : serving'[t] \in {0, serving[t]}

LEMMA DeliverQueues ==
  ASSUME NEW P \in [Rqb -> Place], Placed(P), NEW b \in Boxes, NEW m \in Msgs,
         Detached(P, m.hRqb), SenderKeeps(m.hRqb), IsFor(asked', m, b),
         Deliver(b, m), waiting[b] = <<>>,
         NEW R, R = [P EXCEPT ![m.hRqb] = InQueue(b)]
  PROVE  QueuesPlaced(R)' /\ WaitersFree' /\ HandedPlaced(R)'
<1> DEFINE S(x) == {g \in Rqb : P[g] = InQueue(x)}
           T(x) == {g \in Rqb : R[g] = InQueue(x)}
<1>1. m.hRqb \in Rqb
  BY DEF Msgs
<1>2. /\ queue' = [queue EXCEPT ![b] = Enqueued(@, m)]
      /\ UNCHANGED <<waiting, handed>>
  BY DEF Deliver
<1>3. queue \in [Boxes -> Seq(Entry)] /\ \A x \in Boxes : Holds(queue[x], S(x))
  BY DEF Placed, QueuesPlaced
<1>4. /\ T(b) = S(b) \cup {m.hRqb}
      /\ \A x \in Boxes \ {b} : T(x) = S(x)
  BY <1>1 DEF Detached, InQueue, At
<1>5. m.hRqb \notin S(b)
  BY <1>1 DEF Detached
<1>s. S(b) \in SUBSET Rqb
  OBVIOUS
<1> HIDE DEF S, T
<1>6. /\ Enqueued(queue[b], m) = Append(queue[b], [body |-> m, rep |-> 0])
      /\ Holds(Enqueued(queue[b], m), T(b))
  <2>1. Holds(queue[b], S(b))
    BY <1>3
  <2>2. /\ Enqueued(queue[b], m) = Append(queue[b], [body |-> m, rep |-> 0])
        /\ Holds(Enqueued(queue[b], m), S(b) \cup {m.hRqb})
    BY <2>1, <1>5, <1>s, EnqueuedHolds
  <2> QED
    BY <2>2, <1>4
<1>7. /\ queue' \in [Boxes -> Seq(Entry)]
      /\ queue'[b] = Append(queue[b], [body |-> m, rep |-> 0])
      /\ \A x \in Boxes \ {b} : queue'[x] = queue[x]
  <2>1. Enqueued(queue[b], m) \in Seq(Entry)
    BY <1>6 DEF Holds
  <2> QED
    BY <1>2, <1>3, <1>6, <2>1
<1>8. \A x \in Boxes : Holds(queue'[x], T(x))
  BY <1>2, <1>3, <1>4, <1>6, <1>7
<1>9. \A x \in Boxes : \A i \in DOMAIN queue[x] :
        /\ queue[x][i].body \in Msgs
        /\ queue[x][i].body.hRqb \in Rqb \ {m.hRqb}
        /\ IsFor(asked', queue[x][i].body, x)
  <2> SUFFICES ASSUME NEW x \in Boxes, NEW i \in DOMAIN queue[x]
               PROVE  /\ queue[x][i].body \in Msgs
                      /\ queue[x][i].body.hRqb \in Rqb \ {m.hRqb}
                      /\ IsFor(asked', queue[x][i].body, x)
    OBVIOUS
  <2>1. queue[x][i].body \in Msgs
    <3>1. queue[x] \in Seq(Entry)
      BY <1>3
    <3>2. queue[x][i] \in Entry
      BY <3>1, LenProperties
    <3> QED
      BY <3>2 DEF Entry
  <2>2. queue[x][i].body.hRqb \in S(x)
    BY <1>3 DEF Holds
  <2>3. queue[x][i].body.hRqb \in Rqb \ {m.hRqb}
    BY <2>2 DEF Detached, S
  <2>4. IsFor(asked, queue[x][i].body, x)
    BY DEF Placed, QueuesPlaced
  <2> QED
    BY <2>1, <2>3, <2>4 DEF IsFor, SenderKeeps
<1>10. \A x \in Boxes : \A i \in DOMAIN queue'[x] : IsFor(asked', queue'[x][i].body, x)
  <2> SUFFICES ASSUME NEW x \in Boxes, NEW i \in DOMAIN queue'[x]
               PROVE  IsFor(asked', queue'[x][i].body, x)
    OBVIOUS
  <2>1. CASE x # b
    BY <2>1, <1>7, <1>9
  <2>2. CASE x = b
    <3>1. [body |-> m, rep |-> 0] \in Entry /\ queue[b] \in Seq(Entry)
      BY <1>3 DEF Entry
    <3>2. /\ i \in 1 .. Len(queue[b]) + 1
          /\ Len(queue[b]) \in Nat
          /\ DOMAIN queue[b] = 1 .. Len(queue[b])
          /\ \A j \in DOMAIN queue[b] : queue'[b][j] = queue[b][j]
          /\ queue'[b][Len(queue[b]) + 1] = [body |-> m, rep |-> 0]
      BY <3>1, <2>2, <1>7, AppendProperties, LenProperties
    <3>3. CASE i \in DOMAIN queue[b]
      BY <3>3, <3>2, <2>2, <1>9
    <3>4. CASE i = Len(queue[b]) + 1
      BY <3>4, <3>2, <2>2
    <3> QED
      BY <3>2, <3>3, <3>4
  <2> QED
    BY <2>1, <2>2
<1>11. QueuesPlaced(R)'
  BY <1>7, <1>8, <1>10 DEF QueuesPlaced, T
<1>12. WaitersFree'
  BY <1>2, LenProperties DEF Placed, WaitersFree, SenderKeeps
<1>13. HandedPlaced(R)'
  <2>1. \A t \in Threads : handed[t] # NoMessage =>
          handed[t] \in Msgs /\ handed[t].hRqb \in Rqb \ {m.hRqb}
    BY DEF Placed, HandedPlaced, Msgs, Detached
  <2>2. \A t \in Threads : handed[t] # NoMessage =>
          /\ R[handed[t].hRqb] = InHand(t)
          /\ IsFor(asked', handed[t], Home[t])
          /\ t \in Servers => serving'[t] = 0
    BY <2>1 DEF Placed, HandedPlaced, IsFor, SenderKeeps
  <2>3. \A g \in Rqb, t \in Threads : R[g] = InHand(t) => P[g] = InHand(t)
    BY <1>1 DEF InQueue, InHand, At
  <2> QED
    BY <1>2, <2>2, <2>3 DEF Placed, HandedPlaced
<1> QED
  BY <1>11, <1>12, <1>13

LEMMA DeliverHands ==
  ASSUME NEW P \in [Rqb -> Place], Placed(P), NEW b \in Boxes, NEW m \in Msgs,
         Detached(P, m.hRqb), SenderKeeps(m.hRqb), IsFor(asked', m, b),
         Deliver(b, m), waiting[b] # <<>>,
         NEW t, t = Head(waiting[b]),
         NEW R, R = [P EXCEPT ![m.hRqb] = InHand(t)]
  PROVE  /\ t \in Threads
         /\ QueuesPlaced(R)' /\ WaitersFree' /\ HandedPlaced(R)'
<1> DEFINE w == waiting[b]
<1>1. m.hRqb \in Rqb /\ m # NoMessage
  BY RequestsAssumption DEF Msgs, Rqb
<1>2. /\ handed'  = [handed EXCEPT ![t] = m]
      /\ waiting' = [waiting EXCEPT ![b] = Tail(w)]
      /\ UNCHANGED queue
  BY DEF Deliver
<1>3. w \in Seq(Threads) /\ waiting \in [Boxes -> Seq(Threads)]
  BY DEF Placed, WaitersFree
<1>4. /\ Len(w) \in Nat \ {0}
      /\ DOMAIN w = 1 .. Len(w)
      /\ w[1] = t /\ t \in Threads
  BY <1>3, LenProperties, EmptySeq, HeadTailProperties
<1>5. /\ Tail(w) \in Seq(Threads)
      /\ DOMAIN Tail(w) = 1 .. Len(w) - 1
      /\ \A i \in 1 .. Len(w) - 1 : Tail(w)[i] = w[i + 1]
  BY <1>3, HeadTailProperties, LenProperties
<1>6. /\ Home[t] = b /\ handed[t] = NoMessage
      /\ t \in Servers => serving[t] = 0
  BY <1>4 DEF Placed, WaitersFree
<1>7. \A i \in DOMAIN Tail(w) : i + 1 \in DOMAIN w /\ Tail(w)[i] = w[i + 1]
  BY <1>4, <1>5
<1>8. \A x \in Boxes : \A i \in DOMAIN waiting'[x] :
        \E j \in DOMAIN waiting[x] : waiting'[x][i] = waiting[x][j]
  BY <1>2, <1>3, <1>7
<1>9. \A x \in Boxes : \A i \in DOMAIN waiting'[x] : waiting'[x][i] # t
  <2> SUFFICES ASSUME NEW x \in Boxes, NEW i \in DOMAIN waiting'[x], waiting'[x][i] = t
               PROVE  FALSE
    OBVIOUS
  <2>1. PICK j \in DOMAIN waiting[x] : waiting[x][j] = t
    BY <1>8
  <2>2. x = b
    BY <2>1, <1>6 DEF Placed, WaitersFree
  <2>3. i + 1 \in DOMAIN w /\ w[i + 1] = t /\ i \in 1 .. Len(w) - 1
    BY <2>2, <1>2, <1>3, <1>7, <1>5
  <2>4. i + 1 = 1
    BY <2>3, <1>4 DEF Placed, WaitersFree
  <2> QED
    BY <2>3, <2>4
<1>10. WaitersFree'
  <2>1. waiting' \in [Boxes -> Seq(Threads)]
    BY <1>2, <1>3, <1>5
  <2>2. \A x \in Boxes : \A i, j \in DOMAIN waiting'[x] :
          waiting'[x][i] = waiting'[x][j] => i = j
    <3> SUFFICES ASSUME NEW x \in Boxes, NEW i \in DOMAIN waiting'[x],
                        NEW j \in DOMAIN waiting'[x],
                        waiting'[x][i] = waiting'[x][j]
                 PROVE  i = j
      OBVIOUS
    <3>1. CASE x # b
      BY <3>1, <1>2, <1>3 DEF Placed, WaitersFree
    <3>2. CASE x = b
      <4>1. /\ i \in 1 .. Len(w) - 1 /\ j \in 1 .. Len(w) - 1
            /\ i + 1 \in DOMAIN w /\ j + 1 \in DOMAIN w
            /\ w[i + 1] = w[j + 1]
        BY <3>2, <1>2, <1>3, <1>5, <1>7
      <4>2. i + 1 = j + 1
        BY <4>1 DEF Placed, WaitersFree
      <4> QED
        BY <4>1, <4>2
    <3> QED
      BY <3>1, <3>2
  <2>3. \A x \in Boxes : \A i \in DOMAIN waiting'[x] :
          LET u == waiting'[x][i]
          IN  Home[u] = x /\ handed'[u] = NoMessage /\ (u \in Servers => serving'[u] = 0)
    <3> SUFFICES ASSUME NEW x \in Boxes, NEW i \in DOMAIN waiting'[x]
                 PROVE  LET u == waiting'[x][i]
                        IN  Home[u] = x /\ handed'[u] = NoMessage
                              /\ (u \in Servers => serving'[u] = 0)
      OBVIOUS
    <3>1. PICK j \in DOMAIN waiting[x] : waiting'[x][i] = waiting[x][j]
      BY <1>8
    <3>2. waiting[x][j] # t
      BY <3>1, <1>9
    <3>3. waiting[x] \in Seq(Threads)
      BY <1>3
    <3>4. waiting[x][j] \in Threads
      BY <3>3, LenProperties
    <3>5. handed'[waiting[x][j]] = handed[waiting[x][j]]
      BY <3>2, <3>4, <1>2 DEF Placed, HandedPlaced
    <3> QED
      BY <3>1, <3>5 DEF Placed, WaitersFree, SenderKeeps
  <2> QED
    BY <2>1, <2>2, <2>3 DEF WaitersFree
<1>11. QueuesPlaced(R)'
  <2>1. \A x \in Boxes : {h \in Rqb : R[h] = InQueue(x)} = {h \in Rqb : P[h] = InQueue(x)}
    BY <1>1 DEF Detached, InQueue, InHand, At
  <2>2. \A x \in Boxes : \A i \in DOMAIN queue[x] :
          IsFor(asked', queue[x][i].body, x)
    <3> SUFFICES ASSUME NEW x \in Boxes, NEW i \in DOMAIN queue[x]
                 PROVE  IsFor(asked', queue[x][i].body, x)
      OBVIOUS
    <3>1. queue[x][i].body.hRqb \in {h \in Rqb : P[h] = InQueue(x)}
      BY DEF Placed, QueuesPlaced, Holds
    <3>2. queue[x][i].body.hRqb \in Rqb \ {m.hRqb}
      BY <3>1 DEF Detached
    <3>3. IsFor(asked, queue[x][i].body, x)
      BY DEF Placed, QueuesPlaced
    <3> QED
      BY <3>2, <3>3 DEF IsFor, SenderKeeps
  <2>3. \A x \in Boxes : Holds(queue[x], {h \in Rqb : R[h] = InQueue(x)})
    BY <2>1 DEF Placed, QueuesPlaced
  <2> QED
    BY <1>2, <2>2, <2>3 DEF Placed, QueuesPlaced
<1>12. HandedPlaced(R)'
  <2>1. handed' \in [Threads -> Msgs \cup {NoMessage}]
    BY <1>2, <1>4 DEF Placed, HandedPlaced
  <2>2. ASSUME NEW u \in Threads, handed'[u] # NoMessage
        PROVE  /\ R[handed'[u].hRqb] = InHand(u)
               /\ IsFor(asked', handed'[u], Home[u])
               /\ u \in Servers => serving'[u] = 0
    <3>1. CASE u = t
      <4>1. handed'[u] = m
        BY <3>1, <1>2, <1>4 DEF Placed, HandedPlaced
      <4> QED
        BY <3>1, <4>1, <1>1, <1>6 DEF SenderKeeps
    <3>2. CASE u # t
      <4>1. handed'[u] = handed[u]
        BY <3>2, <1>2 DEF Placed, HandedPlaced
      <4>2. handed[u] \in Msgs /\ P[handed[u].hRqb] = InHand(u)
        BY <2>2, <4>1 DEF Placed, HandedPlaced
      <4>3. handed[u].hRqb \in Rqb \ {m.hRqb}
        BY <4>2 DEF Msgs, Detached
      <4>4. IsFor(asked, handed[u], Home[u]) /\ (u \in Servers => serving[u] = 0)
        BY <2>2, <4>1 DEF Placed, HandedPlaced
      <4> QED
        BY <4>1, <4>2, <4>3, <4>4 DEF IsFor, SenderKeeps
    <3> QED
      BY <3>1, <3>2
  <2>3. ASSUME NEW h \in Rqb, NEW u \in Threads, R[h] = InHand(u)
        PROVE  handed'[u] # NoMessage /\ handed'[u].hRqb = h
    <3>1. CASE h = m.hRqb
      <4>1. u = t
        BY <2>3, <3>1 DEF InHand, At
      <4> QED
        BY <4>1, <3>1, <1>1, <1>2, <1>4 DEF Placed, HandedPlaced
    <3>2. CASE h # m.hRqb
      <4>1. P[h] = InHand(u)
        BY <2>3, <3>2
      <4>2. handed[u] # NoMessage /\ handed[u].hRqb = h
        BY <4>1 DEF Placed, HandedPlaced
      <4> QED
        BY <4>2, <1>2, <1>6 DEF Placed, HandedPlaced
    <3> QED
      BY <3>1, <3>2
  <2> QED
    BY <2>1, <2>2, <2>3 DEF HandedPlaced
<1> QED
  BY <1>4, <1>10, <1>11, <1>12

-----------------------------------------------------------------------------
(* The free blocks.                                                        *)

LEMMA StackedBlocks ==
  ASSUME NEW s, Stacked(s)
  PROVE  /\ \A i \in 1 .. nRequest : s[i] \in Rqb
         /\ FreeRQB \in Rqb => nRequest \in Nat \ {0} /\ asked[FreeRQB] = NoClient
<1>1. NR_RQB \in Nat
  BY RequestsAssumption
<1>2. nRequest \in Nat /\ \A i \in 1 .. nRequest : i \in 0 .. nRequest /\ i # 0
  BY DEF Stacked
<1>3. \A i \in 1 .. nRequest : s[i] \in Rqb
  BY <1>1, <1>2 DEF Stacked, Rqb
<1>4. FreeRQB \in Rqb => nRequest # 0
  BY <1>1 DEF Stacked, Rqb
<1> QED
  BY <1>2, <1>3, <1>4 DEF Stacked

LEMMA StackUntouched ==
  ASSUME NEW s, Stacked(s), UNCHANGED <<FreeRQB, nRequest, request_block>>,
         \A g \in Rqb : asked'[g] \in {asked[g], NoClient}
  PROVE  Stacked(s)'
BY StackedBlocks DEF Stacked

(* AllocRqb takes the top of the stack, whatever is copied into it.        *)
LEMMA StackPopped ==
  ASSUME NEW s, Stacked(s), FreeRQB \in Rqb,
         FreeRQB' = request_block[FreeRQB].next, nRequest' = nRequest - 1,
         \A g \in Rqb \ {FreeRQB} : /\ request_block'[g].next = request_block[g].next
                                    /\ asked'[g] = asked[g]
  PROVE  \E r \in [0 .. nRequest' -> 1 .. NR_RQB + 1] : Stacked(r)'
<1> DEFINE n == nRequest - 1
           r == [i \in 0 .. n |-> s[i]]
<1>1. nRequest \in Nat \ {0} /\ n \in Nat /\ n \in 0 .. nRequest
  BY StackedBlocks DEF Stacked
<1>2. /\ \A i \in 0 .. n : i \in 0 .. nRequest /\ i # nRequest
      /\ \A i \in 1 .. n : i \in 1 .. nRequest /\ i \in 0 .. n /\ i - 1 \in 0 .. n
  BY <1>1
<1>3. r \in [0 .. n -> 1 .. NR_RQB + 1] /\ r[0] = NR_RQB + 1
  BY <1>1, <1>2 DEF Stacked
<1>4. r[n] = FreeRQB'
  BY <1>1 DEF Stacked
<1>5. \A i, j \in 0 .. n : r[i] = r[j] => i = j
  BY <1>2 DEF Stacked
<1>6. \A i \in 1 .. n : s[i] \in Rqb \ {FreeRQB}
  <2>1. s[nRequest] = FreeRQB /\ nRequest \in 0 .. nRequest
    BY <1>1 DEF Stacked
  <2>2. \A i \in 1 .. n : s[i] # s[nRequest]
    BY <1>2, <2>1 DEF Stacked
  <2> QED
    BY <1>2, <2>1, <2>2, StackedBlocks
<1>7. \A i \in 1 .. n : asked'[r[i]] = NoClient /\ request_block'[r[i]].next = r[i - 1]
  BY <1>2, <1>6 DEF Stacked
<1> HIDE DEF r, n
<1>8. nRequest' = n
  BY DEF n
<1>9. PICK q : q = r
  OBVIOUS
<1>10. nRequest' \in Nat /\ q \in [0 .. nRequest' -> 1 .. NR_RQB + 1]
  BY <1>1, <1>3, <1>4, <1>8, <1>9
<1>11. Stacked(q)'
  BY <1>1, <1>3, <1>4, <1>5, <1>7, <1>8, <1>9, <1>10 DEF Stacked
<1> QED
  BY <1>10, <1>11

(* FreeRqb puts a block that was in use on top.                            *)
LEMMA StackPushed ==
  ASSUME NEW s, Stacked(s), NEW h \in Rqb, asked[h] # NoClient,
         FreeRQB' = h, nRequest' = nRequest + 1,
         request_block'[h].next = FreeRQB,
         \A g \in Rqb \ {h} : /\ request_block'[g].next = request_block[g].next
                              /\ asked'[g] = asked[g],
         asked'[h] = NoClient
  PROVE  \E r \in [0 .. nRequest' -> 1 .. NR_RQB + 1] : Stacked(r)'
<1> DEFINE n == nRequest + 1
           r == [i \in 0 .. n |-> IF i = n THEN h ELSE s[i]]
<1>1. nRequest \in Nat /\ n \in Nat \ {0} /\ NR_RQB \in Nat
  BY RequestsAssumption DEF Stacked
<1>2. /\ \A i \in 0 .. n : i # n => i \in 0 .. nRequest
      /\ \A i \in 1 .. n : i # n => i \in 1 .. nRequest
      /\ \A i \in 1 .. n : i \in 0 .. n /\ i - 1 \in 0 .. n /\ i - 1 # n
  BY <1>1
<1>3. \A i \in 0 .. nRequest : s[i] # h
  <2>1. s[0] # h
    BY <1>1 DEF Stacked, Rqb
  <2>2. \A i \in 1 .. nRequest : s[i] # h
    BY DEF Stacked
  <2> QED
    BY <2>1, <2>2, <1>1
<1>4. r \in [0 .. n -> 1 .. NR_RQB + 1] /\ r[0] = NR_RQB + 1
  BY <1>1, <1>2 DEF Stacked, Rqb
<1>5. r[n] = h
  BY <1>1
<1>6. \A i, j \in 0 .. n : r[i] = r[j] => i = j
  BY <1>2, <1>3 DEF Stacked
<1>7. \A i \in 1 .. n : asked'[r[i]] = NoClient /\ request_block'[r[i]].next = r[i - 1]
  <2> SUFFICES ASSUME NEW i \in 1 .. n
               PROVE  asked'[r[i]] = NoClient /\ request_block'[r[i]].next = r[i - 1]
    OBVIOUS
  <2>1. CASE i = n
    BY <2>1, <1>1, <1>2 DEF Stacked
  <2>2. CASE i # n
    <3>1. i \in 1 .. nRequest /\ r[i] = s[i] /\ r[i - 1] = s[i - 1]
      BY <2>2, <1>2
    <3>2. s[i] \in Rqb \ {h}
      BY <3>1, <1>1, <1>3, StackedBlocks
    <3> QED
      BY <3>1, <3>2 DEF Stacked
  <2> QED
    BY <2>1, <2>2
<1> HIDE DEF r, n
<1>8. nRequest' = n
  BY DEF n
<1>9. PICK q : q = r
  OBVIOUS
<1>10. nRequest' \in Nat /\ q \in [0 .. nRequest' -> 1 .. NR_RQB + 1]
  BY <1>1, <1>3, <1>4, <1>8, <1>9
<1>11. Stacked(q)'
  BY <1>1, <1>4, <1>5, <1>6, <1>7, <1>8, <1>9, <1>10 DEF Stacked
<1> QED
  BY <1>10, <1>11

-----------------------------------------------------------------------------
(* The calls.                                                              *)

NotWork(p) == \A t \in Servers : p # InWork(t)

(* A message sent to mailbox b ends up in its queue or with a thread.      *)
LEMMA DeliverPlaces ==
  ASSUME NEW P \in [Rqb -> Place], Placed(P), NEW b \in Boxes, NEW m \in Msgs,
         Detached(P, m.hRqb), SenderKeeps(m.hRqb), IsFor(asked', m, b),
         Deliver(b, m)
  PROVE  \E p \in Place :
           /\ p # Nowhere
           /\ NotWork(p)
           /\ QueuesPlaced([P EXCEPT ![m.hRqb] = p])'
           /\ WaitersFree'
           /\ HandedPlaced([P EXCEPT ![m.hRqb] = p])'
<1>1. CASE waiting[b] = <<>>
  <2> DEFINE p == InQueue(b)
  <2>1. PICK R : R = [P EXCEPT ![m.hRqb] = InQueue(b)]
    OBVIOUS
  <2>2. QueuesPlaced(R)' /\ WaitersFree' /\ HandedPlaced(R)'
    BY <1>1, <2>1, DeliverQueues
  <2>3. /\ InQueue(b) \in Place /\ InQueue(b) # Nowhere
        /\ NotWork(InQueue(b))
    BY DEF NotWork, Place, InQueue, InWork, Nowhere, At
  <2> QED
    BY <2>1, <2>2, <2>3
<1>2. CASE waiting[b] # <<>>
  <2>1. PICK t : t = Head(waiting[b])
    OBVIOUS
  <2>2. PICK R : R = [P EXCEPT ![m.hRqb] = InHand(t)]
    OBVIOUS
  <2>3. t \in Threads /\ QueuesPlaced(R)' /\ WaitersFree' /\ HandedPlaced(R)'
    BY <1>2, <2>1, <2>2, DeliverHands
  <2>4. /\ InHand(t) \in Place /\ InHand(t) # Nowhere
        /\ NotWork(InHand(t))
    BY <2>3 DEF NotWork, Place, InHand, InWork, Nowhere, At
  <2> QED
    BY <2>2, <2>3, <2>4
<1> QED
  BY <1>1, <1>2

LEMMA PlacesDiffer ==
  \A x, y : /\ Nowhere \notin {InQueue(x), InHand(x), InWork(x)}
            /\ InQueue(x) \notin {InHand(y), InWork(y)}
            /\ InHand(x) # InWork(y)
            /\ InQueue(x) = InQueue(y) => x = y
            /\ InHand(x) = InHand(y) => x = y
            /\ InWork(x) = InWork(y) => x = y
BY DEF Nowhere, InQueue, InHand, InWork, At

LEMMA RequestKeeps ==
  ASSUME RequestsInv, NEW c \in Clients, NEW i \in Service, NEW magic \in Magic,
         FMTK_Request(c, i, magic)
  PROVE  RequestsInv'
<1>1. PICK P \in [Rqb -> Place] : Placed(P)
  BY DEF RequestsInv
<1>2. PICK s : Stacked(s)
  BY DEF RequestsInv
<1>3. PICK h : h = FreeRQB
  OBVIOUS
<1>4. PICK b : b = service[i].service_mbx
  OBVIOUS
<1>5. /\ h \in Rqb /\ b # 0
      /\ request_block' = Filled(c, magic)
      /\ FreeRQB' = request_block[h].next
      /\ nRequest' = nRequest - 1
      /\ Deliver(b, RqbMsg(h))
      /\ asked' = [asked EXCEPT ![h] = c]
      /\ UNCHANGED <<service, spare, serving>>
  BY <1>3, <1>4 DEF FMTK_Request
<1>6. b \in Boxes /\ \A x \in Clients : Home[x] # b
  BY <1>4, <1>5 DEF RequestsInv, Fields, Box0
<1>7. asked[h] = NoClient
  BY <1>2, <1>3, <1>5, StackedBlocks
<1>8. P[h] = Nowhere
  BY <1>1, <1>5, <1>7 DEF Placed, AskedPlaced
<1>9. asked \in [Rqb -> Clients \cup {NoClient}] /\ serving \in [Servers -> Rqb \cup {0}]
  BY <1>1 DEF Placed, AskedPlaced, WorkPlaced
<1>10. RqbMsg(h) \in Msgs /\ RqbMsg(h).hRqb = h
  BY <1>5 DEF RqbMsg, Msgs
<1>11. SenderKeeps(h)
  BY <1>5, <1>9 DEF SenderKeeps
<1>12. IsFor(asked', RqbMsg(h), b)
  BY <1>6 DEF IsFor, RqbMsg
<1>13. Detached(P, h)
  BY <1>8 DEF Detached, Nowhere, InQueue, InHand, At
<1>14. PICK p \in Place : /\ p # Nowhere
                          /\ NotWork(p)
                          /\ QueuesPlaced([P EXCEPT ![h] = p])'
                          /\ WaitersFree'
                          /\ HandedPlaced([P EXCEPT ![h] = p])'
  BY <1>1, <1>5, <1>6, <1>10, <1>11, <1>12, <1>13, DeliverPlaces
<1>15. PICK R \in [Rqb -> Place] : R = [P EXCEPT ![h] = p]
  OBVIOUS
<1>16. QueuesPlaced(R)' /\ HandedPlaced(R)'
  BY <1>14, <1>15
<1>17. WorkPlaced(R)'
  <2>1. \A t \in Servers : serving[t] # 0 => serving[t] \in Rqb \ {h}
    BY <1>1, <1>8, <1>9, PlacesDiffer DEF Placed, WorkPlaced
  <2> QED
    BY <1>1, <1>5, <1>9, <1>14, <1>15, <2>1 DEF Placed, WorkPlaced, NotWork
<1>18. \A g \in Rqb \ {h} : /\ request_block'[g] = request_block[g]
                            /\ asked'[g] = asked[g]
  BY <1>3, <1>5, <1>9 DEF Filled, RequestsInv, Fields
<1>19. request_block'[h].response_mbx = Home[c] /\ asked'[h] = c /\ c # NoClient
  BY <1>3, <1>5, <1>9, RequestsAssumption DEF Filled, RequestsInv, Fields
<1>20. AskedPlaced(R)'
  <2>1. asked' \in [Rqb -> Clients \cup {NoClient}]
    BY <1>5, <1>9
  <2> QED
    BY <2>1, <1>1, <1>5, <1>14, <1>15, <1>18, <1>19 DEF Placed, AskedPlaced
<1>21. \E r \in [0 .. nRequest' -> 1 .. NR_RQB + 1] : Stacked(r)'
  BY <1>2, <1>3, <1>5, <1>18, StackPopped
<1>22. Fields'
  <2>1. Home[c] \in Box0
    BY RequestsAssumption DEF Box0
  <2> QED
    BY <2>1, <1>5 DEF RequestsInv, Fields, Filled
<1>23. Placed(R)'
  BY <1>14, <1>16, <1>17, <1>20 DEF Placed
<1> QED
  BY <1>21, <1>22, <1>23 DEF RequestsInv

(* The server has done with request h, which leaves it for place p.        *)
LEMMA WorkEnds ==
  ASSUME NEW P \in [Rqb -> Place], Placed(P), NEW t \in Servers,
         NEW h, h = serving[t], h # 0, serving' = [serving EXCEPT ![t] = 0],
         NEW p, NotWork(p),
         NEW R, R = [P EXCEPT ![h] = p]
  PROVE  /\ h \in Rqb /\ P[h] = InWork(t) /\ asked[h] \in Clients
         /\ WorkPlaced(R)'
<1>1. serving \in [Servers -> Rqb \cup {0}] /\ P[h] = InWork(t) /\ h \in Rqb
  BY DEF Placed, WorkPlaced
<1>2. \A u \in Servers \ {t} : serving[u] # 0 => serving[u] \in Rqb \ {h}
  <2> SUFFICES ASSUME NEW u \in Servers \ {t}, serving[u] # 0
               PROVE  serving[u] \in Rqb \ {h}
    OBVIOUS
  <2>1. serving[u] \in Rqb /\ P[serving[u]] = InWork(u)
    BY <1>1 DEF Placed, WorkPlaced
  <2>2. InWork(u) # InWork(t)
    BY PlacesDiffer
  <2> QED
    BY <1>1, <2>1, <2>2
<1>3. WorkPlaced(R)'
  <2>1. /\ serving' \in [Servers -> Rqb \cup {0}]
        /\ serving'[t] = 0 /\ \A u \in Servers \ {t} : serving'[u] = serving[u]
    BY <1>1
  <2>2. \A u \in Servers : serving'[u] # 0 => R[serving'[u]] = InWork(u)
    BY <1>2, <2>1 DEF Placed, WorkPlaced
  <2>3. \A g \in Rqb, u \in Servers : R[g] = InWork(u) =>
          u # t /\ P[g] = InWork(u)
    <3> SUFFICES ASSUME NEW g \in Rqb, NEW u \in Servers, R[g] = InWork(u)
                 PROVE  u # t /\ P[g] = InWork(u)
      OBVIOUS
    <3>1. g # h
      BY <1>1 DEF NotWork
    <3>2. P[g] = InWork(u)
      BY <3>1
    <3>3. serving[u] = g
      BY <3>2 DEF Placed, WorkPlaced
    <3> QED
      BY <3>1, <3>2, <3>3
  <2> QED
    BY <2>1, <2>2, <2>3 DEF Placed, WorkPlaced
<1>4. asked[h] \in Clients
  BY <1>1, PlacesDiffer DEF Placed, AskedPlaced
<1> QED
  BY <1>1, <1>3, <1>4

(* An answer is for the client that has asked, since no other reads the    *)
(* mailbox the request block names.                                        *)
LEMMA AnswerKeeps ==
  ASSUME RequestsInv, NEW t \in Servers, NEW h, h = serving[t], h # 0,
         serving' = [serving EXCEPT ![t] = 0],
         Deliver(request_block[h].response_mbx, RespMsg(h)),
         UNCHANGED <<request_block, FreeRQB, nRequest, service, spare, asked>>
  PROVE  RequestsInv'
<1>1. PICK P \in [Rqb -> Place] : Placed(P)
  BY DEF RequestsInv
<1>2. PICK s \in [0 .. nRequest -> 1 .. NR_RQB + 1] : Stacked(s)
  BY DEF RequestsInv
<1>3. PICK b : b = request_block[h].response_mbx
  OBVIOUS
<1>4. h \in Rqb /\ P[h] = InWork(t) /\ asked[h] \in Clients
  <2>1. NotWork(Nowhere)
    BY PlacesDiffer DEF NotWork
  <2>2. PICK R : R = [P EXCEPT ![h] = Nowhere]
    OBVIOUS
  <2> QED
    BY <1>1, <2>1, <2>2, WorkEnds
<1>5. b = Home[asked[h]] /\ b \in Boxes
  BY <1>1, <1>3, <1>4, RequestsAssumption DEF Placed, AskedPlaced
<1>6. RespMsg(h) \in Msgs /\ RespMsg(h).hRqb = h
  BY <1>4 DEF RespMsg, Msgs
<1>7. SenderKeeps(h)
  BY <1>1 DEF SenderKeeps, Placed, WorkPlaced
<1>8. IsFor(asked', RespMsg(h), b)
  BY <1>4, <1>5 DEF IsFor, RespMsg
<1>9. Detached(P, h)
  BY <1>4, PlacesDiffer DEF Detached
<1>10. PICK p \in Place : /\ p # Nowhere
                          /\ NotWork(p)
                          /\ QueuesPlaced([P EXCEPT ![h] = p])'
                          /\ WaitersFree'
                          /\ HandedPlaced([P EXCEPT ![h] = p])'
  BY <1>1, <1>3, <1>5, <1>6, <1>7, <1>8, <1>9, DeliverPlaces
<1>11. PICK R \in [Rqb -> Place] : R = [P EXCEPT ![h] = p]
  OBVIOUS
<1>12. QueuesPlaced(R)' /\ HandedPlaced(R)'
  BY <1>10, <1>11
<1>13. WorkPlaced(R)'
  BY <1>1, <1>10, <1>11, WorkEnds
<1>14. AskedPlaced(R)'
  BY <1>1, <1>4, <1>10, <1>11, RequestsAssumption DEF Placed, AskedPlaced
<1>15. Placed(R)'
  BY <1>10, <1>12, <1>13, <1>14 DEF Placed
<1>16. Stacked(s)' /\ s \in [0 .. nRequest' -> 1 .. NR_RQB + 1]
  BY <1>2 DEF Stacked
<1>17. Fields'
  BY DEF RequestsInv, Fields
<1> QED
  BY <1>15, <1>16, <1>17 DEF RequestsInv

(* What FreeRqb changes of the fields.                                     *)
LEMMA FreeRqbFields ==
  ASSUME Fields, FreeRQB \in 1 .. NR_RQB + 1, NEW h \in Rqb, FreeRqb(h)
  PROVE  /\ request_block' \in [Rqb -> [magic : Magic, next : 1 .. NR_RQB + 1,
                                       response_mbx : Box0]]
         /\ \A g \in Rqb : request_block'[g].response_mbx = request_block[g].response_mbx
         /\ \A g \in Rqb \ {h} : request_block'[g].next = request_block[g].next
         /\ request_block[h].magic = "RQB " =>
              request_block'[h].next = FreeRQB /\ FreeRQB' = h /\ nRequest' = nRequest + 1
<1> DEFINE B == [magic : Magic, next : 1 .. NR_RQB + 1, response_mbx : Box0]
<1>1. CASE request_block[h].magic = "RQB "
  <2> DEFINE e == [request_block[h] EXCEPT !.magic = "none", !.next = FreeRQB]
  <2>1. request_block' = [request_block EXCEPT ![h] = e]
    BY <1>1 DEF FreeRqb, Fields
  <2>2. request_block[h] \in B
    BY DEF Fields
  <2>3. e \in B /\ e.response_mbx = request_block[h].response_mbx /\ e.next = FreeRQB
    BY <2>2 DEF Magic
  <2> HIDE DEF e, B
  <2>4. request_block \in [Rqb -> B]
    BY DEF Fields, B
  <2>5. request_block' \in [Rqb -> B]
    BY <2>1, <2>3, <2>4
  <2>6. request_block'[h].next = FreeRQB /\ FreeRQB' = h /\ nRequest' = nRequest + 1
    BY <1>1, <2>1, <2>3, <2>4 DEF FreeRqb
  <2> QED
    BY <2>1, <2>3, <2>4, <2>5, <2>6 DEF B
<1>2. CASE request_block[h].magic # "RQB "
  BY <1>2 DEF FreeRqb, Fields
<1> QED
  BY <1>1, <1>2

(* A request that is given up leaves no trace but its block, which the     *)
(* client's magic makes free.                                              *)
LEMMA GiveUpKeeps ==
  ASSUME RequestsInv, NEW t \in Servers, NEW h, h = serving[t], h # 0,
         serving' = [serving EXCEPT ![t] = 0],
         FreeRqb(h), asked' = [asked EXCEPT ![h] = NoClient],
         UNCHANGED <<mailVars, service, spare>>
  PROVE  RequestsInv'
<1>1. PICK P \in [Rqb -> Place] : Placed(P)
  BY DEF RequestsInv
<1>2. PICK s \in [0 .. nRequest -> 1 .. NR_RQB + 1] : Stacked(s)
  BY DEF RequestsInv
<1>3. PICK R : R = [P EXCEPT ![h] = Nowhere]
  OBVIOUS
<1>4. /\ h \in Rqb /\ P[h] = InWork(t) /\ asked[h] \in Clients
      /\ WorkPlaced(R)'
  <2>1. NotWork(Nowhere)
    BY PlacesDiffer DEF NotWork
  <2> QED
    BY <1>1, <1>3, <2>1, WorkEnds
<1>5. asked[h] # NoClient
  BY <1>4, RequestsAssumption
<1>6. R \in [Rqb -> Place]
  BY <1>3, <1>4 DEF Place
<1>7. /\ asked' \in [Rqb -> Clients \cup {NoClient}]
      /\ asked'[h] = NoClient
      /\ \A g \in Rqb \ {h} : asked'[g] = asked[g]
  BY <1>1, <1>4 DEF Placed, AskedPlaced
<1>f. Fields /\ FreeRQB \in 1 .. NR_RQB + 1
  BY <1>2 DEF RequestsInv, Stacked
<1>8. /\ \A g \in Rqb : request_block'[g].response_mbx = request_block[g].response_mbx
      /\ \A g \in Rqb \ {h} : request_block'[g].next = request_block[g].next
  BY <1>4, <1>f, FreeRqbFields
<1>9. AskedPlaced(R)'
  BY <1>1, <1>3, <1>4, <1>7, <1>8 DEF Placed, AskedPlaced
<1>10. UNCHANGED <<queue, waiting, handed>>
  BY DEF mailVars
<1>11. /\ \A m \in Msgs, x \in Boxes :
            IsFor(asked, m, x) /\ m.hRqb # h => IsFor(asked', m, x)
       /\ \A x : \A g \in Rqb : P[g] = InQueue(x) \/ P[g] = InHand(x) => g # h
       /\ \A x : \A g \in Rqb : R[g] = InQueue(x) <=> P[g] = InQueue(x)
       /\ \A x : \A g \in Rqb : R[g] = InHand(x) <=> P[g] = InHand(x)
  <2>1. \A m \in Msgs, x \in Boxes :
          IsFor(asked, m, x) /\ m.hRqb # h => IsFor(asked', m, x)
    BY <1>7 DEF IsFor, Msgs
  <2> QED
    BY <2>1, <1>3, <1>4, PlacesDiffer
<1>12. QueuesPlaced(R)'
  <2>1. \A x \in Boxes : {g \in Rqb : R[g] = InQueue(x)} = {g \in Rqb : P[g] = InQueue(x)}
    BY <1>11
  <2>2. ASSUME NEW x \in Boxes, NEW i \in DOMAIN queue[x]
        PROVE  IsFor(asked', queue[x][i].body, x)
    <3>1. /\ queue[x] \in Seq(Entry)
          /\ queue[x][i].body.hRqb \in {g \in Rqb : P[g] = InQueue(x)}
      BY <1>1 DEF Placed, QueuesPlaced, Holds
    <3>2. queue[x][i] \in Entry
      BY <3>1, LenProperties
    <3>3. queue[x][i].body \in Msgs /\ queue[x][i].body.hRqb # h
      BY <3>1, <3>2, <1>11 DEF Entry
    <3> QED
      BY <1>1, <3>3, <1>11 DEF Placed, QueuesPlaced
  <2>3. \A x \in Boxes : Holds(queue[x], {g \in Rqb : R[g] = InQueue(x)})
    BY <1>1, <2>1 DEF Placed, QueuesPlaced
  <2> QED
    BY <1>1, <1>10, <2>2, <2>3 DEF Placed, QueuesPlaced
<1>13. WaitersFree'
  BY <1>1, <1>10 DEF Placed, WaitersFree, WorkPlaced
<1>14. HandedPlaced(R)'
  <2>1. ASSUME NEW u \in Threads, handed[u] # NoMessage
        PROVE  /\ R[handed[u].hRqb] = InHand(u)
               /\ IsFor(asked', handed[u], Home[u])
               /\ u \in Servers => serving'[u] = 0
    <3>1. /\ handed[u] \in Msgs /\ P[handed[u].hRqb] = InHand(u)
          /\ IsFor(asked, handed[u], Home[u])
          /\ u \in Servers => serving[u] = 0
      BY <1>1, <2>1 DEF Placed, HandedPlaced
    <3>2. handed[u].hRqb \in Rqb /\ Home[u] \in Boxes
      BY <3>1, RequestsAssumption DEF Msgs
    <3> QED
      BY <1>1, <1>11, <3>1, <3>2 DEF Placed, WorkPlaced
  <2>2. \A g \in Rqb, u \in Threads : R[g] = InHand(u) =>
          handed[u] # NoMessage /\ handed[u].hRqb = g
    BY <1>1, <1>11 DEF Placed, HandedPlaced
  <2> QED
    BY <1>1, <1>10, <2>1, <2>2 DEF Placed, HandedPlaced
<1>15. Placed(R)'
  BY <1>4, <1>9, <1>12, <1>13, <1>14 DEF Placed
<1>16. \E r \in [0 .. nRequest' -> 1 .. NR_RQB + 1] : Stacked(r)'
  <2>1. CASE request_block[h].magic = "RQB "
    <3>1. /\ FreeRQB' = h /\ nRequest' = nRequest + 1
          /\ request_block'[h].next = FreeRQB
      BY <2>1, <1>4, <1>f, FreeRqbFields
    <3> QED
      BY <3>1, <1>2, <1>4, <1>5, <1>7, <1>8, StackPushed
  <2>2. CASE request_block[h].magic # "RQB "
    <3>1. UNCHANGED <<FreeRQB, nRequest, request_block>>
      BY <2>2 DEF FreeRqb
    <3>2. \A g \in Rqb : asked'[g] \in {asked[g], NoClient}
      BY <1>7
    <3>3. Stacked(s)'
      BY <1>2, <3>1, <3>2, StackUntouched
    <3> QED
      BY <1>2, <3>1, <3>3
  <2> QED
    BY <2>1, <2>2
<1>17. Fields'
  <2>1. request_block' \in [Rqb -> [magic : Magic, next : 1 .. NR_RQB + 1,
                                   response_mbx : Box0]]
    BY <1>4, <1>f, FreeRqbFields
  <2> QED
    BY <2>1, <1>f DEF Fields
<1> QED
  BY <1>6, <1>15, <1>16, <1>17 DEF RequestsInv

(* Where request h is when thread t has read the message with it.          *)
Read(t) == IF t \in Clients THEN Nowhere ELSE InWork(t)

NoWork(t)  == t \in Servers => serving[t] = 0

OnItsWay(p, t) == p \in {InQueue(Home[t]), InHand(t)}

(* What becomes of the rest when t has read the message with request h.    *)
OthersKept(t, h) ==
  /\ \A g \in Rqb \ {h} : asked'[g] = asked[g]
  /\ \A g \in Rqb : asked'[g] \in {asked[g], NoClient}
  /\ \A u \in Servers \ {t} : serving'[u] = serving[u]

MailKept(P, R, h) ==
  /\ \A x : \A g \in Rqb : R[g] = InQueue(x) => P[g] = InQueue(x) /\ g # h
  /\ \A x : \A g \in Rqb : R[g] = InHand(x) => P[g] = InHand(x) /\ g # h

(* A thread reads message m: a server a request, the client that has asked *)
(* its answer.                                                             *)
LEMMA TakeUpFields ==
  ASSUME NEW P \in [Rqb -> Place], Placed(P), NEW t \in Threads,
         NEW m \in Msgs, NEW h \in Rqb, h = m.hRqb,
         IsFor(asked, m, Home[t]), OnItsWay(P[h], t), NoWork(t), TakeUp(t, m),
         NEW R, R = [P EXCEPT ![h] = Read(t)]
  PROVE  /\ R \in [Rqb -> Place]
         /\ OthersKept(t, h) /\ MailKept(P, R, h)
         /\ WorkPlaced(R)' /\ AskedPlaced(R)'
<1>2. t \in Clients <=> t \notin Servers
  BY RequestsAssumption
<1>3. /\ serving \in [Servers -> Rqb \cup {0}]
      /\ asked \in [Rqb -> Clients \cup {NoClient}]
  BY DEF Placed, WorkPlaced, AskedPlaced
<1>4. Read(t) \in Place
  BY <1>2 DEF Read, Place
<1>5. R \in [Rqb -> Place]
  BY <1>4
<1>6. /\ serving' \in [Servers -> Rqb \cup {0}]
      /\ \A u \in Servers \ {t} : serving'[u] = serving[u]
      /\ t \in Servers => serving'[t] = h
  BY <1>3 DEF TakeUp
<1>7. /\ asked' \in [Rqb -> Clients \cup {NoClient}]
      /\ \A g \in Rqb \ {h} : asked'[g] = asked[g]
      /\ t \in Clients => asked'[h] = NoClient
      /\ t \notin Clients => asked'[h] = asked[h]
  BY <1>3 DEF TakeUp
<1>8. \A x : P[h] # InWork(x) /\ P[h] # Nowhere
  BY PlacesDiffer DEF OnItsWay
<1>9. \A x : Read(t) # InQueue(x) /\ Read(t) # InHand(x)
  BY PlacesDiffer DEF Read
<1>10. WorkPlaced(R)'
  <2>1. ASSUME NEW u \in Servers, serving'[u] # 0
        PROVE  R[serving'[u]] = InWork(u)
    <3>1. CASE u = t
      BY <3>1, <1>2, <1>5, <1>6 DEF Read
    <3>2. CASE u # t
      <4>1. serving'[u] = serving[u] /\ serving[u] \in Rqb /\ P[serving[u]] = InWork(u)
        BY <3>2, <2>1, <1>3, <1>6 DEF Placed, WorkPlaced
      <4>2. serving[u] # h
        BY <4>1, <1>8
      <4> QED
        BY <4>1, <4>2, <1>5
    <3> QED
      BY <3>1, <3>2
  <2>2. ASSUME NEW g \in Rqb, NEW u \in Servers, R[g] = InWork(u)
        PROVE  serving'[u] = g
    <3>1. CASE g = h
      <4>1. Read(t) = InWork(u)
        BY <3>1, <2>2, <1>5
      <4>2. u = t
        BY <4>1, PlacesDiffer DEF Read
      <4> QED
        BY <3>1, <4>2, <1>6
    <3>2. CASE g # h
      <4>1. P[g] = InWork(u)
        BY <3>2, <2>2, <1>5
      <4>2. serving[u] = g
        BY <4>1 DEF Placed, WorkPlaced
      <4>3. g # 0
        BY RequestsAssumption DEF Rqb
      <4>4. u # t
        BY <4>2, <4>3 DEF NoWork
      <4> QED
        BY <4>2, <4>4, <1>6
    <3> QED
      BY <3>1, <3>2
  <2> QED
    BY <1>6, <2>1, <2>2 DEF WorkPlaced
<1>11. AskedPlaced(R)'
  <2>1. UNCHANGED request_block
    BY DEF TakeUp
  <2>2. ASSUME NEW g \in Rqb
        PROVE  asked'[g] = NoClient <=> R[g] = Nowhere
    <3>1. CASE g # h
      BY <3>1, <1>5, <1>7 DEF Placed, AskedPlaced
    <3>2. CASE g = h /\ t \in Clients
      BY <3>2, <1>5, <1>7 DEF Read
    <3>3. CASE g = h /\ t \notin Clients
      <4>1. Read(t) # Nowhere
        BY <3>3, PlacesDiffer DEF Read
      <4>2. asked[h] # NoClient
        BY <1>8 DEF Placed, AskedPlaced
      <4> QED
        BY <3>3, <4>1, <4>2, <1>5, <1>7
    <3> QED
      BY <3>1, <3>2, <3>3
  <2>3. \A g \in Rqb : asked'[g] # NoClient => asked'[g] = asked[g]
    BY <1>7
  <2> QED
    BY <1>7, <2>1, <2>2, <2>3 DEF Placed, AskedPlaced
<1>12. \A x : \A g \in Rqb : R[g] = InQueue(x) => P[g] = InQueue(x) /\ g # h
  BY <1>5, <1>9
<1>13. \A x : \A g \in Rqb : R[g] = InHand(x) => P[g] = InHand(x) /\ g # h
  BY <1>5, <1>9
<1>14. OthersKept(t, h) /\ MailKept(P, R, h)
  BY <1>3, <1>6, <1>7, <1>12, <1>13 DEF OthersKept, MailKept
<1> QED
  BY <1>5, <1>10, <1>11, <1>14

LEMMA ReturnKeeps ==
  ASSUME RequestsInv, NEW t \in Threads, Return(t)
  PROVE  RequestsInv'
<1>1. PICK P \in [Rqb -> Place] : Placed(P)
  BY DEF RequestsInv
<1>2. PICK s \in [0 .. nRequest -> 1 .. NR_RQB + 1] : Stacked(s)
  BY DEF RequestsInv
<1>3. PICK m : m = handed[t]
  OBVIOUS
<1>4. /\ m # NoMessage /\ TakeUp(t, m) /\ ~IsWaiting(t)
      /\ handed' = [handed EXCEPT ![t] = NoMessage]
      /\ UNCHANGED <<queue, waiting>>
  BY <1>3 DEF Return, Collect
<1>5. /\ m \in Msgs /\ P[m.hRqb] = InHand(t) /\ IsFor(asked, m, Home[t])
      /\ t \in Servers => serving[t] = 0
  BY <1>1, <1>3, <1>4 DEF Placed, HandedPlaced
<1>6. PICK h \in Rqb : h = m.hRqb
  BY <1>5 DEF Msgs
<1>7. PICK R : R = [P EXCEPT ![h] = Read(t)]
  OBVIOUS
<1>8. OnItsWay(P[h], t) /\ NoWork(t)
  BY <1>5, <1>6 DEF OnItsWay, NoWork
<1>9. /\ R \in [Rqb -> Place]
      /\ OthersKept(t, h) /\ MailKept(P, R, h)
      /\ WorkPlaced(R)' /\ AskedPlaced(R)'
  BY <1>1, <1>4, <1>5, <1>6, <1>7, <1>8, TakeUpFields
<1>k. /\ \A g \in Rqb \ {h} : asked'[g] = asked[g]
      /\ \A g \in Rqb : asked'[g] \in {asked[g], NoClient}
      /\ \A u \in Servers \ {t} : serving'[u] = serving[u]
      /\ \A x : \A g \in Rqb : R[g] = InQueue(x) => P[g] = InQueue(x) /\ g # h
      /\ \A x : \A g \in Rqb : R[g] = InHand(x) => P[g] = InHand(x) /\ g # h
  BY <1>9 DEF OthersKept, MailKept
<1>10. \A x : \A n \in Msgs : IsFor(asked, n, x) /\ n.hRqb # h => IsFor(asked', n, x)
  BY <1>k DEF IsFor, Msgs
<1>11. QueuesPlaced(R)'
  <2>1. \A x \in Boxes : {g \in Rqb : R[g] = InQueue(x)} = {g \in Rqb : P[g] = InQueue(x)}
    BY <1>5, <1>6, <1>7, <1>k, PlacesDiffer
  <2>2. ASSUME NEW x \in Boxes, NEW i \in DOMAIN queue[x]
        PROVE  IsFor(asked', queue[x][i].body, x)
    <3>1. /\ queue[x] \in Seq(Entry)
          /\ queue[x][i].body.hRqb \in {g \in Rqb : P[g] = InQueue(x)}
      BY <1>1 DEF Placed, QueuesPlaced, Holds
    <3>2. queue[x][i] \in Entry
      BY <3>1, LenProperties
    <3>3. queue[x][i].body \in Msgs /\ queue[x][i].body.hRqb # h
      BY <3>1, <3>2, <1>5, <1>6, PlacesDiffer DEF Entry
    <3> QED
      BY <1>1, <3>3, <1>10 DEF Placed, QueuesPlaced
  <2>3. \A x \in Boxes : Holds(queue[x], {g \in Rqb : R[g] = InQueue(x)})
    BY <1>1, <2>1 DEF Placed, QueuesPlaced
  <2> QED
    BY <1>1, <1>4, <2>2, <2>3 DEF Placed, QueuesPlaced
<1>12. WaitersFree'
  <2>1. ASSUME NEW x \in Boxes, NEW i \in DOMAIN waiting[x]
        PROVE  LET u == waiting[x][i]
               IN  Home[u] = x /\ handed'[u] = NoMessage /\ (u \in Servers => serving'[u] = 0)
    <3>1. waiting[x] \in Seq(Threads)
      BY <1>1 DEF Placed, WaitersFree
    <3>2. waiting[x][i] \in Threads /\ i \in 1 .. Len(waiting[x])
      BY <3>1, LenProperties
    <3>3. waiting[x][i] # t
      BY <3>2, <1>4 DEF IsWaiting, Contains
    <3>4. handed'[waiting[x][i]] = handed[waiting[x][i]]
      BY <3>2, <3>3, <1>1, <1>4 DEF Placed, HandedPlaced
    <3> QED
      BY <3>3, <3>4, <1>1, <1>k DEF Placed, WaitersFree
  <2> QED
    BY <1>1, <1>4, <2>1 DEF Placed, WaitersFree
<1>13. HandedPlaced(R)'
  <2>1. handed' \in [Threads -> Msgs \cup {NoMessage}]
    BY <1>1, <1>4 DEF Placed, HandedPlaced
  <2>2. ASSUME NEW u \in Threads, handed'[u] # NoMessage
        PROVE  /\ R[handed'[u].hRqb] = InHand(u)
               /\ IsFor(asked', handed'[u], Home[u])
               /\ u \in Servers => serving'[u] = 0
    <3>1. u # t /\ handed'[u] = handed[u]
      BY <2>2, <1>1, <1>4 DEF Placed, HandedPlaced
    <3>2. /\ handed[u] \in Msgs /\ P[handed[u].hRqb] = InHand(u)
          /\ IsFor(asked, handed[u], Home[u])
          /\ u \in Servers => serving[u] = 0
      BY <3>1, <2>2, <1>1 DEF Placed, HandedPlaced
    <3>3. handed[u].hRqb \in Rqb /\ handed[u].hRqb # h
      BY <3>1, <3>2, <1>5, <1>6, PlacesDiffer DEF Msgs
    <3> QED
      BY <3>1, <3>2, <3>3, <1>7, <1>k, <1>10
  <2>3. ASSUME NEW g \in Rqb, NEW u \in Threads, R[g] = InHand(u)
        PROVE  handed'[u] # NoMessage /\ handed'[u].hRqb = g
    <3>1. P[g] = InHand(u) /\ g # h
      BY <2>3, <1>k
    <3>2. handed[u] # NoMessage /\ handed[u].hRqb = g
      BY <3>1, <1>1 DEF Placed, HandedPlaced
    <3>3. u # t
      BY <3>1, <3>2, <1>3, <1>6
    <3> QED
      BY <3>2, <3>3, <1>1, <1>4 DEF Placed, HandedPlaced
  <2> QED
    BY <2>1, <2>2, <2>3 DEF HandedPlaced
<1>14. Placed(R)'
  BY <1>9, <1>11, <1>12, <1>13 DEF Placed
<1>15. UNCHANGED <<request_block, FreeRQB, nRequest, service, spare>>
  BY <1>4 DEF TakeUp
<1>16. Stacked(s)' /\ s \in [0 .. nRequest' -> 1 .. NR_RQB + 1]
  BY <1>2, <1>k, <1>15, StackUntouched
<1>17. Fields'
  BY <1>15 DEF RequestsInv, Fields
<1> QED
  BY <1>9, <1>14, <1>16, <1>17 DEF RequestsInv

LEMMA ReceiveKeeps ==
  ASSUME RequestsInv, NEW t \in Threads, Receive(t)
  PROVE  RequestsInv'
<1>1. PICK P \in [Rqb -> Place] : Placed(P)
  BY DEF RequestsInv
<1>2. PICK s \in [0 .. nRequest -> 1 .. NR_RQB + 1] : Stacked(s)
  BY DEF RequestsInv
<1>3. PICK b : b = Home[t]
  OBVIOUS
<1>4. PICK m : m = Head(queue[b]).body
  OBVIOUS
<1>5. /\ Runs(t) /\ Idle(t) /\ queue[b] # <<>> /\ TakeUp(t, m)
      /\ queue' = [queue EXCEPT ![b] = Tail(@)]
      /\ UNCHANGED <<waiting, handed>>
  BY <1>3, <1>4 DEF Receive, Take
<1> DEFINE S(x) == {g \in Rqb : P[g] = InQueue(x)}
<1>6. b \in Boxes /\ queue \in [Boxes -> Seq(Entry)]
  BY <1>1, <1>3, RequestsAssumption DEF Placed, QueuesPlaced
<1>7. \A x \in Boxes : Holds(queue[x], S(x)) /\ S(x) \in SUBSET Rqb
  BY <1>1 DEF Placed, QueuesPlaced
<1> HIDE DEF S
<1>8. /\ Head(queue[b]) \in Entry
      /\ Head(queue[b]) = queue[b][1] /\ 1 \in DOMAIN queue[b]
      /\ m.hRqb \in S(b)
      /\ \A i \in DOMAIN Tail(queue[b]) : Tail(queue[b])[i] = queue[b][i + 1]
                                         /\ i + 1 \in DOMAIN queue[b]
      /\ Holds(Tail(queue[b]), S(b) \ {m.hRqb})
  <2>1. Holds(queue[b], S(b)) /\ S(b) \in SUBSET Rqb
    BY <1>6, <1>7
  <2> QED
    BY <2>1, <1>4, <1>5, TailHolds
<1>9. m \in Msgs /\ IsFor(asked, m, b)
  BY <1>1, <1>4, <1>6, <1>8 DEF Placed, QueuesPlaced, Entry
<1>10. PICK h \in Rqb : h = m.hRqb
  BY <1>9 DEF Msgs
<1>11. PICK R : R = [P EXCEPT ![h] = Read(t)]
  OBVIOUS
<1>12. P[h] = InQueue(b)
  BY <1>8, <1>10 DEF S
<1>13. OnItsWay(P[h], t) /\ NoWork(t)
  BY <1>3, <1>5, <1>12 DEF OnItsWay, NoWork, Idle
<1>14. /\ R \in [Rqb -> Place]
       /\ OthersKept(t, h) /\ MailKept(P, R, h)
       /\ WorkPlaced(R)' /\ AskedPlaced(R)'
  BY <1>1, <1>3, <1>5, <1>9, <1>10, <1>11, <1>13, TakeUpFields
<1>15. \A x : \A n \in Msgs : IsFor(asked, n, x) /\ n.hRqb # h => IsFor(asked', n, x)
  BY <1>14 DEF OthersKept, IsFor, Msgs
<1>16. QueuesPlaced(R)'
  <2> DEFINE T(x) == {g \in Rqb : R[g] = InQueue(x)}
  <2>1. T(b) = S(b) \ {h}
    BY <1>11, <1>12, <1>14 DEF MailKept, S
  <2>2. \A x \in Boxes \ {b} : T(x) = S(x)
    BY <1>11, <1>12, <1>14, PlacesDiffer DEF MailKept, S
  <2> HIDE DEF T
  <2>3. /\ queue'[b] = Tail(queue[b])
        /\ \A x \in Boxes \ {b} : queue'[x] = queue[x]
    BY <1>5, <1>6
  <2>4. \A x \in Boxes : Holds(queue'[x], T(x))
    <3>1. Holds(queue'[b], T(b))
      BY <2>1, <2>3, <1>8, <1>10
    <3>2. \A x \in Boxes \ {b} : Holds(queue'[x], T(x))
      BY <2>2, <2>3, <1>7
    <3> QED
      BY <3>1, <3>2
  <2>5. queue' \in [Boxes -> Seq(Entry)]
    <3>1. Tail(queue[b]) \in Seq(Entry)
      BY <1>8 DEF Holds
    <3> QED
      BY <3>1, <1>5, <1>6
  <2>6. ASSUME NEW x \in Boxes, NEW i \in DOMAIN queue'[x]
        PROVE  IsFor(asked', queue'[x][i].body, x)
    <3>1. PICK j \in DOMAIN queue[x] : queue'[x][i] = queue[x][j]
      <4>1. CASE x = b
        BY <4>1, <2>3, <1>8
      <4>2. CASE x # b
        BY <4>2, <2>3
      <4> QED
        BY <4>1, <4>2
    <3>2. queue'[x] \in Seq(Entry) /\ queue'[x][i].body.hRqb \in T(x)
      BY <2>4 DEF Holds
    <3>3. queue'[x][i] \in Entry
      BY <3>2, LenProperties
    <3>4. queue'[x][i].body \in Msgs
      BY <3>3 DEF Entry
    <3>5. queue'[x][i].body.hRqb # h
      BY <3>2, <1>14 DEF T, MailKept
    <3>6. IsFor(asked, queue'[x][i].body, x)
      BY <3>1, <1>1 DEF Placed, QueuesPlaced
    <3> QED
      BY <3>4, <3>5, <3>6, <1>15
  <2> QED
    BY <2>4, <2>5, <2>6 DEF QueuesPlaced, T
<1>17. WaitersFree'
  <2>1. ASSUME NEW x \in Boxes, NEW i \in DOMAIN waiting[x]
        PROVE  LET u == waiting[x][i]
               IN  Home[u] = x /\ handed'[u] = NoMessage /\ (u \in Servers => serving'[u] = 0)
    <3>1. waiting[x] \in Seq(Threads)
      BY <1>1 DEF Placed, WaitersFree
    <3>2. waiting[x][i] \in Threads /\ i \in 1 .. Len(waiting[x])
      BY <3>1, LenProperties
    <3>3. waiting[x][i] # t
      BY <3>2, <1>5 DEF Runs, IsWaiting, Contains
    <3> QED
      BY <3>3, <1>1, <1>5, <1>14 DEF Placed, WaitersFree, OthersKept
  <2> QED
    BY <1>1, <1>5, <2>1 DEF Placed, WaitersFree
<1>18. HandedPlaced(R)'
  <2>1. ASSUME NEW u \in Threads, handed[u] # NoMessage
        PROVE  /\ R[handed[u].hRqb] = InHand(u)
               /\ IsFor(asked', handed[u], Home[u])
               /\ u \in Servers => serving'[u] = 0
    <3>1. u # t
      BY <2>1, <1>5 DEF Runs
    <3>2. /\ handed[u] \in Msgs /\ P[handed[u].hRqb] = InHand(u)
          /\ IsFor(asked, handed[u], Home[u])
          /\ u \in Servers => serving[u] = 0
      BY <2>1, <1>1 DEF Placed, HandedPlaced
    <3>3. handed[u].hRqb \in Rqb /\ handed[u].hRqb # h
      BY <3>2, <1>12, PlacesDiffer DEF Msgs
    <3> QED
      BY <3>1, <3>2, <3>3, <1>11, <1>14, <1>15 DEF OthersKept
  <2>2. \A g \in Rqb, u \in Threads : R[g] = InHand(u) =>
          handed[u] # NoMessage /\ handed[u].hRqb = g
    BY <1>1, <1>14 DEF Placed, HandedPlaced, MailKept
  <2> QED
    BY <1>1, <1>5, <2>1, <2>2 DEF Placed, HandedPlaced
<1>19. Placed(R)'
  BY <1>14, <1>16, <1>17, <1>18 DEF Placed
<1>20. UNCHANGED <<request_block, FreeRQB, nRequest, service, spare>>
  BY <1>5 DEF TakeUp
<1>21. \A g \in Rqb : asked'[g] \in {asked[g], NoClient}
  BY <1>14 DEF OthersKept
<1>22. Stacked(s)' /\ s \in [0 .. nRequest' -> 1 .. NR_RQB + 1]
  BY <1>2, <1>20, <1>21, StackUntouched
<1>23. Fields'
  BY <1>20 DEF RequestsInv, Fields
<1> QED
  BY <1>14, <1>19, <1>22, <1>23 DEF RequestsInv

LEMMA AwaitMsgKeeps ==
  ASSUME RequestsInv, NEW t \in Threads, AwaitMsg(t)
  PROVE  RequestsInv'
<1>1. PICK P \in [Rqb -> Place] : Placed(P)
  BY DEF RequestsInv
<1>2. PICK s \in [0 .. nRequest -> 1 .. NR_RQB + 1] : Stacked(s)
  BY DEF RequestsInv
<1>3. PICK b : b = Home[t]
  OBVIOUS
<1>4. /\ Runs(t) /\ Idle(t) /\ ~IsWaiting(t)
      /\ waiting' = [waiting EXCEPT ![b] = Append(@, t)]
      /\ UNCHANGED <<queue, handed, request_block, FreeRQB, nRequest, service, spare,
                     serving, asked>>
  BY <1>3 DEF AwaitMsg, Wait, reqVars
<1>5. b \in Boxes /\ waiting \in [Boxes -> Seq(Threads)]
  BY <1>1, <1>3, RequestsAssumption DEF Placed, WaitersFree
<1>6. PICK w : w = waiting[b]
  OBVIOUS
<1>7. /\ w \in Seq(Threads) /\ Len(w) \in Nat /\ DOMAIN w = 1 .. Len(w)
      /\ Append(w, t) \in Seq(Threads)
      /\ Len(Append(w, t)) = Len(w) + 1
      /\ DOMAIN Append(w, t) = 1 .. Len(w) + 1
      /\ \A i \in 1 .. Len(w) : Append(w, t)[i] = w[i]
      /\ Append(w, t)[Len(w) + 1] = t
  BY <1>5, <1>6, AppendProperties, LenProperties
<1>8. /\ waiting' \in [Boxes -> Seq(Threads)]
      /\ waiting'[b] = Append(w, t)
      /\ \A x \in Boxes \ {b} : waiting'[x] = waiting[x]
  BY <1>4, <1>5, <1>6, <1>7
<1>9. \A i \in DOMAIN w : w[i] # t
  BY <1>4, <1>5, <1>6, <1>7 DEF IsWaiting, Contains
<1>10. handed[t] = NoMessage /\ (t \in Servers => serving[t] = 0)
  BY <1>4 DEF Runs, Idle
<1>11. WaitersFree'
  <2>1. ASSUME NEW x \in Boxes, NEW i \in DOMAIN waiting'[x], NEW j \in DOMAIN waiting'[x],
               waiting'[x][i] = waiting'[x][j]
        PROVE  i = j
    <3>1. CASE x # b
      BY <3>1, <2>1, <1>1, <1>8 DEF Placed, WaitersFree
    <3>2. CASE x = b
      <4>1. /\ i \in 1 .. Len(w) + 1 /\ j \in 1 .. Len(w) + 1
            /\ Append(w, t)[i] = Append(w, t)[j]
        BY <3>2, <2>1, <1>7, <1>8
      <4>2. \A k \in 1 .. Len(w) : Append(w, t)[k] = w[k] /\ w[k] # t
        BY <1>7, <1>9
      <4>3. CASE i \in 1 .. Len(w) /\ j \in 1 .. Len(w)
        BY <4>1, <4>2, <4>3, <1>1, <1>5, <1>6, <1>7 DEF Placed, WaitersFree
      <4> QED
        BY <4>1, <4>2, <4>3, <1>7
    <3> QED
      BY <3>1, <3>2
  <2>2. ASSUME NEW x \in Boxes, NEW i \in DOMAIN waiting'[x]
        PROVE  LET u == waiting'[x][i]
               IN  Home[u] = x /\ handed'[u] = NoMessage /\ (u \in Servers => serving'[u] = 0)
    <3>1. CASE i \in DOMAIN waiting[x] /\ waiting'[x][i] = waiting[x][i]
      BY <3>1, <1>1, <1>4 DEF Placed, WaitersFree
    <3>2. CASE x = b /\ waiting'[x][i] = t
      BY <3>2, <1>3, <1>4, <1>10
    <3>3. CASE x # b
      BY <3>1, <3>3, <1>8
    <3>4. CASE x = b
      <4>1. i \in 1 .. Len(w) \/ i = Len(w) + 1
        BY <3>4, <1>7, <1>8
      <4> QED
        BY <3>1, <3>2, <3>4, <4>1, <1>6, <1>7, <1>8
    <3> QED
      BY <3>3, <3>4
  <2> QED
    BY <1>8, <2>1, <2>2 DEF WaitersFree
<1>12. Placed(P)'
  BY <1>1, <1>4, <1>11
     DEF Placed, QueuesPlaced, HandedPlaced, WorkPlaced, AskedPlaced
<1>13. Stacked(s)' /\ s \in [0 .. nRequest' -> 1 .. NR_RQB + 1]
  BY <1>2, <1>4 DEF Stacked
<1>14. Fields'
  BY <1>4 DEF RequestsInv, Fields
<1> QED
  BY <1>12, <1>13, <1>14 DEF RequestsInv

(* What touches nothing but the service table and the mailboxes to spare.  *)
LEMMA ElsewhereKeeps ==
  ASSUME RequestsInv, Fields',
         UNCHANGED <<queue, waiting, handed, request_block, FreeRQB, nRequest, serving, asked>>
  PROVE  RequestsInv'
<1>1. PICK P \in [Rqb -> Place] : Placed(P)
  BY DEF RequestsInv
<1>2. PICK s \in [0 .. nRequest -> 1 .. NR_RQB + 1] : Stacked(s)
  BY DEF RequestsInv
<1>3. Placed(P)'
  BY <1>1 DEF Placed, QueuesPlaced, WaitersFree, HandedPlaced, WorkPlaced, AskedPlaced
<1>4. Stacked(s)' /\ s \in [0 .. nRequest' -> 1 .. NR_RQB + 1]
  BY <1>2 DEF Stacked
<1> QED
  BY <1>3, <1>4 DEF RequestsInv

LEMMA RegisterKeeps ==
  ASSUME RequestsInv, NEW n \in Names, FMTK_RegisterService(n)
  PROVE  RequestsInv'
<1> DEFINE e == [name |-> n, service_mbx |-> Head(spare)]
           B == [name : Names \cup {NoName}, service_mbx : Box0]
<1>1. /\ spare # <<>>
      /\ service' = [service EXCEPT ![FirstNamed(NoName)] = e]
      /\ spare' = Tail(spare)
      /\ UNCHANGED <<queue, waiting, handed, request_block, FreeRQB, nRequest, serving, asked>>
  BY DEF FMTK_RegisterService, mailVars
<1>2. spare \in Seq(Boxes) /\ service \in [Service -> B]
  BY DEF RequestsInv, Fields
<1>3. /\ Len(spare) \in Nat \ {0}
      /\ DOMAIN spare = 1 .. Len(spare)
      /\ Head(spare) \in Boxes /\ Head(spare) = spare[1]
      /\ Tail(spare) \in Seq(Boxes)
      /\ DOMAIN Tail(spare) = 1 .. Len(spare) - 1
      /\ \A i \in 1 .. Len(spare) - 1 : Tail(spare)[i] = spare[i + 1]
  BY <1>1, <1>2, HeadTailProperties, LenProperties, EmptySeq
<1>4. \A c \in Clients : \A i \in DOMAIN spare' : spare'[i] # Home[c]
  <2>1. \A i \in DOMAIN spare' : i + 1 \in DOMAIN spare /\ spare'[i] = spare[i + 1]
    BY <1>1, <1>3
  <2> QED
    BY <2>1 DEF RequestsInv, Fields
<1>5. e \in B /\ e.service_mbx = spare[1] /\ 1 \in DOMAIN spare
  BY <1>3 DEF Box0
<1> HIDE DEF e
<1>6. \A s \in Service : service'[s] \in {service[s], e}
  BY <1>1, <1>2
<1>7. service' \in [Service -> B]
  BY <1>1, <1>2, <1>5
<1>8. \A c \in Clients : \A s \in Service : service'[s].service_mbx # Home[c]
  <2> SUFFICES ASSUME NEW c \in Clients, NEW s \in Service
               PROVE  service'[s].service_mbx # Home[c]
    OBVIOUS
  <2>1. CASE service'[s] = service[s]
    BY <2>1 DEF RequestsInv, Fields
  <2>2. CASE service'[s] = e
    BY <2>2, <1>5 DEF RequestsInv, Fields
  <2> QED
    BY <2>1, <2>2, <1>6
<1>9. Fields'
  BY <1>1, <1>3, <1>4, <1>7, <1>8 DEF RequestsInv, Fields
<1> QED
  BY <1>1, <1>9, ElsewhereKeeps

LEMMA UnregisterKeeps ==
  ASSUME RequestsInv, NEW n \in Names, FMTK_UnregisterService(n)
  PROVE  RequestsInv'
<1> DEFINE e == [name |-> NoName, service_mbx |-> 0]
           B == [name : Names \cup {NoName}, service_mbx : Box0]
<1>1. /\ service' = [service EXCEPT ![FirstNamed(n)] = e]
      /\ UNCHANGED <<queue, waiting, handed, request_block, FreeRQB, nRequest, serving, asked,
                     spare>>
  BY DEF FMTK_UnregisterService, mailVars
<1>2. service \in [Service -> B]
  BY DEF RequestsInv, Fields
<1>3. e \in B /\ \A c \in Clients : e.service_mbx # Home[c]
  BY RequestsAssumption DEF Box0
<1> HIDE DEF e
<1>4. \A s \in Service : service'[s] \in {service[s], e}
  BY <1>1, <1>2
<1>5. service' \in [Service -> B]
  BY <1>1, <1>2, <1>3
<1>6. \A c \in Clients : \A s \in Service : service'[s].service_mbx # Home[c]
  BY <1>3, <1>4 DEF RequestsInv, Fields
<1>7. Fields'
  BY <1>1, <1>5, <1>6 DEF RequestsInv, Fields
<1> QED
  BY <1>1, <1>7, ElsewhereKeeps

-----------------------------------------------------------------------------
(* The invariant.                                                          *)

LEMMA InitRequests == Init => RequestsInv
<1> SUFFICES ASSUME Init PROVE RequestsInv
  OBVIOUS
<1> DEFINE P0 == [h \in Rqb |-> Nowhere]
           s0 == [i \in 0 .. NR_RQB |-> NR_RQB + 1 - i]
<1>1. P0 \in [Rqb -> Place]
  BY DEF Place
<1>2. NR_RQB \in Nat \ {0} /\ \A b \in Boxes : b # 0
  BY RequestsAssumption
<1>3. Fields
  <2>1. request_block \in [Rqb -> [magic : Magic, next : 1 .. NR_RQB + 1,
                                   response_mbx : Box0]]
    <3>1. \A h \in Rqb : h + 1 \in 1 .. NR_RQB + 1
      BY <1>2 DEF Rqb
    <3> QED
      BY <3>1 DEF Init, Magic, Box0
  <2>2. service \in [Service -> [name : Names \cup {NoName}, service_mbx : Box0]]
    BY DEF Init, Box0
  <2>3. spare \in Seq(Boxes)
    BY RequestsAssumption DEF Init
  <2>4. \A c \in Clients : Home[c] # 0 /\ \A i \in DOMAIN spare : spare[i] # Home[c]
    <3>1. DOMAIN spare = 1 .. Len(spare)
      BY <2>3, LenProperties
    <3> QED
      BY <3>1, RequestsAssumption DEF Init, Contains
  <2>5. \A s \in Service : service[s].service_mbx = 0
    BY DEF Init
  <2> QED
    BY <2>1, <2>2, <2>3, <2>4, <2>5 DEF Fields
<1>4. Placed(P0)
  <2>1. <<>> \in Seq(Entry) /\ <<>> \in Seq(Threads) /\ DOMAIN <<>> = {}
    OBVIOUS
  <2>2. Holds(<<>>, {})
    BY <2>1 DEF Holds
  <2>3. \A b \in Boxes : {h \in Rqb : P0[h] = InQueue(b)} = {}
    BY PlacesDiffer
  <2>4. QueuesPlaced(P0)
    BY <2>1, <2>2, <2>3 DEF QueuesPlaced, Init, MailInit
  <2>5. WaitersFree
    BY <2>1 DEF WaitersFree, Init, MailInit
  <2>6. HandedPlaced(P0)
    BY PlacesDiffer DEF HandedPlaced, Init, MailInit
  <2>7. WorkPlaced(P0)
    BY PlacesDiffer DEF WorkPlaced, Init
  <2>8. AskedPlaced(P0)
    BY DEF AskedPlaced, Init
  <2> QED
    BY <2>4, <2>5, <2>6, <2>7, <2>8 DEF Placed
<1>5. nRequest = NR_RQB /\ FreeRQB = 1
  BY DEF Init
<1>6. s0 \in [0 .. NR_RQB -> 1 .. NR_RQB + 1] /\ s0[0] = NR_RQB + 1 /\ s0[NR_RQB] = 1
  BY <1>2
<1>7. \A i, j \in 0 .. NR_RQB : s0[i] = s0[j] => i = j
  BY <1>2
<1>8. \A i \in 1 .. NR_RQB : /\ s0[i] \in Rqb
                             /\ s0[i - 1] = s0[i] + 1
  BY <1>2 DEF Rqb
<1> HIDE DEF s0
<1>9. \A i \in 1 .. NR_RQB : asked[s0[i]] = NoClient /\ request_block[s0[i]].next = s0[i - 1]
  BY <1>8 DEF Init
<1>10. Stacked(s0)
  BY <1>2, <1>5, <1>6, <1>7, <1>9 DEF Stacked
<1> QED
  BY <1>1, <1>3, <1>4, <1>5, <1>6, <1>10 DEF RequestsInv

LEMMA RequestsStep == RequestsInv /\ [Next]_vars => RequestsInv'
<1> SUFFICES ASSUME RequestsInv, [Next]_vars PROVE RequestsInv'
  OBVIOUS
<1>1. CASE \E n \in Names : FMTK_RegisterService(n)
  BY <1>1, RegisterKeeps
<1>2. CASE \E n \in Names : FMTK_UnregisterService(n)
  BY <1>2, UnregisterKeeps
<1>3. CASE \E c \in Clients, i \in Service, magic \in Magic : FMTK_Request(c, i, magic)
  BY <1>3, RequestKeeps
<1>4. CASE \E t \in Servers, stat \in Status : FMTK_Respond(t, stat)
  <2>1. PICK t \in Servers, stat \in Status : FMTK_Respond(t, stat)
    BY <1>4
  <2>2. PICK h : h = serving[t]
    OBVIOUS
  <2>3. h # 0 /\ serving' = [serving EXCEPT ![t] = 0] /\ UNCHANGED <<service, spare>>
    BY <2>1, <2>2 DEF FMTK_Respond
  <2>4. CASE stat = "E_OwnerAbort"
    <3>1. FreeRqb(h) /\ asked' = [asked EXCEPT ![h] = NoClient] /\ UNCHANGED mailVars
      BY <2>1, <2>2, <2>4 DEF FMTK_Respond
    <3> QED
      BY <2>2, <2>3, <3>1, GiveUpKeeps
  <2>5. CASE stat # "E_OwnerAbort"
    <3>1. /\ Deliver(request_block[h].response_mbx, RespMsg(h))
          /\ UNCHANGED <<request_block, FreeRQB, nRequest, asked>>
      BY <2>1, <2>2, <2>5 DEF FMTK_Respond
    <3> QED
      BY <2>2, <2>3, <3>1, AnswerKeeps
  <2> QED
    BY <2>4, <2>5
<1>5. CASE \E t \in Threads : Receive(t) \/ AwaitMsg(t) \/ Return(t)
  BY <1>5, ReceiveKeeps, AwaitMsgKeeps, ReturnKeeps
<1>6. CASE UNCHANGED vars
  <2>1. UNCHANGED <<queue, waiting, handed, request_block, FreeRQB, nRequest, service, spare,
                    serving, asked>>
    BY <1>6 DEF vars, mailVars, reqVars
  <2>2. Fields'
    BY <2>1 DEF RequestsInv, Fields
  <2> QED
    BY <2>1, <2>2, ElsewhereKeeps
<1> QED
  BY <1>1, <1>2, <1>3, <1>4, <1>5, <1>6 DEF Next

(***************************************************************************)
(* Every request block is in one place, its message where the thread looks *)
(* that is to read it, and the free blocks are a stack: an inductive       *)
(* invariant (msg.c 24-134, 1021-1147).                                    *)
(***************************************************************************)
THEOREM RequestsKeepInv == Spec => []RequestsInv
BY InitRequests, RequestsStep, PTL DEF Spec

(* A stack has no more elements than there are blocks.                     *)
LEMMA StackSize ==
  ASSUME NEW s, Stacked(s)
  PROVE  /\ nRequest \in 0 .. NR_RQB
         /\ IsFiniteSet({s[i] : i \in 1 .. nRequest})
         /\ Cardinality({s[i] : i \in 1 .. nRequest}) = nRequest
<1> DEFINE S == {s[i] : i \in 1 .. nRequest}
           f == [i \in 1 .. nRequest |-> s[i]]
<1>1. nRequest \in Nat /\ NR_RQB \in Nat /\ \A i \in 1 .. nRequest : i \in 0 .. nRequest
  BY RequestsAssumption DEF Stacked
<1>2. /\ IsFiniteSet(1 .. nRequest) /\ Cardinality(1 .. nRequest) = nRequest
      /\ IsFiniteSet(Rqb) /\ Cardinality(Rqb) = NR_RQB
  BY <1>1, CountUpTo DEF Rqb
<1>3. f \in Injection(1 .. nRequest, Rqb)
  <2>1. f \in [1 .. nRequest -> Rqb]
    BY StackedBlocks
  <2>2. \A i, j \in 1 .. nRequest : f[i] = f[j] => i = j
    BY <1>1 DEF Stacked
  <2> QED
    BY <2>1, <2>2 DEF Injection, IsInjective
<1>4. Cardinality(1 .. nRequest) <= Cardinality(Rqb)
  BY <1>2, <1>3, FS_Injection
<1>5. f \in Bijection(1 .. nRequest, S)
  <2>1. \A i, j \in 1 .. nRequest : f[i] = f[j] => i = j
    BY <1>1 DEF Stacked
  <2> QED
    BY <2>1 DEF Bijection, Injection, Surjection, IsInjective
<1>6. ExistsBijection(1 .. nRequest, S)
  BY <1>5 DEF ExistsBijection
<1>7. IsFiniteSet(S) /\ Cardinality(S) = Cardinality(1 .. nRequest)
  BY <1>2, <1>6, FS_Bijection
<1> QED
  BY <1>1, <1>2, <1>4, <1>7

(* The walk from FreeRQB meets the blocks of the stack from top to bottom. *)
LEMMA ChainIsStack ==
  ASSUME Fields, NEW s, Stacked(s)
  PROVE  \A n \in Nat : FreeChain[n] = IF n <= nRequest THEN s[nRequest - n] ELSE NR_RQB + 1
<1> DEFINE Q == 1 .. NR_RQB + 1
           f == [h \in Q |-> IF h \in Rqb THEN request_block[h].next ELSE h]
           I == Iterate(f, FreeRQB)
           D == {n \in Nat : I[n] = IF n <= nRequest THEN s[nRequest - n] ELSE NR_RQB + 1}
<1>1. nRequest \in Nat /\ NR_RQB \in Nat
  BY RequestsAssumption DEF Stacked
<1>2. f \in [Q -> Q]
  BY DEF Fields
<1>3. FreeRQB \in Q
  BY <1>1 DEF Stacked
<1>4. /\ NR_RQB + 1 \in Q /\ f[NR_RQB + 1] = NR_RQB + 1
      /\ \A k \in 1 .. nRequest : s[k] \in Q /\ f[s[k]] = s[k - 1]
  <2>1. NR_RQB + 1 \in Q /\ NR_RQB + 1 \notin Rqb
    BY <1>1 DEF Rqb
  <2>2. \A k \in 1 .. nRequest : s[k] \in Q /\ s[k] \in Rqb
    BY StackedBlocks, <1>1 DEF Rqb
  <2> QED
    BY <2>1, <2>2 DEF Stacked
<1> HIDE DEF f, Q, D
<1>5. I \in [Nat -> Q] /\ I[0] = FreeRQB /\ \A n \in Nat : I[n+1] = f[I[n]]
  BY <1>2, <1>3, IterateDef
<1> HIDE DEF I
<1> USE DEF D
<1>6. 0 \in D
  BY <1>1, <1>5 DEF Stacked
<1>7. ASSUME NEW n \in Nat, n \in D
      PROVE  n + 1 \in D
  <2>1. CASE n < nRequest
    <3>1. PICK k \in 1 .. nRequest : k = nRequest - n
      BY <2>1, <1>1
    <3>2. I[n] = s[k] /\ k - 1 = nRequest - (n + 1) /\ n + 1 <= nRequest
      BY <3>1, <2>1, <1>1, <1>7
    <3>3. I[n + 1] = s[k - 1]
      BY <3>2, <1>4, <1>5
    <3> QED
      BY <3>2, <3>3
  <2>2. CASE ~(n < nRequest)
    <3>1. I[n] = NR_RQB + 1
      BY <2>2, <1>1, <1>7 DEF Stacked
    <3>2. I[n + 1] = NR_RQB + 1
      BY <3>1, <1>4, <1>5
    <3>3. ~(n + 1 <= nRequest)
      BY <2>2, <1>1
    <3> QED
      BY <3>2, <3>3
  <2> QED
    BY <2>1, <2>2
<1> HIDE DEF D
<1>8. Nat \subseteq D
  BY <1>6, <1>7, NatSubsetInduction
<1>9. FreeChain = I
  BY DEF FreeChain, I, f, Q
<1> QED
  BY <1>8, <1>9 DEF D

(* Every variable has its type.                                            *)
THEOREM RequestsTyped == Spec => []TypeOK
<1>1. RequestsInv => TypeOK
  <2> SUFFICES ASSUME RequestsInv PROVE TypeOK
    OBVIOUS
  <2>1. PICK P \in [Rqb -> Place] : Placed(P)
    BY DEF RequestsInv
  <2>2. PICK s : Stacked(s)
    BY DEF RequestsInv
  <2>3. nRequest \in 0 .. NR_RQB
    BY <2>2, StackSize
  <2>4. FreeRQB \in 1 .. NR_RQB + 1
    BY <2>2 DEF Stacked
  <2> QED
    BY <2>1, <2>3, <2>4
       DEF TypeOK, RequestsInv, Fields, Placed, WorkPlaced, AskedPlaced
<1> QED
  BY <1>1, RequestsKeepInv, PTL

(***************************************************************************)
(* nRequest counts the free blocks, none of which carries a request under  *)
(* way (msg.c 46-73, 1047).                                                *)
(***************************************************************************)
THEOREM FreeBlocksStayCounted == Spec => []FreeBlocksCounted
<1>1. RequestsInv => FreeBlocksCounted
  <2> SUFFICES ASSUME RequestsInv PROVE FreeBlocksCounted
    OBVIOUS
  <2>1. PICK s : Stacked(s)
    BY DEF RequestsInv
  <2>2. \A n \in Nat : FreeChain[n] = IF n <= nRequest THEN s[nRequest - n] ELSE NR_RQB + 1
    BY <2>1, ChainIsStack DEF RequestsInv
  <2>3. /\ nRequest \in 0 .. NR_RQB
        /\ Cardinality({s[i] : i \in 1 .. nRequest}) = nRequest
    BY <2>1, StackSize
  <2>4. /\ NR_RQB \in Nat /\ nRequest \in Nat /\ nRequest <= NR_RQB
        /\ NR_RQB + 1 \notin Rqb /\ s[0] = NR_RQB + 1
        /\ \A i \in 1 .. nRequest : s[i] \in Rqb /\ asked[s[i]] = NoClient
    BY <2>1, <2>3, StackedBlocks, RequestsAssumption DEF Stacked, Rqb
  <2>5. ASSUME NEW n \in 0 .. NR_RQB, FreeChain[n] \in Rqb
        PROVE  \E i \in 1 .. nRequest : FreeChain[n] = s[i]
    <3>1. FreeChain[n] = IF n <= nRequest THEN s[nRequest - n] ELSE NR_RQB + 1
      BY <2>2
    <3>2. n <= nRequest /\ n # nRequest
      BY <3>1, <2>4, <2>5
    <3>3. nRequest - n \in 1 .. nRequest
      BY <3>2, <2>4
    <3> QED
      BY <3>1, <3>2, <3>3
  <2>6. ASSUME NEW i \in 1 .. nRequest
        PROVE  \E n \in 0 .. NR_RQB : FreeChain[n] = s[i]
    <3>1. PICK n \in 0 .. NR_RQB : n = nRequest - i
      BY <2>4
    <3>2. n \in Nat /\ n <= nRequest /\ nRequest - n = i
      BY <3>1, <2>4
    <3> QED
      BY <3>2, <2>2
  <2>7. {FreeChain[n] : n \in 0 .. NR_RQB} \cap Rqb = {s[i] : i \in 1 .. nRequest}
    BY <2>4, <2>5, <2>6
  <2>8. \A n \in 0 .. NR_RQB : FreeChain[n] \in Rqb => asked[FreeChain[n]] = NoClient
    BY <2>4, <2>5
  <2> QED
    BY <2>3, <2>7, <2>8 DEF FreeBlocksCounted
<1> QED
  BY <1>1, RequestsKeepInv, PTL

(***************************************************************************)
(* An answer on its way is with the client that has asked, or in its       *)
(* mailbox (msg.c 1093-1147).                                              *)
(***************************************************************************)
THEOREM AnswersAlwaysFindAsker == Spec => []AnswersFindAsker
<1>1. RequestsInv => AnswersFindAsker
  <2> SUFFICES ASSUME RequestsInv PROVE AnswersFindAsker
    OBVIOUS
  <2>1. PICK P \in [Rqb -> Place] : Placed(P)
    BY DEF RequestsInv
  <2>2. ASSUME NEW b \in Boxes, NEW i \in DOMAIN queue[b],
               queue[b][i].body.type = "MT_RESP"
        PROVE  \E c \in Clients : asked[queue[b][i].body.hRqb] = c /\ Home[c] = b
    BY <2>1, <2>2 DEF Placed, QueuesPlaced, IsFor
  <2>3. ASSUME NEW c \in Clients, handed[c] # NoMessage
        PROVE  asked[handed[c].hRqb] = c
    <3>1. c \in Threads
      BY RequestsAssumption
    <3>2. handed[c] \in Msgs /\ IsFor(asked, handed[c], Home[c])
      BY <2>1, <2>3, <3>1 DEF Placed, HandedPlaced
    <3>3. /\ asked[handed[c].hRqb] \in Clients
          /\ Home[asked[handed[c].hRqb]] = Home[c]
      BY <3>2 DEF IsFor, Msgs
    <3> QED
      BY <3>1, <3>3, RequestsAssumption
  <2> QED
    BY <2>2, <2>3 DEF AnswersFindAsker
<1> QED
  BY <1>1, RequestsKeepInv, PTL

(* Where a request is found, from its place.                               *)
LEMMA FoundInPlace ==
  ASSUME NEW P \in [Rqb -> Place], Placed(P), NEW h \in Rqb
  PROVE  /\ \A b \in Boxes : P[h] = InQueue(b) => \E e : Queued(h) = {e}
         /\ (\A b \in Boxes : P[h] # InQueue(b)) => Queued(h) = {}
         /\ \A t \in Threads : P[h] = InHand(t) => Handed(h) = {t}
         /\ (\A t \in Threads : P[h] # InHand(t)) => Handed(h) = {}
         /\ \A t \in Servers : P[h] = InWork(t) => Working(h) = {t}
         /\ (\A t \in Servers : P[h] # InWork(t)) => Working(h) = {}
<1>1. \A b \in Boxes : /\ Holds(queue[b], {g \in Rqb : P[g] = InQueue(b)})
                       /\ Len(queue[b]) \in 0 .. Blocks
                       /\ DOMAIN queue[b] = 1 .. Len(queue[b])
  <2> SUFFICES ASSUME NEW b \in Boxes
               PROVE  /\ Holds(queue[b], {g \in Rqb : P[g] = InQueue(b)})
                      /\ Len(queue[b]) \in 0 .. Blocks
                      /\ DOMAIN queue[b] = 1 .. Len(queue[b])
    OBVIOUS
  <2>1. PICK S \in SUBSET Rqb : S = {g \in Rqb : P[g] = InQueue(b)}
    OBVIOUS
  <2>2. Holds(queue[b], S)
    BY <2>1 DEF Placed, QueuesPlaced
  <2>3. Len(queue[b]) \in 0 .. NR_RQB
    BY <2>2, QueueShort
  <2>4. queue[b] \in Seq(Entry)
    BY <2>2 DEF Holds
  <2> QED
    BY <2>1, <2>2, <2>3, <2>4, LenProperties, RequestsAssumption, MailboxAssumption
<1>2. \A e \in Queued(h) : /\ e[1] \in Boxes /\ e[2] \in DOMAIN queue[e[1]]
                           /\ queue[e[1]][e[2]].body.hRqb = h
                           /\ P[h] = InQueue(e[1])
                           /\ e = <<e[1], e[2]>>
  <2> SUFFICES ASSUME NEW e \in Queued(h)
               PROVE  /\ e[1] \in Boxes /\ e[2] \in DOMAIN queue[e[1]]
                      /\ queue[e[1]][e[2]].body.hRqb = h
                      /\ P[h] = InQueue(e[1])
                      /\ e = <<e[1], e[2]>>
    OBVIOUS
  <2>1. /\ e \in Boxes \X (1 .. Blocks) /\ e[2] <= Len(queue[e[1]])
        /\ queue[e[1]][e[2]].body.hRqb = h
    BY DEF Queued
  <2>2. e[1] \in Boxes /\ e[2] \in 1 .. Blocks /\ e = <<e[1], e[2]>>
    BY <2>1
  <2>3. e[2] \in DOMAIN queue[e[1]]
    BY <2>1, <2>2, <1>1
  <2> QED
    BY <2>1, <2>2, <2>3, <1>1 DEF Holds
<1>3. ASSUME NEW b \in Boxes, P[h] = InQueue(b)
      PROVE  \E e : Queued(h) = {e}
  <2>1. PICK i \in DOMAIN queue[b] : queue[b][i].body.hRqb = h
    BY <1>1, <1>3 DEF Holds
  <2>2. i \in 1 .. Blocks /\ i <= Len(queue[b])
    <3>1. i \in 1 .. Len(queue[b]) /\ Len(queue[b]) \in 0 .. Blocks /\ Blocks \in Nat
      BY <1>1, MailboxAssumption
    <3> QED
      BY <3>1
  <2>3. <<b, i>> \in Queued(h)
    BY <2>1, <2>2 DEF Queued
  <2>4. ASSUME NEW e \in Queued(h)
        PROVE  e = <<b, i>>
    <3>1. e[1] = b
      BY <1>2, <1>3, PlacesDiffer
    <3>2. e[2] = i
      BY <3>1, <1>1, <1>2, <2>1 DEF Holds
    <3> QED
      BY <3>1, <3>2, <1>2
  <2>5. Queued(h) = {<<b, i>>}
    BY <2>3, <2>4
  <2> QED
    BY <2>5
<1>4. (\A b \in Boxes : P[h] # InQueue(b)) => Queued(h) = {}
  BY <1>2
<1>5. \A t \in Threads : handed[t] # NoMessage /\ handed[t].hRqb = h <=> P[h] = InHand(t)
  BY DEF Placed, HandedPlaced
<1>6. /\ \A t \in Threads : P[h] = InHand(t) => Handed(h) = {t}
      /\ (\A t \in Threads : P[h] # InHand(t)) => Handed(h) = {}
  BY <1>5, PlacesDiffer DEF Handed
<1>7. \A t \in Servers : serving[t] = h <=> P[h] = InWork(t)
  <2>1. h # 0
    BY RequestsAssumption DEF Rqb
  <2> QED
    BY <2>1 DEF Placed, WorkPlaced
<1>8. /\ \A t \in Servers : P[h] = InWork(t) => Working(h) = {t}
      /\ (\A t \in Servers : P[h] # InWork(t)) => Working(h) = {}
  BY <1>7, PlacesDiffer DEF Working
<1> QED
  BY <1>3, <1>4, <1>6, <1>8

(***************************************************************************)
(* A request under way is in one place, once; no other is ever found in    *)
(* its block (msg.c 1021-1147).                                            *)
(***************************************************************************)
THEOREM RequestsStayInOnePlace == Spec => []OnePlace
<1>1. RequestsInv => OnePlace
  <2> SUFFICES ASSUME RequestsInv, NEW h \in Rqb
               PROVE  Cardinality(Queued(h)) + Cardinality(Handed(h)) + Cardinality(Working(h))
                        = IF asked[h] = NoClient THEN 0 ELSE 1
    BY DEF OnePlace
  <2>1. PICK P \in [Rqb -> Place] : Placed(P)
    BY DEF RequestsInv
  <2>2. asked[h] = NoClient <=> P[h] = Nowhere
    BY <2>1 DEF Placed, AskedPlaced
  <2>3. Cardinality({}) = 0 /\ \A x : Cardinality({x}) = 1
    BY FS_EmptySet, FS_Singleton
  <2>4. CASE P[h] = Nowhere
    <3>1. Queued(h) = {} /\ Handed(h) = {} /\ Working(h) = {}
      BY <2>1, <2>4, FoundInPlace, PlacesDiffer
    <3> QED
      BY <3>1, <2>2, <2>3, <2>4
  <2>5. CASE \E b \in Boxes : P[h] = InQueue(b)
    <3>1. (\E e : Queued(h) = {e}) /\ Handed(h) = {} /\ Working(h) = {}
      BY <2>1, <2>5, FoundInPlace, PlacesDiffer
    <3>2. P[h] # Nowhere
      BY <2>5, PlacesDiffer
    <3>3. /\ Cardinality(Queued(h)) = 1
          /\ Cardinality(Handed(h)) = 0
          /\ Cardinality(Working(h)) = 0
      BY <3>1, <2>3
    <3> QED
      BY <3>2, <3>3, <2>2
  <2>6. CASE \E t \in Threads : P[h] = InHand(t)
    <3>1. Queued(h) = {} /\ (\E e : Handed(h) = {e}) /\ Working(h) = {}
      BY <2>1, <2>6, FoundInPlace, PlacesDiffer
    <3>2. P[h] # Nowhere
      BY <2>6, PlacesDiffer
    <3>3. /\ Cardinality(Queued(h)) = 0
          /\ Cardinality(Handed(h)) = 1
          /\ Cardinality(Working(h)) = 0
      BY <3>1, <2>3
    <3> QED
      BY <3>2, <3>3, <2>2
  <2>7. CASE \E t \in Servers : P[h] = InWork(t)
    <3>1. Queued(h) = {} /\ Handed(h) = {} /\ (\E e : Working(h) = {e})
      BY <2>1, <2>7, FoundInPlace, PlacesDiffer, ZenonT(60)
    <3>2. P[h] # Nowhere
      BY <2>7, PlacesDiffer
    <3>3. /\ Cardinality(Queued(h)) = 0
          /\ Cardinality(Handed(h)) = 0
          /\ Cardinality(Working(h)) = 1
      BY <3>1, <2>3
    <3> QED
      BY <3>2, <3>3, <2>2
  <2> QED
    BY <2>1, <2>4, <2>5, <2>6, <2>7 DEF Place
<1> QED
  BY <1>1, RequestsKeepInv, PTL

=============================================================================
