---------------------------- MODULE Nodes_proofs ----------------------------
(***************************************************************************)
(* A request, or the response to it, is in one place only, and a bus cycle *)
(* that is acknowledged has been run once: for any number of interfaces,   *)
(* any CPUs and targets other than all nodes at once, any ages and delays. *)
(***************************************************************************)
EXTENDS Nodes, FiniteSetTheorems, TLAPS

-----------------------------------------------------------------------------
(* The ring: the interface, or the ager, before each.                      *)
Prev(n) == IF n = 0 THEN Last(Ring) ELSE IF Pos[n] = 1 THEN 0 ELSE Ring[Pos[n] - 1]

Following(n) == CHOOSE m \in Stops : Prev(m) = n

LEMMA RingFacts ==
  /\ IsFiniteSet(Nic) /\ 0 \notin Nic /\ Last(Ring) \in Nic
  /\ \A n \in Nic : Pos[n] \in 1 .. Len(Ring) /\ Ring[Pos[n]] = n
<1>1. /\ Len(Ring) \in Nat \ {0} /\ DOMAIN Ring = 1 .. Len(Ring)
      /\ Nic = {Ring[i] : i \in 1 .. Len(Ring)}
  BY NodesAssumption DEF Nic, ToSet
<1>2. IsFiniteSet(Nic)
  <2>1. Ring \in Surjection(1 .. Len(Ring), Nic)
    BY <1>1, NodesAssumption DEF Surjection
  <2> QED BY <1>1, <2>1, FS_NatSurjection DEF ExistsSurjection
<1>3. Last(Ring) \in Nic
  BY <1>1 DEF Last
<1>4. ASSUME NEW n \in Nic
      PROVE  Pos[n] \in 1 .. Len(Ring) /\ Ring[Pos[n]] = n
  BY <1>1 DEF Pos
<1> QED BY <1>2, <1>3, <1>4, NodesAssumption

LEMMA PrevInjective ==
  ASSUME NEW m \in Stops
  PROVE  Prev(m) \in Stops /\ Following(Prev(m)) = m
<1>1. /\ Len(Ring) \in Nat \ {0} /\ DOMAIN Ring = 1 .. Len(Ring)
      /\ \A i, j \in 1 .. Len(Ring) : Ring[i] = Ring[j] => i = j
      /\ \A i \in 1 .. Len(Ring) : Ring[i] \in Nic
  BY NodesAssumption DEF IsInjective, Nic, ToSet
<1>2. Prev(m) \in Stops
  BY <1>1, RingFacts DEF Prev, Stops
<1>3. ASSUME NEW n \in Stops, Prev(n) = Prev(m)
      PROVE  n = m
  <2>1. CASE n = 0 /\ m = 0
    BY <2>1
  <2>2. CASE n = 0 /\ m # 0
    BY <2>2, <1>1, <1>3, RingFacts DEF Prev, Stops, Last
  <2>3. CASE n # 0 /\ m = 0
    BY <2>3, <1>1, <1>3, RingFacts DEF Prev, Stops, Last
  <2>4. CASE n # 0 /\ m # 0
    <3>1. /\ Pos[n] \in 1 .. Len(Ring) /\ Ring[Pos[n]] = n
          /\ Pos[m] \in 1 .. Len(Ring) /\ Ring[Pos[m]] = m
      BY <2>4, RingFacts DEF Stops
    <3>2. Pos[n] = Pos[m]
      BY <2>4, <3>1, <1>1, <1>3, RingFacts DEF Prev
    <3> QED BY <3>1, <3>2
  <2> QED BY <2>1, <2>2, <2>3, <2>4
<1>4. Following(Prev(m)) \in Stops /\ Prev(Following(Prev(m))) = Prev(m)
  BY <1>2 DEF Following
<1> QED BY <1>2, <1>3, <1>4

-----------------------------------------------------------------------------
(* The tags of n's CPU.                                                     *)
Tags(n) == {<<n, 0>>, <<n, 1>>}

(* Types, with those of the accesses and of the packets that answer.       *)
TypeInv ==
  /\ TypeOK
  /\ access \in [Cpu -> [to : Nic \cup {All, 0}, tag : Tag]]
  /\ \A n \in Nic : cyc[n] => /\ n \in Cpu
                              /\ access[n].to \in Targets[n] /\ access[n].tag \in Tags(n)
  /\ \A n \in Nic : /\ nic[n].rpacket_o.did # 0 => nic[n].rpacket_o.typ \in {"ACK", "ERR", "RETRY"}
                    /\ nic[n].rpacket_tx.did # 0 => nic[n].rpacket_tx.typ \in {"ACK", "ERR", "RETRY"}
  /\ ager.rpacket_o.did # 0 => ager.rpacket_o.typ \in {"ACK", "ERR", "RETRY"}
  /\ ager.rpacket_tx.did # 0 => ager.rpacket_tx.typ = "RETRY" /\ ager.rpacket_tx.tag = NoTag

(* One clock, given the answers of the buses and the accesses started.     *)
Clocked(answer, to) ==
  /\ CpuClock(to)
  /\ delay' = [n \in Nic |->
                 IF nic[n].state = "READWRITE_ACK" /\ answer[n] = "none"
                 THEN delay[n] + 1 ELSE 0]
  /\ served' = [n \in Cpu |->
                  IF ~cyc[n] THEN 0
                  ELSE served[n] + Cardinality(ServedNow(n, answer))]
  /\ ager' = AgerClock(nic[Last(Ring)].packet_o, nic[Last(Ring)].rpacket_o)
  /\ nic' = [n \in Nic |->
               NicClock(n, Before(n).packet_o, Before(n).rpacket_o, answer[n])]

LEMMA ClockIsClocked == Clock <=> \E answer \in Answers, to \in Starts : Clocked(answer, to)
BY DEF Clock, Clocked

(* A bus that runs a cycle answers, in time, or not yet; no other does.     *)
LEMMA AnswerFacts ==
  ASSUME NEW answer \in Answers, NEW n \in Nic
  PROVE  /\ answer[n] \in {"none", "ACK", "ERR"}
         /\ nic[n].state = "READWRITE_ACK" /\ answer[n] = "none" => delay[n] # Delay
<1> DEFINE busy == {m \in Nic : nic[m].state = "READWRITE_ACK"}
<1>1. PICK a \in [busy -> {"none", "ACK", "ERR"}] :
        /\ \A m \in busy : delay[m] = Delay => a[m] # "none"
        /\ answer = [m \in Nic |-> IF m \in busy THEN a[m] ELSE "none"]
  BY DEF Answers
<1> QED BY <1>1

(* An access is started by a CPU without a cycle, to one of its targets.    *)
LEMMA StartFacts ==
  ASSUME NEW to \in Starts, NEW n \in Cpu
  PROVE  /\ to[n] \in Nic \cup {All, 0}
         /\ ~cyc[n] => to[n] \in Targets[n] \cup {0}
<1> DEFINE free == {m \in Cpu : ~cyc[m]}
<1>1. PICK s \in [free -> Nic \cup {All, 0}] :
        /\ \A m \in free : s[m] \in Targets[m] \cup {0}
        /\ to = [m \in Cpu |-> IF m \in free THEN s[m] ELSE 0]
  BY DEF Starts
<1> QED BY <1>1

LEMMA PacketTypes ==
  /\ Empty \in Packet
  /\ \A p \in Packet : /\ Taken(p) \in Packet /\ Aged(p) \in Packet
                       /\ Aged(p).did \in {p.did, 0} /\ Aged(p).tag \in {p.tag, NoTag}
                       /\ Aged(p).did # 0 => Aged(p).typ = p.typ /\ Aged(p).tag = p.tag
                                             /\ Aged(p).sid = p.sid /\ Aged(p).did = p.did
  /\ \A n \in Nic, p \in Packet, q \in Packet, t \in BOOLEAN : Passed(n, p, q, t) \in Packet
<1>1. Empty \in Packet
  BY NodesAssumption DEF Empty, Packet, Tag, NoTag
<1>2. ASSUME NEW p \in Packet
      PROVE  Taken(p) \in Packet
  BY <1>1 DEF Taken, Packet, Empty
<1>3. ASSUME NEW p \in Packet
      PROVE  /\ Aged(p) \in Packet
             /\ Aged(p).did \in {p.did, 0} /\ Aged(p).tag \in {p.tag, NoTag}
             /\ Aged(p).did # 0 => Aged(p).typ = p.typ /\ Aged(p).tag = p.tag
                                   /\ Aged(p).sid = p.sid /\ Aged(p).did = p.did
  <2>1. CASE p.did = 0 /\ p.sid = 0
    BY <2>1 DEF Aged
  <2>2. CASE ~(p.did = 0 /\ p.sid = 0) /\ p.age >= MaxAge
    BY <1>1, <2>2 DEF Aged, Empty
  <2>3. CASE ~(p.did = 0 /\ p.sid = 0) /\ ~(p.age >= MaxAge)
    <3>1. Aged(p) = [p EXCEPT !.age = p.age + 1]
      BY <2>3 DEF Aged
    <3>2. p.age + 1 \in 0 .. OldAge
      BY <2>3, NodesAssumption DEF Packet
    <3> QED BY <3>1, <3>2 DEF Packet
  <2> QED BY <2>1, <2>2, <2>3
<1>4. ASSUME NEW n \in Nic, NEW p \in Packet, NEW q \in Packet, NEW t \in BOOLEAN
      PROVE  Passed(n, p, q, t) \in Packet
  BY <1>2 DEF Passed
<1> QED BY <1>1, <1>2, <1>3, <1>4

(* What comes in at interface n is what the stop before it sends on.       *)
LEMMA Incoming ==
  ASSUME NEW n \in Nic
  PROVE  /\ Before(n).packet_o = At(<<Prev(n), "packet_o">>)
         /\ Before(n).rpacket_o = At(<<Prev(n), "rpacket_o">>)
<1>1. n # 0 /\ (Pos[n] # 1 => Ring[Pos[n] - 1] # 0)
  <2>1. DOMAIN Ring = 1 .. Len(Ring) /\ \A i \in 1 .. Len(Ring) : Ring[i] \in Nic
    BY NodesAssumption DEF Nic, ToSet
  <2> QED BY <2>1, RingFacts
<1> QED BY <1>1 DEF Before, Prev, At

LEMMA PacketsComeIn ==
  ASSUME TypeInv, NEW n \in Nic
  PROVE  /\ Before(n).packet_o \in Packet /\ Before(n).rpacket_o \in Packet
         /\ Before(n).rpacket_o.did # 0
              => Before(n).rpacket_o.typ \in {"ACK", "ERR", "RETRY"}
<1>1. /\ DOMAIN Ring = 1 .. Len(Ring) /\ \A i \in 1 .. Len(Ring) : Ring[i] \in Nic
      /\ Pos[n] \in 1 .. Len(Ring) /\ Len(Ring) \in Nat
  BY NodesAssumption, RingFacts DEF Nic, ToSet
<1>2. CASE Pos[n] = 1
  BY <1>2 DEF Before, TypeInv, TypeOK
<1>3. CASE Pos[n] # 1
  <2>1. Ring[Pos[n] - 1] \in Nic /\ Before(n) = nic[Ring[Pos[n] - 1]]
    BY <1>1, <1>3 DEF Before
  <2> QED BY <2>1 DEF TypeInv, TypeOK
<1> QED BY <1>2, <1>3

(* A clock keeps the types.                                                *)
LEMMA TypeKept ==
  ASSUME TypeInv, NEW answer \in Answers, NEW to \in Starts, Clocked(answer, to)
  PROVE  TypeInv'
<1> DEFINE Regs == [packet_o : Packet, rpacket_o : Packet,
                    packet_tx : Packet, rpacket_tx : Packet,
                    packet_rx : Packet, rpacket_rx : Packet,
                    state : {"IDLE", "READWRITE", "READWRITE_ACK"},
                    rsp_state : {"IDLE", "ACK", "ACK_ACK", "ERR", "RETRY"},
                    rw_done : BOOLEAN, s_ack1 : BOOLEAN, s_err_o : BOOLEAN]
           Answering == {"ACK", "ERR", "RETRY"}
<1>1. /\ nic \in [Nic -> Regs] /\ cyc \in [Nic -> BOOLEAN]
      /\ ager \in [packet_o : Packet, rpacket_o : Packet, rpacket_tx : Packet]
      /\ delay \in [Nic -> 0 .. Delay] /\ served \in [Cpu -> Nat]
      /\ access \in [Cpu -> [to : Nic \cup {All, 0}, tag : Tag]]
  BY DEF TypeInv, TypeOK
<1>2. ASSUME NEW n \in Nic
      PROVE  /\ nic'[n] \in Regs
             /\ nic'[n].rpacket_o.did # 0 => nic'[n].rpacket_o.typ \in Answering
             /\ nic'[n].rpacket_tx.did # 0 => nic'[n].rpacket_tx.typ \in Answering
  <2> DEFINE q == nic[n]
             p == Before(n).packet_o
             r == Before(n).rpacket_o
  <2>1. p \in Packet /\ r \in Packet /\ (r.did # 0 => r.typ \in Answering)
    BY PacketsComeIn
  <2>2. q \in Regs /\ (q.rpacket_tx.did # 0 => q.rpacket_tx.typ \in Answering)
    BY <1>1 DEF TypeInv
  <2>3. nic'[n] = NicClock(n, p, r, answer[n])
    BY <1>1 DEF Clocked
  <2>4. answer[n] \in {"none", "ACK", "ERR"}
    BY AnswerFacts
  <2>5. SetsUp(n) => Request(n) \in Packet
    <3>1. SetsUp(n) => n \in Cpu
      BY DEF SetsUp, TypeInv
    <3>2. SetsUp(n) => /\ access[n].to \in Nic \cup {All, 0} /\ access[n].tag \in Tag
                       /\ (IF access[n].to = All THEN OldAge ELSE 0) \in 0 .. OldAge
      BY <1>1, <3>1, NodesAssumption
    <3> QED BY <3>2 DEF Request, Packet
  <2>6. Finishes(n, answer[n]) => /\ Response(n, q.packet_rx, answer[n]) \in Packet
                                  /\ Response(n, q.packet_rx, answer[n]).typ \in Answering
    BY <2>2, <2>4, NodesAssumption DEF Finishes, Response, Packet
  <2>7. State(n, p, answer[n]) \in {"IDLE", "READWRITE", "READWRITE_ACK"}
    <3>1. q.state \in {"IDLE", "READWRITE", "READWRITE_ACK"}
      BY <2>2
    <3> QED BY <3>1 DEF State
  <2>8. RspState(n, r) \in {"IDLE", "ACK", "ACK_ACK", "ERR", "RETRY"}
    BY <2>1, RingFacts DEF RspState, TakesResponse
  <2>9. /\ Passed(n, p, q.packet_tx, TakesRequest(n, p)) \in Packet
        /\ Passed(n, r, q.rpacket_tx, TakesResponse(n, r)) \in Packet
    BY <2>1, <2>2, PacketTypes DEF TakesRequest, TakesResponse
  <2>10. LET s == Passed(n, r, q.rpacket_tx, TakesResponse(n, r))
         IN  s.did # 0 => s.typ \in Answering
    BY <2>1, <2>2 DEF Passed, Taken, Empty, Packet
  <2> HIDE DEF p, r
  <2>11. nic'[n] \in Regs
    <3> DEFINE tx == IF SetsUp(n) THEN Request(n)
                     ELSE IF Sends(p, q.packet_tx) THEN Empty ELSE q.packet_tx
               rtx == IF Finishes(n, answer[n]) THEN Response(n, q.packet_rx, answer[n])
                      ELSE IF Sends(r, q.rpacket_tx) THEN Empty ELSE q.rpacket_tx
               rx == IF TakesRequest(n, p) THEN p
                     ELSE IF Finishes(n, answer[n]) THEN Empty ELSE q.packet_rx
               rrx == IF TakesResponse(n, r) THEN r
                      ELSE IF RspState(n, r) = "IDLE" THEN Empty ELSE q.rpacket_rx
               done == ~cyc[n] \/ (q.rw_done /\ ~SetsUp(n))
               ack == cyc[n] /\ \/ q.rsp_state \in {"ACK", "ACK_ACK"}
                                \/ q.s_ack1 /\ ~SetsUp(n)
               err == cyc[n] /\ (q.rsp_state = "ERR" \/ q.s_err_o)
    <3>1. tx \in Packet /\ rtx \in Packet
      BY <2>2, <2>5, <2>6, PacketTypes
    <3>2. rx \in Packet /\ rrx \in Packet
      BY <2>1, <2>2, PacketTypes
    <3>3. done \in BOOLEAN /\ ack \in BOOLEAN /\ err \in BOOLEAN
      OBVIOUS
    <3>4. nic'[n] = [packet_o |-> Passed(n, p, q.packet_tx, TakesRequest(n, p)),
                     rpacket_o |-> Passed(n, r, q.rpacket_tx, TakesResponse(n, r)),
                     packet_tx |-> tx, rpacket_tx |-> rtx, packet_rx |-> rx,
                     rpacket_rx |-> rrx, state |-> State(n, p, answer[n]),
                     rsp_state |-> RspState(n, r), rw_done |-> done,
                     s_ack1 |-> ack, s_err_o |-> err]
      BY <2>3 DEF NicClock
    <3> HIDE DEF tx, rtx, rx, rrx, done, ack, err
    <3> QED BY <2>7, <2>8, <2>9, <3>1, <3>2, <3>3, <3>4
  <2>12. /\ nic'[n].rpacket_o = Passed(n, r, q.rpacket_tx, TakesResponse(n, r))
         /\ nic'[n].rpacket_tx = IF Finishes(n, answer[n])
                                 THEN Response(n, q.packet_rx, answer[n])
                                 ELSE IF Sends(r, q.rpacket_tx) THEN Empty ELSE q.rpacket_tx
    BY <2>3 DEF NicClock
  <2> QED BY <2>2, <2>6, <2>10, <2>11, <2>12 DEF Empty
<1>3. /\ ager' \in [packet_o : Packet, rpacket_o : Packet, rpacket_tx : Packet]
      /\ ager'.rpacket_o.did # 0 => ager'.rpacket_o.typ \in Answering
      /\ ager'.rpacket_tx.did # 0 => ager'.rpacket_tx.typ = "RETRY" /\ ager'.rpacket_tx.tag = NoTag
  <2> DEFINE p == nic[Last(Ring)].packet_o
             r == nic[Last(Ring)].rpacket_o
             tx == ager.rpacket_tx
             new == [Empty EXCEPT !.did = p.sid, !.sid = p.did, !.age = p.age, !.typ = "RETRY"]
  <2>1. p \in Packet /\ r \in Packet /\ (r.did # 0 => r.typ \in Answering) /\ tx \in Packet
    BY <1>1, RingFacts DEF TypeInv
  <2>2. /\ ager'.packet_o = Aged(p) /\ ager'.rpacket_o = IF Vacant(r) THEN tx ELSE Aged(r)
        /\ ager'.rpacket_tx = IF p.age >= RetryAge /\ tx = Empty THEN new
                              ELSE IF Vacant(r) THEN Empty ELSE tx
        /\ ager' = [packet_o |-> ager'.packet_o, rpacket_o |-> ager'.rpacket_o,
                    rpacket_tx |-> ager'.rpacket_tx]
    BY DEF Clocked, AgerClock
  <2>3. new \in Packet /\ new.typ = "RETRY" /\ new.tag = NoTag
    <3>1. /\ p.did \in Nic \cup {All, 0} /\ p.sid \in Nic \cup {All, 0} /\ p.age \in 0 .. OldAge
          /\ NoTag \in Tag
      BY <2>1 DEF Packet, Tag
    <3> HIDE DEF p
    <3> DEFINE a == [Empty EXCEPT !.did = p.sid]
               b == [a EXCEPT !.sid = p.did]
               c == [b EXCEPT !.age = p.age]
               d == [c EXCEPT !.typ = "RETRY"]
    <3>2. a \in Packet /\ a.tag = NoTag
      <4>1. Empty \in Packet /\ Empty.tag = NoTag
        BY PacketTypes DEF Empty
      <4> QED BY <3>1, <4>1 DEF Packet
    <3>3. b \in Packet /\ b.tag = NoTag
      <4> HIDE DEF a
      <4> QED BY <3>1, <3>2 DEF Packet
    <3>4. c \in Packet /\ c.tag = NoTag
      <4> HIDE DEF b
      <4> QED BY <3>1, <3>3 DEF Packet
    <3>5. d \in Packet /\ d.typ = "RETRY" /\ d.tag = NoTag
      <4> HIDE DEF c
      <4> QED BY <3>1, <3>4 DEF Packet
    <3> QED BY <3>5
  <2>4. Aged(p) \in Packet /\ Aged(r) \in Packet /\ (Aged(r).did # 0 => Aged(r).typ \in Answering)
    BY <2>1, PacketTypes
  <2>5. tx.did # 0 => tx.typ = "RETRY" /\ tx.tag = NoTag
    BY DEF TypeInv
  <2>6. Empty.did = 0 /\ Empty \in Packet
    BY PacketTypes DEF Empty
  <2> HIDE DEF p, r, tx, new
  <2> QED BY <2>1, <2>2, <2>3, <2>4, <2>5, <2>6
<1>4. cyc' \in [Nic -> BOOLEAN]
  BY <1>1 DEF Clocked, CpuClock, Done
<1>5. /\ access' \in [Cpu -> [to : Nic \cup {All, 0}, tag : Tag]]
      /\ \A n \in Nic : cyc'[n] => /\ n \in Cpu
                                   /\ access'[n].to \in Targets[n]
                                   /\ access'[n].tag \in Tags(n)
  <2>1. /\ access' = [n \in Cpu |-> IF cyc[n] THEN access[n]
                                   ELSE IF to[n] = 0 THEN NoAccess
                                   ELSE [to |-> to[n], tag |-> NewTag(n)]]
        /\ cyc' = [n \in Nic |-> IF cyc[n] THEN ~Done(n) ELSE n \in Cpu /\ to[n] # 0]
    BY DEF Clocked, CpuClock
  <2>2. \A n \in Cpu : NewTag(n) \in Tags(n) /\ NewTag(n) \in Tag
    BY DEF NewTag, Tags, Tag
  <2>3. NoAccess \in [to : Nic \cup {All, 0}, tag : Tag]
    BY DEF NoAccess, Tag
  <2>4. \A n \in Cpu : /\ to[n] \in Nic \cup {All, 0}
                       /\ ~cyc[n] => to[n] \in Targets[n] \cup {0}
    BY StartFacts
  <2> HIDE DEF NewTag, NoAccess
  <2>5. access' \in [Cpu -> [to : Nic \cup {All, 0}, tag : Tag]]
    BY <1>1, <2>1, <2>2, <2>3, <2>4
  <2>6. ASSUME NEW n \in Nic, cyc'[n]
        PROVE  n \in Cpu /\ access'[n].to \in Targets[n] /\ access'[n].tag \in Tags(n)
    <3>1. CASE cyc[n]
      BY <3>1, <2>1 DEF TypeInv
    <3>2. CASE ~cyc[n]
      BY <3>2, <2>6, <2>1, <2>2, <2>4
    <3> QED BY <3>1, <3>2
  <2> QED BY <2>5, <2>6
<1>6. delay' \in [Nic -> 0 .. Delay]
  <2>1. \A n \in Nic : nic[n].state = "READWRITE_ACK" /\ answer[n] = "none" => delay[n] # Delay
    BY AnswerFacts
  <2> QED BY <1>1, <2>1, NodesAssumption DEF Clocked
<1>7. served' \in [Cpu -> Nat]
  <2>1. \A n \in Cpu : Cardinality(ServedNow(n, answer)) \in Nat
    BY RingFacts, FS_Subset, FS_CardinalityType DEF ServedNow
  <2> QED BY <1>1, <2>1 DEF Clocked
<1>8. nic' \in [Nic -> Regs]
  BY <1>2 DEF Clocked
<1>9. TypeOK'
  BY <1>3, <1>4, <1>6, <1>7, <1>8 DEF TypeOK
<1> QED BY <1>2, <1>3, <1>5, <1>9 DEF TypeInv

-----------------------------------------------------------------------------
(* No CPU addresses all nodes at once.                                     *)
NoBroadcast == \A n \in Cpu : All \notin Targets[n]

(* Whose packets are where: a request bears a tag of its sender, a response*)
(* one of its receiver.  RETRY bears none.                                 *)
Asks(p) ==
  p.did # 0 => p.did # All /\ p.sid \in Cpu /\ p.tag \in Tags(p.sid)

Replies(p) ==
  p.did # 0 => \/ p.typ = "RETRY" /\ p.tag = NoTag
               \/ p.typ \in {"ACK", "ERR"} /\ p.did \in Cpu /\ p.tag \in Tags(p.did)

Routed == \A x \in Slot : IF x[2] \in Requesting THEN Asks(At(x)) ELSE Replies(At(x))

(* An interface that runs a cycle for another has its request, and room for*)
(* the response; the one it has received is the one it is busy with.       *)
Working(n) ==
  /\ nic[n].state # "IDLE" => nic[n].packet_rx.did # 0
  /\ nic[n].packet_rx.did # 0 => nic[n].rpacket_tx.did = 0
  /\ IF nic[n].rpacket_rx.did = 0 THEN nic[n].rsp_state = "IDLE"
     ELSE /\ nic[n].rpacket_rx.did = n
          /\ \/ nic[n].rsp_state = nic[n].rpacket_rx.typ
             \/ nic[n].rsp_state = "ACK_ACK" /\ nic[n].rpacket_rx.typ = "ACK"

SlotsInv == TypeInv /\ Routed /\ \A n \in Nic : Working(n)

(* The slot that the packet in slot x is in after a clock.                 *)
Goes(x, answer) ==
  LET n == x[1]
      m == Following(n)
  IN  CASE x[2] = "packet_tx"  -> IF Sends(Before(n).packet_o, At(x)) THEN <<n, "packet_o">> ELSE x
        [] x[2] = "packet_rx"  -> IF Finishes(n, answer[n]) THEN <<n, "rpacket_tx">> ELSE x
        [] x[2] = "rpacket_tx" -> IF Sends(Before(n).rpacket_o, At(x)) THEN <<n, "rpacket_o">> ELSE x
        [] x[2] = "rpacket_rx" -> x
        [] x[2] = "packet_o"   ->
             <<m, IF m # 0 /\ TakesRequest(m, At(x)) THEN "packet_rx" ELSE "packet_o">>
        [] x[2] = "rpacket_o"  ->
             <<m, IF m # 0 /\ TakesResponse(m, At(x)) THEN "rpacket_rx" ELSE "rpacket_o">>

(* What a clock puts in each register.                                     *)
LEMMA Registers ==
  ASSUME TypeInv, NEW answer, NEW to, Clocked(answer, to), NEW n \in Nic,
         NEW p, p = Before(n).packet_o, NEW r, r = Before(n).rpacket_o
  PROVE  /\ nic'[n].packet_o = Passed(n, p, nic[n].packet_tx, TakesRequest(n, p))
         /\ nic'[n].rpacket_o = Passed(n, r, nic[n].rpacket_tx, TakesResponse(n, r))
         /\ nic'[n].packet_tx = IF SetsUp(n) THEN Request(n)
                                ELSE IF Sends(p, nic[n].packet_tx) THEN Empty ELSE nic[n].packet_tx
         /\ nic'[n].rpacket_tx = IF Finishes(n, answer[n])
                                 THEN Response(n, nic[n].packet_rx, answer[n])
                                 ELSE IF Sends(r, nic[n].rpacket_tx) THEN Empty
                                 ELSE nic[n].rpacket_tx
         /\ nic'[n].packet_rx = IF TakesRequest(n, p) THEN p
                                ELSE IF Finishes(n, answer[n]) THEN Empty ELSE nic[n].packet_rx
         /\ nic'[n].rpacket_rx = IF TakesResponse(n, r) THEN r
                                 ELSE IF RspState(n, r) = "IDLE" THEN Empty
                                 ELSE nic[n].rpacket_rx
         /\ nic'[n].state = State(n, p, answer[n])
         /\ nic'[n].rsp_state = RspState(n, r)
         /\ nic'[n].rw_done = (~cyc[n] \/ (nic[n].rw_done /\ ~SetsUp(n)))
         /\ nic'[n].s_ack1 = (cyc[n] /\ \/ nic[n].rsp_state \in {"ACK", "ACK_ACK"}
                                        \/ nic[n].s_ack1 /\ ~SetsUp(n))
         /\ nic'[n].s_err_o = (cyc[n] /\ (nic[n].rsp_state = "ERR" \/ nic[n].s_err_o))
<1>1. nic'[n] = NicClock(n, p, r, answer[n])
  BY DEF Clocked
<1> QED BY <1>1 DEF NicClock

LEMMA AgerRegisters ==
  ASSUME TypeInv, NEW answer, NEW to, Clocked(answer, to),
         NEW p, p = nic[Last(Ring)].packet_o, NEW r, r = nic[Last(Ring)].rpacket_o
  PROVE  /\ p \in Packet /\ r \in Packet
         /\ p = At(<<Prev(0), "packet_o">>) /\ r = At(<<Prev(0), "rpacket_o">>)
         /\ ager'.packet_o = Aged(p)
         /\ ager'.rpacket_o = IF Vacant(r) THEN ager.rpacket_tx ELSE Aged(r)
<1>1. Last(Ring) \in Nic /\ Last(Ring) # 0
  BY RingFacts
<1> QED BY <1>1 DEF Clocked, AgerClock, TypeInv, TypeOK, At, Prev

(* Every packet with a tag has come from one slot, but for the request that*)
(* a new cycle makes.                                                      *)
LEMMA ComesFrom ==
  ASSUME SlotsInv, NEW answer \in Answers, NEW to, Clocked(answer, to),
         NEW n \in Cpu, NEW t \in Tags(n), NEW y \in Slot, Holds(y, t)'
  PROVE  \/ y = <<n, "packet_tx">> /\ SetsUp(n) /\ t = access[n].tag
         \/ \E x \in Slot : Holds(x, t) /\ Goes(x, answer) = y
<1> DEFINE m == y[1]
<1>1. t # NoTag /\ n \in Nic
  BY NodesAssumption DEF NoTag, Tags
<1>2. /\ y = <<m, y[2]>> /\ m \in Stops
      /\ Prev(m) \in Stops /\ Following(Prev(m)) = m
  BY PrevInjective DEF Slot
<1>3. CASE m = 0
  <2> DEFINE p == nic[Last(Ring)].packet_o
             r == nic[Last(Ring)].rpacket_o
  <2>1. /\ p \in Packet /\ r \in Packet
        /\ p = At(<<Prev(0), "packet_o">>) /\ r = At(<<Prev(0), "rpacket_o">>)
        /\ ager'.packet_o = Aged(p)
        /\ ager'.rpacket_o = IF Vacant(r) THEN ager.rpacket_tx ELSE Aged(r)
    BY AgerRegisters DEF SlotsInv
  <2> HIDE DEF p, r
  <2>2. <<Prev(0), "packet_o">> \in Slot /\ <<Prev(0), "rpacket_o">> \in Slot
    BY <1>2, <1>3 DEF Slot, Requesting, Responding
  <2>3. CASE y[2] = "packet_o"
    <3>1. At(y)' = Aged(p)
      BY <1>3, <2>1, <2>3 DEF At
    <3>2. Holds(<<Prev(0), "packet_o">>, t)
      BY <2>1, <3>1, PacketTypes DEF Holds
    <3>3. Goes(<<Prev(0), "packet_o">>, answer) = <<0, "packet_o">>
      BY <1>2, <1>3 DEF Goes
    <3> QED BY <1>2, <1>3, <2>2, <2>3, <3>2, <3>3
  <2>4. CASE y[2] = "rpacket_o"
    <3>1. At(y)' = IF Vacant(r) THEN ager.rpacket_tx ELSE Aged(r)
      BY <1>3, <2>1, <2>4 DEF At
    <3>2. At(y)' = Aged(r)
      BY <1>1, <3>1 DEF SlotsInv, TypeInv, Holds
    <3>3. Holds(<<Prev(0), "rpacket_o">>, t)
      BY <2>1, <3>2, PacketTypes DEF Holds
    <3>4. Goes(<<Prev(0), "rpacket_o">>, answer) = <<0, "rpacket_o">>
      BY <1>2, <1>3 DEF Goes
    <3> QED BY <1>2, <1>3, <2>2, <2>4, <3>3, <3>4
  <2> QED BY <1>3, <2>3, <2>4 DEF Slot
<1>4. CASE m # 0
  <2> DEFINE p == Before(m).packet_o
             r == Before(m).rpacket_o
             q == nic[m]
  <2>1. m \in Nic
    BY <1>2, <1>4 DEF Stops
  <2>2. /\ p \in Packet /\ p = At(<<Prev(m), "packet_o">>)
        /\ r \in Packet /\ r = At(<<Prev(m), "rpacket_o">>)
    BY <2>1, PacketsComeIn, Incoming DEF SlotsInv
  <2>3. /\ <<Prev(m), "packet_o">> \in Slot /\ <<Prev(m), "rpacket_o">> \in Slot
        /\ \A f \in Requesting \cup Responding :
             <<m, f>> \in Slot /\ At(<<m, f>>) = nic[m][f] /\ At(<<m, f>>)' = nic'[m][f]
    BY <1>2, <1>4 DEF Slot, Requesting, Responding, At
  <2>4. p.did # All /\ Working(m)
    <3>1. Asks(p)
      BY <2>2, <2>3 DEF SlotsInv, Routed, Requesting
    <3> QED BY <2>1, <3>1, NodesAssumption DEF SlotsInv, Asks
  <2>5. /\ At(y)'.did # 0 /\ At(y)'.tag = t
        /\ y[2] \in Requesting \cup Responding /\ At(y)' = nic'[m][y[2]]
    BY <1>2, <2>3 DEF Holds, Slot
  <2> HIDE DEF p, r
  <2>r. /\ nic'[m].packet_o = Passed(m, p, q.packet_tx, TakesRequest(m, p))
        /\ nic'[m].rpacket_o = Passed(m, r, q.rpacket_tx, TakesResponse(m, r))
        /\ nic'[m].packet_tx = IF SetsUp(m) THEN Request(m)
                               ELSE IF Sends(p, q.packet_tx) THEN Empty ELSE q.packet_tx
        /\ nic'[m].rpacket_tx = IF Finishes(m, answer[m])
                                THEN Response(m, q.packet_rx, answer[m])
                                ELSE IF Sends(r, q.rpacket_tx) THEN Empty ELSE q.rpacket_tx
        /\ nic'[m].packet_rx = IF TakesRequest(m, p) THEN p
                               ELSE IF Finishes(m, answer[m]) THEN Empty ELSE q.packet_rx
        /\ nic'[m].rpacket_rx = IF TakesResponse(m, r) THEN r
                                ELSE IF RspState(m, r) = "IDLE" THEN Empty ELSE q.rpacket_rx
    BY <2>1, Registers DEF SlotsInv, p, r
  <2>e. /\ Empty.did = 0 /\ Taken(p).did = 0 /\ Taken(r).did = 0
        /\ m # 0 /\ Before(m).packet_o = p /\ Before(m).rpacket_o = r
    BY <1>4 DEF Empty, Taken, p, r
  <2>6. CASE y[2] = "packet_o"
    <3>1. CASE Sends(p, q.packet_tx)
      <4>1. Holds(<<m, "packet_tx">>, t)
        BY <2>3, <2>5, <2>6, <2>r, <3>1 DEF Passed, Holds, Requesting
      <4>2. Goes(<<m, "packet_tx">>, answer) = <<m, "packet_o">>
        BY <2>3, <2>e, <3>1 DEF Goes, Requesting
      <4> QED BY <1>2, <2>3, <2>6, <4>1, <4>2 DEF Requesting
    <3>2. CASE ~Sends(p, q.packet_tx)
      <4>1. ~(TakesRequest(m, p) /\ p.did = m) /\ nic'[m].packet_o = p
        BY <2>5, <2>6, <2>r, <2>e, <3>2 DEF Passed
      <4>2. ~TakesRequest(m, p)
        BY <2>4, <4>1 DEF TakesRequest
      <4>3. Holds(<<Prev(m), "packet_o">>, t)
        BY <2>2, <2>5, <2>6, <4>1 DEF Holds
      <4>4. Goes(<<Prev(m), "packet_o">>, answer) = <<m, "packet_o">>
        BY <1>2, <2>2, <4>2 DEF Goes
      <4> QED BY <1>2, <2>3, <2>6, <4>3, <4>4
    <3> QED BY <3>1, <3>2
  <2>7. CASE y[2] = "packet_tx"
    <3>1. CASE SetsUp(m)
      <4>1. nic'[m].packet_tx = Request(m) /\ m \in Cpu /\ access[m].tag \in Tags(m)
        BY <2>1, <2>r, <3>1 DEF SetsUp, SlotsInv, TypeInv
      <4>2. t = access[m].tag
        BY <2>5, <2>7, <4>1 DEF Request
      <4>3. m = n
        BY <4>1, <4>2 DEF Tags
      <4> QED BY <1>2, <2>7, <3>1, <4>2, <4>3
    <3>2. CASE ~SetsUp(m)
      <4>1. ~Sends(p, q.packet_tx) /\ nic'[m].packet_tx = q.packet_tx
        BY <2>5, <2>7, <2>r, <2>e, <3>2
      <4>2. Holds(<<m, "packet_tx">>, t)
        BY <2>3, <2>5, <2>7, <4>1 DEF Holds, Requesting
      <4>3. Goes(<<m, "packet_tx">>, answer) = <<m, "packet_tx">>
        BY <2>3, <2>e, <4>1 DEF Goes, Requesting
      <4> QED BY <1>2, <2>7, <4>2, <4>3
    <3> QED BY <3>1, <3>2
  <2>8. CASE y[2] = "packet_rx"
    <3>1. CASE TakesRequest(m, p)
      <4>1. Holds(<<Prev(m), "packet_o">>, t)
        BY <2>2, <2>5, <2>8, <2>r, <3>1 DEF Holds
      <4>2. Goes(<<Prev(m), "packet_o">>, answer) = <<m, "packet_rx">>
        BY <1>2, <2>2, <2>e, <3>1 DEF Goes
      <4> QED BY <1>2, <2>3, <2>8, <4>1, <4>2
    <3>2. CASE ~TakesRequest(m, p)
      <4>1. ~Finishes(m, answer[m]) /\ nic'[m].packet_rx = q.packet_rx
        BY <2>5, <2>8, <2>r, <2>e, <3>2
      <4>2. Holds(<<m, "packet_rx">>, t)
        BY <2>3, <2>5, <2>8, <4>1 DEF Holds, Requesting
      <4>3. Goes(<<m, "packet_rx">>, answer) = <<m, "packet_rx">>
        BY <4>1 DEF Goes
      <4> QED BY <1>2, <2>8, <4>2, <4>3
    <3> QED BY <3>1, <3>2
  <2>9. CASE y[2] = "rpacket_o"
    <3>1. CASE Sends(r, q.rpacket_tx)
      <4>1. Holds(<<m, "rpacket_tx">>, t)
        BY <2>3, <2>5, <2>9, <2>r, <3>1 DEF Passed, Holds, Responding
      <4>2. Goes(<<m, "rpacket_tx">>, answer) = <<m, "rpacket_o">>
        BY <2>3, <2>e, <3>1 DEF Goes, Responding
      <4> QED BY <1>2, <2>3, <2>9, <4>1, <4>2 DEF Responding
    <3>2. CASE ~Sends(r, q.rpacket_tx)
      <4>1. ~(TakesResponse(m, r) /\ r.did = m) /\ nic'[m].rpacket_o = r
        BY <2>5, <2>9, <2>r, <2>e, <3>2 DEF Passed
      <4>2. ~TakesResponse(m, r)
        BY <4>1 DEF TakesResponse
      <4>3. Holds(<<Prev(m), "rpacket_o">>, t)
        BY <2>2, <2>5, <2>9, <4>1 DEF Holds
      <4>4. Goes(<<Prev(m), "rpacket_o">>, answer) = <<m, "rpacket_o">>
        BY <1>2, <2>2, <4>2 DEF Goes
      <4> QED BY <1>2, <2>3, <2>9, <4>3, <4>4
    <3> QED BY <3>1, <3>2
  <2>10. CASE y[2] = "rpacket_tx"
    <3>1. CASE Finishes(m, answer[m])
      <4>1. /\ nic'[m].rpacket_tx = Response(m, q.packet_rx, answer[m])
            /\ q.packet_rx.did # 0
        BY <2>4, <2>r, <3>1 DEF Working, Finishes
      <4>2. Holds(<<m, "packet_rx">>, t)
        BY <2>3, <2>5, <2>10, <4>1 DEF Holds, Response, Requesting
      <4>3. Goes(<<m, "packet_rx">>, answer) = <<m, "rpacket_tx">>
        BY <3>1 DEF Goes
      <4> QED BY <1>2, <2>3, <2>10, <4>2, <4>3 DEF Requesting
    <3>2. CASE ~Finishes(m, answer[m])
      <4>1. ~Sends(r, q.rpacket_tx) /\ nic'[m].rpacket_tx = q.rpacket_tx
        BY <2>5, <2>10, <2>r, <2>e, <3>2
      <4>2. Holds(<<m, "rpacket_tx">>, t)
        BY <2>3, <2>5, <2>10, <4>1 DEF Holds, Responding
      <4>3. Goes(<<m, "rpacket_tx">>, answer) = <<m, "rpacket_tx">>
        BY <2>3, <2>e, <4>1 DEF Goes, Responding
      <4> QED BY <1>2, <2>10, <4>2, <4>3
    <3> QED BY <3>1, <3>2
  <2>11. CASE y[2] = "rpacket_rx"
    <3>1. CASE TakesResponse(m, r)
      <4>1. Holds(<<Prev(m), "rpacket_o">>, t)
        BY <2>2, <2>5, <2>11, <2>r, <3>1 DEF Holds
      <4>2. Goes(<<Prev(m), "rpacket_o">>, answer) = <<m, "rpacket_rx">>
        BY <1>2, <2>2, <2>e, <3>1 DEF Goes
      <4> QED BY <1>2, <2>3, <2>11, <4>1, <4>2
    <3>2. CASE ~TakesResponse(m, r)
      <4>1. nic'[m].rpacket_rx = q.rpacket_rx
        BY <2>5, <2>11, <2>r, <2>e, <3>2
      <4>2. Holds(<<m, "rpacket_rx">>, t)
        BY <2>3, <2>5, <2>11, <4>1 DEF Holds, Responding
      <4>3. Goes(<<m, "rpacket_rx">>, answer) = <<m, "rpacket_rx">>
        BY DEF Goes
      <4> QED BY <1>2, <2>11, <4>2, <4>3
    <3> QED BY <3>1, <3>2
  <2> QED BY <2>5, <2>6, <2>7, <2>8, <2>9, <2>10, <2>11 DEF Requesting, Responding
<1> QED BY <1>3, <1>4

(* What Routed says of each register.                                      *)
LEMMA RoutedRegisters ==
  Routed <=> /\ Asks(ager.packet_o) /\ Replies(ager.rpacket_o)
             /\ \A n \in Nic : /\ Asks(nic[n].packet_o) /\ Replies(nic[n].rpacket_o)
                              /\ Asks(nic[n].packet_tx) /\ Replies(nic[n].rpacket_tx)
                              /\ Asks(nic[n].packet_rx) /\ Replies(nic[n].rpacket_rx)
<1>1. ASSUME Routed
      PROVE  /\ Asks(ager.packet_o) /\ Replies(ager.rpacket_o)
             /\ \A n \in Nic : /\ Asks(nic[n].packet_o) /\ Replies(nic[n].rpacket_o)
                              /\ Asks(nic[n].packet_tx) /\ Replies(nic[n].rpacket_tx)
                              /\ Asks(nic[n].packet_rx) /\ Replies(nic[n].rpacket_rx)
  <2>1. /\ <<0, "packet_o">> \in Slot /\ At(<<0, "packet_o">>) = ager.packet_o
        /\ <<0, "rpacket_o">> \in Slot /\ At(<<0, "rpacket_o">>) = ager.rpacket_o
    BY DEF Slot, At, Stops, Requesting, Responding
  <2>2. \A n \in Nic, f \in Requesting \cup Responding :
          <<n, f>> \in Slot /\ At(<<n, f>>) = nic[n][f]
    BY RingFacts DEF Slot, At, Stops
  <2> QED BY <1>1, <2>1, <2>2 DEF Routed, Requesting, Responding
<1>2. ASSUME /\ Asks(ager.packet_o) /\ Replies(ager.rpacket_o)
             /\ \A n \in Nic : /\ Asks(nic[n].packet_o) /\ Replies(nic[n].rpacket_o)
                              /\ Asks(nic[n].packet_tx) /\ Replies(nic[n].rpacket_tx)
                              /\ Asks(nic[n].packet_rx) /\ Replies(nic[n].rpacket_rx),
             NEW x \in Slot
      PROVE  IF x[2] \in Requesting THEN Asks(At(x)) ELSE Replies(At(x))
  BY <1>2 DEF Slot, At, Stops, Requesting, Responding
<1> QED BY <1>1, <1>2 DEF Routed

(* A packet is still a request or a response when it has gone on.          *)
LEMMA GoesOn ==
  /\ Asks(Empty) /\ Replies(Empty)
  /\ \A p \in Packet : (Asks(p) => Asks(Aged(p))) /\ (Replies(p) => Replies(Aged(p)))
  /\ \A n, p, q, b : /\ Asks(p) /\ Asks(q) => Asks(Passed(n, p, q, b))
                     /\ Replies(p) /\ Replies(q) => Replies(Passed(n, p, q, b))
<1>1. Empty.did = 0 /\ \A p : Taken(p).did = 0
  BY DEF Empty, Taken
<1>2. ASSUME NEW p \in Packet
      PROVE  (Asks(p) => Asks(Aged(p))) /\ (Replies(p) => Replies(Aged(p)))
  BY PacketTypes DEF Asks, Replies
<1>3. ASSUME NEW n, NEW p, NEW q, NEW b
      PROVE  /\ Asks(p) /\ Asks(q) => Asks(Passed(n, p, q, b))
             /\ Replies(p) /\ Replies(q) => Replies(Passed(n, p, q, b))
  BY <1>1 DEF Passed, Asks, Replies
<1> QED BY <1>1, <1>2, <1>3 DEF Asks, Replies

LEMMA RoutedKept ==
  ASSUME NoBroadcast, SlotsInv, NEW answer \in Answers, NEW to, Clocked(answer, to)
  PROVE  Routed'
<1>1. /\ Asks(ager.packet_o) /\ Replies(ager.rpacket_o)
      /\ \A n \in Nic : /\ Asks(nic[n].packet_o) /\ Replies(nic[n].rpacket_o)
                       /\ Asks(nic[n].packet_tx) /\ Replies(nic[n].rpacket_tx)
                       /\ Asks(nic[n].packet_rx) /\ Replies(nic[n].rpacket_rx)
  BY RoutedRegisters DEF SlotsInv
<1>2. Asks(ager.packet_o)' /\ Replies(ager.rpacket_o)'
  <2> DEFINE p == nic[Last(Ring)].packet_o
             r == nic[Last(Ring)].rpacket_o
  <2>1. /\ p \in Packet /\ r \in Packet /\ ager'.packet_o = Aged(p)
        /\ ager'.rpacket_o = IF Vacant(r) THEN ager.rpacket_tx ELSE Aged(r)
    BY AgerRegisters DEF SlotsInv
  <2>2. Asks(p) /\ Replies(r)
    BY <1>1, RingFacts
  <2>3. Replies(ager.rpacket_tx)
    BY DEF SlotsInv, TypeInv, Replies
  <2>4. Asks(Aged(p)) /\ Replies(Aged(r))
    BY <2>1, <2>2, GoesOn
  <2>5. Asks(ager'.packet_o) /\ Replies(ager'.rpacket_o)
    BY <2>1, <2>3, <2>4
  <2> QED BY <2>5 DEF Asks, Replies
<1>3. ASSUME NEW n \in Nic
      PROVE  /\ Asks(nic'[n].packet_o) /\ Replies(nic'[n].rpacket_o)
             /\ Asks(nic'[n].packet_tx) /\ Replies(nic'[n].rpacket_tx)
             /\ Asks(nic'[n].packet_rx) /\ Replies(nic'[n].rpacket_rx)
  <2> DEFINE p == Before(n).packet_o
             r == Before(n).rpacket_o
             q == nic[n]
  <2>1. Asks(p) /\ Replies(r)
    <3>1. Prev(n) \in Stops
      BY PrevInjective DEF Stops
    <3>2. <<Prev(n), "packet_o">> \in Slot /\ <<Prev(n), "rpacket_o">> \in Slot
      BY <3>1 DEF Slot, Requesting, Responding
    <3> QED BY <3>2, Incoming DEF SlotsInv, Routed, Requesting
  <2>2. /\ nic'[n].packet_o = Passed(n, p, q.packet_tx, TakesRequest(n, p))
        /\ nic'[n].rpacket_o = Passed(n, r, q.rpacket_tx, TakesResponse(n, r))
        /\ nic'[n].packet_tx = IF SetsUp(n) THEN Request(n)
                               ELSE IF Sends(p, q.packet_tx) THEN Empty ELSE q.packet_tx
        /\ nic'[n].rpacket_tx = IF Finishes(n, answer[n])
                                THEN Response(n, q.packet_rx, answer[n])
                                ELSE IF Sends(r, q.rpacket_tx) THEN Empty ELSE q.rpacket_tx
        /\ nic'[n].packet_rx = IF TakesRequest(n, p) THEN p
                               ELSE IF Finishes(n, answer[n]) THEN Empty ELSE q.packet_rx
        /\ nic'[n].rpacket_rx = IF TakesResponse(n, r) THEN r
                                ELSE IF RspState(n, r) = "IDLE" THEN Empty ELSE q.rpacket_rx
    BY Registers DEF SlotsInv
  <2>3. SetsUp(n) => Asks(Request(n))
    <3>1. SetsUp(n) => /\ n \in Cpu /\ access[n].to \in Targets[n]
                       /\ access[n].tag \in Tags(n)
      BY DEF SetsUp, SlotsInv, TypeInv
    <3> QED BY <3>1 DEF NoBroadcast, Request, Asks
  <2>4. Finishes(n, answer[n]) => Replies(Response(n, q.packet_rx, answer[n]))
    <3>1. Finishes(n, answer[n]) => /\ q.packet_rx.did # 0
                                    /\ answer[n] \in {"ACK", "ERR"}
      BY AnswerFacts DEF Finishes, SlotsInv, Working
    <3>2. Asks(q.packet_rx)
      BY <1>1
    <3> QED BY <3>1, <3>2 DEF Response, Asks, Replies
  <2> HIDE DEF p, r, q
  <2>5. /\ Asks(q.packet_tx) /\ Replies(q.rpacket_tx)
        /\ Asks(q.packet_rx) /\ Replies(q.rpacket_rx)
    BY <1>1 DEF q
  <2> QED BY <2>1, <2>2, <2>3, <2>4, <2>5, GoesOn
<1>4. \A n \in Nic : /\ Asks(nic[n].packet_o)' /\ Replies(nic[n].rpacket_o)'
                     /\ Asks(nic[n].packet_tx)' /\ Replies(nic[n].rpacket_tx)'
                     /\ Asks(nic[n].packet_rx)' /\ Replies(nic[n].rpacket_rx)'
  BY <1>3 DEF Asks, Replies
<1>5. ASSUME NEW x \in Slot
      PROVE  IF x[2] \in Requesting THEN Asks(At(x))' ELSE Replies(At(x))'
  <2>1. CASE x[1] = 0
    <3>1. At(x)' = ager'[x[2]] /\ x[2] \in {"packet_o", "rpacket_o"}
      BY <2>1 DEF Slot, At
    <3> QED BY <1>2, <3>1 DEF Asks, Replies, Requesting
  <2>2. CASE x[1] # 0
    <3>1. /\ At(x)' = nic'[x[1]][x[2]] /\ x[1] \in Nic
          /\ x[2] \in Requesting \cup Responding
      BY <2>2 DEF Slot, At, Stops
    <3> QED BY <1>3, <3>1 DEF Asks, Replies, Requesting, Responding
  <2> QED BY <2>1, <2>2
<1> QED BY <1>5 DEF Routed

LEMMA WorkingKept ==
  ASSUME SlotsInv, NEW answer, NEW to, Clocked(answer, to), NEW n \in Nic
  PROVE  Working(n)'
<1> DEFINE p == Before(n).packet_o
           r == Before(n).rpacket_o
           q == nic[n]
<1>1. /\ nic'[n].rpacket_tx = IF Finishes(n, answer[n])
                              THEN Response(n, q.packet_rx, answer[n])
                              ELSE IF Sends(r, q.rpacket_tx) THEN Empty ELSE q.rpacket_tx
      /\ nic'[n].packet_rx = IF TakesRequest(n, p) THEN p
                             ELSE IF Finishes(n, answer[n]) THEN Empty ELSE q.packet_rx
      /\ nic'[n].rpacket_rx = IF TakesResponse(n, r) THEN r
                              ELSE IF RspState(n, r) = "IDLE" THEN Empty ELSE q.rpacket_rx
      /\ nic'[n].state = State(n, p, answer[n])
      /\ nic'[n].rsp_state = RspState(n, r)
  BY Registers DEF SlotsInv
<1>2. Working(n) /\ n # 0 /\ All # 0
  BY RingFacts, NodesAssumption DEF SlotsInv
<1>3. Empty.did = 0
  BY DEF Empty
<1> HIDE DEF p, r
<1>4. nic'[n].state # "IDLE" => nic'[n].packet_rx.did # 0
  <2>1. TakesRequest(n, p) => p.did # 0
    BY <1>2 DEF TakesRequest
  <2> QED BY <1>1, <1>2, <2>1 DEF Working, State, Finishes
<1>5. nic'[n].packet_rx.did # 0 => nic'[n].rpacket_tx.did = 0
  BY <1>1, <1>2, <1>3 DEF Working, TakesRequest, Finishes
<1>6. IF nic'[n].rpacket_rx.did = 0 THEN nic'[n].rsp_state = "IDLE"
      ELSE /\ nic'[n].rpacket_rx.did = n
           /\ \/ nic'[n].rsp_state = nic'[n].rpacket_rx.typ
              \/ nic'[n].rsp_state = "ACK_ACK" /\ nic'[n].rpacket_rx.typ = "ACK"
  <2>1. CASE TakesResponse(n, r)
    BY <1>1, <1>2, <2>1 DEF TakesResponse, RspState
  <2>2. CASE ~TakesResponse(n, r) /\ q.rsp_state \in {"ACK", "ACK_ACK"} /\ cyc[n]
    <3>1. nic'[n].rsp_state = "ACK_ACK" /\ nic'[n].rpacket_rx = q.rpacket_rx
      BY <1>1, <2>2 DEF RspState
    <3>2. q.rpacket_rx.did # 0 /\ q.rpacket_rx.did = n
      BY <1>2, <2>2 DEF Working
    <3>3. q.rpacket_rx.typ # "ACK_ACK"
      BY DEF SlotsInv, TypeInv, TypeOK, Packet
    <3>4. q.rpacket_rx.typ = "ACK"
      BY <1>2, <2>2, <3>2, <3>3 DEF Working
    <3> QED BY <3>1, <3>2, <3>4
  <2>3. CASE ~TakesResponse(n, r) /\ ~(q.rsp_state \in {"ACK", "ACK_ACK"} /\ cyc[n])
    BY <1>1, <1>3, <2>3 DEF RspState
  <2> QED BY <2>1, <2>2, <2>3
<1> QED BY <1>4, <1>5, <1>6 DEF Working

-----------------------------------------------------------------------------
(* The packet of an access of n's CPU, the request or the response, is in  *)
(* slot x.                                                                 *)
Held(n, x) == At(x).did # 0 /\ At(x).tag \in Tags(n)

(* Where that packet may be, and how often it has been served, as the cycle*)
(* of the CPU goes on.                                                     *)
Tracked(n) ==
  /\ \A x, y \in Slot : Held(n, x) /\ Held(n, y) => x = y
  /\ \A x \in Slot : Held(n, x) => At(x).tag = access[n].tag
  /\ ~cyc[n] => \A x \in Slot : Held(n, x) => x = <<n, "rpacket_rx">>
  /\ cyc[n] /\ nic[n].rw_done => /\ \A x \in Slot : ~Held(n, x)
                                /\ served[n] = 0 /\ ~nic[n].s_ack1 /\ ~nic[n].s_err_o
  /\ cyc[n] => \A x \in Slot : Held(n, x) => served[n] = IF x[2] \in Requesting THEN 0 ELSE 1
  /\ cyc[n] /\ nic[n].s_ack1 => Held(n, <<n, "rpacket_rx">>)
  /\ cyc[n] /\ nic[n].s_err_o => \A x \in Slot : ~Held(n, x)

NodesInv == SlotsInv /\ \A n \in Cpu : Tracked(n)

LEMMA HeldFrom ==
  ASSUME SlotsInv, NEW answer \in Answers, NEW to, Clocked(answer, to),
         NEW n \in Cpu, NEW y \in Slot, Held(n, y)'
  PROVE  \/ y = <<n, "packet_tx">> /\ SetsUp(n) /\ At(y)'.tag = access[n].tag
         \/ \E x \in Slot : Held(n, x) /\ Goes(x, answer) = y /\ At(y)'.tag = At(x).tag
<1>1. PICK t \in Tags(n) : t = At(y)'.tag
  BY DEF Held, Tags
<1>2. Holds(y, t)'
  BY <1>1 DEF Held, Holds
<1>3. \/ y = <<n, "packet_tx">> /\ SetsUp(n) /\ t = access[n].tag
      \/ \E x \in Slot : Holds(x, t) /\ Goes(x, answer) = y
  BY <1>2, ComesFrom
<1> QED BY <1>1, <1>3 DEF Held, Holds

(* A response that is acted on is that of an access.                       *)
LEMMA AnsweredHeld ==
  ASSUME SlotsInv, NEW n \in Cpu, nic[n].rsp_state \in {"ACK", "ACK_ACK", "ERR"}
  PROVE  Held(n, <<n, "rpacket_rx">>)
<1>1. n \in Nic /\ n # 0
  BY NodesAssumption
<1>2. <<n, "rpacket_rx">> \in Slot /\ At(<<n, "rpacket_rx">>) = nic[n].rpacket_rx
  BY <1>1 DEF Slot, At, Stops, Responding
<1>3. Replies(nic[n].rpacket_rx)
  BY <1>1, RoutedRegisters DEF SlotsInv
<1>4. nic[n].rpacket_rx.did = n /\ nic[n].rpacket_rx.typ # "RETRY"
  BY <1>1 DEF SlotsInv, Working
<1> QED BY <1>1, <1>2, <1>3, <1>4 DEF Held, Replies

LEMMA FinishingHeld ==
  ASSUME SlotsInv, NEW n \in Cpu, NEW answer \in Answers, NEW m \in Nic,
         Finishes(m, answer[m])
  PROVE  /\ <<m, "packet_rx">> \in Slot
         /\ nic[m].packet_rx.sid = n <=> Held(n, <<m, "packet_rx">>)
<1>1. m # 0
  BY RingFacts
<1>2. <<m, "packet_rx">> \in Slot /\ At(<<m, "packet_rx">>) = nic[m].packet_rx
  BY <1>1 DEF Slot, At, Stops, Requesting
<1>3. Asks(nic[m].packet_rx) /\ nic[m].packet_rx.did # 0
  BY RoutedRegisters DEF SlotsInv, Working, Finishes
<1> QED BY <1>2, <1>3 DEF Held, Asks, Tags

(* Only the end of a bus cycle makes a response of a request.              *)
LEMMA GoesAlong ==
  ASSUME NEW answer, NEW x \in Slot
  PROVE  IF x[2] = "packet_rx" /\ Finishes(x[1], answer[x[1]])
         THEN Goes(x, answer) = <<x[1], "rpacket_tx">>
         ELSE x[2] \in Requesting <=> Goes(x, answer)[2] \in Requesting
BY DEF Goes, Slot, Requesting, Responding

LEMMA TrackedKept ==
  ASSUME NodesInv, NEW answer \in Answers, NEW to, Clocked(answer, to), NEW n \in Cpu
  PROVE  Tracked(n)'
<1> DEFINE q == nic[n]
           r == Before(n).rpacket_o
<1>1. /\ nic'[n].rpacket_rx = IF TakesResponse(n, r) THEN r
                              ELSE IF RspState(n, r) = "IDLE" THEN Empty ELSE q.rpacket_rx
      /\ nic'[n].rw_done = (~cyc[n] \/ (q.rw_done /\ ~SetsUp(n)))
      /\ nic'[n].s_ack1 = (cyc[n] /\ \/ q.rsp_state \in {"ACK", "ACK_ACK"}
                                     \/ q.s_ack1 /\ ~SetsUp(n))
      /\ nic'[n].s_err_o = (cyc[n] /\ (q.rsp_state = "ERR" \/ q.s_err_o))
  BY Registers, NodesAssumption DEF NodesInv, SlotsInv
<1>2. /\ n \in Nic /\ n # 0 /\ SlotsInv /\ Tracked(n) /\ Working(n)
      /\ served[n] \in Nat /\ cyc[n] \in BOOLEAN
  BY NodesAssumption DEF NodesInv, SlotsInv, TypeInv, TypeOK
<1>3. /\ cyc'[n] = IF cyc[n] THEN ~Done(n) ELSE n \in Cpu /\ to[n] # 0
      /\ cyc[n] => access'[n] = access[n]
      /\ served'[n] = IF ~cyc[n] THEN 0 ELSE served[n] + Cardinality(ServedNow(n, answer))
  BY <1>2 DEF Clocked, CpuClock
<1>4. /\ <<n, "rpacket_rx">> \in Slot /\ At(<<n, "rpacket_rx">>) = q.rpacket_rx
      /\ At(<<n, "rpacket_rx">>)' = nic'[n].rpacket_rx
  BY <1>2 DEF Slot, At, Stops, Responding
<1>5. Empty.did = 0
  BY DEF Empty
<1> HIDE DEF r
<1>6. ASSUME q.rpacket_rx.did # 0, ~(q.rsp_state \in {"ACK", "ACK_ACK"} /\ cyc[n])
      PROVE  nic'[n].rpacket_rx.did = 0
  BY <1>1, <1>5, <1>6 DEF TakesResponse, RspState
<1>7. ASSUME cyc[n], q.rw_done
      PROVE  \A x \in Slot : ~Held(n, x)
  BY <1>2, <1>7 DEF Tracked
<1>8. SetsUp(n) => cyc[n] /\ q.rw_done
  BY DEF SetsUp
<1>9. CASE ~cyc[n]
  <2>1. ASSUME NEW y \in Slot, Held(n, y)'
        PROVE  FALSE
    <3>1. PICK x \in Slot : Held(n, x) /\ Goes(x, answer) = y
      BY <1>2, <1>8, <1>9, <2>1, HeldFrom
    <3>2. x = <<n, "rpacket_rx">>
      BY <1>2, <1>9, <3>1 DEF Tracked
    <3>3. y = <<n, "rpacket_rx">> /\ q.rpacket_rx.did # 0
      BY <1>4, <3>1, <3>2 DEF Goes, Held
    <3> QED BY <1>4, <1>6, <1>9, <2>1, <3>3 DEF Held
  <2>2. served'[n] = 0 /\ ~nic'[n].s_ack1 /\ ~nic'[n].s_err_o
    BY <1>1, <1>3, <1>9
  <2> QED BY <2>1, <2>2 DEF Tracked
<1>10. CASE cyc[n]
  <2>1. \A x, y \in Slot : Held(n, x)' /\ Held(n, y)' => x = y
    <3> SUFFICES ASSUME NEW x \in Slot, NEW y \in Slot, Held(n, x)', Held(n, y)'
                 PROVE  x = y
      OBVIOUS
    <3>1. CASE SetsUp(n)
      BY <1>2, <1>7, <1>8, <3>1, HeldFrom
    <3>2. CASE ~SetsUp(n)
      <4>1. PICK v \in Slot : Held(n, v) /\ Goes(v, answer) = x
        BY <1>2, <3>2, HeldFrom
      <4>2. PICK w \in Slot : Held(n, w) /\ Goes(w, answer) = y
        BY <1>2, <3>2, HeldFrom
      <4>3. v = w
        BY <1>2, <4>1, <4>2 DEF Tracked
      <4> QED BY <4>1, <4>2, <4>3
    <3> QED BY <3>1, <3>2
  <2>2. \A y \in Slot : Held(n, y)' => At(y)'.tag = access'[n].tag
    <3> SUFFICES ASSUME NEW y \in Slot, Held(n, y)'
                 PROVE  At(y)'.tag = access[n].tag
      BY <1>3, <1>10
    <3>1. CASE \E x \in Slot : Held(n, x) /\ At(y)'.tag = At(x).tag
      BY <1>2, <3>1 DEF Tracked
    <3> QED BY <1>2, <3>1, HeldFrom
  <2>3. ~cyc'[n] => \A y \in Slot : Held(n, y)' => y = <<n, "rpacket_rx">>
    <3> SUFFICES ASSUME ~cyc'[n], NEW y \in Slot, Held(n, y)'
                 PROVE  y = <<n, "rpacket_rx">>
      OBVIOUS
    <3>1. q.s_ack1 \/ q.s_err_o
      BY <1>3, <1>10 DEF Done
    <3>2. ~SetsUp(n)
      BY <1>2, <1>8, <3>1 DEF Tracked
    <3>3. PICK x \in Slot : Held(n, x) /\ Goes(x, answer) = y
      BY <1>2, <3>2, HeldFrom
    <3>4. x = <<n, "rpacket_rx">>
      BY <1>2, <1>4, <1>10, <3>1, <3>3 DEF Tracked
    <3> QED BY <3>3, <3>4 DEF Goes
  <2>4. ASSUME cyc'[n]
        PROVE  ~q.s_ack1 /\ ~q.s_err_o
    BY <1>3, <1>10, <2>4 DEF Done
  <2>5. ASSUME \A x \in Slot : Held(n, x) =>
                 ~(x[2] = "packet_rx" /\ Finishes(x[1], answer[x[1]]))
        PROVE  served'[n] = served[n]
    <3>1. ServedNow(n, answer) = {}
      <4> SUFFICES ASSUME NEW m \in Nic, Finishes(m, answer[m]), nic[m].packet_rx.sid = n
                   PROVE  FALSE
        BY DEF ServedNow
      <4>1. PICK x \in Slot : x = <<m, "packet_rx">> /\ Held(n, x)
        BY <1>2, FinishingHeld
      <4> QED BY <2>5, <4>1
    <3> QED BY <1>2, <1>3, <1>10, <3>1, FS_EmptySet
  <2>6. ASSUME cyc'[n], nic'[n].rw_done
        PROVE  /\ \A y \in Slot : ~Held(n, y)'
               /\ served'[n] = 0 /\ ~nic'[n].s_ack1 /\ ~nic'[n].s_err_o
    <3>1. q.rw_done /\ ~SetsUp(n) /\ \A x \in Slot : ~Held(n, x)
      BY <1>1, <1>7, <1>10, <2>6
    <3>2. \A y \in Slot : ~Held(n, y)'
      BY <1>2, <3>1, HeldFrom
    <3>3. q.rsp_state \notin {"ACK", "ACK_ACK", "ERR"}
      BY <1>2, <1>4, <3>1, AnsweredHeld
    <3>4. served'[n] = 0
      BY <1>2, <1>10, <2>5, <3>1 DEF Tracked
    <3> QED BY <1>1, <2>4, <2>6, <3>2, <3>3, <3>4
  <2>7. ASSUME cyc'[n], NEW y \in Slot, Held(n, y)'
        PROVE  served'[n] = IF y[2] \in Requesting THEN 0 ELSE 1
    <3>1. CASE SetsUp(n)
      <4>1. y = <<n, "packet_tx">> /\ served[n] = 0 /\ \A x \in Slot : ~Held(n, x)
        BY <1>2, <1>8, <2>7, <3>1, HeldFrom DEF Tracked
      <4> QED BY <2>5, <4>1 DEF Requesting
    <3>2. CASE ~SetsUp(n)
      <4>1. PICK x \in Slot : Held(n, x) /\ Goes(x, answer) = y
        BY <1>2, <2>7, <3>2, HeldFrom
      <4>2. /\ served[n] = IF x[2] \in Requesting THEN 0 ELSE 1
            /\ \A w \in Slot : Held(n, w) => w = x
        BY <1>2, <1>10, <4>1 DEF Tracked
      <4>3. CASE x[2] = "packet_rx" /\ Finishes(x[1], answer[x[1]])
        <5>1. x = <<x[1], "packet_rx">> /\ x[1] \in Nic /\ y = <<x[1], "rpacket_tx">>
          BY <4>1, <4>3, GoesAlong DEF Slot, Stops
        <5>2. ServedNow(n, answer) = {x[1]}
          <6>1. \A m \in Nic : Finishes(m, answer[m]) /\ nic[m].packet_rx.sid = n => m = x[1]
            <7> SUFFICES ASSUME NEW m \in Nic, Finishes(m, answer[m]),
                                nic[m].packet_rx.sid = n
                         PROVE  m = x[1]
              OBVIOUS
            <7>1. PICK w \in Slot : w = <<m, "packet_rx">> /\ Held(n, w)
              BY <1>2, FinishingHeld
            <7> QED BY <4>2, <7>1
          <6>2. nic[x[1]].packet_rx.sid = n
            BY <1>2, <4>1, <4>3, <5>1, FinishingHeld
          <6> QED BY <4>3, <5>1, <6>1, <6>2 DEF ServedNow
        <5>3. served[n] = 0 /\ Cardinality({x[1]}) = 1
          BY <4>2, <4>3, FS_Singleton DEF Requesting
        <5> QED BY <1>3, <1>10, <5>1, <5>2, <5>3 DEF Requesting
      <4>4. CASE ~(x[2] = "packet_rx" /\ Finishes(x[1], answer[x[1]]))
        <5>1. served'[n] = served[n]
          BY <2>5, <4>2, <4>4
        <5> QED BY <4>1, <4>2, <4>4, <5>1, GoesAlong
      <4> QED BY <4>3, <4>4
    <3> QED BY <3>1, <3>2
  <2>8. ASSUME cyc'[n], nic'[n].s_ack1
        PROVE  Held(n, <<n, "rpacket_rx">>)'
    <3>1. q.rsp_state \in {"ACK", "ACK_ACK"}
      BY <1>1, <2>4, <2>8
    <3>2. Held(n, <<n, "rpacket_rx">>)
      BY <1>2, <3>1, AnsweredHeld
    <3>3. nic'[n].rpacket_rx = q.rpacket_rx
      BY <1>1, <1>4, <1>10, <3>1, <3>2 DEF Held, TakesResponse, RspState
    <3> QED BY <1>4, <3>2, <3>3 DEF Held
  <2>9. ASSUME cyc'[n], nic'[n].s_err_o, NEW y \in Slot, Held(n, y)'
        PROVE  FALSE
    <3>1. q.rsp_state = "ERR"
      BY <1>1, <2>4, <2>9
    <3>2. Held(n, <<n, "rpacket_rx">>)
      BY <1>2, <3>1, AnsweredHeld
    <3>3. ~SetsUp(n)
      BY <1>4, <1>7, <1>8, <3>2
    <3>4. PICK x \in Slot : Held(n, x) /\ Goes(x, answer) = y
      BY <1>2, <2>9, <3>3, HeldFrom
    <3>5. x = <<n, "rpacket_rx">>
      BY <1>2, <1>4, <3>2, <3>4 DEF Tracked
    <3>6. y = <<n, "rpacket_rx">>
      BY <3>4, <3>5 DEF Goes
    <3> QED BY <1>4, <1>6, <2>9, <3>1, <3>2, <3>6 DEF Held
  <2> QED BY <2>1, <2>2, <2>3, <2>6, <2>7, <2>8, <2>9 DEF Tracked
<1> QED BY <1>9, <1>10

-----------------------------------------------------------------------------
LEMMA InitNodes == Init => NodesInv
<1> SUFFICES ASSUME Init PROVE NodesInv
  OBVIOUS
<1>1. Empty.did = 0 /\ Empty \in Packet
  BY PacketTypes DEF Empty
<1>2. \A n \in Nic : /\ nic[n].packet_o = Empty /\ nic[n].rpacket_o = Empty
                     /\ nic[n].packet_tx = Empty /\ nic[n].rpacket_tx = Empty
                     /\ nic[n].packet_rx = Empty /\ nic[n].rpacket_rx = Empty
                     /\ nic[n].state = "IDLE" /\ nic[n].rsp_state = "IDLE"
                     /\ cyc[n] = FALSE
  BY DEF Init
<1>3. ager = [packet_o |-> Empty, rpacket_o |-> Empty, rpacket_tx |-> Empty]
  BY DEF Init
<1>4. \A x \in Slot : At(x) = Empty
  <2> SUFFICES ASSUME NEW x \in Slot PROVE At(x) = Empty
    OBVIOUS
  <2>1. CASE x[1] = 0
    BY <1>3, <2>1 DEF Slot, At
  <2>2. CASE x[1] # 0
    BY <1>2, <2>2 DEF Slot, Stops, At, Requesting, Responding
  <2> QED BY <2>1, <2>2
<1>5. TypeInv
  <2> HIDE DEF Empty, Packet
  <2>1. NoAccess \in [to : Nic \cup {All, 0}, tag : Tag]
    BY DEF NoAccess, Tag
  <2>2. delay \in [Nic -> 0 .. Delay] /\ served \in [Cpu -> Nat] /\ cyc \in [Nic -> BOOLEAN]
    BY NodesAssumption DEF Init
  <2>3. access \in [Cpu -> [to : Nic \cup {All, 0}, tag : Tag]]
    BY <2>1 DEF Init
  <2>4. ager \in [packet_o : Packet, rpacket_o : Packet, rpacket_tx : Packet]
    BY <1>1, <1>3
  <2>5. nic \in [Nic -> [packet_o : Packet, rpacket_o : Packet,
                        packet_tx : Packet, rpacket_tx : Packet,
                        packet_rx : Packet, rpacket_rx : Packet,
                        state : {"IDLE", "READWRITE", "READWRITE_ACK"},
                        rsp_state : {"IDLE", "ACK", "ACK_ACK", "ERR", "RETRY"},
                        rw_done : BOOLEAN, s_ack1 : BOOLEAN, s_err_o : BOOLEAN]]
    BY <1>1 DEF Init
  <2> QED BY <1>1, <1>2, <1>3, <2>2, <2>3, <2>4, <2>5 DEF TypeInv, TypeOK
<1>6. Routed
  BY <1>1, <1>4 DEF Routed, Asks, Replies
<1>7. \A n \in Nic : Working(n)
  BY <1>1, <1>2 DEF Working
<1>8. \A n \in Cpu, x \in Slot : ~Held(n, x)
  BY <1>1, <1>4 DEF Held
<1>9. \A n \in Cpu : cyc[n] = FALSE
  BY <1>2, NodesAssumption
<1> QED BY <1>5, <1>6, <1>7, <1>8, <1>9 DEF NodesInv, SlotsInv, Tracked

LEMMA NodesStep == NoBroadcast /\ NodesInv /\ [Next]_vars => NodesInv'
<1> SUFFICES ASSUME NoBroadcast, NodesInv, [Next]_vars
             PROVE  NodesInv'
  OBVIOUS
<1>1. CASE Next
  <2>1. PICK answer \in Answers, to \in Starts : Clocked(answer, to)
    BY <1>1, ClockIsClocked DEF Next
  <2>2. TypeInv'
    BY <2>1, TypeKept DEF NodesInv, SlotsInv
  <2>3. Routed'
    BY <2>1, RoutedKept DEF NodesInv
  <2>4. \A n \in Nic : Working(n)'
    BY <2>1, WorkingKept DEF NodesInv
  <2>5. \A n \in Cpu : Tracked(n)'
    BY <2>1, TrackedKept
  <2> QED BY <2>2, <2>3, <2>4, <2>5 DEF NodesInv, SlotsInv
<1>2. CASE UNCHANGED vars
  <2> USE <1>2 DEF vars
  <2>1. TypeInv'
    BY DEF NodesInv, SlotsInv, TypeInv, TypeOK
  <2>2. Routed'
    BY DEF NodesInv, SlotsInv, Routed, At
  <2>3. \A n \in Nic : Working(n)'
    BY DEF NodesInv, SlotsInv, Working
  <2>4. \A n \in Cpu : Tracked(n)'
    BY DEF NodesInv, Tracked, Held, At
  <2> QED BY <2>1, <2>2, <2>3, <2>4 DEF NodesInv, SlotsInv
<1> QED BY <1>1, <1>2

(* What the invariant says of the packets with a tag, wherever they are.   *)
LEMMA CarriedOnce ==
  ASSUME NodesInv, NEW n \in Cpu, NEW b \in {0, 1}
  PROVE  Cardinality(Carrying(<<n, b>>)) <= IF access[n].tag = <<n, b>> THEN 1 ELSE 0
<1> DEFINE t == <<n, b>>
<1>1. ASSUME NEW x \in Carrying(t)
      PROVE  x \in Slot /\ Held(n, x) /\ At(x).tag = t
  BY DEF Carrying, Holds, Held, Tags
<1>2. Tracked(n)
  BY DEF NodesInv
<1>3. CASE Carrying(t) = {}
  BY <1>3, FS_EmptySet
<1>4. CASE Carrying(t) # {}
  <2>1. PICK z : z \in Carrying(t)
    BY <1>4
  <2>2. Carrying(t) = {z}
    BY <1>1, <1>2, <2>1 DEF Tracked
  <2>3. access[n].tag = t
    BY <1>1, <1>2, <2>1 DEF Tracked
  <2> HIDE DEF t
  <2>4. Cardinality(Carrying(t)) = 1
    BY <2>2, FS_Singleton
  <2> QED BY <2>3, <2>4 DEF t
<1> QED BY <1>3, <1>4

-----------------------------------------------------------------------------
(* Every register, of the interfaces and the ager, keeps its type, with    *)
(* broadcasts too.                                                         *)
THEOREM NodesTypesKept == Spec => []TypeOK
<1>1. Init => TypeInv
  BY InitNodes DEF NodesInv, SlotsInv
<1>2. TypeInv /\ [Next]_vars => TypeInv'
  <2>1. ASSUME TypeInv, Next PROVE TypeInv'
    BY <2>1, ClockIsClocked, TypeKept DEF Next
  <2>2. ASSUME TypeInv, UNCHANGED vars PROVE TypeInv'
    BY <2>2 DEF vars, TypeInv, TypeOK
  <2> QED BY <2>1, <2>2
<1>3. TypeInv => TypeOK
  BY DEF TypeInv
<1> QED BY <1>1, <1>2, <1>3, PTL DEF Spec

(***************************************************************************)
(* Whatever the interfaces do on the same clock, and whenever packets are  *)
(* dropped for their age or turned away by a busy receiver, an access has  *)
(* one packet and its cycle is run once, by the node it is for.            *)
(***************************************************************************)
THEOREM NodesKeepInv == NoBroadcast /\ Spec => []NodesInv
<1>1. NoBroadcast /\ NodesInv /\ [Next]_vars => NodesInv'
  BY NodesStep
<1>2. Spec /\ NoBroadcast => []NodesInv
  <2> SUFFICES ASSUME NoBroadcast PROVE Spec => []NodesInv
    OBVIOUS
  <2>1. NodesInv /\ [Next]_vars => NodesInv'
    BY <1>1
  <2> QED BY <2>1, InitNodes, PTL DEF Spec
<1> QED BY <1>2

(* A request, or the response to it, is in at most one place, and only     *)
(* while the access it belongs to lasts.                                   *)
THEOREM RequestsInOnePlace == NoBroadcast /\ Spec => []OnePlace
<1>1. NodesInv => OnePlace
  BY CarriedOnce DEF OnePlace
<1> QED BY <1>1, NodesKeepInv, PTL

(* An access that is acknowledged has been carried out once, and it is the *)
(* response to it that acknowledges it.                                    *)
THEOREM AcknowledgedOnce == NoBroadcast /\ Spec => []AckedOnce
<1>1. NodesInv => AckedOnce
  <2> SUFFICES ASSUME NodesInv, NEW n \in Cpu, nic[n].s_ack1, cyc[n]
               PROVE  served[n] = 1 /\ nic[n].rpacket_rx.tag = access[n].tag
    BY DEF AckedOnce
  <2>1. n # 0 /\ n \in Nic
    BY NodesAssumption
  <2>2. /\ <<n, "rpacket_rx">> \in Slot /\ At(<<n, "rpacket_rx">>) = nic[n].rpacket_rx
    BY <2>1 DEF Slot, At, Stops, Responding
  <2>3. Held(n, <<n, "rpacket_rx">>) /\ Tracked(n)
    BY DEF NodesInv, Tracked
  <2>4. served[n] = IF "rpacket_rx" \in Requesting THEN 0 ELSE 1
    BY <2>2, <2>3 DEF Tracked
  <2> QED BY <2>2, <2>3, <2>4 DEF Tracked, Requesting
<1> QED BY <1>1, NodesKeepInv, PTL
=============================================================================
