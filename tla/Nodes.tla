-------------------------------- MODULE Nodes --------------------------------
(***************************************************************************)
(* The network of nodes: the interfaces of rtl/soc/rf68000_nic_new.sv (the *)
(* module rf68000_nic whose ports rf68000_node.sv and the Genesys2 board's *)
(* rf68000_soc.sv connect) and rtl/soc/nic_ager.sv, in a ring that packets *)
(* go round by one register on every clock.  Requests and responses have a *)
(* ring each.                                                              *)
(*                                                                         *)
(* An interface whose CPU starts a bus cycle sends a request to the one    *)
(* that serves the address, which runs the cycle on its own bus and sends  *)
(* the outcome back.  The ager sends a requester RETRY when its request has*)
(* made too many trips, and clears packets that have made more.            *)
(*                                                                         *)
(* Taking a packet clears its destination but not its source, so that the  *)
(* ager goes on ageing it; here it keeps nothing else.                     *)
(*                                                                         *)
(* Reads and writes go alike, because SYNC_WRITE is 1, and bursts are not  *)
(* used (s_cti_i is 0).  The answers VPA and VPA2 are like ERR.  Accesses  *)
(* are outside the first gigabyte, where no error would be reported to the *)
(* CPU.  Interrupt packets and local accesses are left out.                *)
(***************************************************************************)
EXTENDS Naturals, Sequences, FiniteSets, SequencesExt

CONSTANTS
  Ring,      \* the interfaces in the order of the ring, the ager after the last
  Cpu,       \* those with a CPU
  All,       \* the destination that means every node, 63
  Targets,   \* CPU -> destinations of its accesses
  RetryAge,  \* age from which the ager sends RETRY, 7
  MaxAge,    \* age at which it clears a packet, 15
  OldAge,    \* age a broadcast starts with, 30
  Delay      \* clocks a bus takes at most to answer; bounds the model

Nic == ToSet(Ring)

ASSUME NodesAssumption ==
  /\ Ring \in Seq(Nat) /\ Ring # <<>> /\ IsInjective(Ring)
  /\ Cpu \subseteq Nic
  /\ 0 \notin Nic \cup {All}
  /\ All \notin Nic
  /\ Targets \in [Cpu -> SUBSET (Nic \cup {All})]
  /\ RetryAge \in Nat /\ MaxAge \in Nat /\ OldAge \in Nat
  /\ RetryAge < MaxAge /\ MaxAge <= OldAge
  /\ Delay \in Nat

VARIABLES
  nic,     \* interface -> its registers
  ager,    \* the registers of the ager
  cyc,     \* interface -> its CPU runs a bus cycle
  access,  \* interface -> the CPU's access: destination, and a tag that tells
           \* it from the one before
  delay,   \* interface -> clocks for which its own bus cycle has lasted
  served   \* history: interface -> bus cycles run for its CPU's access

vars == <<nic, ager, cyc, access, delay, served>>

NoTag == <<0, 0>>
Tag   == (Cpu \X {0, 1}) \cup {NoTag}

Packet ==
  [did : Nic \cup {All, 0}, sid : Nic \cup {All, 0}, age : 0 .. OldAge,
   typ : {"NULL", "RW", "ACK", "ERR", "RETRY"}, tag : Tag]

Empty == [did |-> 0, sid |-> 0, age |-> 0, typ |-> "NULL", tag |-> NoTag]

(* Fault: the packet goes on although it has been taken.                   *)
Kept(p) == p

(* A packet that has been taken.                                           *)
Taken(p) == [Empty EXCEPT !.sid = p.sid, !.age = p.age]

Request(n) ==
  [did |-> access[n].to, sid |-> n, age |-> IF access[n].to = All THEN OldAge ELSE 0,
   typ |-> "RW", tag |-> access[n].tag]

Response(n, p, outcome) ==
  [did |-> p.sid, sid |-> n, age |-> 0, typ |-> outcome, tag |-> p.tag]

-----------------------------------------------------------------------------
(* What interface n does on a clock with p and r on its inputs, answer     *)
(* being what its bus reports.                                             *)

TakesResponse(n, r) == r.did = n /\ nic[n].rpacket_rx.did = 0

TakesRequest(n, p) ==
  /\ p.did \in {n, All}
  /\ nic[n].packet_rx.did = 0
  /\ nic[n].rpacket_tx.did = 0

(* Fault: it is not remembered that the cycle has been sent.               *)
SetsUpAgain(n) == cyc[n] /\ nic[n].packet_tx.did = 0

(* A cycle of the CPU becomes a request.                                   *)
SetsUp(n) == cyc[n] /\ nic[n].packet_tx.did = 0 /\ nic[n].rw_done

Sends(in, out) == in.did = 0 /\ out.did # 0

(* What becomes of the packet in, given what waits to be sent.             *)
Passed(n, in, out, takes) ==
  IF Sends(in, out) THEN out
  ELSE IF takes /\ in.did = n THEN Taken(in) ELSE in

Finishes(n, answer) == nic[n].state = "READWRITE_ACK" /\ answer # "none"

State(n, p, answer) ==
  IF TakesRequest(n, p) THEN "READWRITE"
  ELSE CASE nic[n].state = "READWRITE" -> "READWRITE_ACK"
         [] Finishes(n, answer)        -> "IDLE"
         [] OTHER                      -> nic[n].state

RspState(n, r) ==
  IF TakesResponse(n, r) THEN r.typ
  ELSE IF nic[n].rsp_state \in {"ACK", "ACK_ACK"} /\ cyc[n] THEN "ACK_ACK" ELSE "IDLE"

NicClock(n, p, r, answer) ==
  LET q == nic[n]
  IN  [packet_o   |-> Passed(n, p, q.packet_tx, TakesRequest(n, p)),
       rpacket_o  |-> Passed(n, r, q.rpacket_tx, TakesResponse(n, r)),
       packet_tx  |-> IF SetsUp(n) THEN Request(n)
                      ELSE IF Sends(p, q.packet_tx) THEN Empty ELSE q.packet_tx,
       rpacket_tx |-> IF Finishes(n, answer) THEN Response(n, q.packet_rx, answer)
                      ELSE IF Sends(r, q.rpacket_tx) THEN Empty ELSE q.rpacket_tx,
       packet_rx  |-> IF TakesRequest(n, p) THEN p
                      ELSE IF Finishes(n, answer) THEN Empty ELSE q.packet_rx,
       rpacket_rx |-> IF TakesResponse(n, r) THEN r
                      ELSE IF RspState(n, r) = "IDLE" THEN Empty ELSE q.rpacket_rx,
       state      |-> State(n, p, answer),
       rsp_state  |-> RspState(n, r),
       rw_done    |-> ~cyc[n] \/ (q.rw_done /\ ~SetsUp(n)),
       s_ack1     |-> cyc[n] /\ \/ q.rsp_state \in {"ACK", "ACK_ACK"}
                                \/ q.s_ack1 /\ ~SetsUp(n),
       s_err_o    |-> cyc[n] /\ (q.rsp_state = "ERR" \/ q.s_err_o)]

(* Fault: packets are never cleared.                                       *)
AgedForever(p) == IF p.did = 0 /\ p.sid = 0 THEN p ELSE [p EXCEPT !.age = @ + 1]

(* Fault: the age that is too old is compared the wrong way.               *)
AgedAtOnce(p) == Empty

(* A packet that goes through the ager.                                    *)
Aged(p) ==
  IF p.did = 0 /\ p.sid = 0 THEN p
  ELSE IF p.age >= MaxAge THEN Empty ELSE [p EXCEPT !.age = @ + 1]

Vacant(r) == r.did = 0 /\ r.sid = 0

AgerClock(p, r) ==
  LET tx == ager.rpacket_tx
  IN  [packet_o   |-> Aged(p),
       rpacket_o  |-> IF Vacant(r) THEN tx ELSE Aged(r),
       rpacket_tx |-> IF p.age >= RetryAge /\ tx = Empty
                      THEN [Empty EXCEPT !.did = p.sid, !.sid = p.did,
                                         !.age = p.age, !.typ = "RETRY"]
                      ELSE IF Vacant(r) THEN Empty ELSE tx]

-----------------------------------------------------------------------------

NoAccess == [to |-> 0, tag |-> NoTag]

Init ==
  /\ nic = [n \in Nic |->
              [packet_o |-> Empty, rpacket_o |-> Empty,
               packet_tx |-> Empty, rpacket_tx |-> Empty,
               packet_rx |-> Empty, rpacket_rx |-> Empty,
               state |-> "IDLE", rsp_state |-> "IDLE",
               rw_done |-> TRUE, s_ack1 |-> FALSE, s_err_o |-> FALSE]]
  /\ ager = [packet_o |-> Empty, rpacket_o |-> Empty, rpacket_tx |-> Empty]
  /\ cyc = [n \in Nic |-> FALSE]
  /\ access = [n \in Cpu |-> NoAccess]
  /\ delay = [n \in Nic |-> 0]
  /\ served = [n \in Cpu |-> 0]

(* The slots a packet can be in, those of the requests first; the ager,    *)
(* marked 0, has the registers of the ring only.                           *)
Stops == Nic \cup {0}

Requesting == {"packet_o", "packet_tx", "packet_rx"}
Responding == {"rpacket_o", "rpacket_tx", "rpacket_rx"}

Slot == {x \in Stops \X (Requesting \cup Responding) :
           x[1] = 0 => x[2] \in {"packet_o", "rpacket_o"}}

At(x) == IF x[1] = 0 THEN ager[x[2]] ELSE nic[x[1]][x[2]]

Holds(x, t) == At(x).did # 0 /\ At(x).tag = t

Carrying(t) == {x \in Slot : Holds(x, t)}

Pos == [n \in Nic |-> CHOOSE i \in DOMAIN Ring : Ring[i] = n]

Before(n) == IF Pos[n] = 1 THEN ager ELSE nic[Ring[Pos[n] - 1]]

(* The answer of each bus: it answers while a cycle runs, in time.         *)
Answers ==
  LET busy == {n \in Nic : nic[n].state = "READWRITE_ACK"}
  IN  {[n \in Nic |-> IF n \in busy THEN a[n] ELSE "none"] :
         a \in {a \in [busy -> {"none", "ACK", "ERR"}] :
                 \A n \in busy : delay[n] = Delay => a[n] # "none"}}

Done(n) == nic[n].s_ack1 \/ nic[n].s_err_o

(* A tag that tells a new access of n's CPU from one that left packets.     *)
NewTag(n) == <<n, IF Carrying(<<n, 0>>) = {} THEN 0 ELSE 1>>

(* A CPU ends its cycle when it is answered, and starts another, to to[n], *)
(* when it likes.                                                          *)
CpuClock(to) ==
  /\ cyc' = [n \in Nic |-> IF cyc[n] THEN ~Done(n) ELSE n \in Cpu /\ to[n] # 0]
  /\ access' = [n \in Cpu |-> IF cyc[n] THEN access[n]
                              ELSE IF to[n] = 0 THEN NoAccess
                              ELSE [to |-> to[n], tag |-> NewTag(n)]]

(* The starts there may be: none, marked 0, by a CPU with a cycle.         *)
Starts ==
  LET free == {n \in Cpu : ~cyc[n]}
  IN  {[n \in Cpu |-> IF n \in free THEN to[n] ELSE 0] :
         to \in {to \in [free -> Nic \cup {All, 0}] :
                  \A n \in free : to[n] \in Targets[n] \cup {0}}}

(* The bus cycles that end on this clock and are for n's CPU.              *)
ServedNow(n, answer) ==
  {m \in Nic : Finishes(m, answer[m]) /\ nic[m].packet_rx.sid = n}

(* One clock of all parts.                                                 *)
Clock ==
  \E answer \in Answers, to \in Starts :
    /\ CpuClock(to)
    /\ delay' = [n \in Nic |->
                   IF nic[n].state = "READWRITE_ACK" /\ answer[n] = "none"
                   THEN delay[n] + 1 ELSE 0]
    /\ ager' = AgerClock(nic[Last(Ring)].packet_o, nic[Last(Ring)].rpacket_o)
    /\ nic' = [n \in Nic |->
                 NicClock(n, Before(n).packet_o, Before(n).rpacket_o, answer[n])]
    /\ served' = [n \in Cpu |->
                    IF ~cyc[n] THEN 0
                    ELSE served[n] + Cardinality(ServedNow(n, answer))]

Next == Clock

Spec == Init /\ [][Next]_vars /\ WF_vars(Clock)

-----------------------------------------------------------------------------
(* Every variable has its type.                                            *)
TypeOK ==
  /\ nic \in [Nic -> [packet_o : Packet, rpacket_o : Packet,
                      packet_tx : Packet, rpacket_tx : Packet,
                      packet_rx : Packet, rpacket_rx : Packet,
                      state : {"IDLE", "READWRITE", "READWRITE_ACK"},
                      rsp_state : {"IDLE", "ACK", "ACK_ACK", "ERR", "RETRY"},
                      rw_done : BOOLEAN, s_ack1 : BOOLEAN, s_err_o : BOOLEAN]]
  /\ ager \in [packet_o : Packet, rpacket_o : Packet, rpacket_tx : Packet]
  /\ cyc \in [Nic -> BOOLEAN]
  /\ delay \in [Nic -> 0 .. Delay]
  /\ served \in [Cpu -> Nat]

(***************************************************************************)
(* A request, or the response to it, is in at most one place, and only     *)
(* while the access it belongs to lasts: nothing is left behind for a later*)
(* access to find (rf68000_nic_new.sv 251-505).                            *)
(***************************************************************************)
OnePlace ==
  \A n \in Cpu, b \in {0, 1} :
    Cardinality(Carrying(<<n, b>>))
      <= IF access[n].tag = <<n, b>> THEN 1 ELSE 0

(***************************************************************************)
(* An access that is acknowledged has been carried out, once, and it is the*)
(* response to it that acknowledges it, although the address of a response *)
(* is not compared (rf68000_nic_new.sv 417, 430).                          *)
(***************************************************************************)
AckedOnce ==
  \A n \in Cpu :
    nic[n].s_ack1 /\ cyc[n] =>
      /\ served[n] = 1
      /\ nic[n].rpacket_rx.tag = access[n].tag

(***************************************************************************)
(* Every bus cycle ends: it is always the case that there will be none, the*)
(* same as cyc[n] ~> ~cyc[n] (rf68000_nic_new.sv 251-505).                 *)
(***************************************************************************)
CyclesEnd == \A n \in Cpu : []<>~cyc[n]

=============================================================================
