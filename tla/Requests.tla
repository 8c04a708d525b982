------------------------------- MODULE Requests -------------------------------
(***************************************************************************)
(* Requests and services: kernel/msg.c 24-134 and 1021-1147, on mailboxes  *)
(* as module Mailbox describes them.                                       *)
(*                                                                         *)
(* A client names a service by its place in the service table and gives a  *)
(* request; the kernel copies it into a request block and sends the block's*)
(* handle to the mailbox of the service.  The server responds with that    *)
(* handle, and the kernel sends it to the response mailbox named in the    *)
(* block.  A client puts its own mailbox there and reads no other.         *)
(*                                                                         *)
(* The copy overwrites the whole block, magic included, by which FreeRqb   *)
(* recognises a block in use: the client decides by the magic of its own   *)
(* request whether the block can be freed.                                 *)
(*                                                                         *)
(* RQB_Initialize links the last block to one after the array.  The model  *)
(* stops before that block is handed out.  A server is taken to respond    *)
(* once to each request; how it learns its mailbox is left open, since     *)
(* FMTK_RegisterService does not tell and FMTK_GetServiceMbx compares the  *)
(* wrong way round.  Owners and the aliased memory are left out.           *)
(***************************************************************************)
EXTENDS Mailbox, Iteration

CONSTANTS
  NR_RQB,     \* number of request blocks, 256 in inc/config.h
  NR_SERVICE, \* places in the service table, 64
  Clients,
  Servers,
  Home,       \* client -> its response mailbox, server -> the one it serves
  Names,      \* what services may be called
  NoName,     \* an empty name
  NoClient,
  SpareBoxes  \* mailboxes FMTK_AllocMbx gives out, one after the other

ASSUME RequestsAssumption ==
  /\ NR_RQB \in Nat \ {0}
  /\ NR_SERVICE \in Nat \ {0}
  /\ Clients \cap Servers = {}
  /\ Threads = Clients \cup Servers
  /\ Boxes \subseteq Nat \ {0}
  /\ Home \in [Threads -> Boxes]
  /\ SpareBoxes \in Seq(Boxes)
  \* No thread but the client itself reads from its mailbox, and no service
  \* is given it.
  /\ \A c \in Clients :
       /\ \A t \in Threads : Home[t] = Home[c] => t = c
       /\ ~Contains(SpareBoxes, Home[c])
  /\ NoMessage \notin [type : {"MT_RQB", "MT_RESP"}, hRqb : 1 .. NR_RQB]
  /\ NoName \notin Names
  /\ NoClient \notin Clients
  \* Every request under way finds a message block.
  /\ Blocks >= NR_RQB

VARIABLES
  request_block, \* handle -> magic, next, response_mbx
  FreeRQB,       \* head of the free blocks
  nRequest,      \* number of free blocks
  service,       \* place -> name and service_mbx
  spare,         \* mailboxes not allocated yet, as a sequence
  serving,       \* server -> handle of the request it works on, 0 for none
  asked          \* history: handle -> client whose request is under way

reqVars == <<request_block, FreeRQB, nRequest, service, spare, serving, asked>>
vars    == <<mailVars, reqVars>>

Rqb     == 1 .. NR_RQB
Service == 1 .. NR_SERVICE
Box0    == Boxes \cup {0}
Magic   == {"RQB ", "none"}
Status  == {"E_Ok", "E_OwnerAbort"}

RqbMsg(h)  == [type |-> "MT_RQB",  hRqb |-> h]
RespMsg(h) == [type |-> "MT_RESP", hRqb |-> h]

-----------------------------------------------------------------------------

Init ==
  /\ MailInit
  /\ request_block = [h \in Rqb |-> [magic |-> "none", next |-> h + 1,
                                     response_mbx |-> 0]]
  /\ FreeRQB  = 1
  /\ nRequest = NR_RQB
  /\ service  = [s \in Service |-> [name |-> NoName, service_mbx |-> 0]]
  /\ spare    = SpareBoxes
  /\ serving  = [t \in Servers |-> 0]
  /\ asked    = [h \in Rqb |-> NoClient]

(* A thread that does not wait and has read what it was handed.            *)
Runs(t) == handed[t] = NoMessage /\ ~IsWaiting(t)

(* The first place of the service table with name n.                       *)
PlacesNamed(n) == {s \in Service : service[s].name = n}
FirstNamed(n)  == Min(PlacesNamed(n))

FMTK_RegisterService(n) ==
  /\ PlacesNamed(NoName) # {}
  /\ spare # <<>>
  /\ service' = [service EXCEPT ![FirstNamed(NoName)] =
                                  [name |-> n, service_mbx |-> Head(spare)]]
  /\ spare' = Tail(spare)
  /\ UNCHANGED <<mailVars, request_block, FreeRQB, nRequest, serving, asked>>

(* The mailbox is not freed.                                               *)
FMTK_UnregisterService(n) ==
  /\ PlacesNamed(n) # {}
  /\ service' = [service EXCEPT ![FirstNamed(n)] =
                                  [name |-> NoName, service_mbx |-> 0]]
  /\ UNCHANGED <<mailVars, request_block, FreeRQB, nRequest, spare, serving, asked>>

(* The block that AllocRqb takes with the copy of client c's request in it.*)
Filled(c, magic) ==
  [request_block EXCEPT ![FreeRQB].magic = magic,
                        ![FreeRQB].response_mbx = Home[c]]

(* Fault: the block stays on the free list.                                *)
FMTK_RequestKeepsFree(c, s, magic) ==
  /\ Runs(c)
  /\ service[s].service_mbx # 0
  /\ FreeRQB \in Rqb
  /\ request_block' = Filled(c, magic)
  /\ Deliver(service[s].service_mbx, RqbMsg(FreeRQB))
  /\ asked' = [asked EXCEPT ![FreeRQB] = c]
  /\ UNCHANGED <<FreeRQB, nRequest, service, spare, serving>>

(* Fault: the count of free blocks is not kept.                            *)
FMTK_RequestUncounted(c, s, magic) ==
  /\ Runs(c)
  /\ service[s].service_mbx # 0
  /\ FreeRQB \in Rqb
  /\ request_block' = Filled(c, magic)
  /\ FreeRQB'  = request_block[FreeRQB].next
  /\ Deliver(service[s].service_mbx, RqbMsg(FreeRQB))
  /\ asked' = [asked EXCEPT ![FreeRQB] = c]
  /\ UNCHANGED <<nRequest, service, spare, serving>>

(* The field next of the block is overwritten, too; it is set anew when the*)
(* block is freed.  A place without a service would make the mailbox's     *)
(* address NULL; clients are taken to name services that are registered.   *)
FMTK_Request(c, s, magic) ==
  /\ Runs(c)
  /\ service[s].service_mbx # 0
  /\ FreeRQB \in Rqb
  /\ request_block' = Filled(c, magic)
  /\ FreeRQB'  = request_block[FreeRQB].next
  /\ nRequest' = nRequest - 1
  /\ Deliver(service[s].service_mbx, RqbMsg(FreeRQB))
  /\ asked' = [asked EXCEPT ![FreeRQB] = c]
  /\ UNCHANGED <<service, spare, serving>>

FreeRqb(h) ==
  IF request_block[h].magic = "RQB "
  THEN /\ request_block' = [request_block EXCEPT ![h].magic = "none",
                                                 ![h].next  = FreeRQB]
       /\ FreeRQB'  = h
       /\ nRequest' = nRequest + 1
  ELSE UNCHANGED <<request_block, FreeRQB, nRequest>>

(* Faults: the answer goes to the mailbox the request came by; it is queued*)
(* although the client waits.                                              *)
FMTK_RespondHere(t, stat) ==
  LET h == serving[t]
  IN  /\ h # 0
      /\ Runs(t)
      /\ serving' = [serving EXCEPT ![t] = 0]
      /\ Deliver(Home[t], RespMsg(h))
      /\ UNCHANGED <<request_block, FreeRQB, nRequest, service, spare, asked>>

FMTK_RespondQueued(t, stat) ==
  LET h == serving[t]
      b == request_block[h].response_mbx
  IN  /\ h # 0
      /\ Runs(t)
      /\ serving' = [serving EXCEPT ![t] = 0]
      /\ queue' = [queue EXCEPT ![b] = Enqueued(@, RespMsg(h))]
      /\ UNCHANGED <<waiting, handed, request_block, FreeRQB, nRequest, service,
                     spare, asked>>

(* A request whose owner has aborted is given up without an answer, and its*)
(* block freed if the client has allowed it.  The block of an answered     *)
(* request is not freed.                                                   *)
FMTK_Respond(t, stat) ==
  LET h == serving[t]
  IN  /\ h # 0
      /\ Runs(t)
      /\ serving' = [serving EXCEPT ![t] = 0]
      /\ IF stat = "E_OwnerAbort"
         THEN /\ FreeRqb(h)
              /\ asked' = [asked EXCEPT ![h] = NoClient]
              /\ UNCHANGED mailVars
         ELSE /\ Deliver(request_block[h].response_mbx, RespMsg(h))
              /\ UNCHANGED <<request_block, FreeRQB, nRequest, asked>>
      /\ UNCHANGED <<service, spare>>

(* A server takes up the request in message m, a client reads an answer.   *)
TakeUp(t, m) ==
  /\ serving' = [x \in Servers |-> IF x = t THEN m.hRqb ELSE serving[x]]
  /\ asked'   = [asked EXCEPT ![m.hRqb] = IF t \in Clients THEN NoClient ELSE @]
  /\ UNCHANGED <<request_block, FreeRQB, nRequest, service, spare>>

Idle(t) == IF t \in Servers THEN serving[t] = 0
                            ELSE \E h \in Rqb : asked[h] = t

(* FMTK_WaitMsg by a server without a request or a client that has asked.  *)
Receive(t) ==
  /\ Idle(t)
  /\ Runs(t)
  /\ Take(Home[t])
  /\ TakeUp(t, Head(queue[Home[t]]).body)

AwaitMsg(t) ==
  /\ Runs(t)
  /\ Idle(t)
  /\ Wait(t, Home[t])
  /\ UNCHANGED reqVars

Return(t) ==
  /\ handed[t] # NoMessage
  /\ Collect(t)
  /\ TakeUp(t, handed[t])

Next ==
  \/ \E n \in Names : FMTK_RegisterService(n) \/ FMTK_UnregisterService(n)
  \/ \E c \in Clients, s \in Service, magic \in Magic : FMTK_Request(c, s, magic)
  \/ \E t \in Servers, stat \in Status : FMTK_Respond(t, stat)
  \/ \E t \in Threads : Receive(t) \/ AwaitMsg(t) \/ Return(t)

(* Threads run and read their mail; a server works on what it has taken.   *)
Fairness ==
  /\ \A t \in Threads : WF_vars(Receive(t)) /\ WF_vars(Return(t))
  /\ \A t \in Servers : WF_vars(\E stat \in Status : FMTK_Respond(t, stat))

Spec == Init /\ [][Next]_vars /\ Fairness

-----------------------------------------------------------------------------
(* Every variable has its type.                                            *)
TypeOK ==
  /\ request_block \in [Rqb -> [magic : Magic, next : 1 .. NR_RQB + 1,
                                response_mbx : Box0]]
  /\ FreeRQB \in 1 .. NR_RQB + 1
  /\ nRequest \in 0 .. NR_RQB
  /\ service \in [Service -> [name : Names \cup {NoName}, service_mbx : Box0]]
  /\ serving \in [Servers -> Rqb \cup {0}]
  /\ asked \in [Rqb -> Clients \cup {NoClient}]

(* Where request h is: in the queues, handed to a thread, with a server.   *)
Queued(h)  == {e \in Boxes \X (1 .. Blocks) :
                 e[2] <= Len(queue[e[1]]) /\ queue[e[1]][e[2]].body.hRqb = h}
Handed(h)  == {t \in Threads : handed[t] # NoMessage /\ handed[t].hRqb = h}
Working(h) == {t \in Servers : serving[t] = h}

(***************************************************************************)
(* A request under way is in one place, once, until it is answered or      *)
(* given up; no other is ever found in its block (msg.c 1021-1147).        *)
(***************************************************************************)
OnePlace ==
  \A h \in Rqb :
    Cardinality(Queued(h)) + Cardinality(Handed(h)) + Cardinality(Working(h))
      = IF asked[h] = NoClient THEN 0 ELSE 1

(***************************************************************************)
(* An answer on its way is in the mailbox of the client that has asked, or *)
(* handed to that client, whatever blocks have been used again since       *)
(* (msg.c 1093-1147).                                                      *)
(***************************************************************************)
AnswersFindAsker ==
  /\ \A b \in Boxes : \A i \in DOMAIN queue[b] :
       LET m == queue[b][i].body
       IN  m.type = "MT_RESP" => \E c \in Clients : asked[m.hRqb] = c /\ Home[c] = b
  /\ \A c \in Clients : handed[c] # NoMessage => asked[handed[c].hRqb] = c

(* The free blocks, followed from FreeRQB up to the end of the array.      *)
FreeChain ==
  LET next == [h \in 1 .. NR_RQB + 1 |->
                 IF h \in Rqb THEN request_block[h].next ELSE h]
  IN  Iterate(next, FreeRQB)

(***************************************************************************)
(* nRequest counts the free blocks, none of which carries a request under  *)
(* way, although clients overwrite links and magic of theirs               *)
(* (msg.c 46-73, 1047).                                                    *)
(***************************************************************************)
FreeBlocksCounted ==
  /\ Cardinality({FreeChain[n] : n \in 0 .. NR_RQB} \cap Rqb) = nRequest
  /\ \A n \in 0 .. NR_RQB :
       FreeChain[n] \in Rqb => asked[FreeChain[n]] = NoClient

(***************************************************************************)
(* Every request is answered or given up in the end, as long as threads    *)
(* read their mail and servers respond: its block is always going to be    *)
(* without one, the same as asked[h] # NoClient ~> asked[h] = NoClient     *)
(* (msg.c 1021-1147).                                                      *)
(***************************************************************************)
EveryRequestEnds == \A h \in Rqb : []<>(asked[h] = NoClient)

=============================================================================
