------------------------------- MODULE SifRpc -------------------------------
(***************************************************************************)
(* TGE/sbios/sifrpc.c: remote procedure calls from the EE to the IOP.       *)
(*                                                                          *)
(* A call takes a packet from a small table, marks its client as in use,    *)
(* and sends the packet over SIF1.  The three steps are separately masked,  *)
(* so other tasks and the SIF0 interrupt run in between.  The IOP's answer  *)
(* arrives as an interrupt that frees the client, runs its end function     *)
(* (which may itself start a call) and then frees the packet.               *)
(***************************************************************************)
EXTENDS Integers, Sequences, FiniteSets, FiniteSetsExt, Functions

CONSTANTS
  Clients,    \* client descriptors (SifRpcClientData_t)
  Tasks,      \* Linux threads that make calls
  IRQ,        \* the interrupt handler, when an end function makes a call
  NPkts,      \* pkt_table_len (32)
  PidMod,     \* 2^32, the range of rpc_data->pid
  RingRoom,   \* commands the SIF1 ring takes before SifSetDma returns 0
  Uses,       \* the calls that are made, a subset of AllUses
  NULL

Pkts == 0 .. NPkts - 1
Callers == Tasks \cup {IRQ}

(* What a caller asks for: nowait is SIF_RPC_M_NOWAIT, end says that there is *)
(* an end function.                                                           *)
AllUses == [by : Callers, client : Clients, cid : {"bind", "call"},
            nowait : BOOLEAN, end : BOOLEAN]

ASSUME RpcAssumption ==
  /\ NPkts \in Nat \ {0}
  /\ PidMod \in Nat /\ PidMod > 3
  /\ RingRoom \in Nat
  /\ Uses \subseteq AllUses
  /\ IRQ \notin Tasks
  /\ NULL \notin Pkts /\ NULL \notin AllUses
  \* An end function runs in an interrupt and never waits.
  /\ \A u \in Uses : u.by = IRQ => u.nowait

VARIABLES
  pid,        \* rpc_data->pid
  packet,     \* pkt_table: [alloc, rpc_id, client, rmode]
  client,     \* [pkt_addr, rpc_id, sema_id, end]; end: there is an end function
  call,       \* per caller, the SifBindRpc or SifCallRpc it is executing
  sif1,       \* packets queued in the SIF1 ring, in order
  iop,        \* packets the IOP is serving
  rend,       \* answers on SIF0, in order: the packets answered
  irq,        \* _request_end in progress: [client, pkt, run], NULL if none
  owed        \* per client, end functions promised by calls that returned 0

vars == <<pid, packet, client, call, sif1, iop, rend, irq, owed>>

Idle == [at |-> "idle", use |-> NULL, pkt |-> NULL]
NoIrq == [client |-> NULL, pkt |-> NULL, run |-> FALSE]

-----------------------------------------------------------------------------
(* _rpc_get_packet: the first free entry; pid is skipped over 0. *)

FreePkts == {p \in Pkts : ~packet[p].alloc}

PidUsed == IF pid # 0 THEN (pid + 1) % PidMod ELSE 1

PidKept == IF pid # 0 THEN (pid + 1) % PidMod ELSE 2

Freed_Never(p) == packet
(* rpc_packet_free *)
Freed(p) == [packet EXCEPT ![p].alloc = FALSE, ![p].rpc_id = 0]

(* Tasks do not run while the interrupt handler does. *)
MayRun(a) == IF a = IRQ THEN irq # NoIrq /\ irq.run ELSE irq = NoIrq

(* SifBindRpc, SifCallRpc: allocate a packet.  Without a free one the call   *)
(* returns -E_SIF_PKT_ALLOC and nothing changes.                             *)
GetPacket(u) ==
  LET p == Min(FreePkts) IN
  /\ MayRun(u.by) /\ call[u.by] = Idle
  /\ FreePkts # {}
  /\ packet' = [packet EXCEPT ![p].alloc = TRUE, ![p].rpc_id = PidUsed]
  /\ pid' = PidKept
  /\ call' = [call EXCEPT ![u.by] = [at |-> "register", use |-> u, pkt |-> p]]
  /\ UNCHANGED <<client, sif1, iop, rend, irq, owed>>

RejectInUse_Leak(a) ==
  /\ a = IRQ \/ irq = NoIrq
  /\ call[a].at = "register"
  /\ client[call[a].use.client].pkt_addr # NULL
  /\ call' = [call EXCEPT ![a] = Idle]
  /\ UNCHANGED <<pid, packet, client, sif1, iop, rend, irq, owed>>

(* The client is already in use: free the packet, return -E_SIF_PKT_ALLOC. *)
RejectInUse(a) ==
  LET u == call[a].use IN
  /\ a = IRQ \/ irq = NoIrq
  /\ call[a].at = "register"
  /\ client[u.client].pkt_addr # NULL
  /\ packet' = Freed(call[a].pkt)
  /\ call' = [call EXCEPT ![a] = Idle]
  /\ UNCHANGED <<pid, client, sif1, iop, rend, irq, owed>>

Register_Unchecked(a) ==
  LET u == call[a].use
      p == call[a].pkt
  IN
  /\ a = IRQ \/ irq = NoIrq
  /\ call[a].at = "register"
  /\ client' = [client EXCEPT ![u.client] =
                  [pkt_addr |-> p, rpc_id |-> packet[p].rpc_id, sema_id |-> 0,
                   end |-> u.end]]
  /\ packet' = [packet EXCEPT ![p].client = u.client,
                              ![p].rmode = ~(u.cid = "call" /\ u.nowait /\ ~u.end)]
  /\ call' = [call EXCEPT ![a].at = "send"]
  /\ UNCHANGED <<pid, sif1, iop, rend, irq, owed>>

(* Take the client and fill the packet in. *)
Register(a) ==
  LET u == call[a].use
      p == call[a].pkt
  IN
  /\ a = IRQ \/ irq = NoIrq
  /\ call[a].at = "register"
  /\ client[u.client].pkt_addr = NULL
  /\ client' = [client EXCEPT ![u.client] =
                  [pkt_addr |-> p, rpc_id |-> packet[p].rpc_id, sema_id |-> 0,
                   end |-> u.end]]
  /\ packet' = [packet EXCEPT ![p].client = u.client,
                              ![p].rmode = ~(u.cid = "call" /\ u.nowait /\ ~u.end)]
  /\ call' = [call EXCEPT ![a].at = "send"]
  /\ UNCHANGED <<pid, sif1, iop, rend, irq, owed>>

(* SifSendCmd queues the packet: return 0, or go on to wait for the answer. *)
Send(a) ==
  LET u == call[a].use IN
  /\ a = IRQ \/ irq = NoIrq
  /\ call[a].at = "send"
  /\ Len(sif1) < RingRoom
  /\ sif1' = Append(sif1, call[a].pkt)
  /\ owed' = IF u.end THEN [owed EXCEPT ![u.client] = @ + 1] ELSE owed
  /\ call' = [call EXCEPT ![a] =
       IF u.nowait THEN Idle ELSE [at |-> "wait", use |-> u, pkt |-> NULL]]
  /\ UNCHANGED <<pid, packet, client, iop, rend, irq>>

(* SifSendCmd found no DMA tag: free the packet, return -E_SIF_PKT_SEND.  The *)
(* client keeps its pkt_addr.                                                 *)
SendFailed(a) ==
  /\ a = IRQ \/ irq = NoIrq
  /\ call[a].at = "send"
  /\ Len(sif1) >= RingRoom
  /\ packet' = Freed(call[a].pkt)
  /\ call' = [call EXCEPT ![a] = Idle]
  /\ UNCHANGED <<pid, client, sif1, iop, rend, irq, owed>>

(* The waiting loop ends when an answer raised sema_id. *)
Wake(a) ==
  LET c == call[a].use.client IN
  /\ irq = NoIrq
  /\ call[a].at = "wait"
  /\ client[c].sema_id > 0
  /\ client' = [client EXCEPT ![c].sema_id = @ - 1]
  /\ call' = [call EXCEPT ![a] = Idle]
  /\ UNCHANGED <<pid, packet, sif1, iop, rend, irq, owed>>

-----------------------------------------------------------------------------
(* The IOP (external): commands arrive in order, servers finish in any order. *)
(* A call with rmode 0 is not answered by a command: the IOP clears the       *)
(* packet in EE memory, as SifExecRequest does for requests in the other      *)
(* direction.                                                                 *)

IopTake ==
  /\ sif1 # <<>>
  /\ iop' = iop \cup {Head(sif1)}
  /\ sif1' = Tail(sif1)
  /\ UNCHANGED <<pid, packet, client, call, rend, irq, owed>>

IopAnswer(p) ==
  /\ p \in iop
  /\ iop' = iop \ {p}
  /\ IF packet[p].rmode
     THEN rend' = Append(rend, p) /\ packet' = packet
     ELSE rend' = rend /\ packet' = Freed(p)
  /\ UNCHANGED <<pid, client, call, sif1, irq, owed>>

-----------------------------------------------------------------------------
(* _request_end, called from sif_cmd_interrupt with the answer. *)

RequestEnd_AnyEnd ==
  LET c == packet[Head(rend)].client IN
  /\ irq = NoIrq /\ rend # <<>>
  /\ rend' = Tail(rend)
  /\ irq' = [client |-> c, pkt |-> client[c].pkt_addr, run |-> TRUE]
  /\ owed' = [owed EXCEPT ![c] = @ - 1]
  /\ client' = [client EXCEPT ![c].sema_id = @ + 1, ![c].pkt_addr = NULL]
  /\ UNCHANGED <<pid, packet, call, sif1, iop>>

RequestEnd_NoSignal ==
  LET c == packet[Head(rend)].client IN
  /\ irq = NoIrq /\ rend # <<>>
  /\ rend' = Tail(rend)
  /\ irq' = [client |-> c, pkt |-> client[c].pkt_addr, run |-> client[c].end]
  /\ owed' = IF client[c].end THEN [owed EXCEPT ![c] = @ - 1] ELSE owed
  /\ client' = [client EXCEPT ![c].pkt_addr = NULL]
  /\ UNCHANGED <<pid, packet, call, sif1, iop>>

(* Its masked part: the packet is taken from the client, not from the answer. *)
RequestEnd ==
  LET c == packet[Head(rend)].client IN
  /\ irq = NoIrq /\ rend # <<>>
  /\ rend' = Tail(rend)
  /\ irq' = [client |-> c, pkt |-> client[c].pkt_addr, run |-> client[c].end]
  /\ owed' = IF client[c].end THEN [owed EXCEPT ![c] = @ - 1] ELSE owed
  /\ client' = [client EXCEPT ![c].sema_id = @ + 1, ![c].pkt_addr = NULL]
  /\ UNCHANGED <<pid, packet, call, sif1, iop>>

(* The end function returns (its calls, if any, are steps of caller IRQ). *)
EndFunctionReturns ==
  /\ irq # NoIrq /\ irq.run
  /\ call[IRQ] = Idle
  /\ irq' = [irq EXCEPT !.run = FALSE]
  /\ UNCHANGED <<pid, packet, client, call, sif1, iop, rend, owed>>

FreeAnswered_ClearsClient ==
  /\ irq # NoIrq /\ ~irq.run
  /\ packet' = Freed(irq.pkt)
  /\ client' = [client EXCEPT ![irq.client].pkt_addr = NULL]
  /\ irq' = NoIrq
  /\ UNCHANGED <<pid, call, sif1, iop, rend, owed>>

FreeAnswered ==
  /\ irq # NoIrq /\ ~irq.run
  /\ packet' = Freed(irq.pkt)
  /\ irq' = NoIrq
  /\ UNCHANGED <<pid, client, call, sif1, iop, rend, owed>>

-----------------------------------------------------------------------------
Init ==
  /\ pid = 1
  /\ packet = [p \in Pkts |-> [alloc |-> FALSE, rpc_id |-> 0, client |-> NULL,
                               rmode |-> FALSE]]
  /\ client = [c \in Clients |-> [pkt_addr |-> NULL, rpc_id |-> 0, sema_id |-> 0,
                                  end |-> FALSE]]
  /\ call = [a \in Callers |-> Idle]
  /\ sif1 = <<>> /\ iop = {} /\ rend = <<>>
  /\ irq = NoIrq
  /\ owed = [c \in Clients |-> 0]

Caller(a) ==
  \/ RejectInUse(a)
  \/ Register(a)
  \/ Send(a)
  \/ SendFailed(a)
  \/ Wake(a)

Interrupt == RequestEnd \/ EndFunctionReturns \/ FreeAnswered

Iop == IopTake \/ \E p \in Pkts : IopAnswer(p)

Next ==
  \/ \E u \in Uses : GetPacket(u)
  \/ \E a \in Callers : Caller(a)
  \/ Interrupt
  \/ Iop

(* A call that was begun goes on: a task that interrupts keep preempting     *)
(* still gets the processor in between (strong fairness).  The interrupt is  *)
(* served and the IOP answers.  Nobody has to make a call.                   *)
Fairness ==
  /\ \A t \in Tasks : SF_vars(Caller(t))
  /\ WF_vars(Caller(IRQ))
  /\ WF_vars(Interrupt)
  /\ WF_vars(IopTake)
  /\ \A p \in Pkts : WF_vars(IopAnswer(p))

Spec == Init /\ [][Next]_vars
FairSpec == Spec /\ Fairness

-----------------------------------------------------------------------------
(* Properties *)

(* Who holds packet p: a call being made, the way to the IOP and back, or    *)
(* the end of a request.                                                     *)
InFlight == Range(sif1) \cup iop \cup Range(rend)
Places(q, p) == Cardinality({i \in 1 .. Len(q) : q[i] = p})
Holders(p) ==
  Cardinality({a \in Callers : call[a].pkt = p})
    + Places(sif1, p) + (IF p \in iop THEN 1 ELSE 0) + Places(rend, p)
    + (IF irq.pkt = p THEN 1 ELSE 0)

(* No packet leaks and none is handed out twice: an allocated packet has     *)
(* exactly one holder and a free one none.                                   *)
PacketsAccounted == \A p \in Pkts : Holders(p) = IF packet[p].alloc THEN 1 ELSE 0

(* _request_end frees the packet its client points to, not the one that was  *)
(* answered: they are the same for as long as a request is under way.        *)
AnswerFitsClient ==
  \A p \in InFlight :
    packet[p].rmode =>
      LET c == client[packet[p].client] IN
        c.pkt_addr = p /\ c.rpc_id = packet[p].rpc_id

(* Every call that returned 0 and gave an end function has it run once: one  *)
(* is owed exactly while the request is under way.                           *)
EndFunctionOwed ==
  \A c \in Clients :
    owed[c] = Cardinality({p \in InFlight :
                             packet[p].client = c /\ client[c].end /\ packet[p].rmode})

(* A caller that waits for an answer gets it. *)
BlockingCallReturns == \A t \in Tasks : (call[t].at = "wait") ~> (call[t] = Idle)

(* A request that was sent ends and gives its packet back. *)
RequestEnds == \A p \in Pkts : (p \in InFlight) ~> ~packet[p].alloc

(* A client's requests and its state as its driver sees them. *)
Requests(c) ==
  {p \in InFlight : packet[p].client = c}
    \cup {call[a].pkt : a \in {b \in Callers : call[b].at = "send"
                                              /\ call[b].use.client = c}}
ClientState ==
  [c \in Clients |-> IF client[c].pkt_addr = NULL THEN "free"
                     ELSE IF client[c].pkt_addr \in Requests(c) THEN "pending"
                     ELSE "lost"]

Client == INSTANCE RpcClient WITH
            state <- ClientState,
            load <- [c \in Clients |-> Cardinality(Requests(c))]

(* One request at a time per client, whatever tasks and end functions do. *)
ImplementsClient == Client!Spec

(* "already in use" is said only of a client with a request under way, as    *)
(* SifCheckStatRpc tells it; a client whose send failed could then be tried  *)
(* again, as SifSetDma's "retry later" asks for.                             *)
InUseMeansPending ==
  \A c \in Clients :
    LET p == client[c].pkt_addr IN
      p # NULL => packet[p].alloc /\ packet[p].rpc_id = client[c].rpc_id
=============================================================================
