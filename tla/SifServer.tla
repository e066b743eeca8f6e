------------------------------- MODULE SifServer -------------------------------
(***************************************************************************)
(* What the IOP asks of the EE: the reception of SIF commands              *)
(* (TGE/sbios/sifcmd.c) and the server side of the remote procedure calls  *)
(* (TGE/sbios/sifrpc.c).  A command packet is copied out of the DMA buffer *)
(* before the channel is armed again, and then given to the handler for    *)
(* its number.  The handlers of the RPC layer answer through SifSetDma,    *)
(* which copies an answer into the SIF1 ring or refuses it when the ring   *)
(* has no room: a refused answer is dropped, except for the last transfer  *)
(* of a call, for which the handler waits.                                 *)
(***************************************************************************)
EXTENDS Integers, Sequences, FiniteSets

CONSTANTS RingRoom,       \* transfers the SIF1 ring takes
          Requests,       \* the commands the IOP sends
          MaxPackets      \* bound on the packets of the IOP

VARIABLES sent,           \* packets the IOP has made
          wire,           \* packets on their way to the EE
          pktbuf,         \* the DMA buffer, None when it was taken
          armed,          \* the SIF0 channel is running
          irq,            \* its interrupt is pending
          hpc, packet,    \* sif_cmd_interrupt: where it is, its copy
          handled,        \* packets sif_cmd_interrupt is done with
          inits,          \* initialized and init
          handlers,       \* commands that have a handler
          server,         \* the sound server is registered
          taken,          \* requests the RPC layer has begun to answer
          replies,        \* transfers of answers handed to SIF1, in order
          delivered,      \* how many of them have reached the IOP
          others,         \* transfers of the EE's own calls in the ring
          lost            \* requests whose answer found no room

rpc == <<taken, replies, delivered, others, lost>>
vars == <<sent, wire, pktbuf, armed, irq, hpc, packet, handled, inits, handlers, server, rpc>>

None == [n |-> 0, command |-> "none"]
System == {"change_addr", "set_sreg"}
Rpc == {"bind", "call", "rdata"}

\* _request_call serves calls that are to be answered (rmode), with or without a
\* result, and calls that are not
Calls == {"call", "fetch", "notify"}
HandlerOf(command) == IF command \in Calls THEN "call" ELSE command

Init ==
  /\ sent = 0 /\ wire = <<>>
  /\ pktbuf = None /\ armed = TRUE /\ irq = FALSE
  /\ hpc = "none" /\ packet = None /\ handled = 0
  /\ inits = {} /\ handlers = {} /\ server = FALSE
  /\ taken = {} /\ replies = <<>> /\ delivered = 0 /\ others = 0 /\ lost = {}

handler == <<hpc, packet, handled>>
iop == <<sent, wire>>
dma == <<pktbuf, armed, irq>>
tables == <<inits, handlers, server>>

-----------------------------------------------------------------------------
(* Calls of the kernel; interrupts are off while they change the tables *)

\* the table is cleared and holds the two commands of this layer
SifInitCmd ==
  /\ hpc = "none" /\ "cmd" \notin inits
  /\ inits' = inits \cup {"cmd"}
  /\ handlers' = System
  /\ UNCHANGED <<iop, dma, handler, server, rpc>>

SifInitRpc ==
  /\ hpc = "none" /\ "rpc" \notin inits
  /\ inits' = {"cmd", "rpc"}
  /\ handlers' = (IF "cmd" \in inits THEN handlers ELSE System) \cup Rpc
  /\ UNCHANGED <<iop, dma, handler, server, rpc>>

SifExitCmd ==
  /\ hpc = "none"
  /\ inits' = inits \ {"cmd"}
  /\ UNCHANGED <<iop, dma, handler, handlers, server, rpc>>

SifExitRpc ==
  /\ hpc = "none"
  /\ inits' = {}
  /\ UNCHANGED <<iop, dma, handler, handlers, server, rpc>>

\* sif_cmd_del_handler; SifAddCmdHandler is part of SifInitRpc
sif_cmd_del_handler(command) ==
  /\ hpc = "none"
  /\ handlers' = handlers \ {command}
  /\ UNCHANGED <<iop, dma, handler, inits, server, rpc>>

\* SifSetRpcQueue and SifRegisterRpc, from the initialisation of sound.c
SifRegisterRpc ==
  /\ hpc = "none" /\ ~server
  /\ server' = TRUE
  /\ UNCHANGED <<iop, dma, handler, inits, handlers, rpc>>

-----------------------------------------------------------------------------
(* sif_cmd_interrupt *)

\* The packet is copied and its size cleared.  An interrupt that comes too early is
\* ignored, and so is a packet of size zero, after which the channel stays as it is.
sif_cmd_interrupt ==
  /\ irq /\ hpc = "none"
  /\ irq' = FALSE
  /\ IF ~armed /\ pktbuf.command \notin {"none", "empty"}
       THEN hpc' = "copied" /\ packet' = pktbuf /\ pktbuf' = None
       ELSE UNCHANGED <<hpc, packet, pktbuf>>
  /\ UNCHANGED <<iop, armed, handled, tables, rpc>>

sifsetdchain ==
  /\ hpc = "copied"
  /\ armed' = TRUE
  /\ hpc' = "dispatch"
  /\ UNCHANGED <<iop, pktbuf, irq, packet, handled, tables, rpc>>

Done == hpc' = "none" /\ packet' = None /\ handled' = handled + 1

\* change_addr, set_sreg, and commands nobody handles
Dispatch ==
  /\ hpc = "dispatch"
  /\ HandlerOf(packet.command) \notin handlers \cap Rpc
  /\ Done
  /\ UNCHANGED <<iop, dma, tables, rpc>>

Room == RingRoom - others - (Len(replies) - delivered)

Transfers_PacketFirst(command) ==
  IF command \in {"rdata", "fetch"} THEN <<"end", "data">> ELSE <<"end">>
\* sif_cmd_send: the data first, if there are any, and then the command packet
Transfers(command) ==
  IF command \in {"rdata", "fetch"} THEN <<"data", "end">> ELSE <<"end">>

\* SifSetDma: all parts are copied into the ring, or none
SetDma(parts) ==
  replies' = replies \o [i \in 1..Len(parts) |-> [n |-> packet.n, part |-> parts[i]]]

\* iSifSendCmd and SifSendCmd, when there is room and when there is not
SendCmd ==
  /\ Len(Transfers(packet.command)) <= Room
  /\ SetDma(Transfers(packet.command))
  /\ UNCHANGED lost
SendCmd_Fails ==
  /\ Len(Transfers(packet.command)) > Room
  /\ lost' = lost \cup {packet.n}
  /\ UNCHANGED replies

\* _request_bind and _request_rdata: the result of iSifSendCmd is not looked at
Request ==
  /\ hpc = "dispatch"
  /\ packet.command \in handlers \cap {"bind", "rdata"}
  /\ taken' = taken \cup {packet.n}
  /\ SendCmd \/ SendCmd_Fails
  /\ Done
  /\ UNCHANGED <<iop, dma, tables, delivered, others>>

\* _request_call and SifExecRequest: the call is executed here, in the interrupt; when
\* the answer is wanted and refused by the ring, that is all that is done
RequestCall ==
  /\ hpc = "dispatch"
  /\ packet.command \in Calls /\ "call" \in handlers
  /\ taken' = taken \cup {packet.n}
  /\ \/ packet.command # "notify" /\ SendCmd_Fails /\ Done
     \/ /\ IF packet.command = "notify" THEN UNCHANGED <<replies, lost>> ELSE SendCmd
        /\ hpc' = "spin"
        /\ UNCHANGED <<packet, handled>>
  /\ UNCHANGED <<iop, dma, tables, delivered, others>>

\* the loop around the last SifSetDma: the result, or the packet that frees the caller's
Spin ==
  /\ hpc = "spin"
  /\ Room > 0
  /\ SetDma(<<"rec">>)
  /\ Done
  /\ UNCHANGED <<iop, dma, tables, taken, delivered, others, lost>>

-----------------------------------------------------------------------------
(* External: the IOP and the two DMA channels *)

\* the IOP calls what it was told exists
IopSend(command) ==
  /\ sent < MaxPackets
  /\ command \in Calls => server
  /\ sent' = sent + 1
  /\ wire' = Append(wire, [n |-> sent', command |-> command])
  /\ UNCHANGED <<dma, handler, tables, rpc>>

Sif0 ==
  /\ armed /\ wire # <<>>
  /\ pktbuf' = Head(wire) /\ wire' = Tail(wire)
  /\ armed' = FALSE /\ irq' = TRUE
  /\ UNCHANGED <<sent, handler, tables, rpc>>

\* an interrupt for which there is nothing (the line is shared)
Spurious ==
  /\ ~irq
  /\ irq' = TRUE
  /\ UNCHANGED <<iop, pktbuf, armed, handler, tables, rpc>>

\* SIF1 gets on with the ring; between the interrupts the EE sends calls of its own
Sif1 ==
  /\ \/ delivered < Len(replies) /\ delivered' = delivered + 1 /\ UNCHANGED others
     \/ others > 0 /\ others' = others - 1 /\ UNCHANGED delivered
  /\ UNCHANGED <<iop, dma, handler, tables, taken, replies, lost>>

OtherCall ==
  /\ hpc = "none" /\ Room > 0
  /\ others' = others + 1
  /\ UNCHANGED <<iop, dma, handler, tables, taken, replies, delivered, lost>>

Handler == sif_cmd_interrupt \/ sifsetdchain \/ Dispatch \/ Request \/ RequestCall \/ Spin

Next ==
  \/ SifInitCmd \/ SifInitRpc \/ SifExitCmd \/ SifExitRpc \/ SifRegisterRpc
  \/ \E command \in Requests : sif_cmd_del_handler(HandlerOf(command))
  \/ Handler
  \/ \E command \in Requests : IopSend(command)
  \/ Sif0 \/ Spurious \/ Sif1 \/ OtherCall

Fairness == WF_vars(Handler) /\ WF_vars(Sif0) /\ WF_vars(Sif1)

Spec == Init /\ [][Next]_vars /\ Fairness

-----------------------------------------------------------------------------
(* Properties *)

Rank == [data |-> 1, end |-> 2, rec |-> 3]

\* the transfers come in the order of the requests, and for one request in the order
\* data, end, last transfer, each of them once
RepliesInOrder ==
  \A i, j \in 1..Len(replies) : i < j =>
    \/ replies[i].n < replies[j].n
    \/ replies[i].n = replies[j].n /\ Rank[replies[i].part] < Rank[replies[j].part]

Answered == {replies[i].n : i \in 1..Len(replies)}

\* The answers leave the EE in the order in which the IOP asked, each part of them once
\* and the data before the packet that announces them, and every request a handler of the
\* RPC layer took (_request_bind, _request_call, _request_rdata) is answered or, because
\* the ring had no room, dropped whole: none is forgotten, and none is dropped after a
\* part of its answer was sent.
AnswerKept ==
  /\ RepliesInOrder
  /\ lost \cap Answered = {}
  /\ taken \ {packet.n} \subseteq lost \cup Answered

\* Every packet of the IOP is taken in, whichever commands have handlers and however full
\* the ring is: the channel is armed again after every packet, so once the IOP stops
\* sending none is left behind.  The one exception is a packet of size zero, behind which
\* sif_cmd_interrupt does not arm the channel.
AllTaken == <>[](handled = sent \/ pktbuf.command = "empty")
=============================================================================
