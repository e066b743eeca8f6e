--------------------------------- MODULE Mc ---------------------------------
(***************************************************************************)
(* TGE/sbios/mc.c: memory card calls.  One RPC client, one set of command   *)
(* buffers and one receive buffer serve all callers; lastCmd, tested and set *)
(* with interrupts masked, says who may use them.  mcInit has no such guard.*)
(*                                                                          *)
(* A call that returns an error before it changed anything is no step here. *)
(* Data are abstracted to the task they belong to.                          *)
(***************************************************************************)
EXTENDS Naturals

CONSTANTS
  Tasks,    \* callers; each waits for its end function before the next call
  NULL

VARIABLES
  mcInitializeCounter,  \* 0 not bound, 1 bound, 2 MC_INITIALIZED
  mcType,               \* "MC", "XMC", or NULL for -1
  lastCmd,              \* command in progress, NULL for 0
  cdata,                \* the RPC client: [state, server, req]
  buff,                 \* per buffer, the task whose arguments are in it
  rdata,                \* whose result the receive buffer holds
  endParameter,         \* whose data the IOP wrote for the end function
  call,                 \* per task: [at, op]
  served,               \* mcserv has registered its RPC server
  result                \* per task, whose data it was given at the end

vars == <<mcInitializeCounter, mcType, lastCmd, cdata, buff, rdata,
          endParameter, call, served, result>>

(* A command: the buffer it is sent from, the bytes sent and its end function. *)
Op(cmd, buffer, size, end) ==
  [cmd |-> cmd, buffer |-> buffer, size |-> size, end |-> end]

GetInfo == Op("GET_INFO", "mcInfoCmd", 48, "mcGetInfoApdx")
Open == Op("OPEN", "mcCmd", 1044, "mcCallback")
Close == Op("CLOSE", "mcFileCmd", 48, "mcCallback")
Seek == Op("SEEK", "mcFileCmd", 48, "mcCallback")
Read == Op("READ", "mcFileCmd", 48, "mcReadFixAlign")
Write == Op("WRITE", "mcFileCmd", 48, "mcCallback")
Flush == Op("FLUSH", "mcFileCmd", 48, "mcCallback")
Mkdir == Op("MK_DIR", "mcCmd", 1044, "mcCallback")
GetDir == Op("GET_DIR", "mcCmd", 1044, "mcCallback")
SetFileInfo == Op("SET_INFO", "mcCmd", 1044, "mcCallback")
Delete == Op("DELETE", "mcCmd", 1044, "mcCallback")
Format == Op("FORMAT", "mcCmd", 48, "mcCallback")
Unformat == Op("UNFORMAT", "mcCmd", 48, "mcCallback")
GetEntSpace == Op("GET_ENT", "mcCmd", 1044, "mcCallback")
Rename == Op("RENAME", "mcCmd", 1044, "mcCallback")

Commands == {GetInfo, Open, Close, Seek, Read, Write, Flush, Mkdir, GetDir,
             SetFileInfo, Delete, Format, Unformat, GetEntSpace, Rename}

(* The two stages of mcInit. *)
Bind == Op("BIND", "none", 0, "mcInitCallback")
InitCall == Op("INIT", "mcCmd", 48, "mcInitCallback")

Buffers == {"mcInfoCmd", "mcCmd", "mcFileCmd"}

(* SifSetDma copies 7 quadwords; the rest is read when the DMAC gets to it. *)
Copied(op) == op.size <= 7 * 16

NoReq == [by |-> NULL, op |-> NULL, got |-> NULL, replied |-> FALSE]
Idle == [at |-> "idle", op |-> NULL]

-----------------------------------------------------------------------------
(* SifBindRpc and SifCallRpc, as SifRpc shows them to a driver: a free client *)
(* is taken, or the call fails.  A failed send leaves the client in use.      *)

Accepted(t, op) ==
  /\ cdata.state = "free"
  /\ cdata' = [state |-> "pending",
               server |-> IF op = Bind THEN FALSE ELSE cdata.server,
               req |-> [by |-> t, op |-> op, replied |-> FALSE,
                        got |-> IF op = Bind \/ op = InitCall THEN t
                                ELSE IF Copied(op) THEN buff[op.buffer] ELSE NULL]]

Refused == UNCHANGED cdata

SendFailed(op) ==
  /\ cdata.state = "free"
  /\ cdata' = [cdata EXCEPT !.state = "lost",
                            !.server = IF op = Bind THEN FALSE ELSE @]

-----------------------------------------------------------------------------
(* sbcall_mcinit: detect the module once, then mcInit. *)
DetectType(t) ==
  /\ call[t] = Idle /\ mcType = NULL
  /\ mcType' \in {"MC", "XMC"}
  /\ UNCHANGED <<mcInitializeCounter, lastCmd, cdata, buff, rdata, endParameter,
                 call, served, result>>

(* mcInit reads the counter, and makes the call of that stage. *)
McInit(t) ==
  /\ call[t] = Idle /\ mcType # NULL
  /\ \/ mcInitializeCounter = 0 /\ call' = [call EXCEPT ![t] = [at |-> "init", op |-> Bind]]
     \/ /\ mcInitializeCounter = 1 /\ mcType = "XMC"
        /\ call' = [call EXCEPT ![t] = [at |-> "init", op |-> InitCall]]
  /\ UNCHANGED <<mcInitializeCounter, mcType, lastCmd, cdata, buff, rdata,
                 endParameter, served, result>>

McInitCall(t) ==
  LET op == call[t].op IN
  /\ call[t].at = "init"
  /\ \/ Accepted(t, op) /\ call' = [call EXCEPT ![t].at = "wait"]
     \/ (Refused \/ SendFailed(op)) /\ call' = [call EXCEPT ![t] = Idle]
  /\ UNCHANGED <<mcInitializeCounter, mcType, lastCmd, buff, rdata, endParameter,
                 served, result>>

(* Every command: "check mc lib is inited", "check nothing else is processing". *)
Begin(t, op) ==
  /\ call[t] = Idle
  /\ mcInitializeCounter = 2
  /\ lastCmd = NULL
  /\ lastCmd' = op.cmd
  /\ call' = [call EXCEPT ![t] = [at |-> "fill", op |-> op]]
  /\ result' = [result EXCEPT ![t] = {}]
  /\ UNCHANGED <<mcInitializeCounter, mcType, cdata, buff, rdata, endParameter, served>>

(* "set global variables" *)
Fill(t) ==
  /\ call[t].at = "fill"
  /\ buff' = [buff EXCEPT ![call[t].op.buffer] = t]
  /\ call' = [call EXCEPT ![t].at = "send"]
  /\ UNCHANGED <<mcInitializeCounter, mcType, lastCmd, cdata, rdata, endParameter,
                 served, result>>

Send_KeepsLastCmd(t) ==
  LET op == call[t].op IN
  /\ call[t].at = "send"
  /\ \/ Accepted(t, op) /\ call' = [call EXCEPT ![t].at = "wait"]
     \/ (Refused \/ SendFailed(op)) /\ call' = [call EXCEPT ![t] = Idle]
  /\ UNCHANGED <<mcInitializeCounter, mcType, lastCmd, buff, rdata, endParameter,
                 served, result>>

(* "send sif command": on failure the command is over. *)
Send(t) ==
  LET op == call[t].op IN
  /\ call[t].at = "send"
  /\ \/ /\ Accepted(t, op)
        /\ call' = [call EXCEPT ![t].at = "wait"]
        /\ lastCmd' = lastCmd
     \/ /\ Refused \/ SendFailed(op)
        /\ call' = [call EXCEPT ![t] = Idle]
        /\ lastCmd' = NULL
  /\ UNCHANGED <<mcInitializeCounter, mcType, buff, rdata, endParameter, served, result>>

-----------------------------------------------------------------------------
(* The IOP and the DMAC (external). *)

IopRegister ==
  /\ ~served
  /\ served' = TRUE
  /\ UNCHANGED <<mcInitializeCounter, mcType, lastCmd, cdata, buff, rdata,
                 endParameter, call, result>>

(* The part of the command that was not copied is read. *)
DmacRead ==
  /\ cdata.state = "pending" /\ cdata.req.got = NULL
  /\ cdata' = [cdata EXCEPT !.req.got = buff[cdata.req.op.buffer]]
  /\ UNCHANGED <<mcInitializeCounter, mcType, lastCmd, buff, rdata, endParameter,
                 call, served, result>>

(* mcserv works on what it got and writes the answer into EE memory. *)
IopReply ==
  LET req == cdata.req IN
  /\ cdata.state = "pending" /\ req.got # NULL /\ ~req.replied
  /\ cdata' = [cdata EXCEPT !.req.replied = TRUE]
  /\ rdata' = IF req.op = Bind THEN rdata ELSE req.got
  /\ endParameter' = IF req.op \in {GetInfo, Read} THEN req.got ELSE endParameter
  /\ UNCHANGED <<mcInitializeCounter, mcType, lastCmd, buff, call, served, result>>

-----------------------------------------------------------------------------
(* The end functions, in the interrupt that brings the answer. *)

(* mcInitCallback.  Bound: with an old mcserv that is all, a new one needs    *)
(* the init call too, whose answer (the versions) must be new enough.         *)
InitCallback ==
  LET t == cdata.req.by
      server == IF cdata.req.op = Bind THEN served ELSE cdata.server
  IN
  /\ cdata.state = "pending" /\ cdata.req.replied
  /\ cdata.req.op.end = "mcInitCallback"
  /\ cdata' = [state |-> "free", req |-> NoReq, server |-> server]
  /\ \/ mcInitializeCounter = 0 /\ ~server /\ UNCHANGED <<mcInitializeCounter, lastCmd>>
     \/ /\ mcInitializeCounter = 0 /\ server
        /\ IF mcType = "MC" THEN mcInitializeCounter' = 2 /\ lastCmd' = NULL
                            ELSE mcInitializeCounter' = 1 /\ lastCmd' = lastCmd
     \/ /\ mcInitializeCounter = 1
        /\ \/ UNCHANGED <<mcInitializeCounter, lastCmd>>      \* -120, -121
           \/ rdata # NULL /\ mcInitializeCounter' = 2 /\ lastCmd' = NULL
     \/ mcInitializeCounter = 2 /\ UNCHANGED <<mcInitializeCounter, lastCmd>>
  /\ call' = [call EXCEPT ![t] = Idle]
  /\ UNCHANGED <<mcType, buff, rdata, endParameter, served, result>>

(* What the end function stores: mcGetInfoApdx follows typeAddr, freeAddr and *)
(* formatAddr, which are set together with mcInfoCmd; mcReadFixAlign follows  *)
(* the pointers the IOP put into endParameter.                                *)
HandOver(t, end) ==
  CASE end = "mcGetInfoApdx" ->
         [result EXCEPT ![t] = {rdata}, ![buff["mcInfoCmd"]] = @ \cup {endParameter}]
    [] end = "mcReadFixAlign" ->
         [result EXCEPT ![t] = {rdata}, ![endParameter] = @ \cup {endParameter}]
    [] OTHER -> [result EXCEPT ![t] = {rdata}]

(* mcCallback, mcGetInfoApdx and mcReadFixAlign: hand over what the IOP       *)
(* wrote, end the transaction, call the caller's end function.                *)
Callback ==
  LET t == cdata.req.by
      end == cdata.req.op.end
  IN
  /\ cdata.state = "pending" /\ cdata.req.replied
  /\ end # "mcInitCallback"
  /\ cdata' = [cdata EXCEPT !.state = "free", !.req = NoReq]
  /\ lastCmd' = NULL
  /\ result' = HandOver(t, end)
  /\ call' = [call EXCEPT ![t] = Idle]
  /\ UNCHANGED <<mcInitializeCounter, mcType, buff, rdata, endParameter, served>>

-----------------------------------------------------------------------------
Init ==
  /\ mcInitializeCounter = 0 /\ mcType = NULL /\ lastCmd = NULL
  /\ cdata = [state |-> "free", server |-> FALSE, req |-> NoReq]
  /\ buff = [b \in Buffers |-> NULL]
  /\ rdata = NULL /\ endParameter = NULL
  /\ call = [t \in Tasks |-> Idle]
  /\ served = FALSE
  /\ result = [t \in Tasks |-> {}]

Task(t) == McInitCall(t) \/ Fill(t) \/ Send(t)
Iop == IopRegister \/ DmacRead \/ IopReply
Interrupt == InitCallback \/ Callback

Next ==
  \/ \E t \in Tasks : DetectType(t) \/ McInit(t) \/ Task(t)
  \/ \E t \in Tasks, op \in Commands : Begin(t, op)
  \/ Iop
  \/ Interrupt

(* A call that was begun goes on, the IOP answers and the interrupt is taken. *)
Fairness ==
  /\ \A t \in Tasks : WF_vars(Task(t))
  /\ WF_vars(DmacRead) /\ WF_vars(IopReply)
  /\ WF_vars(Interrupt)

Spec == Init /\ [][Next]_vars
FairSpec == Spec /\ Fairness

-----------------------------------------------------------------------------

(* A task is inside a command: past the guard, or its command is under way. *)
Inside(t) == call[t].at \in {"fill", "send", "wait"} /\ call[t].op \in Commands

(* lastCmd is set exactly while some task is inside a command, and never two *)
(* of them are: whatever fails on the way, the next caller is not shut out.  *)
LastCmdOwned ==
  /\ \A t, u \in Tasks : Inside(t) /\ Inside(u) => t = u
  /\ lastCmd # NULL <=> \E t \in Tasks : Inside(t) /\ call[t].op.cmd = lastCmd

(* The card works on the arguments of the caller, and the caller's end       *)
(* function gets the data and the result of that call and of no other.       *)
OwnResult ==
  /\ \A t \in Tasks : result[t] \subseteq {t}
  /\ cdata.state = "pending" => cdata.req.got \in {NULL, cdata.req.by}

(* A command goes out only when the client is bound to mcserv, although a    *)
(* late mcInit may bind the client again at any time.                        *)
BoundWhenCalled ==
  cdata.state = "pending" /\ cdata.req.op # Bind => cdata.server

=============================================================================
