-------------------------------- MODULE Sound --------------------------------
(***************************************************************************)
(* TGE/sbios/sound.c: sound calls over the IOP's SDR driver.  Three stages    *)
(* bring it up (bind, SERVER_INIT, callback thread), soundend takes the last   *)
(* two down again.  Arguments go through one buffer without a mutex; SIF RPC    *)
(* copies them when it accepts a call.  The driver calls back through an RPC    *)
(* server on the EE when a transfer has ended.                                  *)
(***************************************************************************)
EXTENDS Naturals

CONSTANTS
  Tasks,      \* callers; each waits for its end function before the next call
  InitTasks,  \* the callers of soundinit and soundend
  NULL

VARIABLES
  soundInitCounter, soundInitialized,
  sdrsif,           \* the RPC client: [state, server, req]
  rpcBuffer,        \* whose arguments it holds
  rpcResultBuffer,  \* [of, ok]: whose answer it holds, and whether it is 0
  callback,         \* callback1 and callback2: the task that installed it
  registered,       \* times SOUND_SERVER_RPC_SID was registered on the EE
  sdr,              \* the IOP's driver: {}, or with "init" and "thread"
  served,           \* SDRDRV has registered its RPC server
  call,             \* per task: [at, op]
  disturbed,        \* tasks whose arguments were overwritten before they were sent
  result            \* per task, whose answer its last call was given

vars == <<soundInitCounter, soundInitialized, sdrsif, rpcBuffer, rpcResultBuffer, callback,
          registered, sdr, served, call, disturbed, result>>

Op(cmd, end) == [cmd |-> cmd, end |-> end]

Bind == Op("BIND", "soundInitCallback")
ServerInit == Op("SERVER_INIT", "soundInitCallback")
StartThread == Op("0xe620", "soundInitCallback")
ServerInitHot == Op("SERVER_INIT", "soundEndCallback")
StopThread == Op("0xe630", "soundEndCallback")
GetCoreAttr == Op("GCORE_ATTR", "soundCallback")
SetCoreAttr == Op("SCORE_ATTR", "soundCallbackOk")
Trans == Op("SCORE_TRANS", "soundCallback")
TransStat == Op("SCORE_TRANS", "soundCallback")     \* sends the code of a transfer
TransCallback == Op("SCORE_TRANS_CALLBACK", "soundCallback")

Commands == {GetCoreAttr, SetCoreAttr, Trans, TransStat, TransCallback}
Channels == {0, 1}

Idle == [at |-> "idle", op |-> NULL]
NoReq == [by |-> NULL, op |-> NULL, got |-> NULL, replied |-> FALSE]

Fill(t) ==
  /\ rpcBuffer' = t
  /\ disturbed' = (disturbed \ {t}) \cup {u \in Tasks \ {t} : call[u].at = "send"}

-----------------------------------------------------------------------------
(* sbcall_soundinit and sbcall_soundend: what the stage asks for.  At the     *)
(* last stage soundinit only tells the caller.                                *)
Stage(t) ==
  /\ call[t] = Idle /\ t \in InitTasks
  /\ \/ soundInitCounter = 0 /\ call' = [call EXCEPT ![t] = [at |-> "send", op |-> Bind]]
     \/ soundInitCounter = 1 /\ call' = [call EXCEPT ![t] = [at |-> "send", op |-> ServerInit]]
     \/ soundInitCounter = 2 /\ call' = [call EXCEPT ![t] = [at |-> "send", op |-> StartThread]]
     \/ soundInitCounter = 2 /\ call' = [call EXCEPT ![t] = [at |-> "send", op |-> ServerInitHot]]
     \/ soundInitCounter = 3 /\ call' = [call EXCEPT ![t] = [at |-> "send", op |-> StopThread]]
  /\ IF call'[t].op.cmd = "SERVER_INIT" THEN Fill(t) ELSE UNCHANGED <<rpcBuffer, disturbed>>
  /\ result' = [result EXCEPT ![t] = NULL]
  /\ UNCHANGED <<soundInitCounter, soundInitialized, sdrsif, rpcResultBuffer, callback,
                 registered, sdr, served>>

(* The commands, which ask soundInitialized; soundtranscallback installs the   *)
(* callback before it sends.                                                   *)
Begin(t, op) ==
  /\ call[t] = Idle /\ soundInitialized
  /\ Fill(t)
  /\ call' = [call EXCEPT ![t] = [at |-> "send", op |-> op]]
  /\ IF op = TransCallback THEN \E ch \in Channels : callback' = [callback EXCEPT ![ch] = t]
                           ELSE callback' = callback
  /\ result' = [result EXCEPT ![t] = NULL]
  /\ UNCHANGED <<soundInitCounter, soundInitialized, sdrsif, rpcResultBuffer, registered,
                 sdr, served>>

Send(t) ==
  LET op == call[t].op IN
  /\ call[t].at = "send"
  /\ \/ /\ sdrsif.state = "free"
        /\ sdrsif' = [state |-> "pending", server |-> op # Bind /\ sdrsif.server,
                      req |-> [by |-> t, op |-> op, replied |-> FALSE,
                               got |-> IF op = Bind THEN t ELSE rpcBuffer]]
        /\ call' = [call EXCEPT ![t].at = "wait"]
     \/ /\ sdrsif' = sdrsif                                 \* in use, or no packet
        /\ call' = [call EXCEPT ![t] = Idle]
     \/ /\ sdrsif.state = "free"                            \* no DMA tag: stays in use
        /\ sdrsif' = [sdrsif EXCEPT !.state = "lost", !.server = op # Bind /\ @]
        /\ call' = [call EXCEPT ![t] = Idle]
  /\ UNCHANGED <<soundInitCounter, soundInitialized, rpcBuffer, rpcResultBuffer, callback,
                 registered, sdr, served, disturbed, result>>

-----------------------------------------------------------------------------
(* The IOP (external). *)
IopRegister ==
  /\ ~served /\ served' = TRUE
  /\ UNCHANGED <<soundInitCounter, soundInitialized, sdrsif, rpcBuffer, rpcResultBuffer,
                 callback, registered, sdr, call, disturbed, result>>

IopReply ==
  LET req == sdrsif.req IN
  /\ sdrsif.state = "pending" /\ ~req.replied
  /\ sdrsif' = [sdrsif EXCEPT !.req.replied = TRUE]
  /\ \E ok \in BOOLEAN :
       /\ rpcResultBuffer' = IF req.op = Bind THEN rpcResultBuffer
                             ELSE [of |-> req.got, ok |-> ok]
       /\ sdr' = CASE req.op.cmd = "SERVER_INIT" /\ ok -> sdr \cup {"init"}
                   [] req.op = StartThread /\ ok -> sdr \cup {"thread"}
                   [] req.op = StopThread -> sdr \ {"thread"}
                   [] OTHER -> sdr
  /\ UNCHANGED <<soundInitCounter, soundInitialized, rpcBuffer, callback, registered, served,
                 call, disturbed, result>>

-----------------------------------------------------------------------------
Answered(end) ==
  /\ sdrsif.state = "pending" /\ sdrsif.req.replied /\ sdrsif.req.op.end \in end
  /\ sdrsif' = [state |-> "free", req |-> NoReq,
                server |-> IF sdrsif.req.op = Bind THEN served ELSE sdrsif.server]
  /\ call' = [call EXCEPT ![sdrsif.req.by] = Idle]

soundInitCallback_IgnoresError ==
  /\ Answered({"soundInitCallback"})
  /\ CASE soundInitCounter = 0 /\ sdrsif'.server ->
            /\ soundInitCounter' = 1 /\ registered' = registered + 1
            /\ soundInitialized' = soundInitialized
       [] soundInitCounter \in {1, 2} ->
            /\ soundInitCounter' = soundInitCounter + 1
            /\ soundInitialized' = (soundInitCounter = 2)
            /\ registered' = registered
       [] OTHER -> UNCHANGED <<soundInitCounter, soundInitialized, registered>>
  /\ UNCHANGED <<rpcBuffer, rpcResultBuffer, callback, sdr, served, disturbed, result>>

(* soundInitCallback: the first stage also registers the server of the EE. *)
soundInitCallback ==
  /\ Answered({"soundInitCallback"})
  /\ CASE soundInitCounter = 0 /\ sdrsif'.server ->
            /\ soundInitCounter' = 1 /\ registered' = registered + 1
            /\ soundInitialized' = soundInitialized
       [] soundInitCounter \in {1, 2} /\ rpcResultBuffer.ok ->
            /\ soundInitCounter' = soundInitCounter + 1
            /\ soundInitialized' = (soundInitCounter = 2)
            /\ registered' = registered
       [] OTHER -> UNCHANGED <<soundInitCounter, soundInitialized, registered>>
  /\ UNCHANGED <<rpcBuffer, rpcResultBuffer, callback, sdr, served, disturbed, result>>

(* soundEndCallback *)
soundEndCallback ==
  /\ Answered({"soundEndCallback"})
  /\ CASE soundInitCounter = 2 /\ rpcResultBuffer.ok ->
            soundInitCounter' = 1 /\ soundInitialized' = soundInitialized
       [] soundInitCounter = 3 -> soundInitCounter' = 2 /\ soundInitialized' = FALSE
       [] OTHER -> UNCHANGED <<soundInitCounter, soundInitialized>>
  /\ UNCHANGED <<rpcBuffer, rpcResultBuffer, callback, registered, sdr, served, disturbed,
                 result>>

(* soundCallback and soundCallbackOk hand the answer over. *)
soundCallback ==
  /\ Answered({"soundCallback", "soundCallbackOk"})
  /\ result' = [result EXCEPT ![sdrsif.req.by] = rpcResultBuffer.of]
  /\ UNCHANGED <<soundInitCounter, soundInitialized, rpcBuffer, rpcResultBuffer, callback,
                 registered, sdr, served, disturbed>>

-----------------------------------------------------------------------------
Init ==
  /\ soundInitCounter = 0 /\ soundInitialized = FALSE
  /\ sdrsif = [state |-> "free", server |-> FALSE, req |-> NoReq]
  /\ rpcBuffer = NULL /\ rpcResultBuffer = [of |-> NULL, ok |-> TRUE]
  /\ callback = [ch \in Channels |-> NULL]
  /\ registered = 0 /\ sdr = {} /\ served = FALSE
  /\ call = [t \in Tasks |-> Idle]
  /\ disturbed = {}
  /\ result = [t \in Tasks |-> NULL]

Interrupt == soundInitCallback \/ soundEndCallback \/ soundCallback

Next ==
  \/ \E t \in Tasks : Stage(t) \/ Send(t)
  \/ \E t \in Tasks, op \in Commands : Begin(t, op)
  \/ IopRegister \/ IopReply
  \/ Interrupt

(* A call that was begun goes on, the IOP answers and the interrupt is taken. *)
Fairness ==
  /\ \A t \in Tasks : WF_vars(Send(t))
  /\ WF_vars(IopReply) /\ WF_vars(Interrupt)

Spec == Init /\ [][Next]_vars
FairSpec == Spec /\ Fairness

-----------------------------------------------------------------------------
(* A caller gets the answer to its own arguments unless another call filled    *)
(* the buffer before they were sent; once sent they are safe.                  *)
AnswerOwn == \A t \in Tasks : t \notin disturbed => result[t] \in {NULL, t}

(* No request goes to a server that is not bound. *)
Bound == sdrsif.state = "pending" /\ sdrsif.req.op # Bind => sdrsif.server

(* The counter never claims more than the driver of the IOP has done, whatever *)
(* fails and however often it is taken down and brought up, and the EE server  *)
(* is registered once: a second SifSetRpcQueue would follow a null pointer.     *)
StagesTrue ==
  /\ soundInitCounter >= 2 => "init" \in sdr
  /\ soundInitialized <=> soundInitCounter = 3
  /\ soundInitialized /\ "thread" \notin sdr
       => \E t \in Tasks : call[t].op = StopThread
  /\ registered = IF soundInitCounter = 0 THEN 0 ELSE 1

=============================================================================
