-------------------------------- MODULE Cdvd --------------------------------
(***************************************************************************)
(* TGE/sbios/cdvd.c, ncmd.c, scmd.c and mutex.c: the CD/DVD calls.  Two     *)
(* mutexes, N and S, guard the RPC clients and the buffers commands share.  *)
(* A task takes a mutex before it sends a command; the end function, run in *)
(* the interrupt that brings the answer, gives it back.  cdvdinit walks     *)
(* through six stages, and the stage decides which mutex that is.           *)
(*                                                                          *)
(* Data are abstracted to the task they belong to, and a buffer is NULL once *)
(* its contents were taken.                                                 *)
(***************************************************************************)
EXTENDS Naturals

CONSTANTS
  Tasks,        \* callers; each waits for its end function before the next call
  InitTasks,    \* the tasks that call cdvdinit
  NULL

VARIABLES
  cdvdInitCounter,  \* stage, 6 when all is initialised
  bind,             \* clients with bindX >= 0
  mutex,            \* "N" and "S": locked
  client,           \* per RPC client: [state, server, req]
  buff,             \* per mutex, the task whose arguments the send buffer holds
  recv,             \* per receive buffer, whose answer it holds
  call,             \* per task: [at, op]
  late              \* tasks that gave S back and have not read their answer, when
                    \* another call has taken S since

vars == <<cdvdInitCounter, bind, mutex, client, buff, recv, call, late>>

Locks == {"N", "S"}
Clients == {"Init", "SearchFile", "DiskReady", "NCmd", "SCmd"}
NONE == "none"

(* A call: its client, the mutex it takes, where the answer goes.  kind is   *)
(* "bind", "init" (the call of stage 3), "cmd", "wait" for a blocking command *)
(* or "reset".                                                               *)
Op(kind, c, lock, buffer) == [kind |-> kind, client |-> c, lock |-> lock, recv |-> buffer]

Read == Op("cmd", "NCmd", "N", "_rd_intr_data")
ReadVideo == Op("cmd", "NCmd", "N", NONE)
GetToc == Op("cmd", "NCmd", "N", "nCmdRecvBuff")
Stop == Op("cmd", "NCmd", "N", NONE)
ReadRtc == Op("cmd", "SCmd", "S", "sCmdRecvBuff")
WriteRtc == Op("cmd", "SCmd", "S", "sCmdRecvBuff")
GetType == Op("cmd", "SCmd", "S", "sCmdRecvBuff")
GetError == Op("cmd", "SCmd", "S", "sCmdRecvBuff")
TrayRequest == Op("cmd", "SCmd", "S", "sCmdRecvBuff")
MMode == Op("cmd", "SCmd", "S", NONE)
OpenConfig == Op("cmd", "SCmd", "S", "sCmdRecvBuff")
CloseConfig == Op("cmd", "SCmd", "S", "sCmdRecvBuff")
ReadConfig == Op("cmd", "SCmd", "S", "sCmdCfgRecvBuff")
PowerOff == Op("wait", "SCmd", "S", "sCmdRecvBuff")
DiskReady == Op("cmd", "DiskReady", "S", "sCmdRecvBuff")
Reset == Op("reset", "Init", NONE, NONE)

(* Calls that differ only in what is sent are the same command. *)
Commands ==
  {Read, ReadVideo, GetToc, Stop, ReadRtc, WriteRtc, GetType, GetError,
   TrayRequest, MMode, OpenConfig, CloseConfig, ReadConfig, PowerOff, DiskReady, Reset}

Buffers == {"_rd_intr_data", "nCmdRecvBuff", "sCmdRecvBuff", "sCmdCfgRecvBuff"}

(* The call sbcall_cdvdinit makes in each stage. *)
Stage(n) ==
  CASE n = 0 -> Op("bind", "Init", "S", NONE)
    [] n = 1 -> Op("bind", "SearchFile", "S", NONE)
    [] n = 2 -> Op("bind", "DiskReady", "S", NONE)
    [] n = 3 -> Op("init", "Init", "S", NONE)
    [] n = 4 -> Op("bind", "NCmd", "N", NONE)
    [] n = 5 -> Op("bind", "SCmd", "S", NONE)

NoReq == [by |-> NULL, op |-> NULL, got |-> NULL, replied |-> FALSE]
Idle == [at |-> "idle", op |-> NULL]

(* sbios_tryLock, sbios_unlock *)
Lock(l) == [mutex EXCEPT ![l] = TRUE]

Unlock(l) == IF l = NONE THEN mutex ELSE [mutex EXCEPT ![l] = FALSE]

(* The contents of buffer b are copied out. *)
Taken(buffers, b) == IF b = NONE THEN buffers ELSE [buffers EXCEPT ![b] = NULL]

(* The client cdvdLockN and cdvdLockS ask SifCheckStatRpc about. *)
Checked(l) == IF l = "N" THEN "NCmd" ELSE "SCmd"

-----------------------------------------------------------------------------
(* sbcall_cdvdinit reads its stage and then asks for that stage's mutex. *)
CdvdInit(t) ==
  /\ call[t] = Idle /\ t \in InitTasks
  /\ cdvdInitCounter <= 5
  /\ call' = [call EXCEPT ![t] = [at |-> "lock", op |-> Stage(cdvdInitCounter)]]
  /\ UNCHANGED <<cdvdInitCounter, bind, mutex, client, buff, recv, late>>

(* A command asks for its mutex; sbcall_cdvdreset takes none. *)
Command(t, op) ==
  /\ call[t] = Idle
  /\ call' = [call EXCEPT ![t] = [at |-> IF op.kind = "reset" THEN "send" ELSE "lock",
                                  op |-> op]]
  /\ UNCHANGED <<cdvdInitCounter, bind, mutex, client, buff, recv, late>>

(* The tasks that have given l back and not yet read what they return. *)
Returning(l) == {t \in Tasks : call[t].at = "return" /\ call[t].op.lock = l}

TryLock_Always(t) ==
  LET l == call[t].op.lock IN
  /\ call[t].at = "lock"
  /\ mutex' = Lock(l)
  /\ call' = [call EXCEPT ![t].at = "check"]
  /\ late' = late \cup Returning(l)
  /\ UNCHANGED <<cdvdInitCounter, bind, client, buff, recv>>

(* sbios_tryLock in cdvdLockN, cdvdLockS. *)
TryLock(t) ==
  LET l == call[t].op.lock IN
  /\ call[t].at = "lock"
  /\ IF mutex[l]
     THEN call' = [call EXCEPT ![t] = Idle] /\ UNCHANGED <<mutex, late>>
     ELSE /\ call' = [call EXCEPT ![t].at = "check"]
          /\ mutex' = Lock(l)
          /\ late' = late \cup Returning(l)
  /\ UNCHANGED <<cdvdInitCounter, bind, client, buff, recv>>

(* SifCheckStatRpc after the mutex was taken: a request under way is left alone. *)
CheckStat(t) ==
  LET l == call[t].op.lock IN
  /\ call[t].at = "check"
  /\ IF client[Checked(l)].state = "pending"
     THEN call' = [call EXCEPT ![t] = Idle] /\ mutex' = Unlock(l)
     ELSE call' = [call EXCEPT ![t].at = "prepare"] /\ mutex' = mutex
  /\ UNCHANGED <<cdvdInitCounter, bind, client, buff, recv, late>>

(* Stage 0 forgets all binds; a command needs its client bound; the arguments *)
(* go into the buffer.                                                        *)
Prepare(t) ==
  LET op == call[t].op IN
  /\ call[t].at = "prepare"
  /\ bind' = IF op = Stage(0) THEN {} ELSE bind
  /\ IF op.kind \in {"cmd", "wait"} /\ op.client \notin bind
     THEN /\ call' = [call EXCEPT ![t] = Idle]
          /\ mutex' = Unlock(op.lock)
          /\ buff' = buff
     ELSE /\ call' = [call EXCEPT ![t].at = "send"]
          /\ mutex' = mutex
          /\ buff' = [buff EXCEPT ![op.lock] = t]
  /\ UNCHANGED <<cdvdInitCounter, client, recv, late>>

(* SifBindRpc, SifCallRpc as SifRpc shows them to a driver; what is sent fits *)
(* into the copy SifSetDma takes.  On failure the mutex is given back.        *)
Send(t) ==
  LET op == call[t].op
      c == op.client
  IN
  /\ call[t].at = "send"
  /\ \/ /\ client[c].state = "free"
        /\ client' = [client EXCEPT ![c] =
             [state |-> "pending", server |-> @.server /\ op.kind # "bind",
              req |-> [by |-> t, op |-> op, replied |-> FALSE,
                       got |-> IF op.lock = NONE THEN t ELSE buff[op.lock]]]]
        /\ call' = [call EXCEPT ![t].at = "wait"]
        /\ mutex' = mutex
     \/ /\ \/ client' = client
           \/ /\ client[c].state = "free"
              /\ client' = [client EXCEPT ![c].state = "lost",
                                          ![c].server = @ /\ op.kind # "bind"]
        /\ call' = [call EXCEPT ![t] = Idle]
        /\ mutex' = Unlock(op.lock)
  /\ buff' = Taken(buff, op.lock)
  /\ UNCHANGED <<cdvdInitCounter, bind, recv, late>>

-----------------------------------------------------------------------------
(* cdvdfsv on the IOP (external): the answer is written to the receive buffer.  *)
(* What a request to no server brings is anybody's guess.                       *)
IopReply(c) ==
  LET req == client[c].req IN
  /\ client[c].state = "pending" /\ ~req.replied
  /\ client' = [client EXCEPT ![c].req.replied = TRUE]
  /\ recv' = IF req.op.recv = NONE THEN recv ELSE [recv EXCEPT ![req.op.recv] = req.got]
  /\ UNCHANGED <<cdvdInitCounter, bind, mutex, buff, call, late>>

(* _request_end frees the client; a bind answer names the server or none. *)
Answered(c) ==
  /\ client[c].state = "pending" /\ client[c].req.replied
  /\ \E server \in IF client[c].req.op.kind = "bind" THEN BOOLEAN ELSE {client[c].server} :
       client' = [client EXCEPT ![c] = [state |-> "free", server |-> server, req |-> NoReq]]

(* cdvdInitCallback: the stage decides which client must have a server now,  *)
(* and which mutex is unlocked.                                              *)
StageClient == <<"Init", "SearchFile", "DiskReady", "Init", "NCmd", "SCmd">>

InitCallback(c) ==
  LET n == cdvdInitCounter
      bound == n < 6 /\ client'[StageClient[n + 1]].server
  IN
  /\ Answered(c)
  /\ client[c].req.op.kind \in {"bind", "init"}
  /\ IF n = 3 \/ bound
     THEN cdvdInitCounter' = n + 1 /\ bind' = bind \cup {StageClient[n + 1]}
     ELSE UNCHANGED <<cdvdInitCounter, bind>>
  /\ mutex' = IF n = 6 THEN mutex ELSE Unlock(IF n = 4 THEN "N" ELSE "S")
  /\ call' = [call EXCEPT ![client[c].req.by] = Idle]
  /\ UNCHANGED <<buff, recv, late>>

(* The end functions of the commands: take the answer, unlock, tell the       *)
(* caller.  cdResetCallback has nothing to take or to unlock.                 *)
Callback(c) ==
  LET req == client[c].req IN
  /\ Answered(c)
  /\ req.op.kind \in {"cmd", "reset"}
  /\ recv' = Taken(recv, req.op.recv)
  /\ mutex' = Unlock(req.op.lock)
  /\ call' = [call EXCEPT ![req.by] = Idle]
  /\ UNCHANGED <<cdvdInitCounter, bind, buff, late>>

(* A blocking call (cdPowerOff): the answer only wakes the caller, *)
WakeUp(c) ==
  /\ Answered(c)
  /\ client[c].req.op.kind = "wait"
  /\ call' = [call EXCEPT ![client[c].req.by].at = "woken"]
  /\ UNCHANGED <<cdvdInitCounter, bind, mutex, buff, recv, late>>

(* which then takes *result from the buffer and unlocks, *)
Woken(t) ==
  /\ call[t].at = "woken"
  /\ mutex' = Unlock(call[t].op.lock)
  /\ call' = [call EXCEPT ![t].at = "return"]
  /\ UNCHANGED <<cdvdInitCounter, bind, client, buff, recv, late>>

(* and only after that reads from the buffer what it returns. *)
Return(t) ==
  /\ call[t].at = "return"
  /\ call' = [call EXCEPT ![t] = Idle]
  /\ late' = late \ {t}
  /\ UNCHANGED <<cdvdInitCounter, bind, mutex, client, buff, recv>>

-----------------------------------------------------------------------------
Init ==
  /\ cdvdInitCounter = 0 /\ bind = {}
  /\ mutex = [l \in Locks |-> FALSE]
  /\ client = [c \in Clients |-> [state |-> "free", server |-> FALSE, req |-> NoReq]]
  /\ buff = [l \in Locks |-> NULL]
  /\ recv = [b \in Buffers |-> NULL]
  /\ call = [t \in Tasks |-> Idle]
  /\ late = {}

Task(t) == TryLock(t) \/ CheckStat(t) \/ Prepare(t) \/ Send(t) \/ Woken(t) \/ Return(t)
Interrupt(c) == InitCallback(c) \/ Callback(c) \/ WakeUp(c)

Next ==
  \/ \E t \in Tasks : CdvdInit(t) \/ Task(t)
  \/ \E t \in Tasks, op \in Commands : Command(t, op)
  \/ \E c \in Clients : IopReply(c) \/ Interrupt(c)

Served(c) == client[c].server \/ client[c].req.op.kind = "bind"

(* A call that was begun goes on, the IOP answers what reaches a server and the *)
(* interrupt is taken.                                                          *)
Fairness ==
  /\ \A t \in Tasks : WF_vars(Task(t))
  /\ \A c \in Clients : WF_vars(IopReply(c) /\ Served(c)) /\ WF_vars(Interrupt(c))

Spec == Init /\ [][Next]_vars
FairSpec == Spec /\ Fairness

-----------------------------------------------------------------------------

(* The tasks that took mutex l and have not seen it given back. *)
Holders(l) ==
  {t \in Tasks : /\ call[t] # Idle /\ call[t].op.lock = l
                 /\ call[t].at \notin {"lock", "return"}}

(* A mutex is locked exactly while one call holds it: "unlock a mutex        *)
(* previously locked", by the call that locked it, and no path forgets to.   *)
MutexOwned ==
  \A l \in Locks :
    /\ mutex[l] <=> Holders(l) # {}
    /\ \A t, u \in Holders(l) : t = u

(* The IOP gets the caller's arguments and the caller the IOP's answer to    *)
(* them, though all commands of a kind share their buffers.  cdPowerOff gives *)
(* S back before it reads what it returns: that is its own answer unless      *)
(* another call took S in between.                                            *)
OwnAnswer ==
  /\ \A c \in Clients :
       LET req == client[c].req IN
       client[c].state = "pending" =>
         /\ req.got = req.by
         /\ req.replied /\ req.op.recv # NONE => recv[req.op.recv] = req.by
  /\ \A t \in Tasks :
       call[t].at = "woken" \/ (call[t].at = "return" /\ t \notin late) =>
         recv[call[t].op.recv] = t

(* A command is only sent to a server that was bound.  cdvdreset, which looks *)
(* at neither the mutex nor the bind, keeps to this from the end of cdvdinit's *)
(* first stage on; before that its call goes to no server.                     *)
BoundWhenCalled ==
  \A c \in Clients :
    client[c].state = "pending" /\ client[c].req.op.kind # "bind" =>
      client[c].server \/ (client[c].req.op = Reset /\ cdvdInitCounter = 0)

(* A call whose request went to no server. *)
Unserved(t) ==
  \E c \in Clients : client[c].state = "pending" /\ client[c].req.by = t /\ ~Served(c)

=============================================================================
