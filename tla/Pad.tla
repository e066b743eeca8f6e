--------------------------------- MODULE Pad ---------------------------------
(***************************************************************************)
(* TGE/sbios/pad.c: controller calls.  Two RPC clients are bound in stages;  *)
(* one buffer holds the arguments of a request and then its answer.  There   *)
(* is no mutex: a call writes its arguments into the buffer before SIF RPC   *)
(* says whether the client is free.  Nor does a call look whether padinit is *)
(* done, its port open or padend under way.  The old build (ROM_PADMAN) has  *)
(* fewer stages and two calls that block.                                    *)
(*                                                                           *)
(* Data are abstracted to the task they belong to.                           *)
(***************************************************************************)
EXTENDS Naturals

CONSTANTS
  Tasks,      \* callers; each waits for its end function before the next call
  InitTasks,  \* the callers of padinit
  Ports,
  NULL

VARIABLES
  rom,        \* built for rom0:padman (ROM_PADMAN)
  padInitialiseCounter,
  padsif,     \* per client: [state, server, req]
  sema_id,    \* of padsif[0]: answers that no blocking call has taken
  buffer,     \* whose argument or answer the request buffer holds: [of, is]
  padData,    \* ports with a data area in PadState
  call,       \* per task: [at, op, port, store]
  opened,     \* ports whose padportopen has been reported to Linux as done
  served,     \* padman has registered its RPC servers
  disturbed,  \* tasks whose request or answer was overwritten for another call
  result      \* per task, what its last call was given

vars == <<rom, padInitialiseCounter, padsif, sema_id, buffer, padData, call, opened, served,
          disturbed, result>>

(* A request: whether it binds, blocks or does neither, its client and its end  *)
(* function.  Calls that differ in what they send and in what their end         *)
(* functions make of the answer are the same request; padSetReqState, with      *)
(* which some of them end, is in PadData.                                       *)
Op(kind, cl, end) == [kind |-> kind, client |-> cl, end |-> end]

Bind0 == Op("bind", 0, "padInitCallback")
Bind1 == Op("bind", 1, "padInitCallback")
ModVer == Op("call", 0, "padInitCallback")
InitPad == Op("call", 0, "padInitCallback")
End == Op("call", 0, "padEndCallback")
PortOpen == Op("call", 0, "padPortOpenCallback")
PortClose == Op("call", 0, "padCallback")
SetMainMode == Op("call", 0, "padCallback")
InfoPressMode == Op("call", 0, "padCallback")
SetButtonInfo == Op("call", 0, "padCallback")
SetActAlign == Op("call", 0, "padCallback")
SetActDirect == Op("call", 0, "padCallback")
InfoMode == Op("block", 0, NULL)      \* ROM_PADMAN: blocks, no end function
InfoAct == Op("block", 0, NULL)

Binds == {Bind0, Bind1}
Commands == {PortClose, SetMainMode, InfoPressMode, SetButtonInfo, SetActAlign, SetActDirect}
Blocking == {InfoMode, InfoAct}

Last == IF rom THEN 2 ELSE 4      \* the counter when all stages are done
Idle == [at |-> "idle", op |-> NULL, port |-> NULL, store |-> FALSE]
NoReq == [by |-> NULL, op |-> NULL, got |-> NULL, replied |-> FALSE]

Calling(t, op, p) == [at |-> "send", op |-> op, port |-> p, store |-> FALSE]

(* Tasks whose argument or answer is, or will be read, in the buffer. *)
UsesBuffer(t) == call[t].at \in {"send", "wait", "read"} /\ call[t].op \notin Binds

-----------------------------------------------------------------------------
(* sbcall_padinit: what the stage asks for.  Stage 0 clears both servers and   *)
(* PadState's flags, stages 2 and 3 fill the buffer.                           *)
StageOp ==
  CASE padInitialiseCounter = 0 -> Bind0
    [] padInitialiseCounter = 1 -> Bind1
    [] padInitialiseCounter = 2 -> ModVer
    [] padInitialiseCounter = 3 -> InitPad

Fill(t, op) ==
  IF op \in Binds THEN UNCHANGED <<buffer, disturbed>>
  ELSE /\ buffer' = [of |-> t, is |-> "argument"]
       /\ disturbed' = (disturbed \ {t}) \cup {u \in Tasks \ {t} : UsesBuffer(u)}

PadInit(t) ==
  /\ call[t] = Idle /\ t \in InitTasks
  /\ padInitialiseCounter < Last
  /\ padsif' = IF padInitialiseCounter = 0
               THEN [c \in {0, 1} |-> [padsif[c] EXCEPT !.server = FALSE]] ELSE padsif
  /\ Fill(t, StageOp)
  /\ call' = [call EXCEPT ![t] = Calling(t, StageOp, NULL)]
  /\ result' = [result EXCEPT ![t] = NULL]
  /\ UNCHANGED <<rom, padInitialiseCounter, sema_id, padData, opened, served>>

(* The other calls look at nothing before they send. *)
Begin(t, op, p) ==
  /\ call[t] = Idle
  /\ op \in Blocking => rom
  /\ Fill(t, op)
  /\ call' = [call EXCEPT ![t] = Calling(t, op, p)]
  /\ result' = [result EXCEPT ![t] = NULL]
  /\ UNCHANGED <<rom, padInitialiseCounter, padsif, sema_id, padData, opened, served>>

(* A client that is taken forgets the answers nobody waited for. *)
SemaReset(c) == IF c = 0 THEN 0 ELSE sema_id

(* SifBindRpc and SifCallRpc.  128 bytes are sent and the first 112, which hold *)
(* all arguments, are copied at once.                                           *)
Accept(t) ==
  LET op == call[t].op IN
  /\ padsif[op.client].state = "free"
  /\ padsif' = [padsif EXCEPT ![op.client] =
       [state |-> "pending", server |-> op \notin Binds /\ @.server,
        req |-> [by |-> t, op |-> op, got |-> IF op \in Binds THEN t ELSE buffer.of,
                 replied |-> FALSE]]]
  /\ sema_id' = SemaReset(op.client)
  /\ call' = [call EXCEPT ![t].at = "wait", ![t].store = (op = PortOpen)]

Refuse(t) ==
  LET op == call[t].op IN
  /\ \/ UNCHANGED <<padsif, sema_id>>
     \/ /\ padsif[op.client].state = "free"            \* no DMA tag: stays in use
        /\ sema_id' = SemaReset(op.client)
        /\ padsif' = [padsif EXCEPT ![op.client].state = "lost",
                                    ![op.client].server = op \notin Binds /\ @]
  /\ call' = [call EXCEPT ![t] = Idle]

Send(t) ==
  /\ call[t].at = "send"
  /\ Accept(t) \/ Refuse(t)
  /\ UNCHANGED <<rom, padInitialiseCounter, buffer, padData, opened, served, disturbed, result>>

(* sbcall_padportopen stores the data area when the request is on its way; its  *)
(* end function may have run by then.                                           *)
Store(t) ==
  /\ call[t].store
  /\ padData' = padData \cup {call[t].port}
  /\ call' = [call EXCEPT ![t] = IF @.at = "ended" THEN Idle ELSE [@ EXCEPT !.store = FALSE]]
  /\ UNCHANGED <<rom, padInitialiseCounter, padsif, sema_id, buffer, opened, served, disturbed,
                 result>>

(* The blocking SifCallRpc of the old build's padinfomode and padinfoact polls   *)
(* sema_id of the client, which belongs to whoever uses the client,              *)
Poll(t) ==
  /\ call[t].at = "wait" /\ call[t].op \in Blocking
  /\ sema_id # 0
  /\ sema_id' = sema_id - 1
  /\ call' = [call EXCEPT ![t].at = "read"]
  /\ UNCHANGED <<rom, padInitialiseCounter, padsif, buffer, padData, opened, served, disturbed,
                 result>>

(* and then takes what the buffer holds for the answer. *)
ReadAnswer(t) ==
  /\ call[t].at = "read"
  /\ result' = [result EXCEPT ![t] = buffer]
  /\ call' = [call EXCEPT ![t] = Idle]
  /\ UNCHANGED <<rom, padInitialiseCounter, padsif, sema_id, buffer, padData, opened, served,
                 disturbed>>

-----------------------------------------------------------------------------
(* The IOP (external): padman registers its servers, and answers into buffer.  *)
(* What a request to no server brings is anybody's guess.                      *)
IopRegister ==
  /\ ~served /\ served' = TRUE
  /\ UNCHANGED <<rom, padInitialiseCounter, padsif, sema_id, buffer, padData, call, opened,
                 disturbed, result>>

IopReply(c) ==
  LET req == padsif[c].req IN
  /\ padsif[c].state = "pending" /\ ~req.replied
  /\ padsif' = [padsif EXCEPT ![c].req.replied = TRUE]
  /\ buffer' = IF req.op \in Binds THEN buffer ELSE [of |-> req.got, is |-> "answer"]
  /\ disturbed' = IF req.op \in Binds THEN disturbed
                  ELSE disturbed \cup {u \in Tasks \ {req.by} : UsesBuffer(u)}
  /\ UNCHANGED <<rom, padInitialiseCounter, sema_id, padData, call, opened, served, result>>

-----------------------------------------------------------------------------
(* _request_end: sema_id is raised, the client is free again, the end function *)
(* runs.                                                                       *)
Answered(c) == padsif[c].state = "pending" /\ padsif[c].req.replied
Freed(c, server) ==
  [padsif EXCEPT ![c] = [state |-> "free", server |-> server, req |-> NoReq]]
Raised(c) == IF c = 0 THEN sema_id + 1 ELSE sema_id

(* padInitCallback acts on the stage of the moment; the version may be refused. *)
InitCallback(c) ==
  LET req == padsif[c].req
      server == IF req.op \in Binds THEN served ELSE padsif[c].server
  IN
  /\ Answered(c) /\ req.op.end = "padInitCallback"
  /\ padsif' = Freed(c, server) /\ sema_id' = Raised(c)
  /\ \/ /\ padInitialiseCounter < 2
        /\ padInitialiseCounter' = IF padsif'[padInitialiseCounter].server
                                   THEN padInitialiseCounter + 1 ELSE padInitialiseCounter
     \/ padInitialiseCounter = 2 /\ ~rom /\ padInitialiseCounter' \in {2, 3}
     \/ padInitialiseCounter = 3 /\ padInitialiseCounter' = 4
     \/ padInitialiseCounter = Last /\ padInitialiseCounter' = Last
  /\ call' = [call EXCEPT ![req.by] = Idle]
  /\ UNCHANGED <<rom, buffer, padData, opened, served, disturbed, result>>

(* padEndCallback: padReset when padman agreed. *)
EndCallback ==
  LET req == padsif[0].req IN
  /\ Answered(0) /\ req.op = End
  /\ sema_id' = Raised(0)
  /\ \/ /\ padInitialiseCounter' = 0
        /\ padsif' = [c \in {0, 1} |-> [Freed(0, FALSE)[c] EXCEPT !.server = FALSE]]
     \/ /\ padsif' = Freed(0, padsif[0].server)
        /\ padInitialiseCounter' = padInitialiseCounter
  /\ call' = [call EXCEPT ![req.by] = Idle]
  /\ result' = [result EXCEPT ![req.by] = buffer]
  /\ UNCHANGED <<rom, buffer, padData, opened, served, disturbed>>

(* The other end functions hand over what the buffer holds, padPortOpenCallback  *)
(* whether the port is open; the blocking calls have none.                       *)
Callback ==
  LET req == padsif[0].req
      t == req.by
  IN
  /\ Answered(0) /\ req.op.end \notin {"padInitCallback", "padEndCallback"}
  /\ padsif' = Freed(0, padsif[0].server) /\ sema_id' = Raised(0)
  /\ IF req.op.end = NULL
     THEN UNCHANGED <<call, result, opened>>
     ELSE /\ result' = [result EXCEPT ![t] = buffer]
          /\ call' = [call EXCEPT ![t] = IF @.store THEN [@ EXCEPT !.at = "ended"] ELSE Idle]
          /\ opened' \in IF req.op = PortOpen THEN {opened, opened \cup {call[t].port}}
                         ELSE {opened}
  /\ UNCHANGED <<rom, padInitialiseCounter, buffer, padData, served, disturbed>>

-----------------------------------------------------------------------------
Init ==
  /\ rom \in BOOLEAN
  /\ padInitialiseCounter = 0 /\ sema_id = 0
  /\ padsif = [c \in {0, 1} |-> [state |-> "free", server |-> FALSE, req |-> NoReq]]
  /\ buffer = [of |-> NULL, is |-> "argument"]
  /\ padData = {} /\ opened = {} /\ served = FALSE
  /\ call = [t \in Tasks |-> Idle]
  /\ disturbed = {}
  /\ result = [t \in Tasks |-> NULL]

Task(t) == Send(t) \/ Store(t) \/ Poll(t) \/ ReadAnswer(t)
Interrupt(c) == InitCallback(c) \/ (c = 0 /\ (EndCallback \/ Callback))

Next ==
  \/ \E t \in Tasks : PadInit(t) \/ Task(t) \/ Begin(t, End, NULL)
  \/ \E t \in Tasks, p \in Ports, op \in Commands \cup Blocking \cup {PortOpen} : Begin(t, op, p)
  \/ IopRegister
  \/ \E c \in {0, 1} : IopReply(c) \/ Interrupt(c)

Served(c) == padsif[c].server \/ padsif[c].req.op \in Binds

(* A call that was begun goes on, the IOP answers what reaches a server and the *)
(* interrupt for each answer is taken.                                          *)
Fairness ==
  /\ \A t \in Tasks : WF_vars(Task(t))
  /\ \A c \in {0, 1} : WF_vars(IopReply(c) /\ Served(c)) /\ WF_vars(Interrupt(c))

Spec == Init /\ [][Next]_vars
FairSpec == Spec /\ Fairness

-----------------------------------------------------------------------------
(* A caller gets the answer to its own request, from padman's answer and not   *)
(* from arguments, unless the buffer was written for another call meanwhile:   *)
(* that, which a refused call does too, is all that goes wrong without a mutex. *)
AnswerOwn ==
  \A t \in Tasks : result[t] # NULL /\ t \notin disturbed
                     => result[t] = [of |-> t, is |-> "answer"]

(* The counter tells the truth about the servers, although padend may clear    *)
(* them while padinit or another call is half done: a request only goes to no  *)
(* server when it is made before the first stage is done, or after padend.     *)
Bound ==
  /\ padInitialiseCounter >= 1 => padsif[0].server
  /\ padInitialiseCounter >= 2 => padsif[1].server
  /\ padsif[0].state = "pending" /\ padsif[0].req.op \notin Binds =>
       padsif[0].server \/ padInitialiseCounter = 0

(* padSetReqState follows the data area of its port unchecked.  padportopen    *)
(* stores that area when its request is on its way, and the end function may   *)
(* report the port before: what was reported is stored, or padportopen has not *)
(* yet returned.                                                               *)
PortKnown ==
  \A p \in opened :
    p \in padData \/ \E t \in Tasks : call[t].store /\ call[t].port = p

(* A blocking call whose answer was forgotten, or taken by another one, before  *)
(* it saw sema_id raised: nothing of its own will wake it.                      *)
Stranded(t) ==
  /\ call[t].at = "wait" /\ call[t].op \in Blocking /\ sema_id = 0
  /\ \A c \in {0, 1} : padsif[c].state # "pending" \/ padsif[c].req.by # t

(* A call whose request went to no server. *)
Unserved(t) ==
  \E c \in {0, 1} : padsif[c].state = "pending" /\ padsif[c].req.by = t /\ ~Served(c)

=============================================================================
