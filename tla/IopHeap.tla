------------------------------- MODULE IopHeap -------------------------------
(***************************************************************************)
(* TGE/sbios/iopheap.c: Linux allocates and frees IOP memory.  One RPC      *)
(* client and one packet, which holds the argument of a call and then its   *)
(* answer, serve all callers; a mutex guards them from the call until its   *)
(* end function, which runs in the interrupt that brings the answer.        *)
(***************************************************************************)
EXTENDS Naturals

CONSTANTS
  Tasks,    \* callers; each waits for its end function before the next call
  NULL

(* The contents of the packet: whose argument or answer. *)
Pkt(of, is) == [of |-> of, is |-> is]
Pkts == [of : Tasks \cup {NULL}, is : {"argument", "answer"}]

ASSUME NullAssumption == NULL \notin Tasks \cup Pkts

VARIABLES
  bound,      \* _ih_caps & IH_C_BOUND
  mutex,      \* iopHeapMutex: locked
  pkt,        \* *iopheap_pkt, NULL while that pointer is NULL
  client,     \* _ih_cd: [state, server], as RpcClient sees it
  req,        \* the request under way: [by, op, got, replied]
  registered, \* the IOP has its heap server
  call,       \* per task: [at, op]
  result      \* per task, what the last call told it

vars == <<bound, mutex, pkt, client, req, registered, call, result>>

Ops == {"init", "alloc", "free"}
Idle == [at |-> "idle", op |-> NULL]
NoReq == [by |-> NULL, op |-> NULL, got |-> NULL, replied |-> FALSE]

(* The call of task t is over, and t is told what came of it. *)
Return(t, what) ==
  /\ call' = [call EXCEPT ![t] = Idle]
  /\ result' = [result EXCEPT ![t] = what]

-----------------------------------------------------------------------------
(* sbcall_iopheapinit ends at once when the client is bound. *)
InitAgain(t) ==
  /\ call[t] = Idle
  /\ bound
  /\ Return(t, Pkt(NULL, "bound"))
  /\ UNCHANGED <<bound, mutex, pkt, client, req, registered>>

(* The checks of _ih_caps, which come before the mutex. *)
Begin(t, op) ==
  /\ call[t] = Idle
  /\ bound <=> op # "init"
  /\ call' = [call EXCEPT ![t] = [at |-> "lock", op |-> op]]
  /\ result' = [result EXCEPT ![t] = Pkt(NULL, "none")]
  /\ UNCHANGED <<bound, mutex, pkt, client, req, registered>>

NotInitialized(t) ==
  /\ call[t] = Idle
  /\ ~bound
  /\ Return(t, Pkt(NULL, "not initialized"))
  /\ UNCHANGED <<bound, mutex, pkt, client, req, registered>>

TryLock_Always(t) ==
  /\ call[t].at = "lock"
  /\ mutex' = TRUE
  /\ call' = [call EXCEPT ![t].at = "fill"]
  /\ result' = result
  /\ UNCHANGED <<bound, pkt, client, req, registered>>

(* sbios_tryLock *)
TryLock(t) ==
  /\ call[t].at = "lock"
  /\ IF mutex
     THEN Return(t, Pkt(NULL, "busy")) /\ mutex' = mutex
     ELSE /\ mutex' = TRUE
          /\ call' = [call EXCEPT ![t].at = "fill"]
          /\ result' = result
  /\ UNCHANGED <<bound, pkt, client, req, registered>>

(* The argument of alloc or free goes into the packet, which must be there. *)
Fill(t) ==
  /\ call[t].at = "fill"
  /\ IF call[t].op = "init"
     THEN pkt' = pkt /\ call' = [call EXCEPT ![t].at = "send"]
     ELSE IF pkt = NULL
     THEN pkt' = pkt /\ call' = [call EXCEPT ![t].at = "fault"]
     ELSE pkt' = Pkt(t, "argument") /\ call' = [call EXCEPT ![t].at = "send"]
  /\ UNCHANGED <<bound, mutex, client, req, registered, result>>

(* SifBindRpc, SifCallRpc take a free client; SifBindRpc forgets the server. *)
Send(t) ==
  /\ call[t].at = "send"
  /\ client.state = "free"
  /\ client' = [state |-> "pending", server |-> client.server /\ call[t].op # "init"]
  /\ req' = [by |-> t, op |-> call[t].op, got |-> pkt, replied |-> FALSE]
  /\ call' = [call EXCEPT ![t].at = "wait"]
  /\ UNCHANGED <<bound, mutex, pkt, registered, result>>

SendFails_KeepsLock(t) ==
  /\ call[t].at = "send"
  /\ client' = client
  /\ Return(t, Pkt(NULL, "send failed"))
  /\ mutex' = mutex
  /\ UNCHANGED <<bound, pkt, req, registered>>

SendFails_Retries(t) ==
  /\ call[t].at = "send"
  /\ \/ client' = client
     \/ /\ client.state = "free"
        /\ client' = [state |-> "lost", server |-> client.server /\ call[t].op # "init"]
  /\ UNCHANGED <<bound, mutex, pkt, req, registered, call, result>>

(* Or they fail: the client is in use, no packet is free, or the request     *)
(* could not be queued, which leaves the client in use for ever.             *)
SendFails(t) ==
  /\ call[t].at = "send"
  /\ \/ client' = client
     \/ /\ client.state = "free"
        /\ client' = [state |-> "lost", server |-> client.server /\ call[t].op # "init"]
  /\ Return(t, Pkt(NULL, "send failed"))
  /\ mutex' = FALSE
  /\ UNCHANGED <<bound, pkt, req, registered>>

-----------------------------------------------------------------------------
(* The IOP (external): loadfile's heap server starts, and requests are       *)
(* answered, a bind request according to whether it has.                     *)
IopRegister ==
  /\ ~registered
  /\ registered' = TRUE
  /\ UNCHANGED <<bound, mutex, pkt, client, req, call, result>>

IopReply ==
  /\ client.state = "pending" /\ ~req.replied
  /\ req' = [req EXCEPT !.replied = TRUE]
  /\ IF req.op = "init"
     THEN client' = [client EXCEPT !.server = registered] /\ pkt' = pkt
     ELSE client' = client /\ pkt' = Pkt(req.by, "answer")
  /\ UNCHANGED <<bound, mutex, registered, call, result>>

(* _request_end frees the client and calls the end function. *)
Answered ==
  /\ client.state = "pending" /\ req.replied
  /\ client' = [client EXCEPT !.state = "free"]
  /\ req' = NoReq

(* iopHeapInitCallback; the pointer is set to the one buffer there is. *)
InitCallback ==
  /\ Answered
  /\ req.op = "init"
  /\ IF client.server
     THEN /\ bound' = TRUE
          /\ pkt' = IF pkt = NULL THEN Pkt(NULL, "answer") ELSE pkt
          /\ Return(req.by, Pkt(NULL, "bound"))
     ELSE /\ UNCHANGED <<bound, pkt>>
          /\ Return(req.by, Pkt(NULL, "no server"))
  /\ mutex' = FALSE
  /\ UNCHANGED registered

(* iopHeapCallback *)
Callback ==
  /\ Answered
  /\ req.op # "init"
  /\ Return(req.by, pkt)
  /\ mutex' = FALSE
  /\ UNCHANGED <<bound, pkt, registered>>

-----------------------------------------------------------------------------
Init ==
  /\ bound = FALSE /\ mutex = FALSE
  /\ pkt = NULL
  /\ client = [state |-> "free", server |-> FALSE]
  /\ req = NoReq
  /\ registered = FALSE
  /\ call = [t \in Tasks |-> Idle]
  /\ result = [t \in Tasks |-> Pkt(NULL, "none")]

Enter(t) == InitAgain(t) \/ NotInitialized(t) \/ \E op \in Ops : Begin(t, op)
Task(t) == TryLock(t) \/ Fill(t) \/ Send(t) \/ SendFails(t)
Interrupt == InitCallback \/ Callback

Next ==
  \/ \E t \in Tasks : Enter(t) \/ Task(t)
  \/ IopRegister \/ IopReply \/ Interrupt

(* A call that was begun goes on, the IOP answers and the interrupt is taken. *)
Fairness ==
  /\ \A t \in Tasks : WF_vars(Task(t))
  /\ WF_vars(IopReply) /\ WF_vars(Interrupt)

Spec == Init /\ [][Next]_vars
FairSpec == Spec /\ Fairness

-----------------------------------------------------------------------------
Reports ==
  [of : {NULL}, is : {"none", "bound", "no server", "not initialized", "busy", "send failed"}]
ClientStates == [state : {"free", "pending", "lost"}, server : BOOLEAN]
Requests ==
  [by : Tasks \cup {NULL}, op : Ops \cup {NULL}, got : Pkts \cup {NULL}, replied : BOOLEAN]
Calls == [at : {"idle", "lock", "fill", "send", "wait"}, op : Ops \cup {NULL}]

(* Types of the library's globals; no call writes through iopheap_pkt before *)
(* it points anywhere.                                                        *)
TypeOK ==
  /\ bound \in BOOLEAN /\ mutex \in BOOLEAN /\ registered \in BOOLEAN
  /\ pkt \in Pkts \cup {NULL}
  /\ client \in ClientStates
  /\ req \in Requests
  /\ call \in [Tasks -> Calls]
  /\ result \in [Tasks -> Reports \cup Pkts]

Holds(t) == call[t].at \in {"fill", "send", "wait"}

(* The mutex is locked exactly while a call is past sbios_tryLock, and never  *)
(* two calls are; so every path unlocks it, and only for its own call.        *)
MutexOwned ==
  /\ mutex <=> \E t \in Tasks : Holds(t)
  /\ \A t, u \in Tasks : Holds(t) /\ Holds(u) => t = u

(* The one packet: the IOP is sent the caller's argument, and the address or  *)
(* status that the end function takes from it answers that caller.            *)
OwnAnswer ==
  /\ client.state = "pending" /\ req.op # "init" =>
       /\ req.got = Pkt(req.by, "argument")
       /\ req.replied => pkt = Pkt(req.by, "answer")
  /\ \A t \in Tasks : result[t] \in Pkts => result[t] = Pkt(t, "answer")

(* _ih_caps keeps its word though a caller that read it as unset may bind the *)
(* client once more: alloc and free are only sent to the server.              *)
BoundWhenCalled ==
  client.state = "pending" /\ req.op # "init" => client.server

=============================================================================
