--------------------------- MODULE IopHeap_proofs ---------------------------
(***************************************************************************)
(* Proofs about IopHeap, for every set of callers.                          *)
(***************************************************************************)
EXTENDS IopHeap, TLAPS

(* A request under way is the one of the task that waits for it. *)
CallUnderWay ==
  /\ client.state = "pending" =>
       /\ req.by \in Tasks /\ req.op \in Ops
       /\ call[req.by] = [at |-> "wait", op |-> req.op]
  /\ \A t \in Tasks :
       /\ call[t].at = "wait" => client.state = "pending" /\ req.by = t
       /\ call[t].at # "idle" => call[t].op \in Ops

(* Between Fill and Send the packet holds the caller's argument. *)
ArgumentKept ==
  \A t \in Tasks :
    call[t].at = "send" /\ call[t].op # "init" => pkt = Pkt(t, "argument")

(* Once bound, the packet is there and the client has its server, except     *)
(* while it is being bound again or is lost; and only then a task is past    *)
(* the check of _ih_caps.                                                    *)
ServerKept ==
  /\ client.server => registered
  /\ bound => /\ registered /\ pkt \in Pkts
              /\ \/ client.server
                 \/ client.state = "lost"
                 \/ client.state = "pending" /\ req.op = "init" /\ ~req.replied
  /\ \A t \in Tasks : call[t].at # "idle" /\ call[t].op # "init" => bound

(* The inductive invariant. *)
IInv ==
  /\ TypeOK /\ MutexOwned /\ OwnAnswer /\ BoundWhenCalled
  /\ CallUnderWay /\ ArgumentKept /\ ServerKept

(* What the calls return, and the records of the model, have their types. *)
LEMMA RecordTypes ==
  /\ \A what \in {"none", "bound", "no server", "not initialized", "busy", "send failed"} :
       Pkt(NULL, what) \in Reports
  /\ \A t \in Tasks : \A is \in {"argument", "answer"} : Pkt(t, is) \in Pkts
  /\ Idle \in Calls /\ NoReq \in Requests
BY DEF Pkt, Pkts, Reports, Idle, Calls, NoReq, Requests

(* A report is no packet: its status is none of those of a packet. *)
LEMMA ReportsApart ==
  ASSUME NEW r \in Reports PROVE r \notin Pkts
BY DEF Reports, Pkts

(* A call that ends returns to idle with a typed result, and only it changes. *)
LEMMA ReturnType ==
  ASSUME TypeOK, NEW t \in Tasks, NEW what \in Reports \cup Pkts, Return(t, what)
  PROVE  /\ call' \in [Tasks -> Calls]
         /\ result' \in [Tasks -> Reports \cup Pkts]
BY RecordTypes DEF TypeOK, Return

(* Nothing a call returned to one task touches another task's answer. *)
LEMMA ReturnAnswers ==
  ASSUME TypeOK, OwnAnswer, NEW t \in Tasks,
         NEW what \in Reports \cup {Pkt(t, "answer")}, Return(t, what)
  PROVE  \A u \in Tasks : result'[u] \in Pkts => result'[u] = Pkt(u, "answer")
BY ReportsApart DEF TypeOK, OwnAnswer, Return

(* The state before the first call satisfies the invariant. *)
LEMMA InitIInv == Init => IInv
<1> SUFFICES ASSUME Init PROVE IInv
  OBVIOUS
<1>1. TypeOK
  BY RecordTypes DEF Init, TypeOK, Pkt, Pkts, ClientStates
<1>2. OwnAnswer
  BY RecordTypes, ReportsApart DEF Init, OwnAnswer
<1> QED
  BY <1>1, <1>2 DEF Init, IInv, MutexOwned, BoundWhenCalled, CallUnderWay, ArgumentKept,
    ServerKept, Holds, Idle

(* Of all tasks, only the one whose call ends changes its record. *)
LEMMA CallerReturns ==
  ASSUME TypeOK, NEW t \in Tasks, NEW what, Return(t, what)
  PROVE  \A u \in Tasks : call'[u] = IF u = t THEN Idle ELSE call[u]
BY DEF TypeOK, Return

(* A call that ends before it took the mutex preserves the invariant. *)
LEMMA EndsUnlockedIInv ==
  ASSUME NEW t \in Tasks, NEW what \in Reports, IInv, call[t].at \in {"idle", "lock"},
         Return(t, what), UNCHANGED <<bound, mutex, pkt, client, req, registered>>
  PROVE  IInv'
<1> USE DEF IInv
<1>1. \A u \in Tasks : call'[u] = IF u = t THEN Idle ELSE call[u]
  BY CallerReturns
<1>2. TypeOK'
  BY ReturnType DEF TypeOK
<1>3. MutexOwned'
  <2>1. \A u \in Tasks : Holds(u)' <=> Holds(u)
    BY <1>1 DEF Holds, Idle
  <2> QED
    BY <2>1 DEF MutexOwned
<1>4. OwnAnswer'
  BY ReturnAnswers DEF OwnAnswer
<1>5. BoundWhenCalled'
  BY DEF BoundWhenCalled
<1>6. CallUnderWay' /\ ArgumentKept'
  BY <1>1 DEF CallUnderWay, ArgumentKept, Idle
<1>7. ServerKept'
  BY <1>1 DEF ServerKept, Idle
<1> QED
  BY <1>2, <1>3, <1>4, <1>5, <1>6, <1>7

(* sbcall_iopheapinit of a bound client preserves the invariant. *)
LEMMA InitAgainIInv ==
  ASSUME NEW t \in Tasks, IInv, InitAgain(t)
  PROVE  IInv'
<1>1. call[t].at = "idle"
  BY DEF InitAgain, Idle
<1> QED
  BY <1>1, RecordTypes, EndsUnlockedIInv DEF InitAgain

(* A refused alloc or free preserves the invariant. *)
LEMMA NotInitializedIInv ==
  ASSUME NEW t \in Tasks, IInv, NotInitialized(t)
  PROVE  IInv'
<1>1. call[t] = Idle
  BY Zenon DEF NotInitialized
<1>2. call[t].at = "idle"
  BY <1>1 DEF Idle
<1> QED
  BY <1>2, RecordTypes, EndsUnlockedIInv DEF NotInitialized

(* Passing the check of _ih_caps preserves the invariant. *)
LEMMA BeginIInv ==
  ASSUME NEW t \in Tasks, NEW op \in Ops, IInv, Begin(t, op)
  PROVE  IInv'
<1> USE DEF IInv
<1>1. /\ call[t] = Idle /\ (bound <=> op # "init")
      /\ UNCHANGED <<bound, mutex, pkt, client, req, registered>>
  BY DEF Begin
<1>2. \A u \in Tasks : call'[u] = IF u = t THEN [at |-> "lock", op |-> op] ELSE call[u]
  BY DEF Begin, TypeOK
<1>3. \A u \in Tasks : result'[u] = IF u = t THEN Pkt(NULL, "none") ELSE result[u]
  BY DEF Begin, TypeOK
<1>4. TypeOK'
  BY RecordTypes DEF Begin, TypeOK, Calls
<1>5. MutexOwned'
  <2>1. \A u \in Tasks : Holds(u)' <=> Holds(u)
    BY <1>1, <1>2 DEF Holds, Idle
  <2> QED
    BY <1>1, <2>1 DEF MutexOwned
<1>6. OwnAnswer'
  BY <1>1, <1>3, RecordTypes, ReportsApart DEF OwnAnswer
<1>7. BoundWhenCalled'
  BY <1>1 DEF BoundWhenCalled
<1>8. CallUnderWay' /\ ArgumentKept'
  BY <1>1, <1>2 DEF CallUnderWay, ArgumentKept, Idle
<1>9. ServerKept'
  BY <1>1, <1>2 DEF ServerKept
<1> QED
  BY <1>4, <1>5, <1>6, <1>7, <1>8, <1>9

(* sbios_tryLock preserves it: a locked mutex has its holder already, a free  *)
(* one has none.                                                              *)
LEMMA TryLockIInv ==
  ASSUME NEW t \in Tasks, IInv, TryLock(t)
  PROVE  IInv'
<1>1. CASE mutex
  BY <1>1, RecordTypes, EndsUnlockedIInv DEF TryLock
<1>2. CASE ~mutex
  <2> USE DEF IInv
  <2>1. /\ call[t].at = "lock" /\ mutex' = TRUE
        /\ UNCHANGED <<bound, pkt, client, req, registered, result>>
    BY <1>2 DEF TryLock
  <2>2. \A u \in Tasks : u # t => call'[u] = call[u]
    BY <1>2 DEF TryLock, TypeOK
  <2>3. call'[t].at = "fill" /\ call'[t].op = call[t].op
    BY <1>2 DEF TryLock, TypeOK, Calls
  <2>4. TypeOK'
    BY <1>2 DEF TryLock, TypeOK, Calls
  <2>5. MutexOwned'
    <3>1. \A u \in Tasks : Holds(u)' <=> u = t
      BY <1>2, <2>2, <2>3 DEF MutexOwned, Holds
    <3> QED
      BY <2>1, <3>1 DEF MutexOwned
  <2>6. OwnAnswer' /\ BoundWhenCalled'
    BY <2>1 DEF OwnAnswer, BoundWhenCalled
  <2>7. CallUnderWay' /\ ArgumentKept'
    BY <2>1, <2>2, <2>3 DEF CallUnderWay, ArgumentKept
  <2>8. ServerKept'
    BY <2>1, <2>2, <2>3 DEF ServerKept
  <2> QED
    BY <2>4, <2>5, <2>6, <2>7, <2>8
<1> QED
  BY <1>1, <1>2

(* Writing the packet preserves it: the packet is there, and no other call is *)
(* between its lock and its end.                                              *)
LEMMA FillIInv ==
  ASSUME NEW t \in Tasks, IInv, Fill(t)
  PROVE  IInv'
<1> USE DEF IInv
<1>1. /\ call[t].at = "fill"
      /\ UNCHANGED <<bound, mutex, client, req, registered, result>>
  BY DEF Fill
<1>2. call[t].op # "init" => bound /\ pkt \in Pkts /\ pkt # NULL
  BY <1>1, NullAssumption DEF ServerKept
<1>3. /\ call' = [call EXCEPT ![t].at = "send"]
      /\ pkt' = IF call[t].op = "init" THEN pkt ELSE Pkt(t, "argument")
  BY <1>2 DEF Fill
<1>4. \A u \in Tasks : u # t => call'[u] = call[u]
  BY <1>3 DEF TypeOK
<1>5. call'[t].at = "send" /\ call'[t].op = call[t].op
  BY <1>3 DEF TypeOK, Calls
<1>6. client.state # "pending"
  BY <1>1 DEF MutexOwned, Holds, CallUnderWay
<1>7. TypeOK'
  BY <1>1, <1>3, RecordTypes DEF TypeOK, Calls
<1>8. MutexOwned'
  <2>1. \A u \in Tasks : Holds(u)' <=> Holds(u)
    BY <1>1, <1>4, <1>5 DEF Holds
  <2> QED
    BY <1>1, <2>1 DEF MutexOwned
<1>9. OwnAnswer' /\ BoundWhenCalled'
  BY <1>1, <1>6 DEF OwnAnswer, BoundWhenCalled
<1>10. CallUnderWay'
  BY <1>1, <1>4, <1>5, <1>6 DEF CallUnderWay
<1>11. ArgumentKept'
  BY <1>1, <1>3, <1>4, <1>5 DEF ArgumentKept, MutexOwned, Holds
<1>12. ServerKept'
  BY <1>1, <1>2, <1>3, <1>4, <1>5, RecordTypes DEF ServerKept
<1> QED
  BY <1>7, <1>8, <1>9, <1>10, <1>11, <1>12

(* Sending preserves it: a free client of a bound library has its server. *)
LEMMA SendIInv ==
  ASSUME NEW t \in Tasks, IInv, Send(t)
  PROVE  IInv'
<1> USE DEF IInv
<1> DEFINE keeps == client.server /\ call[t].op # "init"
<1>1. /\ call[t].at = "send" /\ client.state = "free"
      /\ UNCHANGED <<bound, mutex, pkt, registered, result>>
  BY DEF Send
<1>2. /\ client' = [state |-> "pending", server |-> keeps]
      /\ req' = [by |-> t, op |-> call[t].op, got |-> pkt, replied |-> FALSE]
      /\ call' = [call EXCEPT ![t].at = "wait"]
  BY DEF Send
<1>3. keeps \in BOOLEAN
  BY Zenon DEF TypeOK, ClientStates
<1> HIDE DEF keeps
<1>4. call[t].op \in Ops
  BY <1>1 DEF CallUnderWay
<1>5. \A u \in Tasks : u # t => call'[u] = call[u]
  BY <1>2 DEF TypeOK
<1>6. call'[t] = [at |-> "wait", op |-> call[t].op]
  BY <1>2 DEF TypeOK, Calls
<1>7. TypeOK'
  BY <1>1, <1>2, <1>3, <1>4 DEF TypeOK, Calls, ClientStates, Requests
<1>8. MutexOwned'
  <2>1. \A u \in Tasks : Holds(u)' <=> Holds(u)
    BY <1>1, <1>5, <1>6 DEF Holds
  <2> QED
    BY <1>1, <2>1 DEF MutexOwned
<1>9. OwnAnswer'
  BY <1>1, <1>2 DEF OwnAnswer, ArgumentKept
<1>10. BoundWhenCalled'
  <2>1. call[t].op # "init" => client.server
    BY <1>1 DEF ServerKept
  <2>2. call[t].op # "init" => keeps
    BY <2>1 DEF keeps
  <2> QED
    BY <1>2, <2>2 DEF BoundWhenCalled
<1>11. CallUnderWay'
  BY <1>1, <1>2, <1>4, <1>5, <1>6 DEF CallUnderWay, MutexOwned, Holds
<1>12. ArgumentKept'
  BY <1>1, <1>5, <1>6 DEF ArgumentKept
<1>13. ServerKept'
  <2>1. keeps => registered
    BY DEF keeps, ServerKept
  <2>2. bound => keeps \/ call[t].op = "init"
    BY <1>1 DEF keeps, ServerKept
  <2>3. \A u \in Tasks : call'[u].at # "idle" /\ call'[u].op # "init" => bound
    BY <1>1, <1>5, <1>6 DEF ServerKept
  <2> QED
    BY <1>1, <1>2, <2>1, <2>2, <2>3 DEF ServerKept
<1> QED
  BY <1>7, <1>8, <1>9, <1>10, <1>11, <1>12, <1>13

(* A failed send preserves it: the caller that unlocks is the holder. *)
LEMMA SendFailsIInv ==
  ASSUME NEW t \in Tasks, IInv, SendFails(t)
  PROVE  IInv'
<1> USE DEF IInv
<1>0. Return(t, Pkt(NULL, "send failed"))
  BY DEF SendFails
<1>1. /\ mutex' = FALSE
      /\ bound' = bound /\ pkt' = pkt /\ req' = req /\ registered' = registered
      /\ call[t].at = "send"
  BY DEF SendFails
<1>2. /\ client' \in ClientStates
      /\ client' = client \/ (client.state = "free" /\ client'.state = "lost")
      /\ client'.server => client.server
  <2>1. CASE client' = client
    <3>1. client' \in ClientStates
      BY <2>1 DEF TypeOK
    <3>2. client'.server => client.server
      BY <2>1, Zenon
    <3> QED
      BY <2>1, <3>1, <3>2, Zenon
  <2>2. CASE /\ client.state = "free"
             /\ client' = [state |-> "lost", server |-> client.server /\ call[t].op # "init"]
    <3>1. (client.server /\ call[t].op # "init") \in BOOLEAN
      BY Zenon DEF TypeOK, ClientStates
    <3>2. client'.server = (client.server /\ call[t].op # "init") /\ client'.state = "lost"
      BY <2>2
    <3>3. client' \in ClientStates
      BY <2>2, <3>1 DEF ClientStates
    <3> QED
      BY <2>2, <3>2, <3>3
  <2> QED
    BY <2>1, <2>2 DEF SendFails
<1>3. \A u \in Tasks : call'[u] = IF u = t THEN Idle ELSE call[u]
  BY <1>0, CallerReturns
<1>4. TypeOK'
  BY <1>0, <1>1, <1>2, RecordTypes, ReturnType DEF TypeOK
<1>5. MutexOwned'
  <2>1. \A u \in Tasks : ~Holds(u)'
    BY <1>1, <1>3 DEF MutexOwned, Holds, Idle
  <2> QED
    BY <1>1, <2>1 DEF MutexOwned
<1>6. OwnAnswer'
  <2>1. \A u \in Tasks : result'[u] \in Pkts => result'[u] = Pkt(u, "answer")
    BY <1>0, RecordTypes, ReturnAnswers
  <2> QED
    BY <1>1, <1>2, <2>1 DEF OwnAnswer
<1>7. BoundWhenCalled'
  BY <1>1, <1>2 DEF BoundWhenCalled
<1>8. CallUnderWay'
  BY <1>1, <1>2, <1>3 DEF CallUnderWay, Idle
<1>9. ArgumentKept'
  BY <1>1, <1>3 DEF ArgumentKept, Idle
<1>10. ServerKept'
  BY <1>1, <1>2, <1>3 DEF ServerKept, Idle
<1> QED
  BY <1>4, <1>5, <1>6, <1>7, <1>8, <1>9, <1>10

(* The start of the IOP's heap server preserves the invariant. *)
LEMMA IopRegisterIInv ==
  ASSUME IInv, IopRegister
  PROVE  IInv'
<1> USE DEF IInv, IopRegister
<1>1. TypeOK' /\ MutexOwned'
  BY DEF TypeOK, MutexOwned, Holds
<1>2. OwnAnswer' /\ BoundWhenCalled'
  BY DEF OwnAnswer, BoundWhenCalled
<1>3. CallUnderWay' /\ ArgumentKept' /\ ServerKept'
  BY DEF CallUnderWay, ArgumentKept, ServerKept
<1> QED
  BY <1>1, <1>2, <1>3

(* An answer preserves it: it is written for the task that waits, and a bind  *)
(* request of a bound library finds the server registered.                    *)
LEMMA IopReplyIInv ==
  ASSUME IInv, IopReply
  PROVE  IInv'
<1> USE DEF IInv
<1>1. /\ client.state = "pending" /\ ~req.replied
      /\ req' = [req EXCEPT !.replied = TRUE]
      /\ UNCHANGED <<bound, mutex, registered, call, result>>
  BY DEF IopReply
<1>2. req.by \in Tasks /\ req.op \in Ops
  BY <1>1 DEF CallUnderWay
<1>3. /\ req'.by = req.by /\ req'.op = req.op /\ req'.got = req.got /\ req'.replied
      /\ req' \in Requests
  BY <1>1 DEF TypeOK, Requests
<1>4. CASE req.op = "init"
  <2>1. client' = [client EXCEPT !.server = registered] /\ pkt' = pkt
    BY <1>4 DEF IopReply
  <2>2. client'.state = client.state /\ client'.server = registered /\ client' \in ClientStates
    BY <2>1 DEF TypeOK, ClientStates
  <2>3. TypeOK' /\ MutexOwned'
    BY <1>1, <1>3, <2>1, <2>2 DEF TypeOK, MutexOwned, Holds
  <2>4. OwnAnswer' /\ BoundWhenCalled'
    BY <1>1, <1>3, <1>4, <2>1, <2>2 DEF OwnAnswer, BoundWhenCalled
  <2>5. CallUnderWay' /\ ArgumentKept'
    BY <1>1, <1>3, <2>1, <2>2 DEF CallUnderWay, ArgumentKept
  <2>6. ServerKept'
    <3>1. client'.server <=> registered
      BY <2>2, Zenon
    <3> QED
      BY <1>1, <2>1, <3>1 DEF ServerKept
  <2> QED
    BY <2>3, <2>4, <2>5, <2>6
<1>5. CASE req.op # "init"
  <2>1. client' = client /\ pkt' = Pkt(req.by, "answer")
    BY <1>5 DEF IopReply
  <2>2. TypeOK' /\ MutexOwned'
    BY <1>1, <1>2, <1>3, <2>1, RecordTypes DEF TypeOK, MutexOwned, Holds
  <2>3. OwnAnswer' /\ BoundWhenCalled'
    BY <1>1, <1>3, <1>5, <2>1 DEF OwnAnswer, BoundWhenCalled
  <2>4. CallUnderWay'
    BY <1>1, <1>3, <2>1 DEF CallUnderWay
  <2>5. ArgumentKept'
    BY <1>1, <1>2 DEF ArgumentKept, CallUnderWay, MutexOwned, Holds
  <2>6. ServerKept'
    BY <1>1, <1>2, <1>5, <2>1, RecordTypes DEF ServerKept
  <2> QED
    BY <2>2, <2>3, <2>4, <2>5, <2>6
<1> QED
  BY <1>4, <1>5

(* iopHeapInitCallback preserves it: it unlocks for the task that waits. *)
LEMMA InitCallbackIInv ==
  ASSUME IInv, InitCallback
  PROVE  IInv'
<1> USE DEF IInv
<1>1. /\ client.state = "pending" /\ req.replied /\ req.op = "init"
      /\ client' = [client EXCEPT !.state = "free"] /\ req' = NoReq
      /\ mutex' = FALSE /\ registered' = registered
  BY DEF InitCallback, Answered
<1>2. PICK what \in Reports : Return(req.by, what)
  BY RecordTypes DEF InitCallback
<1>3. req.by \in Tasks /\ Holds(req.by)
  BY <1>1 DEF CallUnderWay, Holds
<1>4. \A u \in Tasks : call'[u] = IF u = req.by THEN Idle ELSE call[u]
  BY <1>2, <1>3, CallerReturns
<1>5. client'.state = "free" /\ client'.server = client.server /\ client' \in ClientStates
  BY <1>1 DEF TypeOK, ClientStates
<1>6. /\ bound' \in BOOLEAN /\ (bound => bound')
      /\ pkt' \in Pkts \cup {NULL} /\ (pkt \in Pkts => pkt' = pkt)
      /\ bound' => client.server /\ pkt' \in Pkts
  <2>1. bound => client.server /\ pkt \in Pkts
    BY <1>1 DEF ServerKept
  <2>2. CASE client.server
    <3>1. bound' = TRUE /\ pkt' = IF pkt = NULL THEN Pkt(NULL, "answer") ELSE pkt
      BY <2>2 DEF InitCallback
    <3>2. Pkt(NULL, "answer") \in Pkts
      BY DEF Pkt, Pkts
    <3> QED
      BY <2>2, <3>1, <3>2, NullAssumption DEF TypeOK
  <2>3. CASE ~client.server
    BY <2>1, <2>3 DEF InitCallback, TypeOK
  <2> QED
    BY <2>2, <2>3
<1>7. TypeOK'
  BY <1>1, <1>2, <1>3, <1>5, <1>6, RecordTypes, ReturnType DEF TypeOK
<1>8. \A u \in Tasks : ~Holds(u)'
  BY <1>3, <1>4 DEF MutexOwned, Holds, Idle
<1>9. MutexOwned'
  BY <1>1, <1>8 DEF MutexOwned
<1>10. OwnAnswer'
  <2>1. \A u \in Tasks : result'[u] \in Pkts => result'[u] = Pkt(u, "answer")
    BY <1>2, <1>3, RecordTypes, ReturnAnswers
  <2> QED
    BY <1>5, <2>1 DEF OwnAnswer
<1>11. BoundWhenCalled' /\ CallUnderWay' /\ ArgumentKept'
  BY <1>4, <1>5, <1>8 DEF BoundWhenCalled, CallUnderWay, ArgumentKept, Holds, Idle
<1>12. ServerKept'
  <2>1. client'.server <=> client.server
    BY <1>5, Zenon
  <2>2. client.server => registered'
    BY <1>1 DEF ServerKept
  <2>3. \A u \in Tasks : call'[u].at # "idle" /\ call'[u].op # "init" => bound'
    BY <1>4, <1>6 DEF ServerKept, Idle
  <2> QED
    BY <1>6, <2>1, <2>2, <2>3 DEF ServerKept
<1> QED
  BY <1>7, <1>9, <1>10, <1>11, <1>12

(* iopHeapCallback preserves it: the packet holds the answer to the task that waits. *)
LEMMA CallbackIInv ==
  ASSUME IInv, Callback
  PROVE  IInv'
<1> USE DEF IInv
<1>1. /\ client.state = "pending" /\ req.replied /\ req.op # "init"
      /\ client' = [client EXCEPT !.state = "free"] /\ req' = NoReq
      /\ mutex' = FALSE /\ UNCHANGED <<bound, pkt, registered>>
  BY DEF Callback, Answered
<1>2. /\ req.by \in Tasks /\ Holds(req.by)
      /\ pkt = Pkt(req.by, "answer")
  BY <1>1 DEF CallUnderWay, Holds, OwnAnswer
<1>3. Return(req.by, Pkt(req.by, "answer"))
  BY <1>2 DEF Callback
<1>4. \A u \in Tasks : call'[u] = IF u = req.by THEN Idle ELSE call[u]
  BY <1>2, <1>3, CallerReturns
<1>5. client'.state = "free" /\ client'.server = client.server /\ client' \in ClientStates
  BY <1>1 DEF TypeOK, ClientStates
<1>6. TypeOK'
  BY <1>1, <1>2, <1>3, <1>5, RecordTypes, ReturnType DEF TypeOK
<1>7. \A u \in Tasks : ~Holds(u)'
  BY <1>2, <1>4 DEF MutexOwned, Holds, Idle
<1>8. MutexOwned'
  BY <1>1, <1>7 DEF MutexOwned
<1>9. OwnAnswer'
  <2>1. \A u \in Tasks : result'[u] \in Pkts => result'[u] = Pkt(u, "answer")
    BY <1>2, <1>3, ReturnAnswers
  <2> QED
    BY <1>5, <2>1 DEF OwnAnswer
<1>10. BoundWhenCalled' /\ CallUnderWay' /\ ArgumentKept'
  BY <1>4, <1>5, <1>7 DEF BoundWhenCalled, CallUnderWay, ArgumentKept, Holds, Idle
<1>11. ServerKept'
  <2>1. client'.server <=> client.server
    BY <1>5, Zenon
  <2> QED
    BY <1>1, <1>4, <2>1 DEF ServerKept, Idle
<1> QED
  BY <1>6, <1>8, <1>9, <1>10, <1>11

(* Every step preserves the invariant. *)
LEMMA NextIInv == IInv /\ [Next]_vars => IInv'
<1> SUFFICES ASSUME IInv, [Next]_vars PROVE IInv'
  OBVIOUS
<1>1. CASE UNCHANGED vars
  BY <1>1 DEF vars, IInv, TypeOK, MutexOwned, OwnAnswer, BoundWhenCalled, CallUnderWay,
    ArgumentKept, ServerKept, Holds
<1>2. ASSUME NEW t \in Tasks, Enter(t) \/ Task(t) PROVE IInv'
  BY <1>2, InitAgainIInv, NotInitializedIInv, BeginIInv, TryLockIInv, FillIInv, SendIInv,
    SendFailsIInv DEF Enter, Task
<1>3. CASE IopRegister \/ IopReply \/ Interrupt
  BY <1>3, IopRegisterIInv, IopReplyIInv, InitCallbackIInv, CallbackIInv DEF Interrupt
<1> QED
  BY <1>1, <1>2, <1>3 DEF Next

(* For any number of callers of the IOP heap calls the inductive invariant    *)
(* holds.                                                                     *)
THEOREM HeapInvariance == Spec => []IInv
<1>1. Init => IInv
  BY InitIInv
<1>2. IInv /\ [Next]_vars => IInv'
  BY NextIInv
<1> QED
  BY <1>1, <1>2, PTL DEF Spec

(* iopHeapMutex is locked exactly while one call is past sbios_tryLock.       *)
THEOREM HeapMutexOwned == Spec => []MutexOwned
<1>1. IInv => MutexOwned
  BY DEF IInv
<1> QED
  BY <1>1, HeapInvariance, PTL

(* Each caller gets the IOP's answer to its own argument out of the packet    *)
(* all of them share.                                                         *)
THEOREM HeapOwnAnswer == Spec => []OwnAnswer
<1>1. IInv => OwnAnswer
  BY DEF IInv
<1> QED
  BY <1>1, HeapInvariance, PTL

(* alloc and free only go to a bound server, whatever callers of              *)
(* sbcall_iopheapinit that read a stale _ih_caps do meanwhile.                *)
THEOREM HeapBound == Spec => []BoundWhenCalled
<1>1. IInv => BoundWhenCalled
  BY DEF IInv
<1> QED
  BY <1>1, HeapInvariance, PTL
=============================================================================
