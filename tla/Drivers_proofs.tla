--------------------------- MODULE Drivers_proofs ---------------------------
(***************************************************************************)
(* Proofs about the drivers of the SBIOS, for every set of callers: what    *)
(* Drivers states about locks, answers, servers and the pads' data follows  *)
(* from one inductive invariant per driver.                                 *)
(***************************************************************************)
EXTENDS Drivers, IopHeap_proofs, Sequences

-----------------------------------------------------------------------------
(* mc.c *)

McOps == M!Commands \cup {M!Bind, M!InitCall}
McCalls == [at : {"idle", "init", "fill", "send", "wait"}, op : McOps \cup {NULL}]
McReqs == [by : Callers \cup {NULL}, op : McOps \cup {NULL}, got : Callers \cup {NULL},
           replied : BOOLEAN]

McTypeOK ==
  /\ mcInitializeCounter \in 0 .. 2
  /\ cdata \in [state : {"free", "pending", "lost"}, server : BOOLEAN, req : McReqs]
  /\ buff \in [M!Buffers -> Callers \cup {NULL}]
  /\ mcall \in [Callers -> McCalls]
  /\ mserved \in BOOLEAN
  /\ mresult \in [Callers -> SUBSET (Callers \cup {NULL})]

(* Who is where: only the task that waits has a request under way. *)
McCallsTrue ==
  /\ \A t \in Callers :
       /\ mcall[t].at = "idle" => mcall[t] = M!Idle
       /\ mcall[t].at \in {"fill", "send"} => mcall[t].op \in M!Commands
       /\ mcall[t].at = "init" => mcall[t].op \in {M!Bind, M!InitCall}
       /\ mcall[t].at = "wait" => /\ mcall[t].op \in McOps
                                  /\ cdata.state = "pending" /\ cdata.req.by = t
  /\ cdata.state = "pending" =>
       /\ cdata.req.by \in Callers /\ cdata.req.op \in McOps
       /\ mcall[cdata.req.by] = [at |-> "wait", op |-> cdata.req.op]

(* The buffer a command is sent from keeps its arguments until its end. *)
McArguments ==
  /\ \A t \in Callers :
       M!Inside(t) /\ mcall[t].at # "fill" => buff[mcall[t].op.buffer] = t
  /\ cdata.state = "pending" =>
       /\ cdata.req.op \notin M!Commands => cdata.req.got = cdata.req.by
       /\ cdata.req.replied => cdata.req.got # NULL
       /\ cdata.req.replied /\ cdata.req.op \in M!Commands => rdata = cdata.req.by
       /\ cdata.req.replied /\ cdata.req.op \in {M!GetInfo, M!Read} =>
            endParameter = cdata.req.by

(* lastCmd names the command under way. *)
McLast == \A t \in Callers : M!Inside(t) => mcall[t].op.cmd = lastCmd

(* Once bound, the client has its server unless it is being bound again or *)
(* lost; commands come after both stages.                                  *)
McServer ==
  /\ cdata.server => mserved
  /\ mcInitializeCounter > 0 =>
       /\ mserved
       /\ \/ cdata.server \/ cdata.state = "lost"
          \/ cdata.state = "pending" /\ cdata.req.op = M!Bind
  /\ \A t \in Callers :
       /\ M!Inside(t) => mcInitializeCounter = 2
       /\ mcall[t].at # "idle" /\ mcall[t].op = M!InitCall => mcInitializeCounter > 0

McInv ==
  /\ McTypeOK /\ McCallsTrue /\ M!LastCmdOwned /\ M!OwnResult /\ M!BoundWhenCalled
  /\ McLast /\ McArguments /\ McServer

(* What the proof needs to know of the commands. *)
LEMMA McOpFacts ==
  /\ \A op \in M!Commands :
       /\ op.cmd # NULL /\ op.buffer \in M!Buffers /\ op.end # "mcInitCallback"
       /\ op # M!Bind /\ op # M!InitCall
       /\ op.end = "mcGetInfoApdx" => op = M!GetInfo
       /\ op.end = "mcReadFixAlign" => op = M!Read
  /\ M!Bind.end = "mcInitCallback" /\ M!InitCall.end = "mcInitCallback"
  /\ M!Bind # M!InitCall
  /\ M!GetInfo.buffer = "mcInfoCmd" /\ M!Read.buffer = "mcFileCmd"
  /\ M!GetInfo \in M!Commands /\ M!Read \in M!Commands
  /\ M!GetInfo # M!Read
<1> USE DEF M!Op, M!GetInfo, M!Open, M!Close, M!Seek, M!Read, M!Write, M!Flush, M!Mkdir,
      M!GetDir, M!SetFileInfo, M!Delete, M!Format, M!Unformat, M!GetEntSpace, M!Rename,
      M!Bind, M!InitCall
<1>1. ASSUME NEW op \in M!Commands
      PROVE  /\ op.cmd # NULL /\ op.buffer \in M!Buffers /\ op.end # "mcInitCallback"
             /\ op.end = "mcGetInfoApdx" => op = M!GetInfo
             /\ op.end = "mcReadFixAlign" => op = M!Read
  <2>1. op.cmd # NULL
    BY DriversAssumption
  <2>2. op.buffer \in M!Buffers
    BY DEF M!Commands, M!Buffers
  <2>3. op.end # "mcInitCallback"
    BY DEF M!Commands
  <2>4. op.end = "mcGetInfoApdx" => op = M!GetInfo
    BY DEF M!Commands
  <2>5. op.end = "mcReadFixAlign" => op = M!Read
    BY DEF M!Commands
  <2> QED
    BY ONLY <2>1, <2>2, <2>3, <2>4, <2>5
<1>2. /\ M!Bind.end = "mcInitCallback" /\ M!InitCall.end = "mcInitCallback"
      /\ M!Bind.cmd = "BIND" /\ M!InitCall.cmd = "INIT"
      /\ M!GetInfo.buffer = "mcInfoCmd" /\ M!Read.buffer = "mcFileCmd"
  OBVIOUS
<1>3. M!GetInfo \in M!Commands /\ M!Read \in M!Commands
  BY DEF M!Commands
<1> QED
  BY ONLY <1>1, <1>2, <1>3

(* McInv speaks of all the variables of mc.c, so a step that changes none keeps it. *)
LEMMA McStutter == ASSUME McInv, UNCHANGED M!vars PROVE McInv'
BY DEF McInv, McTypeOK, McCallsTrue, M!LastCmdOwned, McLast, M!OwnResult, M!BoundWhenCalled, M!Inside,
  McArguments, McServer, M!vars

(* The invariant holds when mc.c is loaded. *)
LEMMA McInitInv == M!Init => McInv
<1> SUFFICES ASSUME M!Init PROVE McInv
  OBVIOUS
<1> USE McOpFacts, DriversAssumption DEF M!Init, M!Idle, M!NoReq
<1>1. McTypeOK
  <2>1. M!NoReq \in McReqs /\ M!Idle \in McCalls
    BY DEF McReqs, McCalls
  <2>2. /\ cdata \in [state : {"free", "pending", "lost"}, server : BOOLEAN, req : McReqs]
        /\ mcall \in [Callers -> McCalls]
    BY <2>1
  <2>3. /\ buff \in [M!Buffers -> Callers \cup {NULL}]
        /\ mresult \in [Callers -> SUBSET (Callers \cup {NULL})]
    OBVIOUS
  <2>4. mserved \in BOOLEAN
    BY Zenon
  <2>5. mcInitializeCounter \in 0 .. 2
    OBVIOUS
  <2> QED
    BY ONLY <2>2, <2>3, <2>4, <2>5 DEF McTypeOK
<1>2. McCallsTrue
  BY DEF McCallsTrue
<1>3. M!LastCmdOwned /\ McLast /\ M!OwnResult /\ M!BoundWhenCalled
  BY DEF M!LastCmdOwned, McLast, M!OwnResult, M!BoundWhenCalled, M!Inside
<1>4. McArguments /\ McServer
  BY DEF McArguments, McServer, M!Inside
<1> QED
  BY <1>1, <1>2, <1>3, <1>4 DEF McInv

(* The card type is one of the two mc.c knows. *)
LEMMA McDetectType ==
  ASSUME McInv, NEW t \in Callers, M!DetectType(t) PROVE McInv'
BY DEF McInv, McTypeOK, McCallsTrue, M!LastCmdOwned, McLast, M!OwnResult, M!BoundWhenCalled, M!Inside,
  McArguments, McServer, M!DetectType

(* sbcall_mcinit begins a stage and preserves the invariant. *)
LEMMA McMcInit ==
  ASSUME McInv, NEW t \in Callers, M!McInit(t) PROVE McInv'
<1> USE McOpFacts DEF McInv
<1> PICK op \in {M!Bind, M!InitCall} :
      /\ mcall' = [mcall EXCEPT ![t] = [at |-> "init", op |-> op]]
      /\ op = M!InitCall => mcInitializeCounter = 1
  BY DEF M!McInit
<1>0. mcall[t] = M!Idle /\ UNCHANGED <<mcInitializeCounter, mcType, lastCmd, cdata, buff, rdata,
                 endParameter, mserved, mresult>>
  BY DEF M!McInit
<1>1. McTypeOK'
  BY <1>0 DEF McTypeOK, McCalls, McOps
<1>2. McCallsTrue'
  BY <1>0 DEF McCallsTrue, McTypeOK, M!Idle
<1>3. \A u \in Callers : M!Inside(u)' <=> M!Inside(u)
  BY <1>0 DEF M!Inside, McTypeOK, M!Idle
<1>4. \A u \in Callers : M!Inside(u) => mcall'[u] = mcall[u]
  BY <1>0 DEF M!Inside, McTypeOK, M!Idle
<1>5. M!LastCmdOwned' /\ McLast' /\ M!OwnResult' /\ M!BoundWhenCalled'
  BY <1>0, <1>3, <1>4 DEF M!LastCmdOwned, McLast, M!OwnResult, M!BoundWhenCalled
<1>6. McArguments'
  BY <1>0, <1>3, <1>4 DEF McArguments
<1>7. McServer'
  BY <1>0, <1>3, <1>4 DEF McServer, McTypeOK
<1> QED
  BY <1>1, <1>2, <1>5, <1>6, <1>7

(* A client that is taken belongs to nobody yet: nobody waits. *)
LEMMA McNobodyWaits ==
  ASSUME McInv, cdata.state # "pending", NEW u \in Callers PROVE mcall[u].at # "wait"
BY DEF McInv, McCallsTrue

(* A call that is given up, whose task was not waiting: its command, if it was *)
(* one, is over.                                                               *)
LEMMA McGiveUp ==
  ASSUME McInv, NEW t \in Callers, mcall[t].at \in {"init", "send"},
         mcall' = [mcall EXCEPT ![t] = M!Idle],
         \/ cdata' = cdata
         \/ M!SendFailed(mcall[t].op),
         lastCmd' = IF M!Inside(t) THEN NULL ELSE lastCmd,
         UNCHANGED <<mcInitializeCounter, buff, rdata, endParameter, mserved, mresult>>
  PROVE  McInv'
<1> USE McOpFacts DEF McInv
<1> DEFINE op == mcall[t].op
<1>0. /\ cdata'.state \in {cdata.state, "lost"}
      /\ cdata'.state = "lost" \/ cdata' = cdata
      /\ cdata' = cdata \/ cdata.state = "free"
      /\ cdata'.server => cdata.server
      /\ cdata'.req = cdata.req
      /\ cdata' \in [state : {"free", "pending", "lost"}, server : BOOLEAN, req : McReqs]
  BY DEF M!SendFailed, McTypeOK
<1>1. McTypeOK'
  BY <1>0 DEF McTypeOK, McCalls, M!Idle
<1>2. McCallsTrue'
  BY <1>0 DEF McCallsTrue, McTypeOK, M!Idle
<1>3. \A u \in Callers : M!Inside(u)' <=> M!Inside(u) /\ u # t
  BY DEF M!Inside, McTypeOK, M!Idle
<1>4. \A u \in Callers : u # t => mcall'[u] = mcall[u]
  BY DEF McTypeOK
<1>5. M!LastCmdOwned' /\ McLast'
  BY <1>3, <1>4 DEF M!LastCmdOwned, McLast
<1>6. M!OwnResult' /\ M!BoundWhenCalled'
  BY <1>0 DEF M!OwnResult, M!BoundWhenCalled
<1>7. McArguments'
  BY <1>0, <1>3, <1>4 DEF McArguments
<1>8. McServer'
  BY <1>0, <1>3, <1>4 DEF McServer, McTypeOK, M!Idle
<1> QED
  BY <1>1, <1>2, <1>5, <1>6, <1>7, <1>8

(* A call whose request is on its way. *)
LEMMA McAccepted ==
  ASSUME McInv, NEW t \in Callers, mcall[t].at \in {"init", "send"},
         M!Accepted(t, mcall[t].op), mcall' = [mcall EXCEPT ![t].at = "wait"],
         UNCHANGED <<mcInitializeCounter, lastCmd, buff, rdata, endParameter, mserved, mresult>>
  PROVE  McInv'
<1> USE McOpFacts DEF McInv
<1> DEFINE op == mcall[t].op
<1>0. PICK got \in Callers \cup {NULL} :
      /\ cdata.state = "free" /\ op \in McOps
      /\ cdata'.state = "pending" /\ cdata'.server = IF op = M!Bind THEN FALSE ELSE cdata.server
      /\ cdata'.req = [by |-> t, op |-> op, replied |-> FALSE, got |-> got]
      /\ cdata' = [state |-> "pending", server |-> cdata'.server, req |-> cdata'.req]
      /\ got \in {NULL, t}
      /\ op \notin M!Commands => got = t
  BY DEF M!Accepted, McTypeOK, McOps, McArguments, McCallsTrue, M!Inside
<1>1. McTypeOK'
  <2>1. mcall' \in [Callers -> McCalls]
    BY DEF McTypeOK, McCalls
  <2>2. cdata'.server \in BOOLEAN
    BY <1>0 DEF McTypeOK
  <2>3. cdata'.req \in McReqs
    BY <1>0 DEF McReqs
  <2> QED
    BY <1>0, <2>1, <2>2, <2>3 DEF McTypeOK
<1>2. McCallsTrue'
  BY <1>0, McNobodyWaits DEF McCallsTrue, McTypeOK, McCalls, M!Idle
<1>3. \A u \in Callers : (M!Inside(u)' <=> M!Inside(u)) /\ mcall'[u].op = mcall[u].op
  BY DEF M!Inside, McTypeOK, McCallsTrue, McCalls
<1>4. \A u \in Callers : u # t => mcall'[u] = mcall[u]
  BY DEF McTypeOK
<1>5. M!LastCmdOwned' /\ McLast'
  BY <1>3 DEF M!LastCmdOwned, McLast
<1>6. M!OwnResult'
  BY <1>0 DEF M!OwnResult
<1>7. M!BoundWhenCalled'
  <2>1. op # M!Bind => mcInitializeCounter > 0
    BY DEF McServer, McCallsTrue, M!Inside, McTypeOK
  <2>2. op # M!Bind => cdata.server
    BY <1>0, <2>1 DEF McServer
  <2> QED
    BY <1>0, <2>2, cdata'.req.op = op DEF M!BoundWhenCalled
<1>8. McArguments'
  BY <1>0, <1>3, <1>4 DEF McArguments, M!Inside
<1>9. McServer'
  BY <1>0, <1>3, <1>4 DEF McServer, McTypeOK
<1> QED
  BY <1>1, <1>2, <1>5, <1>6, <1>7, <1>8, <1>9

(* The stage's request preserves it, whether it is accepted or not. *)
LEMMA McMcInitCall ==
  ASSUME McInv, NEW t \in Callers, M!McInitCall(t) PROVE McInv'
<1>1. ~M!Inside(t)
  BY McOpFacts DEF M!McInitCall, M!Inside
<1> QED
  BY <1>1, McGiveUp, McAccepted DEF M!McInitCall, M!Refused

(* SifCallRpc preserves it, whether the request is accepted or not. *)
LEMMA McSend ==
  ASSUME McInv, NEW t \in Callers, M!Send(t) PROVE McInv'
<1>1. M!Inside(t)
  BY DEF M!Send, M!Inside, McInv, McCallsTrue
<1> QED
  BY <1>1, McGiveUp, McAccepted DEF M!Send, M!Refused

(* A command that sets lastCmd preserves it. *)
LEMMA McBegin ==
  ASSUME McInv, NEW t \in Callers, NEW op \in M!Commands, M!Begin(t, op) PROVE McInv'
<1> USE McOpFacts DEF McInv, M!Begin
<1>1. McTypeOK'
  BY DEF McTypeOK, McCalls, McOps
<1>2. McCallsTrue'
  BY DEF McCallsTrue, McTypeOK, M!Idle
<1>3. \A u \in Callers : ~M!Inside(u)
  BY DEF McLast, M!Inside
<1>4. \A u \in Callers : u # t => mcall'[u] = mcall[u]
  BY DEF McTypeOK
<1>5. /\ mcall'[t] = [at |-> "fill", op |-> op]
      /\ \A u \in Callers : M!Inside(u)' <=> u = t
  BY <1>3, <1>4 DEF McTypeOK, M!Inside
<1>6. M!LastCmdOwned' /\ McLast'
  BY <1>5 DEF M!LastCmdOwned, McLast
<1>7. M!OwnResult' /\ M!BoundWhenCalled'
  BY DEF M!OwnResult, M!BoundWhenCalled, McTypeOK
<1>8. McArguments'
  BY <1>5 DEF McArguments
<1>9. McServer'
  BY <1>4, <1>5 DEF McServer, McTypeOK
<1> QED
  BY <1>1, <1>2, <1>6, <1>7, <1>8, <1>9

(* Filling the shared buffer preserves it: the caller has lastCmd. *)
LEMMA McFill ==
  ASSUME McInv, NEW t \in Callers, M!Fill(t) PROVE McInv'
<1> USE McOpFacts DEF McInv, M!Fill
<1>0. mcall[t].op \in M!Commands /\ M!Inside(t)
  BY DEF McCallsTrue, M!Inside
<1>1. McTypeOK'
  BY <1>0 DEF McTypeOK, McCalls, McOps
<1>2. McCallsTrue'
  BY <1>0 DEF McCallsTrue, McTypeOK, McCalls
<1>4. \A u \in Callers : u # t => mcall'[u] = mcall[u]
  BY DEF McTypeOK
<1>5. mcall'[t] = [at |-> "send", op |-> mcall[t].op]
  BY DEF McTypeOK, McCalls
<1>6. \A u \in Callers : (M!Inside(u)' <=> M!Inside(u)) /\ mcall'[u].op = mcall[u].op
  BY <1>0, <1>4, <1>5 DEF M!Inside
<1>7. M!LastCmdOwned' /\ McLast'
  BY <1>6 DEF M!LastCmdOwned, McLast
<1>8. M!OwnResult' /\ M!BoundWhenCalled'
  BY DEF M!OwnResult, M!BoundWhenCalled
<1>9. McArguments'
  <2>1. \A u \in Callers : M!Inside(u) => u = t
    BY <1>0 DEF M!LastCmdOwned, McLast
  <2>2. buff'[mcall[t].op.buffer] = t
    BY <1>0 DEF McTypeOK
  <2> QED
    BY <2>1, <2>2, <1>6 DEF McArguments
<1>10. McServer'
  BY <1>4, <1>5, <1>6 DEF McServer, McTypeOK
<1> QED
  BY <1>1, <1>2, <1>7, <1>8, <1>9, <1>10

(* mcserv registers its server. *)
LEMMA McIopRegister == ASSUME McInv, M!IopRegister PROVE McInv'
BY DEF McInv, McTypeOK, McCallsTrue, M!LastCmdOwned, McLast, M!OwnResult, M!BoundWhenCalled, M!Inside,
  McArguments, McServer, M!IopRegister

(* Steps that change no call and of the request only what was read or answered. *)
LEMMA McRequest ==
  ASSUME McInv, cdata.state = "pending", McTypeOK',
         cdata'.state = "pending", cdata'.server = cdata.server,
         cdata'.req.by = cdata.req.by, cdata'.req.op = cdata.req.op,
         UNCHANGED <<mcInitializeCounter, lastCmd, buff, mcall, mserved, mresult>>
  PROVE  /\ McCallsTrue' /\ M!LastCmdOwned' /\ McLast' /\ M!BoundWhenCalled' /\ McServer'
         /\ \A u \in Callers : M!Inside(u)' <=> M!Inside(u)
<1> USE DEF McInv
<1>1. McCallsTrue'
  BY DEF McCallsTrue
<1>2. \A u \in Callers : M!Inside(u)' <=> M!Inside(u)
  BY DEF M!Inside
<1>3. M!LastCmdOwned' /\ McLast'
  BY <1>2 DEF M!LastCmdOwned, McLast
<1>4. M!BoundWhenCalled'
  BY DEF M!BoundWhenCalled
<1>5. McServer'
  BY <1>2 DEF McServer
<1> QED
  BY <1>1, <1>2, <1>3, <1>4, <1>5

(* The request reaches the IOP with the caller's arguments. *)
LEMMA McDmacRead == ASSUME McInv, M!DmacRead PROVE McInv'
<1> USE McOpFacts DEF M!DmacRead
<1> PICK by, op : by = cdata.req.by /\ op = cdata.req.op
  OBVIOUS
<1>1. /\ by \in Callers /\ mcall[by] = [at |-> "wait", op |-> op]
      /\ op \in M!Commands
  BY NullAssumption, DriversAssumption DEF McInv, McCallsTrue, McArguments, McOps
<1>2. buff[op.buffer] = by
  BY <1>1 DEF McInv, McArguments, M!Inside
<1>3. /\ cdata'.state = "pending" /\ cdata'.server = cdata.server
      /\ cdata'.req = [cdata.req EXCEPT !.got = by]
      /\ cdata' \in [state : {"free", "pending", "lost"}, server : BOOLEAN, req : McReqs]
  BY <1>1, <1>2 DEF McInv, McTypeOK, McReqs
<1>4. /\ cdata'.req.by = by /\ cdata'.req.op = op /\ cdata'.req.got = by
      /\ cdata'.req.replied = cdata.req.replied
  BY <1>3 DEF McInv, McTypeOK, McReqs
<1>5. McTypeOK'
  BY <1>3 DEF McInv, McTypeOK
<1>6. /\ McCallsTrue' /\ M!LastCmdOwned' /\ McLast' /\ M!BoundWhenCalled' /\ McServer'
      /\ \A u \in Callers : M!Inside(u)' <=> M!Inside(u)
  BY <1>3, <1>4, <1>5, McRequest
<1>7. M!OwnResult'
  BY <1>4 DEF McInv, M!OwnResult
<1>8. McArguments'
  BY <1>1, <1>3, <1>4, <1>6, NullAssumption, DriversAssumption DEF McInv, McArguments
<1> QED
  BY <1>5, <1>6, <1>7, <1>8 DEF McInv

(* mcserv answers into the buffer of the one call under way. *)
LEMMA McIopReply == ASSUME McInv, M!IopReply PROVE McInv'
<1> USE McOpFacts DEF M!IopReply
<1> PICK by, op : by = cdata.req.by /\ op = cdata.req.op
  OBVIOUS
<1>1. /\ by \in Callers /\ mcall[by] = [at |-> "wait", op |-> op] /\ cdata.req.got = by
  BY DEF McInv, McCallsTrue, M!OwnResult
<1>3. /\ cdata'.state = "pending" /\ cdata'.server = cdata.server
      /\ cdata'.req = [cdata.req EXCEPT !.replied = TRUE]
      /\ cdata' \in [state : {"free", "pending", "lost"}, server : BOOLEAN, req : McReqs]
  BY <1>1 DEF McInv, McTypeOK, McReqs
<1>4. /\ cdata'.req.by = by /\ cdata'.req.op = op /\ cdata'.req.got = by
  BY <1>1, <1>3 DEF McInv, McTypeOK, McReqs
<1>5. McTypeOK'
  BY <1>3 DEF McInv, McTypeOK
<1>6. /\ McCallsTrue' /\ M!LastCmdOwned' /\ McLast' /\ M!BoundWhenCalled' /\ McServer'
      /\ \A u \in Callers : M!Inside(u)' <=> M!Inside(u)
  BY <1>3, <1>4, <1>5, McRequest
<1>7. M!OwnResult'
  BY <1>4 DEF McInv, M!OwnResult
<1>8. McArguments'
  BY <1>1, <1>3, <1>4, <1>6, NullAssumption, DriversAssumption DEF McInv, McArguments
<1> QED
  BY <1>5, <1>6, <1>7, <1>8 DEF McInv

(* The task whose request ended is idle again, the others are where they were. *)
LEMMA McEnded ==
  ASSUME McInv, cdata.state = "pending", NEW t, t = cdata.req.by,
         cdata'.state = "free", cdata'.req = M!NoReq, cdata'.server \in BOOLEAN,
         cdata' = [state |-> cdata'.state, server |-> cdata'.server, req |-> cdata'.req],
         mcall' = [mcall EXCEPT ![t] = M!Idle],
         mcInitializeCounter' \in 0 .. 2,
         mresult' \in [Callers -> SUBSET (Callers \cup {NULL})],
         UNCHANGED <<buff, mserved>>
  PROVE  /\ t \in Callers /\ mcall[t] = [at |-> "wait", op |-> cdata.req.op]
         /\ cdata.req.op \in McOps
         /\ mcall'[t] = M!Idle /\ ~M!Inside(t)'
         /\ \A u \in Callers : u # t => mcall'[u] = mcall[u] /\ (M!Inside(u)' <=> M!Inside(u))
         /\ McTypeOK' /\ McCallsTrue' /\ M!BoundWhenCalled' /\ McArguments'
<1> USE McOpFacts DEF McInv
<1>1. t \in Callers /\ mcall[t] = [at |-> "wait", op |-> cdata.req.op] /\ cdata.req.op \in McOps
  BY DEF McCallsTrue
<1>2. M!Idle \in McCalls /\ M!NoReq \in McReqs
  BY DEF M!Idle, McCalls, M!NoReq, McReqs
<1>3. McTypeOK'
  BY <1>2 DEF McTypeOK
<1>4. mcall'[t] = M!Idle /\ ~M!Inside(t)'
  BY <1>1 DEF McTypeOK, M!Inside, M!Idle
<1>5. \A u \in Callers : u # t => mcall'[u] = mcall[u] /\ (M!Inside(u)' <=> M!Inside(u))
  BY <1>1 DEF McTypeOK, M!Inside
<1>6. McCallsTrue'
  BY <1>4, <1>5 DEF McCallsTrue, M!Idle
<1>7. M!BoundWhenCalled'
  BY DEF M!BoundWhenCalled
<1>8. McArguments'
  BY <1>4, <1>5 DEF McArguments
<1> QED
  BY <1>1, <1>3, <1>4, <1>5, <1>6, <1>7, <1>8

(* mcInitCallback preserves it: it ends a stage. *)
LEMMA McInitCallback == ASSUME McInv, M!InitCallback PROVE McInv'
<1> USE McOpFacts DEF M!InitCallback
<1> PICK t, op, server : /\ t = cdata.req.by /\ op = cdata.req.op
                         /\ server = IF op = M!Bind THEN mserved ELSE cdata.server
  OBVIOUS
<1>0. cdata.state = "pending" /\ server \in BOOLEAN
  BY DEF McInv, McTypeOK
<1>1. /\ cdata'.state = "free" /\ cdata'.req = M!NoReq /\ cdata'.server = server
      /\ cdata' = [state |-> cdata'.state, server |-> cdata'.server, req |-> cdata'.req]
  OBVIOUS
<1>2. mcInitializeCounter' \in 0 .. 2 /\ mcInitializeCounter' >= mcInitializeCounter
  BY DEF McInv, McTypeOK
<1>3. /\ t \in Callers /\ mcall[t] = [at |-> "wait", op |-> op] /\ op \in McOps
      /\ mcall'[t] = M!Idle /\ ~M!Inside(t)'
      /\ \A u \in Callers : u # t => mcall'[u] = mcall[u] /\ (M!Inside(u)' <=> M!Inside(u))
      /\ McTypeOK' /\ McCallsTrue' /\ M!BoundWhenCalled' /\ McArguments'
  <2>1. mresult' \in [Callers -> SUBSET (Callers \cup {NULL})]
    BY DEF McInv, McTypeOK
  <2>2. mcall' = [mcall EXCEPT ![t] = M!Idle] /\ UNCHANGED <<buff, mserved>>
    OBVIOUS
  <2> HIDE DEF M!InitCallback
  <2> QED
    BY <1>0, <1>1, <1>2, <2>1, <2>2, McEnded
<1>4. op \in {M!Bind, M!InitCall} /\ ~M!Inside(t)
  BY <1>3 DEF McOps, M!Inside
<1>5. mcInitializeCounter < 2 => \A u \in Callers : ~M!Inside(u)
  BY DEF McInv, McServer
<1>6. lastCmd' = lastCmd
  BY <1>5 DEF McInv, McTypeOK, M!LastCmdOwned
<1>7. M!LastCmdOwned' /\ McLast'
  BY <1>3, <1>4, <1>6 DEF McInv, M!LastCmdOwned, McLast
<1>8. M!OwnResult'
  BY <1>1, <1>0 DEF McInv, M!OwnResult
<1>9. McServer'
  <2>1. mcInitializeCounter' > 0 => mserved /\ server
    BY DEF McInv, McServer, M!BoundWhenCalled, McTypeOK
  <2>2. server => mserved
    BY DEF McInv, McServer
  <2>3. \A u \in Callers :
          /\ M!Inside(u)' => mcInitializeCounter' = 2
          /\ mcall'[u].at # "idle" /\ mcall'[u].op = M!InitCall => mcInitializeCounter' > 0
    BY <1>2, <1>3 DEF McInv, McServer, M!Idle, McTypeOK
  <2> QED
    BY <1>1, <2>1, <2>2, <2>3 DEF McServer
<1> QED
  BY <1>3, <1>7, <1>8, <1>9 DEF McInv

(* The end functions of the commands preserve it: they clear lastCmd. *)
LEMMA McCallback == ASSUME McInv, M!Callback PROVE McInv'
<1> USE McOpFacts DEF M!Callback
<1> PICK t, op : t = cdata.req.by /\ op = cdata.req.op
  OBVIOUS
<1>0. cdata.state = "pending" /\ cdata.req.replied
  OBVIOUS
<1>1. /\ cdata'.state = "free" /\ cdata'.req = M!NoReq /\ cdata'.server = cdata.server
      /\ cdata' = [state |-> cdata'.state, server |-> cdata'.server, req |-> cdata'.req]
      /\ cdata'.server \in BOOLEAN
  BY DEF McInv, McTypeOK
<1>2. /\ t \in Callers /\ mcall[t] = [at |-> "wait", op |-> op] /\ op \in M!Commands
      /\ M!Inside(t)
  BY <1>0 DEF McInv, McCallsTrue, McOps, M!Inside
<1>3. /\ rdata = t
      /\ op = M!GetInfo => endParameter = t /\ buff["mcInfoCmd"] = t
      /\ op = M!Read => endParameter = t
  BY <1>0, <1>2 DEF McInv, McArguments
<1>4. /\ mresult' \in [Callers -> SUBSET (Callers \cup {NULL})] /\ mresult'[t] = {t}
      /\ \A u \in Callers : u # t => mresult'[u] = mresult[u]
  <2>0. mresult \in [Callers -> SUBSET (Callers \cup {NULL})] /\ mresult' = M!HandOver(t, op.end)
    BY DEF McInv, McTypeOK
  <2>1. CASE op.end = "mcGetInfoApdx"
    <3>1. mresult' = [mresult EXCEPT ![t] = {t}, ![t] = @ \cup {t}]
      BY <1>2, <1>3, <2>0, <2>1 DEF M!HandOver
    <3> QED
      BY ONLY <3>1, <2>0, <1>2
  <2>2. CASE op.end = "mcReadFixAlign"
    <3>1. mresult' = [mresult EXCEPT ![t] = {t}, ![t] = @ \cup {t}]
      BY <1>2, <1>3, <2>0, <2>2 DEF M!HandOver
    <3> QED
      BY ONLY <3>1, <2>0, <1>2
  <2>3. CASE op.end # "mcGetInfoApdx" /\ op.end # "mcReadFixAlign"
    BY <2>3, <1>2, <1>3, <2>0 DEF M!HandOver
  <2> QED
    BY <2>1, <2>2, <2>3
<1>6. /\ mcall'[t] = M!Idle /\ ~M!Inside(t)'
      /\ \A u \in Callers : u # t => mcall'[u] = mcall[u] /\ (M!Inside(u)' <=> M!Inside(u))
      /\ McTypeOK' /\ McCallsTrue' /\ M!BoundWhenCalled' /\ McArguments'
  <2>1. mcall' = [mcall EXCEPT ![t] = M!Idle] /\ UNCHANGED <<buff, mserved>>
    OBVIOUS
  <2>2. mcInitializeCounter' \in 0 .. 2
    BY DEF McInv, McTypeOK
  <2> HIDE DEF M!Callback
  <2> QED
    BY <1>0, <1>1, <1>4, <2>1, <2>2, McEnded
<1>7. \A u \in Callers : ~M!Inside(u)'
  BY <1>2, <1>6 DEF McInv, M!LastCmdOwned
<1>8. M!LastCmdOwned' /\ McLast'
  BY <1>7 DEF M!LastCmdOwned, McLast
<1>9. M!OwnResult'
  BY <1>1, <1>2, <1>4 DEF McInv, M!OwnResult, McTypeOK
<1>10. McServer'
  BY <1>0, <1>1, <1>2, <1>6 DEF McInv, McServer, M!Idle
<1> QED
  BY <1>6, <1>8, <1>9, <1>10 DEF McInv

(* Every step of mc.c preserves the invariant. *)
LEMMA McNextInv == McInv /\ [M!Next]_(M!vars) => McInv'
BY McStutter, McDetectType, McMcInit, McMcInitCall, McFill, McSend, McBegin, McIopRegister,
   McDmacRead, McIopReply, McInitCallback, McCallback
   DEF M!Next, M!Task, M!Iop, M!Interrupt

-----------------------------------------------------------------------------
(* cdvd.c, ncmd.c, scmd.c *)

CdvdStages == {C!Stage(n) : n \in 0 .. 5}
CdvdOps == C!Commands \cup CdvdStages
CdvdCalls ==
  [at : {"idle", "lock", "check", "prepare", "send", "wait", "woken", "return"},
   op : CdvdOps \cup {NULL}]
CdvdReqs ==
  [by : Callers \cup {NULL}, op : CdvdOps \cup {NULL}, got : Callers \cup {NULL},
   replied : BOOLEAN]
CdvdClients == [state : {"free", "pending", "lost"}, server : BOOLEAN, req : CdvdReqs]

(* The clients that are bound when the stages before n are done. *)
CdvdBound(n) == {C!StageClient[k] : k \in 1 .. n}

CdvdTypeOK ==
  /\ cdvdInitCounter \in 0 .. 6
  /\ bind = CdvdBound(cdvdInitCounter)
  /\ cmutex \in [C!Locks -> BOOLEAN]
  /\ cclient \in [C!Clients -> CdvdClients]
  /\ cbuff \in [C!Locks -> Callers \cup {NULL}]
  /\ recv \in [C!Buffers -> Callers \cup {NULL}]
  /\ ccall \in [Callers -> CdvdCalls]
  /\ late \subseteq Callers

(* A call of cdvdinit belongs to the stage of the moment. *)
CdvdCallsTrue ==
  /\ \A t \in Callers :
       /\ ccall[t].at = "idle" => ccall[t] = C!Idle
       /\ ccall[t].at # "idle" => ccall[t].op \in CdvdOps
       /\ ccall[t].at \in {"lock", "check", "prepare"} => ccall[t].op.lock \in C!Locks
       /\ ccall[t].at # "idle" /\ ccall[t].op \in CdvdStages =>
            /\ t \in InitTasks /\ cdvdInitCounter < 6
            /\ ccall[t].op = C!Stage(cdvdInitCounter)
       /\ ccall[t].at = "wait" => /\ cclient[ccall[t].op.client].state = "pending"
                                  /\ cclient[ccall[t].op.client].req.by = t
       /\ ccall[t].at \in {"woken", "return"} => ccall[t].op.kind = "wait"
  /\ \A c \in C!Clients : cclient[c].state = "pending" =>
       /\ cclient[c].req.by \in Callers /\ cclient[c].req.op \in CdvdOps
       /\ cclient[c].req.op.client = c
       /\ ccall[cclient[c].req.by] = [at |-> "wait", op |-> cclient[c].req.op]

(* Past sbios_tryLock and before sbios_unlock. *)
CdvdHolds(t, l) == ccall[t].at \notin {"idle", "lock", "return"} /\ ccall[t].op.lock = l

(* A call that only has to read its answer, and is not late, has a lock that is *)
(* still free.                                                                   *)
CdvdLate ==
  \A t, u \in Callers :
    ccall[t].at = "return" /\ t \notin late => ~CdvdHolds(u, ccall[t].op.lock)

CdvdLocks ==
  \A l \in C!Locks :
    /\ cmutex[l] <=> \E t \in Callers : CdvdHolds(t, l)
    /\ \A t, u \in Callers : CdvdHolds(t, l) /\ CdvdHolds(u, l) => t = u

CdvdArguments ==
  \A t \in Callers :
    ccall[t].at = "send" /\ ccall[t].op.lock \in C!Locks => cbuff[ccall[t].op.lock] = t

(* The clients of the finished stages have their servers. *)
CdvdServers ==
  /\ \A c \in bind : cclient[c].server
  /\ \A t \in Callers :
       ccall[t].at \in {"send", "wait"} /\ ccall[t].op.kind \in {"cmd", "wait"} =>
         ccall[t].op.client \in bind

CdvdInv ==
  /\ CdvdTypeOK /\ CdvdCallsTrue /\ CdvdLocks /\ CdvdArguments /\ CdvdServers
  /\ CdvdLate /\ C!OwnAnswer

(* The lock that guards a receive buffer. *)
RecvLock(b) == IF b \in {"_rd_intr_data", "nCmdRecvBuff"} THEN "N" ELSE "S"

(* The commands: each has a client, and a lock unless it is the reset. *)
LEMMA CdvdCommandFacts ==
  \A op \in C!Commands :
    /\ op.kind \in {"cmd", "wait", "reset"} /\ op.client \in C!Clients
    /\ op.kind = "reset" => op.lock = C!NONE /\ op.recv = C!NONE
    /\ op.kind # "reset" => op.lock \in C!Locks
    /\ op.recv = C!NONE \/ (op.recv \in C!Buffers /\ op.lock = RecvLock(op.recv))
    /\ op.kind = "wait" => op.recv # C!NONE
<1> USE DEF C!Op, C!Read, C!ReadVideo, C!GetToc, C!Stop, C!ReadRtc, C!WriteRtc, C!GetType,
      C!GetError, C!TrayRequest, C!MMode, C!OpenConfig, C!CloseConfig, C!ReadConfig,
      C!PowerOff, C!DiskReady, C!Reset, C!Commands, C!NONE
<1> TAKE op \in C!Commands
<1>1. op.kind \in {"cmd", "wait", "reset"}
  OBVIOUS
<1>2. op.client \in C!Clients
  BY DEF C!Clients
<1>3. op.kind = "reset" => op.lock = C!NONE /\ op.recv = C!NONE
  OBVIOUS
<1>4. op.kind # "reset" => op.lock \in C!Locks
  BY DEF C!Locks
<1>5. op.recv = C!NONE \/ (op.recv \in C!Buffers /\ op.lock = RecvLock(op.recv))
  BY DEF RecvLock, C!Buffers
<1>6. op.kind = "wait" => op.recv # C!NONE
  OBVIOUS
<1> QED
  BY ONLY <1>1, <1>2, <1>3, <1>4, <1>5, <1>6

(* The stages of cdvdinit, and the lock each takes. *)
LEMMA CdvdStageFacts ==
  ASSUME NEW n \in 0 .. 5
  PROVE  /\ C!Stage(n).kind = IF n = 3 THEN "init" ELSE "bind"
         /\ C!Stage(n).lock = IF n = 4 THEN "N" ELSE "S"
         /\ C!Stage(n).recv = C!NONE
         /\ C!Stage(n).client = C!StageClient[n + 1] /\ C!StageClient[n + 1] \in C!Clients
         /\ C!Stage(n) = C!Stage(0) => n = 0
         /\ C!Stage(n) \in CdvdStages
<1>0. n = 0 \/ n = 1 \/ n = 2 \/ n = 3 \/ n = 4 \/ n = 5
  OBVIOUS
<1>1. /\ C!Stage(n).kind = IF n = 3 THEN "init" ELSE "bind"
      /\ C!Stage(n).lock = IF n = 4 THEN "N" ELSE "S"
      /\ C!Stage(n).recv = C!NONE
  BY <1>0 DEF C!Stage, C!Op, C!NONE
<1>2. C!Stage(n).client = C!StageClient[n + 1] /\ C!StageClient[n + 1] \in C!Clients
  BY <1>0 DEF C!Stage, C!Op, C!StageClient, C!Clients
<1>3. C!Stage(n) = C!Stage(0) => n = 0
  BY <1>0 DEF C!Stage, C!Op
<1> QED
  BY <1>1, <1>2, <1>3 DEF CdvdStages

(* A finished stage adds its client to those that are bound. *)
LEMMA CdvdBoundFacts ==
  ASSUME NEW n \in 0 .. 5
  PROVE  /\ CdvdBound(0) = {} /\ CdvdBound(n) \subseteq C!Clients
         /\ CdvdBound(n + 1) = CdvdBound(n) \cup {C!StageClient[n + 1]}
         /\ C!StageClient[n + 1] \in CdvdBound(n) <=> n = 3
<1>0. n = 0 \/ n = 1 \/ n = 2 \/ n = 3 \/ n = 4 \/ n = 5
  OBVIOUS
<1>1. CdvdBound(0) = {}
  BY DEF CdvdBound
<1>2. CdvdBound(n) \subseteq C!Clients
  BY <1>0 DEF CdvdBound, C!StageClient, C!Clients
<1>3. CdvdBound(n + 1) = CdvdBound(n) \cup {C!StageClient[n + 1]}
  BY <1>0 DEF CdvdBound
<1>4. C!StageClient[n + 1] \in CdvdBound(n) <=> n = 3
  BY <1>0 DEF CdvdBound, C!StageClient
<1> QED
  BY <1>1, <1>2, <1>3, <1>4

(* What is bound are clients. *)
LEMMA CdvdBindClients == ASSUME CdvdInv PROVE bind \subseteq C!Clients
<1>1. PICK n \in 0 .. 6 : n = cdvdInitCounter /\ bind = CdvdBound(n)
  BY DEF CdvdInv, CdvdTypeOK
<1>2. \A k \in 0 .. 5 : C!StageClient[k + 1] \in C!Clients
  BY CdvdStageFacts
<1>3. ASSUME NEW k \in 1 .. n PROVE C!StageClient[k] \in C!Clients
  <2>1. k - 1 \in 0 .. 5 /\ (k - 1) + 1 = k
    OBVIOUS
  <2> QED
    BY <1>2, <2>1
<1> QED
  BY <1>1, <1>3 DEF CdvdBound

(* Commands and stages together; a receive buffer belongs to one lock. *)
LEMMA CdvdOpFacts ==
  /\ \A op \in CdvdOps :
       /\ op \in C!Commands \/ op \in CdvdStages
       /\ op.kind \in {"cmd", "wait", "reset", "bind", "init"} /\ op.client \in C!Clients
       /\ op \in CdvdStages <=> op.kind \in {"bind", "init"}
       /\ op.kind = "reset" => op.lock = C!NONE /\ op.recv = C!NONE
       /\ op.kind # "reset" => op.lock \in C!Locks
       /\ op.recv = C!NONE \/ (op.recv \in C!Buffers /\ op.lock = RecvLock(op.recv))
       /\ op.kind = "wait" => op.recv # C!NONE
  /\ C!NONE \notin C!Locks /\ C!NONE \notin C!Buffers
  /\ C!Commands \subseteq CdvdOps /\ CdvdStages \subseteq CdvdOps
<1>1. ASSUME NEW op \in CdvdStages
      PROVE  /\ op.kind \in {"bind", "init"} /\ op.client \in C!Clients
             /\ op.recv = C!NONE /\ op.lock \in C!Locks
  <2>1. PICK n \in 0 .. 5 : op = C!Stage(n)
    BY DEF CdvdStages
  <2> QED
    BY <2>1, CdvdStageFacts DEF C!Locks
<1>2. C!NONE \notin C!Locks /\ C!NONE \notin C!Buffers
  BY DEF C!NONE, C!Locks, C!Buffers
<1>3. \A op \in CdvdOps : op \in C!Commands \/ op \in CdvdStages
  BY DEF CdvdOps
<1>4. C!Commands \subseteq CdvdOps /\ CdvdStages \subseteq CdvdOps
  BY DEF CdvdOps
<1> QED
  BY ONLY <1>1, <1>2, <1>3, <1>4, CdvdCommandFacts

(* A step of another driver leaves the invariant alone. *)
LEMMA CdvdStutter == ASSUME CdvdInv, UNCHANGED C!vars PROVE CdvdInv'
BY DEF CdvdInv, CdvdTypeOK, CdvdCallsTrue, CdvdLocks, CdvdHolds, CdvdArguments, CdvdServers,
  CdvdLate, C!OwnAnswer, C!vars

(* The invariant holds when cdvd.c is loaded. *)
LEMMA CdvdInitInv == C!Init => CdvdInv
<1> SUFFICES ASSUME C!Init PROVE CdvdInv
  OBVIOUS
<1> USE DEF C!Init
<1>1. C!Idle \in CdvdCalls /\ C!Idle.at = "idle" /\ C!NoReq \in CdvdReqs
  BY DEF C!Idle, CdvdCalls, C!NoReq, CdvdReqs
<1>2. CdvdTypeOK
  <2>1. /\ cclient \in [C!Clients -> CdvdClients]
        /\ ccall \in [Callers -> CdvdCalls]
    BY <1>1 DEF CdvdClients
  <2>2. /\ cbuff \in [C!Locks -> Callers \cup {NULL}]
        /\ recv \in [C!Buffers -> Callers \cup {NULL}]
        /\ cmutex \in [C!Locks -> BOOLEAN]
    OBVIOUS
  <2>3. /\ cdvdInitCounter \in 0 .. 6 /\ bind = CdvdBound(cdvdInitCounter)
        /\ late \subseteq Callers
    BY DEF CdvdBound
  <2> QED
    BY ONLY <2>1, <2>2, <2>3 DEF CdvdTypeOK
<1>3. CdvdCallsTrue
  BY <1>1 DEF CdvdCallsTrue
<1>4. CdvdLocks /\ CdvdArguments /\ CdvdServers /\ CdvdLate /\ C!OwnAnswer
  BY <1>1 DEF CdvdLocks, CdvdHolds, CdvdArguments, CdvdServers, CdvdLate, C!OwnAnswer
<1> QED
  BY <1>2, <1>3, <1>4 DEF CdvdInv

(* What sbios_unlock does to the locks. *)
LEMMA CdvdUnlockFacts ==
  ASSUME CdvdInv, NEW l \in C!Locks \cup {C!NONE}
  PROVE  /\ C!Unlock(l) \in [C!Locks -> BOOLEAN]
         /\ \A k \in C!Locks : C!Unlock(l)[k] <=> cmutex[k] /\ k # l
BY CdvdOpFacts DEF C!Unlock, CdvdInv, CdvdTypeOK

(* Taking the contents of one buffer leaves the others alone. *)
LEMMA CdvdTakenFacts ==
  ASSUME NEW B, C!NONE \notin B, NEW f \in [B -> Callers \cup {NULL}], NEW b \in B \cup {C!NONE}
  PROVE  /\ C!Taken(f, b) \in [B -> Callers \cup {NULL}]
         /\ \A k \in B : k # b => C!Taken(f, b)[k] = f[k]
BY DEF C!Taken

(* The calls that wait for an answer, and the client they wait for. *)
LEMMA CdvdWaits ==
  ASSUME CdvdInv, NEW c \in C!Clients, cclient[c].state = "pending"
  PROVE  \E t \in Callers, op \in CdvdOps :
           /\ t = cclient[c].req.by /\ op = cclient[c].req.op /\ op.client = c
           /\ ccall[t] = [at |-> "wait", op |-> op]
           /\ op \in CdvdStages => /\ t \in InitTasks /\ cdvdInitCounter \in 0 .. 5
                                   /\ op = C!Stage(cdvdInitCounter)
<1>1. PICK t, op : t = cclient[c].req.by /\ op = cclient[c].req.op
  OBVIOUS
<1>2. t \in Callers /\ op \in CdvdOps /\ op.client = c /\ ccall[t] = [at |-> "wait", op |-> op]
  BY <1>1 DEF CdvdInv, CdvdCallsTrue
<1>3. op \in CdvdStages => /\ t \in InitTasks /\ cdvdInitCounter < 6
                           /\ op = C!Stage(cdvdInitCounter)
  BY <1>2 DEF CdvdInv, CdvdCallsTrue
<1> QED
  BY <1>1, <1>2, <1>3 DEF CdvdInv, CdvdTypeOK

(* A stage binds a client that no finished stage has bound. *)
LEMMA CdvdBindsNew ==
  ASSUME CdvdInv, NEW t \in Callers, ccall[t].at # "idle", ccall[t].op.kind = "bind"
  PROVE  ccall[t].op.client \notin bind
<1>1. PICK op \in CdvdOps : op = ccall[t].op
  BY DEF CdvdInv, CdvdCallsTrue
<1>2. op \in CdvdStages
  BY <1>1, CdvdOpFacts
<1>3. PICK n \in 0 .. 5 : n = cdvdInitCounter /\ op = C!Stage(n)
  BY <1>1, <1>2 DEF CdvdInv, CdvdCallsTrue, CdvdTypeOK
<1>4. op.client = C!StageClient[n + 1] /\ n # 3
  BY <1>1, <1>3, CdvdStageFacts
<1> QED
  BY <1>1, <1>3, <1>4, CdvdBoundFacts DEF CdvdInv, CdvdTypeOK

(* Two answered requests for the same buffer are the same: their calls hold its *)
(* lock.                                                                        *)
LEMMA CdvdBufferOwned ==
  ASSUME CdvdInv, NEW c \in C!Clients, cclient[c].state = "pending",
         cclient[c].req.op.recv # C!NONE,
         NEW u \in Callers, ccall[u].at \in {"wait", "woken"},
         ccall[u].op.recv = cclient[c].req.op.recv
  PROVE  cclient[c].req.by = u
<1>1. PICK t \in Callers, op \in CdvdOps :
           /\ t = cclient[c].req.by /\ op = cclient[c].req.op /\ op.client = c
           /\ ccall[t] = [at |-> "wait", op |-> op]
           /\ op \in CdvdStages => /\ t \in InitTasks /\ cdvdInitCounter \in 0 .. 5
                                   /\ op = C!Stage(cdvdInitCounter)
  BY CdvdWaits, Zenon
<1>2. PICK o : o = ccall[u].op
  OBVIOUS
<1>3. o \in CdvdOps /\ o.recv = op.recv /\ op.recv # C!NONE
  BY <1>1, <1>2 DEF CdvdInv, CdvdCallsTrue
<1>4. /\ op.recv \in C!Buffers /\ op.lock = RecvLock(op.recv)
      /\ o.recv \in C!Buffers /\ o.lock = RecvLock(o.recv)
  BY ONLY op \in CdvdOps, <1>3, CdvdOpFacts
<1>5. op.lock = o.lock /\ op.lock \in C!Locks
  BY ONLY op \in CdvdOps, <1>3, <1>4, CdvdOpFacts
<1>6. CdvdHolds(t, op.lock) /\ CdvdHolds(u, op.lock)
  BY <1>1, <1>2, <1>5 DEF CdvdHolds
<1> QED
  BY <1>1, <1>5, <1>6 DEF CdvdInv, CdvdLocks

(* No request is under way for the buffer a call that is not late has to read. *)
LEMMA CdvdReturnOwned ==
  ASSUME CdvdInv, NEW c \in C!Clients, cclient[c].state = "pending",
         cclient[c].req.op.recv # C!NONE,
         NEW u \in Callers, ccall[u].at = "return", u \notin late
  PROVE  ccall[u].op.recv # cclient[c].req.op.recv
<1>1. PICK t \in Callers, op \in CdvdOps :
           /\ t = cclient[c].req.by /\ op = cclient[c].req.op /\ op.client = c
           /\ ccall[t] = [at |-> "wait", op |-> op]
           /\ op \in CdvdStages => /\ t \in InitTasks /\ cdvdInitCounter \in 0 .. 5
                                   /\ op = C!Stage(cdvdInitCounter)
  BY CdvdWaits, Zenon
<1>2. PICK o : o = ccall[u].op
  OBVIOUS
<1>3. o \in CdvdOps /\ o.kind = "wait" /\ op.recv # C!NONE
  BY <1>1, <1>2 DEF CdvdInv, CdvdCallsTrue
<1>4. op.lock = RecvLock(op.recv) /\ o.lock = RecvLock(o.recv)
  BY ONLY op \in CdvdOps, <1>3, CdvdOpFacts
<1>5. CdvdHolds(t, op.lock)
  BY <1>1 DEF CdvdHolds
<1>6. ~CdvdHolds(t, o.lock)
  BY <1>2 DEF CdvdInv, CdvdLate
<1> QED
  BY <1>1, <1>2, <1>4, <1>5, <1>6

(* A call begins: it waits for its lock, or is a reset, which has none. *)
LEMMA CdvdBegins ==
  ASSUME CdvdInv, NEW t \in Callers, NEW op \in CdvdOps, ccall[t] = C!Idle,
         ccall' = [ccall EXCEPT ![t] =
                     [at |-> IF op.kind = "reset" THEN "send" ELSE "lock", op |-> op]],
         op \in CdvdStages =>
           t \in InitTasks /\ cdvdInitCounter < 6 /\ op = C!Stage(cdvdInitCounter),
         UNCHANGED <<cdvdInitCounter, bind, cmutex, cclient, cbuff, recv, late>>
  PROVE  CdvdInv'
<1>1. PICK at \in {"send", "lock"} :
        /\ at = IF op.kind = "reset" THEN "send" ELSE "lock"
        /\ ccall' = [ccall EXCEPT ![t] = [at |-> at, op |-> op]]
  OBVIOUS
<1>2. /\ ccall'[t] = [at |-> at, op |-> op]
      /\ \A u \in Callers : u # t => ccall'[u] = ccall[u]
      /\ ccall' \in [Callers -> CdvdCalls] /\ ccall[t].at = "idle"
  BY <1>1 DEF CdvdInv, CdvdTypeOK, CdvdCalls, C!Idle
<1>3. /\ at = "lock" => op.lock \in C!Locks
      /\ at = "send" => op.lock \notin C!Locks /\ op.kind = "reset"
  BY <1>1, CdvdOpFacts
<1>4. CdvdTypeOK'
  BY <1>2 DEF CdvdInv, CdvdTypeOK
<1>5. CdvdCallsTrue'
  BY <1>2, <1>3 DEF CdvdInv, CdvdCallsTrue
<1>6. \A u \in Callers, l \in C!Locks : CdvdHolds(u, l)' <=> CdvdHolds(u, l)
  BY <1>2, <1>3 DEF CdvdHolds
<1>7. CdvdLocks'
  BY <1>6 DEF CdvdInv, CdvdLocks
<1>8. CdvdArguments' /\ CdvdServers'
  BY <1>2, <1>3 DEF CdvdInv, CdvdArguments, CdvdServers
<1>9. C!OwnAnswer'
  BY <1>2 DEF CdvdInv, C!OwnAnswer
<1>10. CdvdLate'
  <2>1. ASSUME NEW u \in Callers, NEW v \in Callers, ccall'[u].at = "return", u \notin late'
        PROVE  ~CdvdHolds(v, ccall[u].op.lock)'
    <3>1. u # t /\ ccall'[u] = ccall[u] /\ u \notin late
      BY <1>2, <2>1
    <3>2. ~CdvdHolds(v, ccall[u].op.lock) /\ ccall[u].op \in CdvdOps /\ ccall[u].op.kind = "wait"
      BY <2>1, <3>1 DEF CdvdInv, CdvdLate, CdvdCallsTrue
    <3>3. ccall[u].op.lock \in C!Locks
      BY ONLY <3>2, CdvdOpFacts
    <3> QED
      BY <1>6, <3>1, <3>2, <3>3 DEF CdvdHolds
  <2> QED
    BY <2>1 DEF CdvdLate
<1> QED
  BY <1>4, <1>5, <1>7, <1>8, <1>9, <1>10 DEF CdvdInv

(* sbcall_cdvdinit begins the stage of the moment. *)
LEMMA CdvdInit == ASSUME CdvdInv, NEW t \in Callers, C!CdvdInit(t) PROVE CdvdInv'
<1>1. PICK n \in 0 .. 5 : n = cdvdInitCounter
  BY DEF C!CdvdInit, CdvdInv, CdvdTypeOK
<1>2. PICK op : op = C!Stage(n)
  OBVIOUS
<1>3. op \in CdvdStages /\ op \in CdvdOps /\ op.kind # "reset"
  BY <1>2, CdvdStageFacts, CdvdOpFacts
<1>4. /\ ccall[t] = C!Idle /\ t \in InitTasks
      /\ ccall' = [ccall EXCEPT ![t] = [at |-> "lock", op |-> op]]
      /\ UNCHANGED <<cdvdInitCounter, bind, cmutex, cclient, cbuff, recv, late>>
  BY <1>1, <1>2 DEF C!CdvdInit
<1>5. op = C!Stage(cdvdInitCounter) /\ cdvdInitCounter < 6
  BY <1>1, <1>2
<1>6. ccall' = [ccall EXCEPT ![t] =
                  [at |-> IF op.kind = "reset" THEN "send" ELSE "lock", op |-> op]]
  BY <1>3, <1>4
<1> QED
  BY ONLY CdvdInv, <1>3, <1>4, <1>5, <1>6, CdvdBegins

(* A command begins. *)
LEMMA CdvdCommand ==
  ASSUME CdvdInv, NEW t \in Callers, NEW op \in C!Commands, C!Command(t, op) PROVE CdvdInv'
<1>1. op \in CdvdOps /\ op \notin CdvdStages
  BY CdvdOpFacts, CdvdCommandFacts
<1> QED
  BY <1>1, CdvdBegins DEF C!Command

(* A call that is not waiting ends: with the lock given back, if it had one,   *)
(* its client lost, if the request was, and what it wrote forgotten.           *)
LEMMA CdvdGiveBack ==
  ASSUME CdvdInv, NEW t \in Callers, NEW op, op = ccall[t].op,
         ccall[t].at \in {"lock", "check", "prepare", "send"},
         ccall' = [ccall EXCEPT ![t] = C!Idle],
         cmutex' = IF ccall[t].at = "lock" THEN cmutex ELSE C!Unlock(op.lock),
         \/ cclient' = cclient
         \/ /\ ccall[t].at = "send" /\ cclient[op.client].state = "free"
            /\ cclient' = [cclient EXCEPT ![op.client].state = "lost",
                                          ![op.client].server = @ /\ op.kind # "bind"],
         cbuff' = cbuff \/ (cbuff' = C!Taken(cbuff, op.lock) /\ ccall[t].at = "send"),
         UNCHANGED <<cdvdInitCounter, bind, recv, late>>
  PROVE  CdvdInv'
<1> PICK at : at = ccall[t].at
  OBVIOUS
<1>0. /\ op \in CdvdOps /\ op.lock \in C!Locks \cup {C!NONE} /\ op.recv \in C!Buffers \cup {C!NONE}
      /\ op.client \in C!Clients
      /\ at = "lock" => op.lock \in C!Locks
  BY CdvdOpFacts DEF CdvdInv, CdvdCallsTrue
<1>1. /\ ccall'[t] = C!Idle /\ C!Idle.at = "idle"
      /\ \A u \in Callers : u # t => ccall'[u] = ccall[u]
      /\ ccall' \in [Callers -> CdvdCalls]
  BY DEF CdvdInv, CdvdTypeOK, CdvdCalls, C!Idle
<1>2. /\ cclient' \in [C!Clients -> CdvdClients]
      /\ \A c \in C!Clients :
           /\ cclient'[c].req = cclient[c].req
           /\ cclient'[c].state = "pending" <=> cclient[c].state = "pending"
           /\ c # op.client \/ op.kind # "bind" => cclient'[c].server = cclient[c].server
  <2>1. CASE cclient' = cclient
    BY <2>1 DEF CdvdInv, CdvdTypeOK
  <2>2. CASE /\ ccall[t].at = "send" /\ cclient[op.client].state = "free"
             /\ cclient' = [cclient EXCEPT ![op.client].state = "lost",
                                          ![op.client].server = @ /\ op.kind # "bind"]
    <3>1. PICK c0 \in C!Clients : c0 = op.client
      BY <1>0
    <3>2. PICK sv \in BOOLEAN : /\ sv = (cclient[c0].server /\ op.kind # "bind")
                                /\ op.kind # "bind" => sv = cclient[c0].server
      BY <3>1 DEF CdvdInv, CdvdTypeOK, CdvdClients
    <3>3. cclient \in [C!Clients -> CdvdClients]
      BY DEF CdvdInv, CdvdTypeOK
    <3>4. /\ cclient' \in [C!Clients -> CdvdClients]
          /\ cclient'[c0].state = "lost" /\ cclient'[c0].req = cclient[c0].req
          /\ cclient'[c0].server = (cclient[c0].server /\ op.kind # "bind")
          /\ \A c \in C!Clients : c # c0 => cclient'[c] = cclient[c]
      BY ONLY <2>2, <3>1, <3>3 DEF CdvdClients
    <3>5. op.kind # "bind" => cclient'[c0].server = cclient[c0].server
      BY <3>2, <3>4
    <3>6. ASSUME NEW c \in C!Clients
          PROVE  /\ cclient'[c].req = cclient[c].req
                 /\ cclient'[c].state = "pending" <=> cclient[c].state = "pending"
                 /\ c # c0 \/ op.kind # "bind" => cclient'[c].server = cclient[c].server
      BY ONLY <3>1, <3>4, <3>5, <3>6, <2>2
    <3> QED
      BY <2>2, <3>1, <3>4, <3>6
  <2> QED
    BY <2>1, <2>2
<1>3. /\ cmutex' \in [C!Locks -> BOOLEAN]
      /\ \A l \in C!Locks : cmutex'[l] <=> cmutex[l] /\ ~CdvdHolds(t, l)
  <2>1. CASE at = "lock"
    BY <2>1 DEF CdvdInv, CdvdTypeOK, CdvdHolds
  <2>2. CASE at # "lock"
    BY <1>0, <2>2, CdvdUnlockFacts DEF CdvdHolds
  <2> QED
    BY <2>1, <2>2
<1>4. \A u \in Callers, l \in C!Locks : CdvdHolds(u, l)' <=> CdvdHolds(u, l) /\ u # t
  BY <1>1 DEF CdvdHolds
<1>5. CdvdLocks'
  BY <1>3, <1>4 DEF CdvdInv, CdvdLocks
<1>6. /\ cbuff' \in [C!Locks -> Callers \cup {NULL}]
      /\ \A l \in C!Locks : l # op.lock \/ at # "send" => cbuff'[l] = cbuff[l]
  BY <1>0, CdvdTakenFacts, CdvdOpFacts DEF CdvdInv, CdvdTypeOK
<1>8. CdvdTypeOK'
  BY <1>1, <1>2, <1>3, <1>6 DEF CdvdInv, CdvdTypeOK
<1>9. \A c \in C!Clients : cclient[c].state = "pending" => cclient[c].req.by # t
  <2>1. SUFFICES ASSUME NEW c \in C!Clients, cclient[c].state = "pending", cclient[c].req.by = t
                 PROVE  FALSE
    OBVIOUS
  <2>2. ccall[t] = [at |-> "wait", op |-> cclient[c].req.op]
    BY <2>1 DEF CdvdInv, CdvdCallsTrue
  <2> QED
    BY <2>2
<1>10. CdvdCallsTrue'
  <2>1. ASSUME NEW u \in Callers
        PROVE  /\ ccall'[u].at = "idle" => ccall'[u] = C!Idle
               /\ ccall'[u].at # "idle" => u # t /\ ccall'[u] = ccall[u]
    BY <1>1 DEF CdvdInv, CdvdCallsTrue
  <2>2. ASSUME NEW u \in Callers, ccall[u].at = "wait"
        PROVE  /\ cclient'[ccall[u].op.client].state = "pending"
               /\ cclient'[ccall[u].op.client].req.by = u
    <3>1. ccall[u].op \in CdvdOps /\ cclient[ccall[u].op.client].state = "pending"
          /\ cclient[ccall[u].op.client].req.by = u
      BY <2>2 DEF CdvdInv, CdvdCallsTrue
    <3>2. ccall[u].op.client \in C!Clients
      BY ONLY <3>1, CdvdOpFacts
    <3> QED
      BY ONLY <1>2, <3>1, <3>2
  <2>3. ASSUME NEW c \in C!Clients, cclient'[c].state = "pending"
        PROVE  /\ cclient'[c].req.by \in Callers /\ cclient'[c].req.op \in CdvdOps
               /\ cclient'[c].req.op.client = c
               /\ ccall'[cclient'[c].req.by] = [at |-> "wait", op |-> cclient'[c].req.op]
    <3>1. cclient[c].state = "pending" /\ cclient'[c].req = cclient[c].req
      BY <1>2, <2>3
    <3>2. /\ cclient[c].req.by \in Callers /\ cclient[c].req.op \in CdvdOps
          /\ cclient[c].req.op.client = c
          /\ ccall[cclient[c].req.by] = [at |-> "wait", op |-> cclient[c].req.op]
      BY <3>1 DEF CdvdInv, CdvdCallsTrue
    <3> QED
      BY ONLY <1>1, <1>9, <3>1, <3>2
  <2>4. ASSUME NEW u \in Callers, ccall'[u].at # "idle"
        PROVE  /\ ccall'[u].op \in CdvdOps
               /\ ccall'[u].at \in {"lock", "check", "prepare"} => ccall'[u].op.lock \in C!Locks
               /\ ccall'[u].op \in CdvdStages =>
                    /\ u \in InitTasks /\ cdvdInitCounter' < 6
                    /\ ccall'[u].op = C!Stage(cdvdInitCounter')
               /\ ccall'[u].at \in {"woken", "return"} => ccall'[u].op.kind = "wait"
    <3>1. ccall'[u] = ccall[u] /\ cdvdInitCounter' = cdvdInitCounter
      BY <2>1, <2>4
    <3>2. /\ ccall[u].op \in CdvdOps
          /\ ccall[u].at \in {"lock", "check", "prepare"} => ccall[u].op.lock \in C!Locks
          /\ ccall[u].op \in CdvdStages =>
               /\ u \in InitTasks /\ cdvdInitCounter < 6
               /\ ccall[u].op = C!Stage(cdvdInitCounter)
          /\ ccall[u].at \in {"woken", "return"} => ccall[u].op.kind = "wait"
      BY <2>4, <3>1 DEF CdvdInv, CdvdCallsTrue
    <3> QED
      BY ONLY <3>1, <3>2
  <2> QED
    BY ONLY <2>1, <2>2, <2>3, <2>4 DEF CdvdCallsTrue
<1>11. CdvdArguments'
  <2>1. ASSUME NEW u \in Callers, ccall'[u].at = "send", ccall'[u].op.lock \in C!Locks
        PROVE  cbuff'[ccall'[u].op.lock] = u
    <3>1. u # t /\ ccall'[u] = ccall[u] /\ cbuff[ccall[u].op.lock] = u
      BY <1>1, <2>1 DEF CdvdInv, CdvdArguments
    <3>2. at = "send" => ccall[u].op.lock # op.lock
      BY <2>1, <3>1 DEF CdvdInv, CdvdLocks, CdvdHolds
    <3> QED
      BY <1>6, <2>1, <3>1, <3>2
  <2> QED
    BY <2>1 DEF CdvdArguments
<1>12. CdvdServers'
  <2>1. ASSUME NEW c \in bind PROVE cclient'[c].server
    <3>1. c \in C!Clients /\ cclient[c].server
      BY CdvdBindClients DEF CdvdInv, CdvdServers
    <3>2. op.kind = "bind" => op.client \notin bind
      BY <1>0, CdvdBindsNew
    <3> QED
      BY <1>2, <3>1, <3>2
  <2> QED
    BY <1>1, <2>1 DEF CdvdInv, CdvdServers
<1>13. C!OwnAnswer'
  BY <1>1, <1>2 DEF CdvdInv, C!OwnAnswer
<1>14. CdvdLate'
  <2>1. ASSUME NEW u \in Callers, NEW v \in Callers, ccall'[u].at = "return", u \notin late'
        PROVE  ~CdvdHolds(v, ccall[u].op.lock)'
    <3>1. u # t /\ ccall'[u] = ccall[u] /\ u \notin late
      BY <1>1, <2>1
    <3>2. ~CdvdHolds(v, ccall[u].op.lock) /\ ccall[u].op \in CdvdOps /\ ccall[u].op.kind = "wait"
      BY <2>1, <3>1 DEF CdvdInv, CdvdLate, CdvdCallsTrue
    <3>3. ccall[u].op.lock \in C!Locks
      BY ONLY <3>2, CdvdOpFacts
    <3> QED
      BY <1>4, <3>1, <3>2, <3>3 DEF CdvdHolds
  <2> QED
    BY <2>1 DEF CdvdLate
<1> QED
  BY <1>5, <1>8, <1>10, <1>11, <1>12, <1>13, <1>14 DEF CdvdInv

(* A call goes a step towards its request: it takes its lock, finds the client  *)
(* free or writes its arguments.                                                *)
LEMMA CdvdAdvances ==
  ASSUME CdvdInv, NEW t \in Callers, NEW op, op = ccall[t].op,
         ccall[t].at \in {"lock", "check", "prepare"},
         NEW at2 \in {"check", "prepare", "send"},
         ccall' = [ccall EXCEPT ![t].at = at2],
         \/ /\ ccall[t].at = "lock" /\ ~cmutex[op.lock] /\ cmutex' = C!Lock(op.lock)
            /\ late' = late \cup C!Returning(op.lock)
         \/ ccall[t].at # "lock" /\ cmutex' = cmutex /\ late' = late,
         \/ at2 # "send" /\ cbuff' = cbuff
         \/ /\ at2 = "send" /\ ccall[t].at = "prepare"
            /\ cbuff' = [cbuff EXCEPT ![op.lock] = t]
            /\ op.kind \in {"cmd", "wait"} => op.client \in bind,
         UNCHANGED <<cdvdInitCounter, bind, cclient, recv>>
  PROVE  CdvdInv'
<1> PICK at : at = ccall[t].at
  OBVIOUS
<1>0. op \in CdvdOps /\ op.lock \in C!Locks /\ at \in {"lock", "check", "prepare"}
  BY DEF CdvdInv, CdvdCallsTrue
<1>1. /\ ccall'[t].at = at2 /\ ccall'[t].op = op
      /\ \A u \in Callers : u # t => ccall'[u] = ccall[u]
      /\ ccall' \in [Callers -> CdvdCalls]
  BY DEF CdvdInv, CdvdTypeOK, CdvdCalls
<1>2. /\ cmutex' \in [C!Locks -> BOOLEAN]
      /\ \A l \in C!Locks : cmutex'[l] <=> cmutex[l] \/ l = op.lock
  <2>1. CASE ccall[t].at = "lock" /\ ~cmutex[op.lock] /\ cmutex' = C!Lock(op.lock)
    BY <1>0, <2>1 DEF C!Lock, CdvdInv, CdvdTypeOK
  <2>2. CASE ccall[t].at # "lock" /\ cmutex' = cmutex
    <3>1. CdvdHolds(t, op.lock)
      BY <2>2 DEF CdvdHolds
    <3> QED
      BY <1>0, <2>2, <3>1 DEF CdvdInv, CdvdTypeOK, CdvdLocks
  <2> QED
    BY <2>1, <2>2
<1>3. \A u \in Callers, l \in C!Locks : CdvdHolds(u, l)' <=> CdvdHolds(u, l) \/ (u = t /\ l = op.lock)
  BY <1>1 DEF CdvdHolds
<1>4. \A u \in Callers : CdvdHolds(u, op.lock) => u = t
  <2>1. CASE at = "lock"
    BY <1>0, <2>1 DEF CdvdInv, CdvdLocks
  <2>2. CASE at # "lock"
    <3>1. CdvdHolds(t, op.lock)
      BY <2>2 DEF CdvdHolds
    <3> QED
      BY <1>0, <3>1 DEF CdvdInv, CdvdLocks
  <2> QED
    BY <2>1, <2>2
<1>5. CdvdLocks'
  BY <1>0, <1>2, <1>3, <1>4 DEF CdvdInv, CdvdLocks
<1>6. /\ cbuff' \in [C!Locks -> Callers \cup {NULL}]
      /\ \A l \in C!Locks : l # op.lock \/ at2 # "send" => cbuff'[l] = cbuff[l]
      /\ at2 = "send" => cbuff'[op.lock] = t
  BY <1>0 DEF CdvdInv, CdvdTypeOK
<1>7. CdvdTypeOK'
  <2>1. late' \subseteq Callers
    BY DEF C!Returning, CdvdInv, CdvdTypeOK
  <2> QED
    BY <1>1, <1>2, <1>6, <2>1 DEF CdvdInv, CdvdTypeOK
<1>8. \A c \in C!Clients : cclient[c].state = "pending" => cclient[c].req.by # t
  <2>1. SUFFICES ASSUME NEW c \in C!Clients, cclient[c].state = "pending", cclient[c].req.by = t
                 PROVE  FALSE
    OBVIOUS
  <2>2. ccall[t] = [at |-> "wait", op |-> cclient[c].req.op]
    BY <2>1 DEF CdvdInv, CdvdCallsTrue
  <2> QED
    BY <2>2
<1>9. CdvdCallsTrue'
  <2>1. ASSUME NEW u \in Callers, u # t
        PROVE  /\ ccall'[u].at = "idle" => ccall'[u] = C!Idle
               /\ ccall'[u].at # "idle" => ccall'[u].op \in CdvdOps
               /\ ccall'[u].at \in {"lock", "check", "prepare"} => ccall'[u].op.lock \in C!Locks
               /\ ccall'[u].at # "idle" /\ ccall'[u].op \in CdvdStages =>
                    /\ u \in InitTasks /\ cdvdInitCounter' < 6
                    /\ ccall'[u].op = C!Stage(cdvdInitCounter')
               /\ ccall'[u].at = "wait" => /\ cclient'[ccall'[u].op.client].state = "pending"
                                           /\ cclient'[ccall'[u].op.client].req.by = u
               /\ ccall'[u].at \in {"woken", "return"} => ccall'[u].op.kind = "wait"
    <3>1. ccall'[u] = ccall[u]
      BY <1>1, <2>1
    <3> QED
      BY <3>1 DEF CdvdInv, CdvdCallsTrue
  <2>2. op \in CdvdStages => t \in InitTasks /\ cdvdInitCounter < 6 /\ op = C!Stage(cdvdInitCounter)
    BY DEF CdvdInv, CdvdCallsTrue
  <2>3. ASSUME NEW c \in C!Clients, cclient'[c].state = "pending"
        PROVE  /\ cclient'[c].req.by \in Callers /\ cclient'[c].req.op \in CdvdOps
               /\ cclient'[c].req.op.client = c
               /\ ccall'[cclient'[c].req.by] = [at |-> "wait", op |-> cclient'[c].req.op]
    BY <1>1, <1>8, <2>3 DEF CdvdInv, CdvdCallsTrue
  <2> QED
    BY <1>0, <1>1, <2>1, <2>2, <2>3 DEF CdvdCallsTrue
<1>10. CdvdArguments'
  <2>1. ASSUME NEW u \in Callers, u # t, ccall'[u].at = "send", ccall'[u].op.lock \in C!Locks
        PROVE  cbuff'[ccall'[u].op.lock] = u
    <3>1. ccall'[u] = ccall[u] /\ cbuff[ccall[u].op.lock] = u
      BY <1>1, <2>1 DEF CdvdInv, CdvdArguments
    <3>2. CdvdHolds(u, ccall[u].op.lock)
      BY <2>1, <3>1 DEF CdvdHolds
    <3> QED
      BY <1>4, <1>6, <2>1, <3>1, <3>2
  <2> QED
    BY <1>1, <1>6, <2>1 DEF CdvdArguments
<1>11. CdvdServers'
  BY <1>1 DEF CdvdInv, CdvdServers
<1>12. C!OwnAnswer'
  <2>1. late \subseteq late'
    OBVIOUS
  <2> QED
    BY <1>1, <2>1 DEF CdvdInv, C!OwnAnswer
<1>13. CdvdLate'
  <2>1. ASSUME NEW u \in Callers, NEW v \in Callers, ccall'[u].at = "return", u \notin late'
        PROVE  ~CdvdHolds(v, ccall[u].op.lock)'
    <3>1. u # t /\ ccall'[u] = ccall[u] /\ u \notin late
      BY <1>1, <2>1
    <3>2. ~CdvdHolds(v, ccall[u].op.lock) /\ ccall[u].op \in CdvdOps /\ ccall[u].op.kind = "wait"
      BY <2>1, <3>1 DEF CdvdInv, CdvdLate, CdvdCallsTrue
    <3>3. ccall[u].op.lock \in C!Locks
      BY ONLY <3>2, CdvdOpFacts
    <3>4. ccall[u].op.lock # op.lock \/ v # t
      <4>1. CASE at = "lock"
        <5>1. late' = late \cup C!Returning(op.lock)
          BY <4>1
        <5> QED
          BY <2>1, <3>1, <5>1 DEF C!Returning
      <4>2. CASE at # "lock"
        <5>1. CdvdHolds(t, op.lock)
          BY <1>0, <4>2 DEF CdvdHolds
        <5> QED
          BY <2>1, <3>1, <5>1 DEF CdvdInv, CdvdLate
      <4> QED
        BY <4>1, <4>2
    <3> QED
      BY <1>3, <3>1, <3>2, <3>3, <3>4 DEF CdvdHolds
  <2> QED
    BY <2>1 DEF CdvdLate
<1> QED
  BY <1>5, <1>7, <1>9, <1>10, <1>11, <1>12, <1>13 DEF CdvdInv

(* sbios_tryLock takes the lock or the call ends. *)
LEMMA CdvdTryLock == ASSUME CdvdInv, NEW t \in Callers, C!TryLock(t) PROVE CdvdInv'
<1>1. PICK op : op = ccall[t].op
  OBVIOUS
<1>2. CASE cmutex[op.lock]
  BY <1>1, <1>2, CdvdGiveBack DEF C!TryLock
<1>3. CASE ~cmutex[op.lock]
  <2>1. PICK at2 \in {"check", "prepare", "send"} : at2 = "check"
    OBVIOUS
  <2> QED
    BY <1>1, <1>3, <2>1, CdvdAdvances DEF C!TryLock
<1> QED
  BY <1>2, <1>3

(* A client in use sends the caller away, with the lock given back. *)
LEMMA CdvdCheckStat == ASSUME CdvdInv, NEW t \in Callers, C!CheckStat(t) PROVE CdvdInv'
<1>1. PICK op : op = ccall[t].op
  OBVIOUS
<1>2. CASE cclient[C!Checked(op.lock)].state = "pending"
  BY <1>1, <1>2, CdvdGiveBack DEF C!CheckStat
<1>3. CASE cclient[C!Checked(op.lock)].state # "pending"
  <2>1. PICK at2 \in {"check", "prepare", "send"} : at2 = "prepare"
    OBVIOUS
  <2> QED
    BY <1>1, <1>3, <2>1, CdvdAdvances DEF C!CheckStat
<1> QED
  BY <1>2, <1>3

(* Stage 0 forgets binds of which there are none yet. *)
LEMMA CdvdPrepare == ASSUME CdvdInv, NEW t \in Callers, C!Prepare(t) PROVE CdvdInv'
<1>1. PICK op : op = ccall[t].op
  OBVIOUS
<1>2. op \in CdvdOps /\ ccall[t].at = "prepare"
  BY <1>1 DEF C!Prepare, CdvdInv, CdvdCallsTrue
<1>3. bind' = bind
  <2>1. CASE op = C!Stage(0)
    <3>1. 0 \in 0 .. 5
      OBVIOUS
    <3>2. op \in CdvdStages
      BY <2>1, <3>1, CdvdStageFacts
    <3>3. PICK n \in 0 .. 5 : n = cdvdInitCounter /\ op = C!Stage(n)
      BY <1>1, <1>2, <3>2 DEF CdvdInv, CdvdCallsTrue, CdvdTypeOK
    <3>4. n = 0
      BY <2>1, <3>3, CdvdStageFacts
    <3>5. bind = {}
      BY <3>1, <3>3, <3>4, CdvdBoundFacts DEF CdvdInv, CdvdTypeOK
    <3> QED
      BY <1>1, <2>1, <3>5 DEF C!Prepare
  <2>2. CASE op # C!Stage(0)
    BY <1>1, <2>2 DEF C!Prepare
  <2> QED
    BY <2>1, <2>2
<1>4. CASE op.kind \in {"cmd", "wait"} /\ op.client \notin bind
  BY <1>1, <1>3, <1>4, CdvdGiveBack DEF C!Prepare
<1>5. CASE ~(op.kind \in {"cmd", "wait"} /\ op.client \notin bind)
  <2>1. PICK at2 \in {"check", "prepare", "send"} : at2 = "send"
    OBVIOUS
  <2> QED
    BY <1>1, <1>3, <1>5, <2>1, CdvdAdvances DEF C!Prepare
<1> QED
  BY <1>4, <1>5

(* A call at its end, when another call of the same task is not under way, leaves *)
(* the clients and their requests alone.                                          *)
LEMMA CdvdReturns ==
  ASSUME CdvdInv, NEW t \in Callers, NEW op, op = ccall[t].op,
         \/ /\ ccall[t].at = "woken" /\ ccall' = [ccall EXCEPT ![t].at = "return"]
            /\ cmutex' = C!Unlock(op.lock) /\ late' = late
         \/ /\ ccall[t].at = "return" /\ ccall' = [ccall EXCEPT ![t] = C!Idle]
            /\ cmutex' = cmutex /\ late' = late \ {t},
         UNCHANGED <<cdvdInitCounter, bind, cclient, cbuff, recv>>
  PROVE  CdvdInv'
<1>0. op \in CdvdOps /\ op.kind = "wait" /\ ccall[t].at \in {"woken", "return"}
  BY DEF CdvdInv, CdvdCallsTrue
<1>1. op.lock \in C!Locks /\ op.recv \in C!Buffers /\ op \notin CdvdStages
  BY ONLY <1>0, CdvdOpFacts
<1>2. PICK woken \in BOOLEAN : woken <=> ccall[t].at = "woken"
  BY Zenon
<1>3. /\ ccall' \in [Callers -> CdvdCalls]
      /\ \A u \in Callers : u # t => ccall'[u] = ccall[u]
      /\ woken => ccall'[t].at = "return" /\ ccall'[t].op = op
      /\ ~woken => ccall'[t] = C!Idle /\ ccall'[t].at = "idle"
  <2>1. ccall \in [Callers -> CdvdCalls] /\ C!Idle \in CdvdCalls /\ C!Idle.at = "idle"
    BY DEF CdvdInv, CdvdTypeOK, CdvdCalls, C!Idle
  <2>2. CASE ccall[t].at = "woken" /\ ccall' = [ccall EXCEPT ![t].at = "return"]
    BY <1>2, <2>1, <2>2 DEF CdvdCalls
  <2>3. CASE ccall[t].at = "return" /\ ccall' = [ccall EXCEPT ![t] = C!Idle]
    BY <1>2, <2>1, <2>3
  <2> QED
    BY <2>2, <2>3
<1>4. /\ cmutex' \in [C!Locks -> BOOLEAN]
      /\ \A l \in C!Locks : cmutex'[l] <=> cmutex[l] /\ ~CdvdHolds(t, l)
  <2>1. CASE woken
    BY <1>1, <1>2, <2>1, CdvdUnlockFacts DEF CdvdHolds
  <2>2. CASE ~woken
    BY <1>2, <2>2 DEF CdvdInv, CdvdTypeOK, CdvdHolds
  <2> QED
    BY <2>1, <2>2
<1>5. \A u \in Callers, l \in C!Locks : CdvdHolds(u, l)' <=> CdvdHolds(u, l) /\ u # t
  <2>1. ASSUME NEW u \in Callers, NEW l \in C!Locks
        PROVE  CdvdHolds(u, l)' <=> CdvdHolds(u, l) /\ u # t
    <3>1. CASE u = t
      BY <1>0, <1>2, <1>3, <3>1 DEF CdvdHolds
    <3>2. CASE u # t
      BY <1>3, <3>2 DEF CdvdHolds
    <3> QED
      BY <3>1, <3>2
  <2> QED
    BY <2>1
<1>6. CdvdLocks'
  BY <1>4, <1>5 DEF CdvdInv, CdvdLocks
<1>7. CdvdTypeOK'
  <2>1. late' \subseteq Callers
    BY DEF CdvdInv, CdvdTypeOK
  <2> QED
    BY <1>3, <1>4, <2>1 DEF CdvdInv, CdvdTypeOK
<1>8. \A c \in C!Clients : cclient[c].state = "pending" => cclient[c].req.by # t
  <2>1. SUFFICES ASSUME NEW c \in C!Clients, cclient[c].state = "pending", cclient[c].req.by = t
                 PROVE  FALSE
    OBVIOUS
  <2>2. ccall[t] = [at |-> "wait", op |-> cclient[c].req.op]
    BY <2>1 DEF CdvdInv, CdvdCallsTrue
  <2> QED
    BY <1>0, <2>2
<1>9. CdvdCallsTrue'
  <2>1. ASSUME NEW u \in Callers, u # t
        PROVE  /\ ccall'[u].at = "idle" => ccall'[u] = C!Idle
               /\ ccall'[u].at # "idle" => ccall'[u].op \in CdvdOps
               /\ ccall'[u].at \in {"lock", "check", "prepare"} => ccall'[u].op.lock \in C!Locks
               /\ ccall'[u].at # "idle" /\ ccall'[u].op \in CdvdStages =>
                    /\ u \in InitTasks /\ cdvdInitCounter' < 6
                    /\ ccall'[u].op = C!Stage(cdvdInitCounter')
               /\ ccall'[u].at = "wait" => /\ cclient'[ccall'[u].op.client].state = "pending"
                                           /\ cclient'[ccall'[u].op.client].req.by = u
               /\ ccall'[u].at \in {"woken", "return"} => ccall'[u].op.kind = "wait"
    <3>1. ccall'[u] = ccall[u]
      BY <1>3, <2>1
    <3> QED
      BY <3>1 DEF CdvdInv, CdvdCallsTrue
  <2>2. ASSUME NEW c \in C!Clients, cclient'[c].state = "pending"
        PROVE  /\ cclient'[c].req.by \in Callers /\ cclient'[c].req.op \in CdvdOps
               /\ cclient'[c].req.op.client = c
               /\ ccall'[cclient'[c].req.by] = [at |-> "wait", op |-> cclient'[c].req.op]
    BY <1>3, <1>8, <2>2 DEF CdvdInv, CdvdCallsTrue
  <2> QED
    BY <1>0, <1>1, <1>3, <2>1, <2>2 DEF CdvdCallsTrue
<1>10. CdvdArguments' /\ CdvdServers'
  BY <1>3 DEF CdvdInv, CdvdArguments, CdvdServers
<1>11. CdvdLate'
  <2>1. ASSUME NEW u \in Callers, NEW v \in Callers, ccall'[u].at = "return", u \notin late'
        PROVE  ~CdvdHolds(v, ccall[u].op.lock)'
    <3>1. CASE u = t
      <4>1. woken /\ ccall'[u].op = op
        BY <1>3, <2>1, <3>1
      <4>2. CdvdHolds(t, op.lock)
        BY <1>2, <4>1 DEF CdvdHolds
      <4>3. CdvdHolds(v, op.lock) => v = t
        BY <1>1, <4>2 DEF CdvdInv, CdvdLocks
      <4>4. ~CdvdHolds(v, op.lock)'
        BY <1>1, <1>5, <4>3
      <4> QED
        BY <4>1, <4>4 DEF CdvdHolds
    <3>2. CASE u # t
      <4>1. ccall'[u] = ccall[u] /\ u \notin late
        BY <1>3, <2>1, <3>2
      <4>2. ~CdvdHolds(v, ccall[u].op.lock) /\ ccall[u].op \in CdvdOps /\ ccall[u].op.kind = "wait"
        BY <2>1, <4>1 DEF CdvdInv, CdvdLate, CdvdCallsTrue
      <4>3. ccall[u].op.lock \in C!Locks
        BY ONLY <4>2, CdvdOpFacts
      <4> QED
        BY <1>5, <4>1, <4>2, <4>3 DEF CdvdHolds
    <3> QED
      BY <3>1, <3>2
  <2> QED
    BY <2>1 DEF CdvdLate
<1>12. C!OwnAnswer'
  <2>1. ASSUME NEW u \in Callers,
               ccall'[u].at = "woken" \/ (ccall'[u].at = "return" /\ u \notin late')
        PROVE  recv'[ccall'[u].op.recv] = u
    <3>1. CASE u = t
      <4>1. woken /\ ccall'[u].op = op
        BY <1>3, <2>1, <3>1
      <4> QED
        BY <1>2, <3>1, <4>1 DEF CdvdInv, C!OwnAnswer
    <3>2. CASE u # t
      <4>1. ccall'[u] = ccall[u] /\ (u \notin late' => u \notin late)
        BY <1>3, <3>2
      <4> QED
        BY <2>1, <4>1 DEF CdvdInv, C!OwnAnswer
    <3> QED
      BY <3>1, <3>2
  <2> QED
    BY <2>1 DEF CdvdInv, C!OwnAnswer
<1> QED
  BY <1>6, <1>7, <1>9, <1>10, <1>11, <1>12 DEF CdvdInv

(* A woken caller takes its result and unlocks, *)
LEMMA CdvdWoken == ASSUME CdvdInv, NEW t \in Callers, C!Woken(t) PROVE CdvdInv'
<1>1. PICK op : op = ccall[t].op
  OBVIOUS
<1> QED
  BY <1>1, CdvdReturns DEF C!Woken

(* and then reads what it returns. *)
LEMMA CdvdReturn == ASSUME CdvdInv, NEW t \in Callers, C!Return(t) PROVE CdvdInv'
<1>1. PICK op : op = ccall[t].op
  OBVIOUS
<1> QED
  BY <1>1, CdvdReturns DEF C!Return

(* A request is accepted: its call waits, with the arguments it wrote. *)
LEMMA CdvdAccepted ==
  ASSUME CdvdInv, NEW t \in Callers, NEW op, op = ccall[t].op, ccall[t].at = "send",
         cclient[op.client].state = "free",
         cclient' = [cclient EXCEPT ![op.client] =
             [state |-> "pending", server |-> @.server /\ op.kind # "bind",
              req |-> [by |-> t, op |-> op, replied |-> FALSE,
                       got |-> IF op.lock = C!NONE THEN t ELSE cbuff[op.lock]]]],
         ccall' = [ccall EXCEPT ![t].at = "wait"],
         cbuff' = C!Taken(cbuff, op.lock),
         UNCHANGED <<cdvdInitCounter, bind, cmutex, recv, late>>
  PROVE  CdvdInv'
<1>0. /\ op \in CdvdOps /\ op.lock \in C!Locks \cup {C!NONE} /\ op.client \in C!Clients
  BY CdvdOpFacts DEF CdvdInv, CdvdCallsTrue
<1>1. /\ ccall'[t] = [at |-> "wait", op |-> op]
      /\ \A u \in Callers : u # t => ccall'[u] = ccall[u]
      /\ ccall' \in [Callers -> CdvdCalls]
  BY DEF CdvdInv, CdvdTypeOK, CdvdCalls
<1>2. (IF op.lock = C!NONE THEN t ELSE cbuff[op.lock]) = t
  BY <1>0 DEF CdvdInv, CdvdArguments
<1>3. PICK c \in C!Clients : c = op.client
  BY <1>0
<1>4. PICK sv \in BOOLEAN : /\ sv = (cclient[c].server /\ op.kind # "bind")
                            /\ op.kind # "bind" => sv = cclient[c].server
  BY <1>3 DEF CdvdInv, CdvdTypeOK, CdvdClients
<1>5. PICK rq : rq = [by |-> t, op |-> op, replied |-> FALSE, got |-> t]
  OBVIOUS
<1>6. rq \in CdvdReqs
  BY <1>0, <1>5 DEF CdvdReqs
<1>7. cclient' = [cclient EXCEPT ![c] = [state |-> "pending", server |-> sv, req |-> rq]]
  BY <1>2, <1>3, <1>4, <1>5
<1>8. cclient \in [C!Clients -> CdvdClients]
  BY DEF CdvdInv, CdvdTypeOK
<1>9. /\ cclient'[c] = [state |-> "pending", server |-> sv, req |-> rq]
      /\ \A d \in C!Clients : d # c => cclient'[d] = cclient[d]
      /\ cclient' \in [C!Clients -> CdvdClients]
  BY ONLY <1>6, <1>7, <1>8, c \in C!Clients, sv \in BOOLEAN DEF CdvdClients
<1>10. /\ cbuff' \in [C!Locks -> Callers \cup {NULL}]
       /\ \A l \in C!Locks : l # op.lock => cbuff'[l] = cbuff[l]
  <2>1. cbuff \in [C!Locks -> Callers \cup {NULL}] /\ cbuff' = C!Taken(cbuff, op.lock)
    BY DEF CdvdInv, CdvdTypeOK
  <2>2. C!NONE \notin C!Locks
    BY CdvdOpFacts
  <2>3. /\ C!Taken(cbuff, op.lock) \in [C!Locks -> Callers \cup {NULL}]
        /\ \A k \in C!Locks : k # op.lock => C!Taken(cbuff, op.lock)[k] = cbuff[k]
    BY ONLY <1>0, <2>1, <2>2, CdvdTakenFacts
  <2> QED
    BY ONLY <2>1, <2>3
<1>11. CdvdTypeOK'
  BY <1>1, <1>9, <1>10 DEF CdvdInv, CdvdTypeOK
<1>12. \A u \in Callers, l \in C!Locks : CdvdHolds(u, l)' <=> CdvdHolds(u, l)
  BY <1>1 DEF CdvdHolds
<1>13. CdvdLocks'
  BY <1>12 DEF CdvdInv, CdvdLocks
<1>14. CdvdArguments'
  <2>1. ASSUME NEW u \in Callers, ccall'[u].at = "send", ccall'[u].op.lock \in C!Locks
        PROVE  cbuff'[ccall'[u].op.lock] = u
    <3>1. u # t /\ ccall'[u] = ccall[u] /\ cbuff[ccall[u].op.lock] = u
      BY <1>1, <2>1 DEF CdvdInv, CdvdArguments
    <3>2. ccall[u].op.lock # op.lock
      BY <2>1, <3>1 DEF CdvdInv, CdvdLocks, CdvdHolds
    <3> QED
      BY <1>10, <2>1, <3>1, <3>2
  <2> QED
    BY <2>1 DEF CdvdArguments
<1>15. \A d \in C!Clients : cclient[d].state = "pending" => cclient[d].req.by # t /\ d # c
  <2>1. SUFFICES ASSUME NEW d \in C!Clients, cclient[d].state = "pending", cclient[d].req.by = t
                 PROVE  FALSE
    BY <1>3
  <2>2. ccall[t] = [at |-> "wait", op |-> cclient[d].req.op]
    BY <2>1 DEF CdvdInv, CdvdCallsTrue
  <2> QED
    BY <2>2
<1>16. CdvdCallsTrue'
  <2>1. ASSUME NEW u \in Callers, u # t
        PROVE  /\ ccall'[u].at = "idle" => ccall'[u] = C!Idle
               /\ ccall'[u].at # "idle" => ccall'[u].op \in CdvdOps
               /\ ccall'[u].at \in {"lock", "check", "prepare"} => ccall'[u].op.lock \in C!Locks
               /\ ccall'[u].at # "idle" /\ ccall'[u].op \in CdvdStages =>
                    /\ u \in InitTasks /\ cdvdInitCounter' < 6
                    /\ ccall'[u].op = C!Stage(cdvdInitCounter')
               /\ ccall'[u].at \in {"woken", "return"} => ccall'[u].op.kind = "wait"
    <3>1. ccall'[u] = ccall[u]
      BY <1>1, <2>1
    <3> QED
      BY <3>1 DEF CdvdInv, CdvdCallsTrue
  <2>2. ASSUME NEW u \in Callers, u # t, ccall'[u].at = "wait"
        PROVE  /\ cclient'[ccall'[u].op.client].state = "pending"
               /\ cclient'[ccall'[u].op.client].req.by = u
    <3>1. ccall'[u] = ccall[u]
      BY <1>1, <2>2
    <3>2. /\ ccall[u].op \in CdvdOps /\ cclient[ccall[u].op.client].state = "pending"
          /\ cclient[ccall[u].op.client].req.by = u
      BY <2>2, <3>1 DEF CdvdInv, CdvdCallsTrue
    <3>3. ccall[u].op.client \in C!Clients
      BY ONLY <3>2, CdvdOpFacts
    <3> QED
      BY ONLY <1>9, <1>15, <3>1, <3>2, <3>3
  <2>3. op \in CdvdStages => t \in InitTasks /\ cdvdInitCounter < 6 /\ op = C!Stage(cdvdInitCounter)
    BY DEF CdvdInv, CdvdCallsTrue
  <2>4. ASSUME NEW d \in C!Clients, d # c, cclient'[d].state = "pending"
        PROVE  /\ cclient'[d].req.by \in Callers /\ cclient'[d].req.op \in CdvdOps
               /\ cclient'[d].req.op.client = d
               /\ ccall'[cclient'[d].req.by] = [at |-> "wait", op |-> cclient'[d].req.op]
    <3>1. cclient'[d] = cclient[d]
      BY <1>9, <2>4
    <3> QED
      BY <1>1, <1>15, <2>4, <3>1 DEF CdvdInv, CdvdCallsTrue
  <2>5. /\ cclient'[c].req.by = t /\ cclient'[c].req.op = op /\ cclient'[c].state = "pending"
    BY ONLY <1>5, <1>9
  <2>6. /\ ccall'[t].at = "wait" /\ ccall'[t].op = op
    BY ONLY <1>1
  <2>7. ASSUME NEW d \in C!Clients, cclient'[d].state = "pending"
        PROVE  /\ cclient'[d].req.by \in Callers /\ cclient'[d].req.op \in CdvdOps
               /\ cclient'[d].req.op.client = d
               /\ ccall'[cclient'[d].req.by] = [at |-> "wait", op |-> cclient'[d].req.op]
    BY <1>0, <1>1, <1>3, <2>4, <2>5, <2>7
  <2>8. /\ ccall'[t].at # "idle" /\ ccall'[t].at \notin {"lock", "check", "prepare", "woken", "return"}
        /\ cclient'[ccall'[t].op.client].state = "pending"
        /\ cclient'[ccall'[t].op.client].req.by = t
    BY ONLY <1>3, <2>5, <2>6
  <2> QED
    BY ONLY <1>0, <2>1, <2>2, <2>3, <2>6, <2>7, <2>8, UNCHANGED cdvdInitCounter DEF CdvdCallsTrue
<1>17. CdvdServers'
  <2>1. op.kind = "bind" => c \notin bind
    BY <1>3, CdvdBindsNew
  <2>2. ASSUME NEW d \in bind PROVE cclient'[d].server
    <3>1. d \in C!Clients /\ cclient[d].server
      BY CdvdBindClients DEF CdvdInv, CdvdServers
    <3> QED
      BY <1>4, <1>9, <2>1, <3>1
  <2> QED
    BY <1>1, <2>2 DEF CdvdInv, CdvdServers
<1>18. C!OwnAnswer'
  BY <1>1, <1>5, <1>9 DEF CdvdInv, C!OwnAnswer
<1>19. CdvdLate'
  <2>1. ASSUME NEW u \in Callers, NEW v \in Callers, ccall'[u].at = "return", u \notin late'
        PROVE  ~CdvdHolds(v, ccall[u].op.lock)'
    <3>1. u # t /\ ccall'[u] = ccall[u] /\ u \notin late
      BY <1>1, <2>1
    <3>2. ~CdvdHolds(v, ccall[u].op.lock) /\ ccall[u].op \in CdvdOps /\ ccall[u].op.kind = "wait"
      BY <2>1, <3>1 DEF CdvdInv, CdvdLate, CdvdCallsTrue
    <3>3. ccall[u].op.lock \in C!Locks
      BY ONLY <3>2, CdvdOpFacts
    <3> QED
      BY <1>12, <3>1, <3>2, <3>3 DEF CdvdHolds
  <2> QED
    BY <2>1 DEF CdvdLate
<1> QED
  BY <1>11, <1>13, <1>14, <1>16, <1>17, <1>18, <1>19 DEF CdvdInv

(* The request is accepted, or the call ends and gives back its lock. *)
LEMMA CdvdSend == ASSUME CdvdInv, NEW t \in Callers, C!Send(t) PROVE CdvdInv'
<1>1. PICK op : op = ccall[t].op
  OBVIOUS
<1>2. CASE /\ cclient[op.client].state = "free"
           /\ cclient' = [cclient EXCEPT ![op.client] =
                [state |-> "pending", server |-> @.server /\ op.kind # "bind",
                 req |-> [by |-> t, op |-> op, replied |-> FALSE,
                          got |-> IF op.lock = C!NONE THEN t ELSE cbuff[op.lock]]]]
           /\ ccall' = [ccall EXCEPT ![t].at = "wait"]
           /\ cmutex' = cmutex
  BY <1>1, <1>2, CdvdAccepted DEF C!Send
<1>3. CASE /\ \/ cclient' = cclient
              \/ /\ cclient[op.client].state = "free"
                 /\ cclient' = [cclient EXCEPT ![op.client].state = "lost",
                                               ![op.client].server = @ /\ op.kind # "bind"]
           /\ ccall' = [ccall EXCEPT ![t] = C!Idle]
           /\ cmutex' = C!Unlock(op.lock)
  BY <1>1, <1>3, CdvdGiveBack DEF C!Send
<1> QED
  BY <1>1, <1>2, <1>3 DEF C!Send

(* The IOP's answer goes to a buffer only its caller's lock guards. *)
LEMMA CdvdReply == ASSUME CdvdInv, NEW c \in C!Clients, C!IopReply(c) PROVE CdvdInv'
<1>1. PICK rq : rq = cclient[c].req
  OBVIOUS
<1>2. /\ cclient[c].state = "pending" /\ rq.op \in CdvdOps
  BY <1>1 DEF C!IopReply, CdvdInv, CdvdCallsTrue
<1>3. PICK op \in CdvdOps : op = rq.op
  BY <1>2
<1>4. op.recv = C!NONE \/ op.recv \in C!Buffers
  BY CdvdOpFacts
<1>5. cclient \in [C!Clients -> CdvdClients]
  BY DEF CdvdInv, CdvdTypeOK
<1>6. cclient' = [cclient EXCEPT ![c].req.replied = TRUE]
  BY DEF C!IopReply
<1>7. /\ cclient' \in [C!Clients -> CdvdClients]
      /\ cclient'[c].state = cclient[c].state /\ cclient'[c].server = cclient[c].server
      /\ cclient'[c].req.by = rq.by /\ cclient'[c].req.op = op /\ cclient'[c].req.got = rq.got
      /\ \A d \in C!Clients : d # c => cclient'[d] = cclient[d]
  BY ONLY <1>1, <1>3, <1>5, <1>6, c \in C!Clients DEF CdvdClients, CdvdReqs
<1>8. /\ rq.got \in Callers /\ rq.got = rq.by /\ rq.by \in Callers
  BY <1>1, <1>2 DEF CdvdInv, CdvdCallsTrue, C!OwnAnswer
<1>9. /\ recv' \in [C!Buffers -> Callers \cup {NULL}]
      /\ \A b \in C!Buffers : b # op.recv => recv'[b] = recv[b]
      /\ op.recv # C!NONE => recv'[op.recv] = rq.by
  BY <1>1, <1>3, <1>4, <1>8 DEF C!IopReply, CdvdInv, CdvdTypeOK
<1>10. CdvdTypeOK'
  BY <1>7, <1>9 DEF CdvdInv, CdvdTypeOK, C!IopReply
<1>11. ccall' = ccall /\ cdvdInitCounter' = cdvdInitCounter /\ bind' = bind /\ cmutex' = cmutex
       /\ cbuff' = cbuff /\ late' = late
  BY DEF C!IopReply
<1>12. \A d \in C!Clients :
         /\ cclient'[d].state = cclient[d].state /\ cclient'[d].server = cclient[d].server
         /\ cclient'[d].req.by = cclient[d].req.by /\ cclient'[d].req.op = cclient[d].req.op
  BY <1>1, <1>3, <1>7
<1>13. \A u \in Callers : ccall[u].at = "wait" => ccall[u].op.client \in C!Clients
  BY CdvdOpFacts DEF CdvdInv, CdvdCallsTrue
<1>14. CdvdCallsTrue'
  BY <1>11, <1>12, <1>13 DEF CdvdInv, CdvdCallsTrue
<1>15. CdvdLocks' /\ CdvdArguments' /\ CdvdLate'
  BY <1>11 DEF CdvdInv, CdvdLocks, CdvdHolds, CdvdArguments, CdvdLate
<1>16. CdvdServers'
  BY <1>11, <1>12, CdvdBindClients DEF CdvdInv, CdvdServers
<1>17. C!OwnAnswer'
  <2>1. ASSUME NEW d \in C!Clients, d # c, cclient[d].state = "pending"
        PROVE  /\ cclient'[d].req.got = cclient'[d].req.by
               /\ cclient'[d].req.replied /\ cclient'[d].req.op.recv # C!NONE =>
                    recv'[cclient'[d].req.op.recv] = cclient'[d].req.by
    <3>1. cclient'[d] = cclient[d]
      BY <1>7, <2>1
    <3>2. /\ cclient[d].req.got = cclient[d].req.by
          /\ cclient[d].req.replied /\ cclient[d].req.op.recv # C!NONE =>
               recv[cclient[d].req.op.recv] = cclient[d].req.by
      BY <2>1 DEF CdvdInv, C!OwnAnswer
    <3>3. ASSUME cclient[d].req.op.recv # C!NONE
          PROVE  cclient[d].req.op.recv \in C!Buffers /\ cclient[d].req.op.recv # op.recv
      <4>1. /\ cclient[d].req.op \in CdvdOps /\ cclient[d].req.by \in Callers
            /\ ccall[cclient[d].req.by] = [at |-> "wait", op |-> cclient[d].req.op]
            /\ cclient[d].req.op.client = d
        BY <2>1 DEF CdvdInv, CdvdCallsTrue
      <4>2. /\ rq.op.client = c /\ ccall[rq.by] = [at |-> "wait", op |-> rq.op]
        BY <1>1, <1>2 DEF CdvdInv, CdvdCallsTrue
      <4>3. cclient[d].req.by # rq.by
        BY ONLY <2>1, <4>1, <4>2
      <4>4. cclient[d].req.op.recv \in C!Buffers
        BY ONLY <3>3, <4>1, CdvdOpFacts
      <4>5. cclient[d].req.op.recv = rq.op.recv => cclient[d].req.by = rq.by
        BY <1>8, <2>1, <3>3, <4>2, CdvdBufferOwned
      <4> QED
        BY <1>3, <4>3, <4>4, <4>5
    <3> QED
      BY <1>9, <3>1, <3>2, <3>3
  <2>2. ASSUME NEW u \in Callers, ccall[u].at = "woken" \/ (ccall[u].at = "return" /\ u \notin late)
        PROVE  recv'[ccall[u].op.recv] = u
    <3>1. ccall[u].op \in CdvdOps /\ ccall[u].op.kind = "wait" /\ recv[ccall[u].op.recv] = u
      BY <2>2 DEF CdvdInv, CdvdCallsTrue, C!OwnAnswer
    <3>2. ccall[u].op.recv \in C!Buffers /\ ccall[u].op.recv # C!NONE
      BY ONLY <3>1, CdvdOpFacts
    <3>3. ccall[u].op.recv # op.recv
      <4>1. ccall[u].op.recv = op.recv => cclient[c].req.by = u
        BY <1>1, <1>2, <1>3, <2>2, <3>2, CdvdBufferOwned, CdvdReturnOwned
      <4>2. ccall[rq.by] = [at |-> "wait", op |-> rq.op]
        BY <1>1, <1>2 DEF CdvdInv, CdvdCallsTrue
      <4> QED
        BY <1>1, <2>2, <4>1, <4>2
    <3> QED
      BY <1>9, <3>1, <3>2, <3>3
  <2>3. /\ cclient'[c].req.got = cclient'[c].req.by
        /\ cclient'[c].req.op.recv # C!NONE => recv'[cclient'[c].req.op.recv] = cclient'[c].req.by
    BY <1>7, <1>8, <1>9
  <2> QED
    BY <1>11, <1>12, <2>1, <2>2, <2>3 DEF C!OwnAnswer
<1> QED
  BY <1>10, <1>14, <1>15, <1>16, <1>17 DEF CdvdInv

(* What the end function finds when a request was answered. *)
LEMMA CdvdAnsweredFacts ==
  ASSUME CdvdInv, NEW c \in C!Clients, C!Answered(c)
  PROVE  /\ cclient[c].state = "pending" /\ cclient[c].req.replied
         /\ cclient' \in [C!Clients -> CdvdClients]
         /\ cclient'[c].state = "free"
         /\ cclient[c].req.op.kind # "bind" => cclient'[c].server = cclient[c].server
         /\ \A d \in C!Clients : d # c => cclient'[d] = cclient[d]
<1>1. cclient \in [C!Clients -> CdvdClients] /\ cclient[c].server \in BOOLEAN
  BY DEF CdvdInv, CdvdTypeOK, CdvdClients
<1>2. PICK sv \in BOOLEAN :
        /\ cclient[c].req.op.kind # "bind" => sv = cclient[c].server
        /\ cclient' = [cclient EXCEPT ![c] = [state |-> "free", server |-> sv, req |-> C!NoReq]]
  BY <1>1 DEF C!Answered
<1>3. C!NoReq \in CdvdReqs
  BY DEF C!NoReq, CdvdReqs
<1>4. /\ cclient' \in [C!Clients -> CdvdClients]
      /\ cclient'[c] = [state |-> "free", server |-> sv, req |-> C!NoReq]
      /\ \A d \in C!Clients : d # c => cclient'[d] = cclient[d]
  BY ONLY <1>1, <1>2, <1>3, c \in C!Clients, sv \in BOOLEAN DEF CdvdClients
<1> QED
  BY <1>2, <1>4 DEF C!Answered

(* A call is answered: it ends and its lock is given back, or it is woken.  A    *)
(* stage may be finished by it.                                                  *)
LEMMA CdvdEnds ==
  ASSUME CdvdInv, NEW c \in C!Clients, C!Answered(c),
         NEW t \in Callers, t = cclient[c].req.by,
         NEW op \in CdvdOps, op = cclient[c].req.op,
         \/ /\ ccall' = [ccall EXCEPT ![t] = C!Idle] /\ cmutex' = C!Unlock(op.lock)
            /\ recv' = C!Taken(recv, op.recv)
         \/ /\ ccall' = [ccall EXCEPT ![t].at = "woken"] /\ cmutex' = cmutex
            /\ recv' = recv /\ op.kind = "wait",
         \/ cdvdInitCounter' = cdvdInitCounter /\ bind' = bind
         \/ /\ op \in CdvdStages /\ cdvdInitCounter' = cdvdInitCounter + 1
            /\ bind' = bind \cup {c} /\ cclient'[c].server,
         cbuff' = cbuff, late' = late
  PROVE  CdvdInv'
<1>0. /\ ccall[t] = [at |-> "wait", op |-> op] /\ op.client = c
      /\ op.lock \in C!Locks \cup {C!NONE} /\ op.recv \in C!Buffers \cup {C!NONE}
      /\ cclient[c].state = "pending" /\ cclient[c].req.replied
      /\ op \in CdvdStages => /\ t \in InitTasks /\ cdvdInitCounter \in 0 .. 5
                              /\ op = C!Stage(cdvdInitCounter)
  <2>1. cclient[c].state = "pending" /\ cclient[c].req.replied
    BY CdvdAnsweredFacts
  <2>2. PICK t1 \in Callers, op1 \in CdvdOps :
           /\ t1 = cclient[c].req.by /\ op1 = cclient[c].req.op /\ op1.client = c
           /\ ccall[t1] = [at |-> "wait", op |-> op1]
           /\ op1 \in CdvdStages => /\ t1 \in InitTasks /\ cdvdInitCounter \in 0 .. 5
                                    /\ op1 = C!Stage(cdvdInitCounter)
    BY <2>1, CdvdWaits, Zenon
  <2>3. t1 = t /\ op1 = op
    BY <2>2
  <2>4. op.lock \in C!Locks \cup {C!NONE} /\ op.recv \in C!Buffers \cup {C!NONE}
    BY ONLY op \in CdvdOps, CdvdOpFacts
  <2> QED
    BY <2>1, <2>2, <2>3, <2>4
<1>1. /\ ccall' \in [Callers -> CdvdCalls]
      /\ \A u \in Callers : u # t => ccall'[u] = ccall[u]
      /\ \/ ccall'[t] = C!Idle /\ C!Idle.at = "idle"
         \/ ccall'[t].at = "woken" /\ ccall'[t].op = op /\ op.kind = "wait"
  <2>1. ccall \in [Callers -> CdvdCalls] /\ C!Idle \in CdvdCalls /\ C!Idle.at = "idle"
    BY DEF CdvdInv, CdvdTypeOK, CdvdCalls, C!Idle
  <2> QED
    BY <1>0, <2>1 DEF CdvdCalls
<1>2. PICK ended \in BOOLEAN : ended <=> ccall' = [ccall EXCEPT ![t] = C!Idle]
  BY Zenon
<1>3. /\ ended => ccall'[t] = C!Idle /\ cmutex' = C!Unlock(op.lock) /\ recv' = C!Taken(recv, op.recv)
      /\ ~ended => /\ ccall'[t].at = "woken" /\ ccall'[t].op = op /\ op.kind = "wait"
                   /\ cmutex' = cmutex /\ recv' = recv
  <2>1. ccall \in [Callers -> CdvdCalls]
    BY DEF CdvdInv, CdvdTypeOK
  <2>2. ended => ccall'[t] = C!Idle
    BY <1>2, <2>1
  <2>3. C!Idle.at = "idle"
    BY DEF C!Idle
  <2>4. ASSUME ccall' = [ccall EXCEPT ![t].at = "woken"]
        PROVE  ccall'[t].at = "woken" /\ ccall'[t].op = op
    BY <1>0, <2>1, <2>4 DEF CdvdCalls
  <2> QED
    BY <1>2, <2>2, <2>3, <2>4
<1>4. /\ cclient' \in [C!Clients -> CdvdClients] /\ cclient'[c].state = "free"
      /\ op.kind # "bind" => cclient'[c].server = cclient[c].server
      /\ \A d \in C!Clients : d # c => cclient'[d] = cclient[d]
  BY CdvdAnsweredFacts
<1>5. /\ cmutex' \in [C!Locks -> BOOLEAN]
      /\ \A l \in C!Locks : cmutex'[l] <=> cmutex[l] /\ ~(ended /\ l = op.lock)
  BY <1>0, <1>3, CdvdUnlockFacts DEF CdvdInv, CdvdTypeOK
<1>6. \A u \in Callers, l \in C!Locks :
        CdvdHolds(u, l)' <=> CdvdHolds(u, l) /\ ~(ended /\ u = t)
  <2>1. C!Idle.at = "idle" /\ ccall[t].at = "wait" /\ ccall[t].op = op
    BY <1>0 DEF C!Idle
  <2> QED
    BY <1>1, <1>3, <2>1 DEF CdvdHolds
<1>7. \A l \in C!Locks : CdvdHolds(t, l) <=> l = op.lock
  BY <1>0 DEF CdvdHolds
<1>8. CdvdLocks'
  BY <1>5, <1>6, <1>7 DEF CdvdInv, CdvdLocks
<1>9. /\ recv' \in [C!Buffers -> Callers \cup {NULL}]
      /\ \A b \in C!Buffers : b # op.recv => recv'[b] = recv[b]
      /\ ~ended => recv' = recv
  <2>1. recv \in [C!Buffers -> Callers \cup {NULL}]
    BY DEF CdvdInv, CdvdTypeOK
  <2>2. C!NONE \notin C!Buffers
    BY CdvdOpFacts
  <2>3. /\ C!Taken(recv, op.recv) \in [C!Buffers -> Callers \cup {NULL}]
        /\ \A k \in C!Buffers : k # op.recv => C!Taken(recv, op.recv)[k] = recv[k]
    BY ONLY <1>0, <2>1, <2>2, CdvdTakenFacts
  <2> QED
    BY ONLY <1>2, <1>3, <2>1, <2>3
<1>10. cdvdInitCounter' \in 0 .. 6 /\ bind' = CdvdBound(cdvdInitCounter')
  <2>1. cdvdInitCounter \in 0 .. 6 /\ bind = CdvdBound(cdvdInitCounter)
    BY DEF CdvdInv, CdvdTypeOK
  <2>2. ASSUME op \in CdvdStages, cdvdInitCounter' = cdvdInitCounter + 1, bind' = bind \cup {c}
        PROVE  cdvdInitCounter' \in 0 .. 6 /\ bind' = CdvdBound(cdvdInitCounter')
    <3>1. PICK n \in 0 .. 5 : n = cdvdInitCounter /\ op = C!Stage(n)
      BY <1>0, <2>2
    <3>2. c = C!StageClient[n + 1]
      BY <1>0, <3>1, CdvdStageFacts
    <3> QED
      BY <2>1, <2>2, <3>1, <3>2, CdvdBoundFacts
  <2> QED
    BY <2>1, <2>2
<1>11. CdvdTypeOK'
  <2>1. cbuff' \in [C!Locks -> Callers \cup {NULL}] /\ late' \subseteq Callers
    BY DEF CdvdInv, CdvdTypeOK
  <2> QED
    BY ONLY <1>1, <1>4, <1>5, <1>9, <1>10, <2>1 DEF CdvdTypeOK
<1>12. ASSUME NEW d \in C!Clients, d # c, cclient[d].state = "pending"
       PROVE  /\ cclient[d].req.by \in Callers /\ cclient[d].req.op \in CdvdOps
              /\ cclient[d].req.op.client = d
              /\ ccall[cclient[d].req.by] = [at |-> "wait", op |-> cclient[d].req.op]
              /\ cclient[d].req.by # t
  <2>1. /\ cclient[d].req.by \in Callers /\ cclient[d].req.op \in CdvdOps
        /\ cclient[d].req.op.client = d
        /\ ccall[cclient[d].req.by] = [at |-> "wait", op |-> cclient[d].req.op]
    BY <1>12 DEF CdvdInv, CdvdCallsTrue
  <2> QED
    BY ONLY <1>0, <1>12, <2>1
<1>13. CdvdCallsTrue'
  <2>1. ASSUME NEW u \in Callers, u # t, ccall'[u].at # "idle"
        PROVE  /\ ccall'[u].op \in CdvdOps
               /\ ccall'[u].at \in {"lock", "check", "prepare"} => ccall'[u].op.lock \in C!Locks
               /\ ccall'[u].op \in CdvdStages =>
                    /\ u \in InitTasks /\ cdvdInitCounter' < 6
                    /\ ccall'[u].op = C!Stage(cdvdInitCounter')
               /\ ccall'[u].at = "wait" => /\ cclient'[ccall'[u].op.client].state = "pending"
                                           /\ cclient'[ccall'[u].op.client].req.by = u
               /\ ccall'[u].at \in {"woken", "return"} => ccall'[u].op.kind = "wait"
    <3>1. ccall'[u] = ccall[u]
      BY <1>1, <2>1
    <3>2. /\ ccall[u].op \in CdvdOps
          /\ ccall[u].at \in {"lock", "check", "prepare"} => ccall[u].op.lock \in C!Locks
          /\ ccall[u].op \in CdvdStages =>
               /\ u \in InitTasks /\ cdvdInitCounter < 6
               /\ ccall[u].op = C!Stage(cdvdInitCounter)
          /\ ccall[u].at = "wait" => /\ cclient[ccall[u].op.client].state = "pending"
                                     /\ cclient[ccall[u].op.client].req.by = u
          /\ ccall[u].at \in {"woken", "return"} => ccall[u].op.kind = "wait"
      BY <2>1, <3>1 DEF CdvdInv, CdvdCallsTrue
    <3>3. op \in CdvdStages => ccall[u].op \notin CdvdStages
      BY <1>0, <2>1, <3>2, DriversAssumption
    <3>4. ccall[u].op.client \in C!Clients
      BY ONLY <3>2, CdvdOpFacts
    <3>5. ccall[u].at = "wait" => ccall[u].op.client # c
      BY <2>1, <3>2
    <3> QED
      BY <1>4, <3>1, <3>2, <3>3, <3>4, <3>5
  <2>2. ASSUME NEW u \in Callers, ccall'[u].at = "idle" PROVE ccall'[u] = C!Idle
    BY <1>1, <2>2 DEF CdvdInv, CdvdCallsTrue
  <2>3. ASSUME NEW d \in C!Clients, cclient'[d].state = "pending"
        PROVE  /\ cclient'[d].req.by \in Callers /\ cclient'[d].req.op \in CdvdOps
               /\ cclient'[d].req.op.client = d
               /\ ccall'[cclient'[d].req.by] = [at |-> "wait", op |-> cclient'[d].req.op]
    <3>1. d # c /\ cclient'[d] = cclient[d]
      BY <1>4, <2>3
    <3> QED
      BY ONLY <1>1, <1>12, <2>3, <3>1
  <2>4. ccall'[t].at # "idle" => /\ ccall'[t].at = "woken" /\ ccall'[t].op = op
                                 /\ op.kind = "wait" /\ op \notin CdvdStages
    BY <1>1, CdvdOpFacts
  <2> QED
    BY ONLY <2>1, <2>2, <2>3, <2>4, op \in CdvdOps DEF CdvdCallsTrue
<1>14. CdvdArguments'
  BY <1>1 DEF CdvdInv, CdvdArguments
<1>15. CdvdServers'
  <2>1. op.kind = "bind" => c \notin bind
    BY <1>0, CdvdBindsNew
  <2>2. ASSUME NEW d \in bind' PROVE cclient'[d].server
    <3>1. CASE d \in bind
      <4>1. d \in C!Clients /\ cclient[d].server
        BY <3>1, CdvdBindClients DEF CdvdInv, CdvdServers
      <4> QED
        BY <1>4, <2>1, <3>1, <4>1
    <3>2. CASE d \notin bind
      BY <2>2, <3>2
    <3> QED
      BY <3>1, <3>2
  <2>3. bind \subseteq bind'
    OBVIOUS
  <2> QED
    BY <1>1, <2>2, <2>3 DEF CdvdInv, CdvdServers
<1>16. C!OwnAnswer'
  <2>1. ASSUME NEW d \in C!Clients, cclient'[d].state = "pending"
        PROVE  /\ cclient'[d].req.got = cclient'[d].req.by
               /\ cclient'[d].req.replied /\ cclient'[d].req.op.recv # C!NONE =>
                    recv'[cclient'[d].req.op.recv] = cclient'[d].req.by
    <3>1. d # c /\ cclient'[d] = cclient[d]
      BY <1>4, <2>1
    <3>2. /\ cclient[d].req.got = cclient[d].req.by
          /\ cclient[d].req.replied /\ cclient[d].req.op.recv # C!NONE =>
               recv[cclient[d].req.op.recv] = cclient[d].req.by
      BY <2>1, <3>1 DEF CdvdInv, C!OwnAnswer
    <3>3. ASSUME cclient[d].req.op.recv # C!NONE
          PROVE  cclient[d].req.op.recv \in C!Buffers /\ cclient[d].req.op.recv # op.recv
      <4>1. cclient[d].req.op \in CdvdOps /\ cclient[d].req.by # t
        BY <1>12, <2>1, <3>1
      <4>2. cclient[d].req.op.recv \in C!Buffers
        BY ONLY <3>3, <4>1, CdvdOpFacts
      <4>3. op.recv = cclient[d].req.op.recv => cclient[d].req.by = t
        BY <1>0, <2>1, <3>1, <3>3, CdvdBufferOwned
      <4> QED
        BY <4>1, <4>2, <4>3
    <3> QED
      BY <1>9, <3>1, <3>2, <3>3
  <2>2. ASSUME NEW u \in Callers,
               ccall'[u].at = "woken" \/ (ccall'[u].at = "return" /\ u \notin late')
        PROVE  recv'[ccall'[u].op.recv] = u
    <3>1. CASE u = t
      <4>1. ~ended
        BY <1>3, <2>2, <3>1 DEF C!Idle
      <4>2. op.recv # C!NONE /\ recv' = recv /\ ccall'[u].op = op
        BY <1>3, <3>1, <4>1, CdvdOpFacts
      <4> QED
        BY <1>0, <3>1, <4>2 DEF CdvdInv, C!OwnAnswer
    <3>2. CASE u # t
      <4>1. /\ ccall'[u] = ccall[u]
            /\ ccall[u].at = "woken" \/ (ccall[u].at = "return" /\ u \notin late)
        BY <1>1, <2>2, <3>2
      <4>2. ccall[u].op \in CdvdOps /\ ccall[u].op.kind = "wait" /\ recv[ccall[u].op.recv] = u
        BY <4>1 DEF CdvdInv, CdvdCallsTrue, C!OwnAnswer
      <4>3. ccall[u].op.recv \in C!Buffers /\ ccall[u].op.recv # C!NONE
        BY ONLY <4>2, CdvdOpFacts
      <4>4. ccall[u].op.recv # op.recv
        <5>1. ccall[u].op.recv = op.recv => cclient[c].req.by = u
          BY <1>0, <4>1, <4>3, CdvdBufferOwned, CdvdReturnOwned
        <5> QED
          BY <3>2, <5>1
      <4> QED
        BY <1>9, <4>1, <4>2, <4>3, <4>4
    <3> QED
      BY <3>1, <3>2
  <2> QED
    BY ONLY <2>1, <2>2 DEF C!OwnAnswer
<1>17. CdvdLate'
  <2>1. ASSUME NEW u \in Callers, NEW v \in Callers, ccall'[u].at = "return", u \notin late'
        PROVE  ~CdvdHolds(v, ccall[u].op.lock)'
    <3>1. u # t /\ ccall'[u] = ccall[u] /\ u \notin late
      BY <1>1, <2>1
    <3>2. ~CdvdHolds(v, ccall[u].op.lock) /\ ccall[u].op \in CdvdOps /\ ccall[u].op.kind = "wait"
      BY <2>1, <3>1 DEF CdvdInv, CdvdLate, CdvdCallsTrue
    <3>3. ccall[u].op.lock \in C!Locks
      BY ONLY <3>2, CdvdOpFacts
    <3> QED
      BY <1>6, <3>1, <3>2, <3>3 DEF CdvdHolds
  <2> QED
    BY <2>1 DEF CdvdLate
<1> QED
  BY <1>8, <1>11, <1>13, <1>14, <1>15, <1>16, <1>17 DEF CdvdInv

(* The call an end function runs for. *)
LEMMA CdvdAnsweredCall ==
  ASSUME CdvdInv, NEW c \in C!Clients, C!Answered(c)
  PROVE  \E t \in Callers, op \in CdvdOps :
           /\ t = cclient[c].req.by /\ op = cclient[c].req.op /\ op.client = c
           /\ ccall[t] = [at |-> "wait", op |-> op]
           /\ op \in CdvdStages => /\ t \in InitTasks /\ cdvdInitCounter \in 0 .. 5
                                   /\ op = C!Stage(cdvdInitCounter)
<1>1. cclient[c].state = "pending"
  BY CdvdAnsweredFacts
<1> QED
  BY <1>1, CdvdWaits

(* cdvdInitCallback unlocks what its stage has locked. *)
LEMMA CdvdInitCallback == ASSUME CdvdInv, NEW c \in C!Clients, C!InitCallback(c) PROVE CdvdInv'
<1>0. C!Answered(c)
  BY DEF C!InitCallback
<1>1. PICK t \in Callers, op \in CdvdOps :
           /\ t = cclient[c].req.by /\ op = cclient[c].req.op /\ op.client = c
           /\ ccall[t] = [at |-> "wait", op |-> op]
           /\ op \in CdvdStages => /\ t \in InitTasks /\ cdvdInitCounter \in 0 .. 5
                                   /\ op = C!Stage(cdvdInitCounter)
  BY <1>0, CdvdAnsweredCall, Zenon
<1>2. op \in CdvdStages
  BY <1>1, CdvdOpFacts DEF C!InitCallback
<1>3. PICK n \in 0 .. 5 : n = cdvdInitCounter /\ op = C!Stage(n)
  BY <1>1, <1>2
<1>4. /\ c = C!StageClient[n + 1] /\ op.recv = C!NONE
      /\ op.lock = IF n = 4 THEN "N" ELSE "S"
      /\ n = 3 => op.kind = "init"
  BY <1>1, <1>3, CdvdStageFacts
<1>5. /\ ccall' = [ccall EXCEPT ![t] = C!Idle] /\ cmutex' = C!Unlock(op.lock)
      /\ recv' = C!Taken(recv, op.recv) /\ cbuff' = cbuff /\ late' = late
  <2>1. n # 6
    OBVIOUS
  <2> QED
    BY <1>1, <1>3, <1>4, <2>1 DEF C!InitCallback, C!Taken
<1>6. n = 3 => cclient'[c].server
  <2>1. ASSUME n = 3 PROVE cclient'[c].server
    <3>1. c \in bind
      BY <1>3, <1>4, <2>1, CdvdBoundFacts DEF CdvdInv, CdvdTypeOK
    <3>2. cclient[c].server
      BY <3>1 DEF CdvdInv, CdvdServers
    <3>3. cclient[c].req.op.kind # "bind"
      BY <1>1, <1>4, <2>1
    <3> QED
      BY <1>0, <3>2, <3>3, CdvdAnsweredFacts
  <2> QED
    BY <2>1
<1>7. \/ cdvdInitCounter' = cdvdInitCounter /\ bind' = bind
      \/ /\ op \in CdvdStages /\ cdvdInitCounter' = cdvdInitCounter + 1
         /\ bind' = bind \cup {c} /\ cclient'[c].server
  BY <1>2, <1>3, <1>4, <1>6 DEF C!InitCallback
<1> QED
  BY ONLY CdvdInv, <1>0, <1>1, <1>5, <1>7, CdvdEnds

(* The end functions of the commands unlock what their command has locked. *)
LEMMA CdvdCallback == ASSUME CdvdInv, NEW c \in C!Clients, C!Callback(c) PROVE CdvdInv'
<1>0. C!Answered(c)
  BY DEF C!Callback
<1>1. PICK t \in Callers, op \in CdvdOps :
           /\ t = cclient[c].req.by /\ op = cclient[c].req.op /\ op.client = c
           /\ ccall[t] = [at |-> "wait", op |-> op]
           /\ op \in CdvdStages => /\ t \in InitTasks /\ cdvdInitCounter \in 0 .. 5
                                   /\ op = C!Stage(cdvdInitCounter)
  BY <1>0, CdvdAnsweredCall, Zenon
<1>2. /\ ccall' = [ccall EXCEPT ![t] = C!Idle] /\ cmutex' = C!Unlock(op.lock)
      /\ recv' = C!Taken(recv, op.recv) /\ cbuff' = cbuff /\ late' = late
      /\ cdvdInitCounter' = cdvdInitCounter /\ bind' = bind
  BY <1>1 DEF C!Callback
<1> QED
  BY ONLY CdvdInv, <1>0, <1>1, <1>2, CdvdEnds

(* The answer to a blocking call wakes its caller, which keeps the lock. *)
LEMMA CdvdWakeUp == ASSUME CdvdInv, NEW c \in C!Clients, C!WakeUp(c) PROVE CdvdInv'
<1>0. C!Answered(c)
  BY DEF C!WakeUp
<1>1. PICK t \in Callers, op \in CdvdOps :
           /\ t = cclient[c].req.by /\ op = cclient[c].req.op /\ op.client = c
           /\ ccall[t] = [at |-> "wait", op |-> op]
           /\ op \in CdvdStages => /\ t \in InitTasks /\ cdvdInitCounter \in 0 .. 5
                                   /\ op = C!Stage(cdvdInitCounter)
  BY <1>0, CdvdAnsweredCall, Zenon
<1>2. /\ ccall' = [ccall EXCEPT ![t].at = "woken"] /\ cmutex' = cmutex
      /\ recv' = recv /\ cbuff' = cbuff /\ late' = late /\ op.kind = "wait"
      /\ cdvdInitCounter' = cdvdInitCounter /\ bind' = bind
  BY <1>1 DEF C!WakeUp
<1> QED
  BY ONLY CdvdInv, <1>0, <1>1, <1>2, CdvdEnds

(* Every step of cdvd.c, ncmd.c and scmd.c preserves the invariant. *)
LEMMA CdvdNextInv == CdvdInv /\ [C!Next]_(C!vars) => CdvdInv'
BY CdvdStutter, CdvdInit, CdvdCommand, CdvdTryLock, CdvdCheckStat, CdvdPrepare, CdvdSend,
  CdvdWoken, CdvdReturn, CdvdReply, CdvdInitCallback, CdvdCallback, CdvdWakeUp
  DEF C!Next, C!Task, C!Interrupt

(* A lock is held by one call at most, and by none when it is free. *)
LEMMA CdvdMutexOwned == CdvdInv => C!MutexOwned
<1> SUFFICES ASSUME CdvdInv PROVE C!MutexOwned
  OBVIOUS
<1>1. \A t \in Callers, l \in C!Locks : t \in C!Holders(l) <=> CdvdHolds(t, l)
  <2>1. \A t \in Callers : ccall[t] # C!Idle <=> ccall[t].at # "idle"
    BY DEF C!Idle, CdvdInv, CdvdCallsTrue
  <2> QED
    BY <2>1 DEF C!Holders, CdvdHolds
<1>2. \A l \in C!Locks : C!Holders(l) \subseteq Callers
  BY DEF C!Holders
<1> QED
  BY <1>1, <1>2 DEF CdvdInv, CdvdLocks, C!MutexOwned

(* A request other than a bind is for a client that is bound, or a reset before *)
(* the first stage of cdvdinit.                                                  *)
LEMMA CdvdBoundWhenCalled == CdvdInv => C!BoundWhenCalled
<1> SUFFICES ASSUME CdvdInv, NEW c \in C!Clients, cclient[c].state = "pending",
                    cclient[c].req.op.kind # "bind"
             PROVE  cclient[c].server \/ (cclient[c].req.op = C!Reset /\ cdvdInitCounter = 0)
  BY DEF C!BoundWhenCalled
<1>1. PICK t \in Callers, op \in CdvdOps :
           /\ t = cclient[c].req.by /\ op = cclient[c].req.op /\ op.client = c
           /\ ccall[t] = [at |-> "wait", op |-> op]
           /\ op \in CdvdStages => /\ t \in InitTasks /\ cdvdInitCounter \in 0 .. 5
                                   /\ op = C!Stage(cdvdInitCounter)
  BY CdvdWaits, Zenon
<1>2. op.kind \in {"cmd", "wait", "init", "reset"}
  BY <1>1, CdvdOpFacts
<1>3. c \in bind \/ (op = C!Reset /\ cdvdInitCounter = 0)
  <2>1. CASE op.kind \in {"cmd", "wait"}
    BY <1>1, <2>1 DEF CdvdInv, CdvdServers
  <2>2. CASE op.kind = "init"
    <3>1. op \in CdvdStages
      BY <2>2, CdvdOpFacts
    <3>2. PICK n \in 0 .. 5 : n = cdvdInitCounter /\ op = C!Stage(n)
      BY <1>1, <3>1
    <3>3. n = 3 /\ c = C!StageClient[n + 1]
      BY <1>1, <2>2, <3>2, CdvdStageFacts
    <3> QED
      BY <3>2, <3>3, CdvdBoundFacts DEF CdvdInv, CdvdTypeOK
  <2>3. CASE op.kind = "reset"
    <3>1. op \in C!Commands
      BY ONLY op \in CdvdOps, <2>3, CdvdOpFacts
    <3>2. op = C!Reset /\ op.client = "Init"
      BY ONLY <2>3, <3>1 DEF C!Op, C!Read, C!ReadVideo, C!GetToc, C!Stop, C!ReadRtc, C!WriteRtc,
        C!GetType, C!GetError, C!TrayRequest, C!MMode, C!OpenConfig, C!CloseConfig, C!ReadConfig,
        C!PowerOff, C!DiskReady, C!Reset, C!Commands
    <3>3. PICK n \in 0 .. 6 : n = cdvdInitCounter /\ bind = CdvdBound(n)
      BY DEF CdvdInv, CdvdTypeOK
    <3>4. n # 0 => 1 \in 1 .. n /\ C!StageClient[1] = "Init"
      BY DEF C!StageClient
    <3>5. n # 0 => c \in bind
      BY ONLY <1>1, <3>2, <3>3, <3>4 DEF CdvdBound
    <3> QED
      BY <3>2, <3>3, <3>5
  <2> QED
    BY <1>2, <2>1, <2>2, <2>3
<1> QED
  BY <1>1, <1>3 DEF CdvdInv, CdvdServers

-----------------------------------------------------------------------------
(* sound.c *)

SoundStages == {S!Bind, S!ServerInit, S!StartThread, S!ServerInitHot, S!StopThread}
SoundOps == S!Commands \cup SoundStages
SoundCalls == [at : {"idle", "send", "wait"}, op : SoundOps \cup {NULL}]

SoundTypeOK ==
  /\ soundInitCounter \in 0 .. 3 /\ soundInitialized \in BOOLEAN
  /\ sdrsif \in [state : {"free", "pending", "lost"}, server : BOOLEAN,
                 req : [by : Callers \cup {NULL}, op : SoundOps \cup {NULL},
                        got : Callers \cup {NULL}, replied : BOOLEAN]]
  /\ rpcBuffer \in Callers \cup {NULL}
  /\ rpcResultBuffer \in [of : Callers \cup {NULL}, ok : BOOLEAN]
  /\ sregistered \in Nat /\ sserved \in BOOLEAN
  /\ scall \in [Callers -> SoundCalls]
  /\ sresult \in [Callers -> Callers \cup {NULL}]

(* The counter at which each stage is called for. *)
StageOf(op) ==
  IF op = S!Bind THEN 0 ELSE IF op = S!ServerInit THEN 1 ELSE IF op = S!StopThread THEN 3 ELSE 2

SoundCallsTrue ==
  /\ \A t \in Callers :
       /\ scall[t].at = "idle" => scall[t] = S!Idle
       /\ scall[t].at # "idle" => scall[t].op \in SoundOps
       /\ scall[t].at # "idle" /\ scall[t].op \in SoundStages =>
            t \in InitTasks /\ soundInitCounter = StageOf(scall[t].op)
       /\ scall[t].at # "idle" /\ scall[t].op \notin SoundStages => soundInitCounter > 0
       /\ scall[t].at = "wait" => sdrsif.state = "pending" /\ sdrsif.req.by = t
  /\ sdrsif.state = "pending" =>
       /\ sdrsif.req.by \in Callers /\ sdrsif.req.op \in SoundOps
       /\ scall[sdrsif.req.by] = [at |-> "wait", op |-> sdrsif.req.op]

SoundArguments ==
  /\ \A t \in Callers :
       scall[t].at = "send" /\ scall[t].op \in S!Commands /\ t \notin sdisturbed =>
         rpcBuffer = t
  /\ sdrsif.state = "pending" /\ sdrsif.req.op \in S!Commands
       /\ sdrsif.req.by \notin sdisturbed =>
       /\ sdrsif.req.got = sdrsif.req.by
       /\ sdrsif.req.replied => rpcResultBuffer.of = sdrsif.req.by

(* What the IOP has done when a stage is answered. *)
SoundAnswers ==
  /\ soundInitCounter > 0 => sdrsif.server
  /\ sdrsif.state = "pending" /\ sdrsif.req.replied /\ rpcResultBuffer.ok =>
       /\ sdrsif.req.op = S!ServerInit => "init" \in sdr
       /\ sdrsif.req.op = S!StartThread => "thread" \in sdr
  /\ soundInitCounter = 3 /\ "thread" \notin sdr =>
       sdrsif.state = "pending" /\ sdrsif.req.op = S!StopThread
  /\ soundInitCounter >= 2 => "init" \in sdr
  /\ soundInitialized <=> soundInitCounter = 3
  /\ sregistered = IF soundInitCounter = 0 THEN 0 ELSE 1

SoundInv ==
  /\ SoundTypeOK /\ SoundCallsTrue /\ SoundArguments /\ SoundAnswers
  /\ S!AnswerOwn

(* The requests of sound.c and their end functions. *)
LEMMA SoundOpFacts ==
  /\ \A op \in S!Commands : op \notin SoundStages /\ op.end \in {"soundCallback", "soundCallbackOk"}
                            /\ op.cmd # "SERVER_INIT"
  /\ \A op \in SoundStages :
       /\ op.end = IF op \in {S!ServerInitHot, S!StopThread} THEN "soundEndCallback"
                   ELSE "soundInitCallback"
       /\ op.cmd = "SERVER_INIT" <=> op \in {S!ServerInit, S!ServerInitHot}
  /\ S!Bind # S!ServerInit /\ S!Bind # S!StartThread /\ S!Bind # S!ServerInitHot
  /\ S!Bind # S!StopThread /\ S!ServerInit # S!StartThread /\ S!ServerInit # S!ServerInitHot
  /\ S!ServerInit # S!StopThread /\ S!StartThread # S!ServerInitHot
  /\ S!StartThread # S!StopThread /\ S!ServerInitHot # S!StopThread
<1> USE DEF S!Op, S!Bind, S!ServerInit, S!StartThread, S!ServerInitHot, S!StopThread,
      S!GetCoreAttr, S!SetCoreAttr, S!Trans, S!TransStat, S!TransCallback
<1>1. ASSUME NEW op \in S!Commands
      PROVE  op.end \in {"soundCallback", "soundCallbackOk"} /\ op.cmd # "SERVER_INIT"
  BY DEF S!Commands
<1>2. ASSUME NEW op \in SoundStages
      PROVE  /\ op.end = IF op \in {S!ServerInitHot, S!StopThread} THEN "soundEndCallback"
                         ELSE "soundInitCallback"
             /\ op.cmd = "SERVER_INIT" <=> op \in {S!ServerInit, S!ServerInitHot}
  BY DEF SoundStages
<1>3. \A op \in S!Commands : op \notin SoundStages
  BY <1>1, <1>2
<1>4. /\ S!Bind # S!ServerInit /\ S!Bind # S!StartThread /\ S!Bind # S!ServerInitHot
      /\ S!Bind # S!StopThread /\ S!ServerInit # S!StartThread /\ S!ServerInit # S!ServerInitHot
  OBVIOUS
<1>5. /\ S!ServerInit # S!StopThread /\ S!StartThread # S!ServerInitHot
      /\ S!StartThread # S!StopThread /\ S!ServerInitHot # S!StopThread
  OBVIOUS
<1> QED
  BY ONLY <1>1, <1>2, <1>3, <1>4, <1>5

(* Which stage the counter calls for. *)
LEMMA SoundStageFacts ==
  /\ \A op \in SoundOps : op \in SoundStages \/ op \in S!Commands
  /\ \A op \in SoundStages : op \in SoundOps /\ StageOf(op) \in 0 .. 3
  /\ \A op \in S!Commands : op \in SoundOps
  /\ \A op \in SoundStages :
       /\ StageOf(op) = 0 <=> op = S!Bind
       /\ StageOf(op) = 1 <=> op = S!ServerInit
       /\ StageOf(op) = 2 <=> op \in {S!StartThread, S!ServerInitHot}
       /\ StageOf(op) = 3 <=> op = S!StopThread
  /\ {S!Bind, S!ServerInit, S!StartThread, S!ServerInitHot, S!StopThread} = SoundStages
<1>1. /\ \A op \in SoundOps : op \in SoundStages \/ op \in S!Commands
      /\ \A op \in SoundStages : op \in SoundOps
      /\ \A op \in S!Commands : op \in SoundOps
      /\ {S!Bind, S!ServerInit, S!StartThread, S!ServerInitHot, S!StopThread} = SoundStages
  BY DEF SoundOps, SoundStages
<1>2. ASSUME NEW op \in SoundStages
      PROVE  /\ StageOf(op) \in 0 .. 3
             /\ StageOf(op) = 0 <=> op = S!Bind
             /\ StageOf(op) = 1 <=> op = S!ServerInit
             /\ StageOf(op) = 2 <=> op \in {S!StartThread, S!ServerInitHot}
             /\ StageOf(op) = 3 <=> op = S!StopThread
  BY SoundOpFacts DEF StageOf, SoundStages
<1> QED
  BY ONLY <1>1, <1>2

(* A step of another driver leaves the invariant alone. *)
LEMMA SoundStutter == ASSUME SoundInv, UNCHANGED S!vars PROVE SoundInv'
BY DEF SoundInv, SoundTypeOK, SoundCallsTrue, SoundArguments, SoundAnswers, S!AnswerOwn, S!vars

(* The invariant holds when sound.c is loaded. *)
LEMMA SoundInitInv == S!Init => SoundInv
<1> SUFFICES ASSUME S!Init PROVE SoundInv
  OBVIOUS
<1> USE DEF S!Init
<1>1. SoundTypeOK
  <2>1. sdrsif \in [state : {"free", "pending", "lost"}, server : BOOLEAN,
                 req : [by : Callers \cup {NULL}, op : SoundOps \cup {NULL},
                        got : Callers \cup {NULL}, replied : BOOLEAN]]
    BY DEF S!NoReq
  <2>2. scall \in [Callers -> SoundCalls]
    BY DEF S!Idle, SoundCalls
  <2>3. soundInitialized \in BOOLEAN /\ sserved \in BOOLEAN
    BY Zenon
  <2>4. soundInitCounter \in 0 .. 3 /\ sregistered \in Nat
    OBVIOUS
  <2>5. /\ rpcBuffer \in Callers \cup {NULL}
        /\ rpcResultBuffer \in [of : Callers \cup {NULL}, ok : BOOLEAN]
        /\ sresult \in [Callers -> Callers \cup {NULL}]
    OBVIOUS
  <2> QED
    BY ONLY <2>1, <2>2, <2>3, <2>4, <2>5 DEF SoundTypeOK
<1>2. SoundCallsTrue /\ SoundArguments
  BY DEF SoundCallsTrue, SoundArguments, S!Idle
<1>3. SoundAnswers /\ S!AnswerOwn
  BY DEF SoundAnswers, S!AnswerOwn
<1> QED
  BY <1>1, <1>2, <1>3 DEF SoundInv

(* A call that begins: its task is idle, another's arguments may be lost, but *)
(* then that task is counted as disturbed.                                     *)
LEMMA SoundBegins ==
  ASSUME SoundInv, NEW t \in Callers, NEW op \in SoundOps, scall[t] = S!Idle,
         scall' = [scall EXCEPT ![t] = [at |-> "send", op |-> op]],
         sresult' = [sresult EXCEPT ![t] = NULL],
         op \in S!Commands => S!Fill(t) /\ soundInitCounter > 0,
         op \in SoundStages => t \in InitTasks /\ soundInitCounter = StageOf(op),
         S!Fill(t) \/ UNCHANGED <<rpcBuffer, sdisturbed>>,
         UNCHANGED <<soundInitCounter, soundInitialized, sdrsif, rpcResultBuffer, sregistered,
                     sdr, sserved>>
  PROVE  SoundInv'
<1> USE SoundStageFacts, SoundOpFacts DEF SoundInv
<1>0. /\ scall'[t] = [at |-> "send", op |-> op]
      /\ \A u \in Callers : u # t => scall'[u] = scall[u]
  BY DEF SoundTypeOK
<1>1. SoundTypeOK'
  BY DEF SoundTypeOK, SoundCalls, S!Fill
<1>2. SoundCallsTrue'
  BY <1>0 DEF SoundCallsTrue, S!Idle
<1>3. \A u \in Callers : u # t /\ u \notin sdisturbed' => u \notin sdisturbed
  BY DEF S!Fill
<1>4. SoundArguments'
  <2>1. \A u \in Callers : scall'[u].at = "send" /\ scall'[u].op \in S!Commands
                             /\ u \notin sdisturbed' => rpcBuffer' = u
    BY <1>0, <1>3 DEF SoundArguments, S!Fill
  <2>2. sdrsif.state = "pending" => sdrsif.req.by \in Callers /\ sdrsif.req.by # t
    BY DEF SoundCallsTrue, S!Idle
  <2> QED
    BY <1>3, <2>1, <2>2 DEF SoundArguments
<1>5. SoundAnswers'
  BY DEF SoundAnswers
<1>6. S!AnswerOwn'
  BY <1>3 DEF S!AnswerOwn, SoundTypeOK
<1> QED
  BY <1>1, <1>2, <1>4, <1>5, <1>6

(* sbcall_soundinit and soundend make the request of their stage. *)
LEMMA SoundStage == ASSUME SoundInv, NEW t \in Callers, S!Stage(t) PROVE SoundInv'
<1> USE SoundStageFacts, SoundOpFacts DEF S!Stage
<1> PICK op \in SoundStages : /\ scall' = [scall EXCEPT ![t] = [at |-> "send", op |-> op]]
                              /\ soundInitCounter = StageOf(op)
  BY DEF StageOf
<1>1. op \notin S!Commands /\ op \in SoundOps
  OBVIOUS
<1>2. S!Fill(t) \/ UNCHANGED <<rpcBuffer, sdisturbed>>
  OBVIOUS
<1> QED
  BY <1>1, <1>2, SoundBegins

(* A command writes its arguments into the buffer. *)
LEMMA SoundBegin ==
  ASSUME SoundInv, NEW t \in Callers, NEW op \in S!Commands, S!Begin(t, op) PROVE SoundInv'
<1>1. op \in SoundOps /\ op \notin SoundStages
  BY SoundStageFacts, SoundOpFacts
<1>2. soundInitCounter > 0
  BY DEF S!Begin, SoundInv, SoundAnswers
<1> QED
  BY <1>1, <1>2, SoundBegins DEF S!Begin

(* The sound driver registers its server. *)
LEMMA SoundIopRegister == ASSUME SoundInv, S!IopRegister PROVE SoundInv'
BY DEF SoundInv, SoundTypeOK, SoundCallsTrue, SoundArguments, SoundAnswers, S!AnswerOwn, S!IopRegister

(* The request is accepted, or the call ends. *)
LEMMA SoundSend == ASSUME SoundInv, NEW t \in Callers, S!Send(t) PROVE SoundInv'
<1> USE SoundStageFacts, SoundOpFacts DEF SoundInv
<1> PICK op : op = scall[t].op
  OBVIOUS
<1>0. /\ op \in SoundOps /\ scall[t] = [at |-> "send", op |-> op]
      /\ op = S!Bind <=> soundInitCounter = 0
  BY DEF S!Send, SoundCallsTrue, SoundTypeOK, SoundCalls
<1>1. UNCHANGED <<soundInitCounter, soundInitialized, rpcBuffer, rpcResultBuffer, callback,
                 sregistered, sdr, sserved, sdisturbed, sresult>>
  BY DEF S!Send
<1>2. S!AnswerOwn'
  BY <1>1 DEF S!AnswerOwn
<1>3. CASE /\ sdrsif.state = "free"
           /\ sdrsif' = [state |-> "pending", server |-> op # S!Bind /\ sdrsif.server,
                         req |-> [by |-> t, op |-> op, replied |-> FALSE,
                                  got |-> IF op = S!Bind THEN t ELSE rpcBuffer]]
           /\ scall' = [scall EXCEPT ![t].at = "wait"]
  <2>1. /\ scall'[t] = [at |-> "wait", op |-> op]
        /\ \A u \in Callers : u # t => scall'[u] = scall[u]
        /\ \A u \in Callers : scall[u].at # "wait"
    BY <1>0, <1>3 DEF SoundTypeOK, SoundCallsTrue
  <2>2. /\ sdrsif'.state = "pending" /\ sdrsif'.req.by = t /\ sdrsif'.req.op = op
        /\ ~sdrsif'.req.replied
        /\ op # S!Bind => sdrsif'.req.got = rpcBuffer
    BY <1>3
  <2>3. SoundTypeOK'
    BY <1>0, <1>1, <1>3 DEF SoundTypeOK, SoundCalls
  <2>4. SoundCallsTrue'
    BY ONLY SoundInv, <1>0, <1>1, <2>1, <2>2 DEF SoundCallsTrue
  <2>5. SoundArguments'
    BY ONLY SoundInv, <1>0, <1>1, <2>1, <2>2, SoundOpFacts, SoundStageFacts DEF SoundArguments, SoundStages
  <2>6. soundInitCounter > 0 => sdrsif'.server
    BY <1>0, <1>3 DEF SoundAnswers, SoundTypeOK
  <2>7. SoundAnswers'
    BY <1>0, <1>1, <1>3, <2>2, <2>6 DEF SoundAnswers
  <2> QED
    BY <2>3, <2>4, <2>5, <2>7, <1>2
<1>4. CASE /\ scall' = [scall EXCEPT ![t] = S!Idle]
           /\ \/ sdrsif' = sdrsif
              \/ /\ sdrsif.state = "free"
                 /\ sdrsif' = [sdrsif EXCEPT !.state = "lost", !.server = op # S!Bind /\ @]
  <2>1. /\ scall'[t] = S!Idle
        /\ \A u \in Callers : u # t => scall'[u] = scall[u]
    BY <1>4 DEF SoundTypeOK
  <2>2. /\ sdrsif'.req = sdrsif.req /\ sdrsif'.state \in {sdrsif.state, "lost"}
        /\ sdrsif'.state = "pending" <=> sdrsif.state = "pending"
        /\ sdrsif'.server = sdrsif.server \/ op = S!Bind
    BY <1>4 DEF SoundTypeOK
  <2>3. SoundTypeOK'
    BY <1>1, <1>4, <2>2 DEF SoundTypeOK, SoundCalls, S!Idle
  <2>4. SoundCallsTrue'
    <3>1. sdrsif.state = "pending" => sdrsif.req.by # t
      BY ONLY SoundInv, <1>0 DEF SoundCallsTrue
    <3> QED
      BY <1>1, <2>1, <2>2, <3>1 DEF SoundCallsTrue, S!Idle
  <2>5. SoundArguments'
    BY <1>0, <1>1, <2>1, <2>2 DEF SoundArguments, S!Idle
  <2>7. SoundAnswers'
    BY <1>0, <1>1, <2>2 DEF SoundAnswers
  <2> QED
    BY <2>3, <2>4, <2>5, <2>7, <1>2
<1> QED
  BY <1>3, <1>4 DEF S!Send

(* The IOP answers into the buffer all calls share. *)
LEMMA SoundIopReply == ASSUME SoundInv, S!IopReply PROVE SoundInv'
<1> USE SoundStageFacts, SoundOpFacts DEF SoundInv
<1> PICK t, op : t = sdrsif.req.by /\ op = sdrsif.req.op
  OBVIOUS
<1>0. /\ sdrsif.state = "pending" /\ t \in Callers /\ op \in SoundOps
      /\ scall[t] = [at |-> "wait", op |-> op] /\ ~sdrsif.req.replied
  BY DEF S!IopReply, SoundCallsTrue
<1>1. UNCHANGED <<soundInitCounter, soundInitialized, rpcBuffer, sregistered, sserved, scall,
                  sdisturbed, sresult>>
  BY DEF S!IopReply
<1>2. /\ sdrsif'.state = "pending" /\ sdrsif'.server = sdrsif.server
      /\ sdrsif'.req.by = t /\ sdrsif'.req.op = op /\ sdrsif'.req.got = sdrsif.req.got
  BY <1>0 DEF S!IopReply, SoundTypeOK
<1>3. PICK ok \in BOOLEAN :
       /\ rpcResultBuffer' = IF op = S!Bind THEN rpcResultBuffer
                             ELSE [of |-> sdrsif.req.got, ok |-> ok]
       /\ sdr' = CASE op.cmd = "SERVER_INIT" /\ ok -> sdr \cup {"init"}
                   [] op = S!StartThread /\ ok -> sdr \cup {"thread"}
                   [] op = S!StopThread -> sdr \ {"thread"}
                   [] OTHER -> sdr
  BY DEF S!IopReply
<1>4. /\ "init" \in sdr => "init" \in sdr'
      /\ "thread" \in sdr /\ op # S!StopThread => "thread" \in sdr'
      /\ op = S!ServerInit /\ ok => "init" \in sdr'
      /\ op = S!StartThread /\ ok => "thread" \in sdr'
  BY <1>3
<1>5. SoundTypeOK'
  BY <1>1, <1>3 DEF SoundTypeOK, S!IopReply
<1>6. SoundCallsTrue'
  BY <1>0, <1>1, <1>2 DEF SoundCallsTrue
<1>7. SoundArguments'
  BY <1>0, <1>1, <1>2, <1>3 DEF SoundArguments
<1>8. SoundAnswers'
  BY <1>0, <1>1, <1>2, <1>3, <1>4 DEF SoundAnswers
<1>9. S!AnswerOwn'
  BY <1>1 DEF S!AnswerOwn
<1> QED
  BY <1>5, <1>6, <1>7, <1>8, <1>9

(* The end of a call: its task is idle, the client is free. *)
LEMMA SoundEnded ==
  ASSUME SoundInv, NEW end, S!Answered(end), NEW t, t = sdrsif.req.by,
         NEW op, op = sdrsif.req.op
  PROVE  /\ t \in Callers /\ op \in SoundOps /\ op.end \in end
         /\ scall[t] = [at |-> "wait", op |-> op]
         /\ sdrsif.state = "pending" /\ sdrsif.req.replied
         /\ scall'[t] = S!Idle /\ \A u \in Callers : u # t => scall'[u] = scall[u]
         /\ \A u \in Callers : scall'[u].at # "wait"
         /\ sdrsif'.state = "free"
         /\ sdrsif'.server = IF op = S!Bind THEN sserved ELSE sdrsif.server
         /\ scall' \in [Callers -> SoundCalls]
         /\ sserved \in BOOLEAN =>
            sdrsif' \in [state : {"free", "pending", "lost"}, server : BOOLEAN,
                 req : [by : Callers \cup {NULL}, op : SoundOps \cup {NULL},
                        got : Callers \cup {NULL}, replied : BOOLEAN]]
<1> USE DEF SoundInv, S!Answered
<1>1. /\ t \in Callers /\ op \in SoundOps /\ op.end \in end
      /\ scall[t] = [at |-> "wait", op |-> op]
      /\ sdrsif.state = "pending" /\ sdrsif.req.replied
  BY DEF SoundCallsTrue
<1>2. S!Idle \in SoundCalls /\ S!Idle.at = "idle"
  BY DEF S!Idle, SoundCalls
<1>3. /\ scall'[t] = S!Idle /\ \A u \in Callers : u # t => scall'[u] = scall[u]
      /\ scall' \in [Callers -> SoundCalls]
  BY <1>1, <1>2 DEF SoundTypeOK
<1>4. \A u \in Callers : scall'[u].at # "wait"
  BY <1>1, <1>2, <1>3 DEF SoundCallsTrue
<1>5. /\ sdrsif'.state = "free"
      /\ sdrsif'.server = IF op = S!Bind THEN sserved ELSE sdrsif.server
  OBVIOUS
<1>6. sserved \in BOOLEAN =>
        sdrsif' \in [state : {"free", "pending", "lost"}, server : BOOLEAN,
                 req : [by : Callers \cup {NULL}, op : SoundOps \cup {NULL},
                        got : Callers \cup {NULL}, replied : BOOLEAN]]
  BY DEF S!NoReq, SoundTypeOK
<1> QED
  BY <1>1, <1>3, <1>4, <1>5, <1>6

(* The end of a stage changes the counter, and no other stage is under way.   *)
LEMMA SoundStageEnded ==
  ASSUME SoundInv, S!Answered({"soundInitCallback"}) \/ S!Answered({"soundEndCallback"}),
         NEW op, op = sdrsif.req.op,
         soundInitCounter' \in 0 .. 3, soundInitialized' \in BOOLEAN, sregistered' \in Nat,
         soundInitCounter > 0 => soundInitCounter' > 0,
         UNCHANGED <<rpcBuffer, rpcResultBuffer, callback, sdr, sserved, sdisturbed, sresult>>
  PROVE  /\ op \in SoundStages /\ soundInitCounter = StageOf(op)
         /\ SoundTypeOK' /\ SoundCallsTrue' /\ SoundArguments' /\ S!AnswerOwn'
<1> USE SoundStageFacts, SoundOpFacts
<1> PICK t : t = sdrsif.req.by
  OBVIOUS
<1>1. /\ t \in Callers /\ op \in SoundOps /\ op.end \in {"soundInitCallback", "soundEndCallback"}
      /\ scall[t] = [at |-> "wait", op |-> op]
      /\ scall'[t] = S!Idle /\ \A u \in Callers : u # t => scall'[u] = scall[u]
      /\ \A u \in Callers : scall'[u].at # "wait"
      /\ sdrsif'.state = "free" /\ scall' \in [Callers -> SoundCalls]
      /\ sserved \in BOOLEAN =>
           sdrsif' \in [state : {"free", "pending", "lost"}, server : BOOLEAN,
                 req : [by : Callers \cup {NULL}, op : SoundOps \cup {NULL},
                        got : Callers \cup {NULL}, replied : BOOLEAN]]
  BY SoundEnded
<1>2. op \in SoundStages
  BY <1>1
<1>3. t \in InitTasks /\ soundInitCounter = StageOf(op)
  BY <1>1, <1>2 DEF SoundInv, SoundCallsTrue
<1>4. \A u \in Callers : scall'[u].at # "idle" => u # t /\ scall'[u].op \notin SoundStages
  BY <1>1, <1>3, DriversAssumption DEF SoundInv, SoundCallsTrue, S!Idle
<1>5. SoundTypeOK'
  BY <1>1 DEF SoundInv, SoundTypeOK
<1>6. SoundCallsTrue'
  BY <1>1, <1>4 DEF SoundInv, SoundCallsTrue
<1>7. SoundArguments'
  BY <1>1, <1>4 DEF SoundInv, SoundArguments, S!Idle
<1>8. S!AnswerOwn'
  BY DEF SoundInv, S!AnswerOwn
<1> QED
  BY <1>2, <1>3, <1>5, <1>6, <1>7, <1>8

(* soundInitCallback preserves the invariant: it ends a stage. *)
LEMMA SoundInitCallback == ASSUME SoundInv, S!soundInitCallback PROVE SoundInv'
<1>0. PICK t, op : t = sdrsif.req.by /\ op = sdrsif.req.op
  OBVIOUS
<1>1. /\ soundInitCounter \in 0 .. 3 /\ soundInitialized \in BOOLEAN /\ sregistered \in Nat
  BY DEF SoundInv, SoundTypeOK
<1>2. /\ S!Answered({"soundInitCallback"})
      /\ \/ /\ soundInitCounter = 0 /\ sdrsif'.server
            /\ soundInitCounter' = 1 /\ sregistered' = sregistered + 1
            /\ soundInitialized' = soundInitialized
         \/ /\ soundInitCounter \in {1, 2} /\ rpcResultBuffer.ok
            /\ soundInitCounter' = soundInitCounter + 1 /\ sregistered' = sregistered
            /\ soundInitialized' \in BOOLEAN /\ (soundInitialized' <=> soundInitCounter = 2)
         \/ UNCHANGED <<soundInitCounter, soundInitialized, sregistered>>
      /\ UNCHANGED <<rpcBuffer, rpcResultBuffer, callback, sdr, sserved, sdisturbed, sresult>>
  BY DEF S!soundInitCallback
<1>3. /\ op \in SoundStages /\ soundInitCounter = StageOf(op)
      /\ SoundTypeOK' /\ SoundCallsTrue' /\ SoundArguments' /\ S!AnswerOwn'
  <2>1. soundInitCounter' \in 0 .. 3 /\ (soundInitCounter > 0 => soundInitCounter' > 0)
    BY <1>1, <1>2
  <2>2. soundInitialized' \in BOOLEAN
    BY <1>1, <1>2
  <2>3. sregistered' \in Nat
    BY <1>1, <1>2
  <2> QED
    BY ONLY SoundInv, <1>0, <1>2, <2>1, <2>2, <2>3, SoundStageEnded
<1>4. /\ sdrsif.state = "pending" /\ sdrsif.req.replied /\ op.end \in {"soundInitCallback"}
      /\ sdrsif'.state = "free"
      /\ sdrsif'.server = IF op = S!Bind THEN sserved ELSE sdrsif.server
  BY <1>0, <1>2 DEF S!Answered
<1>5. op \in {S!Bind, S!ServerInit, S!StartThread} /\ soundInitCounter = StageOf(op)
  BY <1>3, <1>4, SoundStageFacts, SoundOpFacts
<1>6. SoundAnswers'
  <2>1. CASE op = S!Bind /\ soundInitCounter = 0
    BY <2>1, <1>0, <1>1, <1>2, <1>4 DEF SoundInv, SoundAnswers
  <2>2. CASE op = S!ServerInit /\ soundInitCounter = 1
    BY <2>2, <1>0, <1>1, <1>2, <1>4, SoundOpFacts DEF SoundInv, SoundAnswers
  <2>3. CASE op = S!StartThread /\ soundInitCounter = 2
    <3>1. op # S!Bind /\ rpcResultBuffer.ok => "thread" \in sdr
      BY <2>3, <1>0, <1>4, SoundOpFacts DEF SoundInv, SoundAnswers
    <3>2. "init" \in sdr /\ sregistered = 1 /\ sdrsif.server /\ ~soundInitialized
      BY <2>3, <1>0, <1>4 DEF SoundInv, SoundAnswers
    <3>3. op # S!Bind /\ op # S!ServerInit
      BY <2>3, SoundOpFacts
    <3>4. \/ soundInitCounter' = 3 /\ soundInitialized' /\ "thread" \in sdr
          \/ soundInitCounter' = 2 /\ ~soundInitialized'
      BY ONLY <2>3, <1>1, <1>2, <3>1, <3>2, <3>3
    <3>5. sregistered' = 1 /\ sdr' = sdr /\ sdrsif'.server /\ sdrsif'.state = "free"
      BY ONLY <2>3, <1>2, <1>4, <3>2, <3>3
    <3> QED
      BY ONLY <3>2, <3>4, <3>5 DEF SoundAnswers
  <2> QED
    BY <2>1, <2>2, <2>3, <1>3, <1>5, SoundStageFacts
<1> QED
  BY <1>3, <1>6 DEF SoundInv

(* soundEndCallback preserves it: it takes a stage back. *)
LEMMA SoundEndCallback == ASSUME SoundInv, S!soundEndCallback PROVE SoundInv'
<1>0. PICK t, op : t = sdrsif.req.by /\ op = sdrsif.req.op
  OBVIOUS
<1>1. /\ soundInitCounter \in 0 .. 3 /\ soundInitialized \in BOOLEAN /\ sregistered \in Nat
  BY DEF SoundInv, SoundTypeOK
<1>2. /\ S!Answered({"soundEndCallback"})
      /\ \/ /\ soundInitCounter = 2 /\ rpcResultBuffer.ok
            /\ soundInitCounter' = 1 /\ soundInitialized' = soundInitialized
         \/ soundInitCounter = 3 /\ soundInitCounter' = 2 /\ soundInitialized' = FALSE
         \/ soundInitCounter # 3 /\ UNCHANGED <<soundInitCounter, soundInitialized>>
      /\ UNCHANGED <<rpcBuffer, rpcResultBuffer, callback, sregistered, sdr, sserved, sdisturbed,
                     sresult>>
  BY DEF S!soundEndCallback
<1>3. /\ op \in SoundStages /\ soundInitCounter = StageOf(op)
      /\ SoundTypeOK' /\ SoundCallsTrue' /\ SoundArguments' /\ S!AnswerOwn'
  <2>1. soundInitCounter' \in 0 .. 3 /\ (soundInitCounter > 0 => soundInitCounter' > 0)
    BY <1>1, <1>2
  <2>2. soundInitialized' \in BOOLEAN
    BY <1>1, <1>2
  <2>3. sregistered' \in Nat
    BY <1>1, <1>2
  <2> QED
    BY ONLY SoundInv, <1>0, <1>2, <2>1, <2>2, <2>3, SoundStageEnded
<1>4. /\ sdrsif.state = "pending" /\ sdrsif.req.replied /\ op.end \in {"soundEndCallback"}
      /\ sdrsif'.state = "free"
      /\ sdrsif'.server = IF op = S!Bind THEN sserved ELSE sdrsif.server
  BY <1>0, <1>2 DEF S!Answered
<1>5. op \in {S!ServerInitHot, S!StopThread}
  BY <1>3, <1>4, SoundStageFacts, SoundOpFacts
<1>6. SoundAnswers'
  BY <1>0, <1>1, <1>2, <1>3, <1>4, <1>5, SoundOpFacts DEF SoundInv, SoundAnswers, StageOf
<1> QED
  BY <1>3, <1>6 DEF SoundInv

(* The end functions of the commands preserve it. *)
LEMMA SoundCallback == ASSUME SoundInv, S!soundCallback PROVE SoundInv'
<1> USE SoundStageFacts, SoundOpFacts DEF S!soundCallback
<1> PICK t, op : t = sdrsif.req.by /\ op = sdrsif.req.op
  OBVIOUS
<1>1. /\ t \in Callers /\ op \in SoundOps /\ op.end \in {"soundCallback", "soundCallbackOk"}
      /\ scall[t] = [at |-> "wait", op |-> op]
      /\ sdrsif.state = "pending" /\ sdrsif.req.replied
      /\ scall'[t] = S!Idle /\ \A u \in Callers : u # t => scall'[u] = scall[u]
      /\ \A u \in Callers : scall'[u].at # "wait"
      /\ sdrsif'.state = "free"
      /\ sdrsif'.server = IF op = S!Bind THEN sserved ELSE sdrsif.server
      /\ scall' \in [Callers -> SoundCalls]
      /\ sserved \in BOOLEAN =>
            sdrsif' \in [state : {"free", "pending", "lost"}, server : BOOLEAN,
                 req : [by : Callers \cup {NULL}, op : SoundOps \cup {NULL},
                        got : Callers \cup {NULL}, replied : BOOLEAN]]
  BY SoundEnded
<1>2. op \in S!Commands /\ op # S!Bind
  BY <1>1
<1>3. SoundTypeOK'
  BY <1>1 DEF SoundInv, SoundTypeOK
<1>4. SoundCallsTrue'
  BY <1>1 DEF SoundInv, SoundCallsTrue, S!Idle
<1>5. SoundArguments'
  BY <1>1 DEF SoundInv, SoundArguments, S!Idle
<1>6. SoundAnswers'
  BY <1>1, <1>2 DEF SoundInv, SoundAnswers
<1>7. S!AnswerOwn'
  BY <1>1, <1>2 DEF SoundInv, S!AnswerOwn, SoundArguments, SoundTypeOK
<1> QED
  BY <1>3, <1>4, <1>5, <1>6, <1>7 DEF SoundInv

(* Every step of sound.c preserves the invariant. *)
LEMMA SoundNextInv == SoundInv /\ [S!Next]_(S!vars) => SoundInv'
BY SoundStutter, SoundStage, SoundSend, SoundBegin, SoundIopRegister, SoundIopReply,
   SoundInitCallback, SoundEndCallback, SoundCallback
   DEF S!Next, S!Interrupt

(* What the invariant says of the properties. *)
LEMMA SoundHolds == SoundInv => S!AnswerOwn /\ S!Bound /\ S!StagesTrue
<1> SUFFICES ASSUME SoundInv PROVE S!Bound /\ S!StagesTrue
  BY DEF SoundInv
<1> USE SoundStageFacts, SoundOpFacts DEF SoundInv
<1>1. S!Bound
  <2>1. ASSUME sdrsif.state = "pending", sdrsif.req.op # S!Bind PROVE soundInitCounter > 0
    BY <2>1 DEF SoundCallsTrue, SoundTypeOK
  <2> QED
    BY <2>1 DEF S!Bound, SoundAnswers
<1>2. S!StagesTrue
  BY DEF S!StagesTrue, SoundAnswers, SoundCallsTrue
<1> QED
  BY <1>1, <1>2

-----------------------------------------------------------------------------
(* pad.c: the calls *)

PadStages == {P!Bind0, P!Bind1, P!ModVer, P!InitPad}
PadOps == P!Commands \cup P!Blocking \cup {P!PortOpen, P!End} \cup PadStages
PadCalls == [at : {"idle", "send", "wait", "read", "ended"}, op : PadOps \cup {NULL},
             port : Ports \cup {NULL}, store : BOOLEAN]
PadReqs == [by : Callers \cup {NULL}, op : PadOps \cup {NULL}, got : Callers \cup {NULL},
            replied : BOOLEAN]
PadClients == [state : {"free", "pending", "lost"}, server : BOOLEAN, req : PadReqs]
PadBuffers == [of : Callers \cup {NULL}, is : {"argument", "answer"}]
PadAnswer(t) == [of |-> t, is |-> "answer"]

PadTypeOK ==
  /\ rom \in BOOLEAN /\ padInitialiseCounter \in 0 .. P!Last
  /\ padsif \in [{0, 1} -> PadClients]
  /\ buffer \in PadBuffers
  /\ pcall \in [Callers -> PadCalls]
  /\ pserved \in BOOLEAN
  /\ presult \in [Callers -> PadBuffers \cup {NULL}]

(* padinit binds the clients in turn; padend may take the counter back meanwhile. *)
PadStaged(t) ==
  pcall[t].at # "idle" =>
    /\ pcall[t].op \in PadOps
    /\ pcall[t].op \in PadStages => t \in InitTasks
    /\ pcall[t].op \in P!Binds => padInitialiseCounter <= pcall[t].op.client

PadCallTrue(t) ==
  /\ pcall[t].at = "idle" => pcall[t] = P!Idle
  /\ pcall[t].at = "wait" /\ pcall[t].op \notin P!Blocking =>
       /\ padsif[pcall[t].op.client].state = "pending"
       /\ padsif[pcall[t].op.client].req.by = t
  /\ pcall[t].at = "read" => pcall[t].op \in P!Blocking
  /\ pcall[t].store => pcall[t].op = P!PortOpen /\ pcall[t].at \in {"wait", "ended"}
  /\ pcall[t].at = "ended" => pcall[t].store

PadReqTrue(c) ==
  padsif[c].state = "pending" =>
    /\ padsif[c].req.by \in Callers /\ padsif[c].req.op \in PadOps
    /\ padsif[c].req.op.client = c
    /\ pcall[padsif[c].req.by].at = "wait"
    /\ pcall[padsif[c].req.by].op = padsif[c].req.op

PadCallsTrue ==
  /\ \A t \in Callers : PadStaged(t) /\ PadCallTrue(t)
  /\ \A c \in {0, 1} : PadReqTrue(c)

(* While a request is under way, no answer is there to be taken for its own. *)
PadSema == sema_id \in Nat /\ (padsif[0].state = "pending" => sema_id = 0)

(* The request under way is t's; a blocking call may wait without one. *)
PadAsked(t) == padsif[0].state = "pending" /\ padsif[0].req.by = t

(* What the buffer holds for a call that was not disturbed. *)
PadHeld(t) ==
  P!UsesBuffer(t) /\ t \notin pdisturbed =>
    /\ pcall[t].at = "send" => buffer.of = t
    /\ pcall[t].at = "wait" /\ PadAsked(t) =>
         padsif[0].req.got = t /\ (padsif[0].req.replied => buffer = PadAnswer(t))
    /\ pcall[t].at = "wait" /\ ~PadAsked(t) => buffer = PadAnswer(t)
    /\ pcall[t].at = "read" => buffer = PadAnswer(t)

PadArguments == \A t \in Callers : PadHeld(t)

PadServers ==
  /\ padInitialiseCounter >= 1 => padsif[0].server
  /\ padInitialiseCounter >= 2 => padsif[1].server

(* A reported port has its data area, or its padportopen is about to store it. *)
PadPorts ==
  /\ P!PortKnown
  /\ \A t \in Callers :
       pcall[t].at = "wait" /\ pcall[t].op = P!PortOpen /\ ~pcall[t].store =>
         pcall[t].port \in padData

PadInv ==
  /\ PadTypeOK /\ PadCallsTrue /\ PadSema /\ PadArguments /\ PadServers
  /\ PadPorts /\ P!AnswerOwn

(* The requests of pad.c, their clients and end functions. *)
LEMMA PadOpFacts ==
  /\ \A op \in PadOps :
       /\ op.client \in {0, 1}
       /\ op \notin P!Binds => op.client = 0
       /\ op.end = "padInitCallback" <=> op \in PadStages
       /\ op.end = "padEndCallback" <=> op = P!End
       /\ op.end = NULL <=> op \in P!Blocking
       /\ op \in P!Binds => op \in PadStages
       /\ op = P!End \/ op = P!PortOpen \/ op \in P!Commands \cup P!Blocking => op \notin PadStages
       /\ op \in P!Blocking => op # P!PortOpen /\ op # P!End
  /\ P!End # P!PortOpen /\ P!End \in PadOps /\ P!PortOpen \in PadOps
  /\ P!Commands \subseteq PadOps /\ P!Blocking \subseteq PadOps /\ PadStages \subseteq PadOps
<1> USE DEF P!Op, P!Bind0, P!Bind1, P!ModVer, P!InitPad, P!End, P!PortOpen, P!PortClose,
      P!SetMainMode, P!InfoPressMode, P!SetButtonInfo, P!SetActAlign, P!SetActDirect,
      P!InfoMode, P!InfoAct, P!Binds, P!Commands, P!Blocking, PadStages
<1>1. \A op \in PadOps : op.client \in {0, 1}
  BY DEF PadOps
<1>2. \A op \in PadOps : op \notin P!Binds => op.client = 0
  BY DEF PadOps
<1>3. \A op \in P!Binds \cup {P!ModVer, P!InitPad} \cup P!Commands \cup {P!PortOpen, P!End} :
        op.end # NULL
  BY DriversAssumption
<1>4. /\ "padInitCallback" # NULL /\ "padEndCallback" # NULL /\ "padPortOpenCallback" # NULL
      /\ "padCallback" # NULL
  BY <1>3
<1>5. \A op \in PadOps : /\ op.end = "padInitCallback" <=> op \in PadStages
                         /\ op.end = "padEndCallback" <=> op = P!End
  BY <1>4 DEF PadOps
<1>6. \A op \in PadOps : op.end = NULL <=> op \in P!Blocking
  BY <1>4 DEF PadOps
<1>7. \A op \in PadOps : op \in P!Binds => op \in PadStages
  BY DEF PadOps
<1>8. \A op \in PadOps :
        /\ op = P!End \/ op = P!PortOpen \/ op \in P!Commands \cup P!Blocking => op \notin PadStages
        /\ op \in P!Blocking => op # P!PortOpen /\ op # P!End
  BY <1>4 DEF PadOps
<1>9. /\ P!End # P!PortOpen /\ P!End \in PadOps /\ P!PortOpen \in PadOps
      /\ P!Commands \subseteq PadOps /\ P!Blocking \subseteq PadOps /\ PadStages \subseteq PadOps
  BY DEF PadOps
<1> QED
  BY ONLY <1>1, <1>2, <1>5, <1>6, <1>7, <1>8, <1>9

(* The stage's operation: a bind goes to the client the counter names. *)
LEMMA PadStageFacts ==
  ASSUME PadTypeOK
  PROVE  /\ P!Last \in {2, 4} /\ padInitialiseCounter \in 0 .. 4
         /\ padInitialiseCounter < P!Last =>
              /\ P!StageOp \in PadStages
              /\ P!StageOp \in P!Binds => padInitialiseCounter = P!StageOp.client
<1>1. P!Last \in {2, 4} /\ padInitialiseCounter \in 0 .. 4
  BY DEF PadTypeOK, P!Last
<1>2. ASSUME padInitialiseCounter < P!Last
      PROVE  /\ P!StageOp \in PadStages
             /\ P!StageOp \in P!Binds => padInitialiseCounter = P!StageOp.client
  <2>1. padInitialiseCounter \in {0, 1, 2, 3}
    BY <1>1, <1>2
  <2> QED
    BY <2>1 DEF P!StageOp, PadStages, P!Binds, P!Op, P!Bind0, P!Bind1, P!ModVer, P!InitPad
<1> QED
  BY <1>1, <1>2

(* A step of another driver leaves the invariant alone. *)
LEMMA PadStutter == ASSUME PadInv, UNCHANGED P!vars PROVE PadInv'
BY DEF PadInv, PadTypeOK, PadCallsTrue, PadStaged, PadCallTrue, PadReqTrue, PadSema,
  PadArguments, PadHeld, PadAsked, PadServers, PadPorts, P!PortKnown, P!AnswerOwn, P!UsesBuffer,
  P!Last, P!vars

(* The invariant holds when pad.c is loaded, in either build. *)
LEMMA PadInitInv == P!Init => PadInv
<1> SUFFICES ASSUME P!Init PROVE PadInv
  OBVIOUS
<1> USE DEF P!Init
<1>1. P!Idle \in PadCalls /\ P!Idle.at = "idle" /\ P!Idle.store = FALSE /\ P!NoReq \in PadReqs
  BY DEF P!Idle, PadCalls, P!NoReq, PadReqs
<1>2. PadTypeOK
  <2>1. padsif \in [{0, 1} -> PadClients] /\ pcall \in [Callers -> PadCalls]
    BY <1>1 DEF PadClients
  <2>2. buffer \in PadBuffers
    BY DEF PadBuffers
  <2>3. presult \in [Callers -> PadBuffers \cup {NULL}] /\ rom \in BOOLEAN
    OBVIOUS
  <2>4. padInitialiseCounter \in 0 .. P!Last
    BY DEF P!Last
  <2>5. pserved \in BOOLEAN
    BY Zenon
  <2> QED
    BY ONLY <2>1, <2>2, <2>3, <2>4, <2>5 DEF PadTypeOK
<1>3. PadCallsTrue
  BY <1>1 DEF PadCallsTrue, PadStaged, PadCallTrue, PadReqTrue
<1>4. PadArguments /\ PadServers /\ PadPorts /\ PadSema
  BY <1>1 DEF PadArguments, PadHeld, P!UsesBuffer, PadServers, PadPorts, P!PortKnown, PadSema
<1>5. P!AnswerOwn
  BY DEF P!AnswerOwn
<1> QED
  BY <1>2, <1>3, <1>4, <1>5 DEF PadInv

(* A request under way, and its call. *)
LEMMA PadWaits ==
  ASSUME PadInv, NEW c \in {0, 1}, padsif[c].state = "pending"
  PROVE  \E t \in Callers, op \in PadOps :
           /\ t = padsif[c].req.by /\ op = padsif[c].req.op /\ op.client = c
           /\ pcall[t].at = "wait" /\ pcall[t].op = op
BY DEF PadInv, PadCallsTrue, PadReqTrue

(* padman registers its servers. *)
LEMMA PadRegister == ASSUME PadInv, P!IopRegister PROVE PadInv'
<1>1. pserved' \in BOOLEAN
  BY Zenon DEF P!IopRegister
<1> QED
  BY <1>1 DEF P!IopRegister, PadInv, PadTypeOK, PadCallsTrue, PadStaged, PadCallTrue, PadReqTrue,
  PadSema, PadArguments, PadHeld, PadAsked, PadServers, PadPorts, P!PortKnown, P!AnswerOwn,
  P!UsesBuffer, P!Last

(* A call writes its arguments into the buffer: who was using it is disturbed. *)
LEMMA PadFillFacts ==
  ASSUME NEW t \in Callers, NEW op, P!Fill(t, op), buffer \in PadBuffers
  PROVE  /\ buffer' \in PadBuffers
         /\ op \notin P!Binds => buffer'.of = t /\ t \notin pdisturbed'
         /\ op \in P!Binds => buffer' = buffer /\ pdisturbed' = pdisturbed
         /\ \A u \in Callers : u # t /\ u \notin pdisturbed' =>
              u \notin pdisturbed /\ (P!UsesBuffer(u) => buffer' = buffer)
<1>1. CASE op \in P!Binds
  BY <1>1 DEF P!Fill
<1>2. CASE op \notin P!Binds
  <2>1. /\ buffer' = [of |-> t, is |-> "argument"]
        /\ pdisturbed' = (pdisturbed \ {t}) \cup {u \in Callers \ {t} : P!UsesBuffer(u)}
    BY <1>2 DEF P!Fill
  <2>2. buffer' \in PadBuffers /\ buffer'.of = t
    BY ONLY <2>1, t \in Callers DEF PadBuffers
  <2> QED
    BY ONLY <1>2, <2>1, <2>2
<1> QED
  BY <1>1, <1>2

(* A call begins and writes its arguments: the invariant holds with it under way. *)
LEMMA PadBegins ==
  ASSUME PadInv, NEW t \in Callers, NEW op \in PadOps, NEW p \in Ports \cup {NULL},
         pcall[t] = P!Idle, P!Fill(t, op),
         pcall' = [pcall EXCEPT ![t] = P!Calling(t, op, p)],
         op \in PadStages => t \in InitTasks,
         op \in P!Binds => padInitialiseCounter = op.client,
         padsif' \in [{0, 1} -> PadClients],
         \A c \in {0, 1} : padsif'[c].state = padsif[c].state /\ padsif'[c].req = padsif[c].req,
         PadServers',
         presult' = [presult EXCEPT ![t] = NULL],
         UNCHANGED <<rom, padInitialiseCounter, sema_id, padData, opened, pserved>>
  PROVE  PadInv'
<1>1. /\ pcall'[t] = [at |-> "send", op |-> op, port |-> p, store |-> FALSE]
      /\ \A u \in Callers : u # t => pcall'[u] = pcall[u]
      /\ pcall' \in [Callers -> PadCalls]
  BY DEF PadInv, PadTypeOK, PadCalls, P!Calling
<1>2. pcall'[t].at = "send" /\ pcall'[t].op = op /\ pcall'[t].port = p /\ ~pcall'[t].store
  BY ONLY <1>1
<1>3. /\ buffer' \in PadBuffers
      /\ op \notin P!Binds => buffer'.of = t /\ t \notin pdisturbed'
      /\ op \in P!Binds => buffer' = buffer /\ pdisturbed' = pdisturbed
      /\ \A u \in Callers : u # t /\ u \notin pdisturbed' =>
           u \notin pdisturbed /\ (P!UsesBuffer(u) => buffer' = buffer)
  BY PadFillFacts DEF PadInv, PadTypeOK
<1>4. P!Last' = P!Last /\ padInitialiseCounter' = padInitialiseCounter
      /\ padInitialiseCounter \in Nat
  BY DEF P!Last, PadInv, PadTypeOK
<1>5. P!Idle.at = "idle" /\ P!Idle' = P!Idle /\ P!Idle.store = FALSE
  BY DEF P!Idle
<1>6. PadTypeOK'
  <2>1. presult' \in [Callers -> PadBuffers \cup {NULL}]
    BY DEF PadInv, PadTypeOK
  <2>2. rom' \in BOOLEAN /\ padInitialiseCounter' \in 0 .. P!Last' /\ pserved' \in BOOLEAN
    BY <1>4 DEF PadInv, PadTypeOK
  <2> QED
    BY ONLY <1>1, <1>3, <2>1, <2>2, padsif' \in [{0, 1} -> PadClients] DEF PadTypeOK
<1>7. \A u \in Callers : pcall[u].at = "wait" => pcall[u].op.client \in {0, 1}
  BY PadOpFacts DEF PadInv, PadCallsTrue, PadStaged
<1>8. ASSUME NEW u \in Callers PROVE PadStaged(u)' /\ PadCallTrue(u)'
  <2>1. CASE u = t
    <3>1. op \in P!Binds => padInitialiseCounter' <= op.client
      BY <1>4
    <3> QED
      BY <1>2, <2>1, <3>1 DEF PadStaged, PadCallTrue
  <2>2. CASE u # t
    <3>1. pcall'[u] = pcall[u] /\ PadStaged(u) /\ PadCallTrue(u)
      BY <1>1, <2>2 DEF PadInv, PadCallsTrue
    <3> QED
      BY <1>4, <1>5, <1>7, <3>1 DEF PadStaged, PadCallTrue
  <2> QED
    BY <2>1, <2>2
<1>9. ASSUME NEW c \in {0, 1} PROVE PadReqTrue(c)'
  <2>1. PadReqTrue(c)
    BY DEF PadInv, PadCallsTrue
  <2>2. padsif[c].state = "pending" => padsif[c].req.by # t
    BY <1>5, <2>1 DEF PadReqTrue
  <2> QED
    BY <1>1, <2>1, <2>2 DEF PadReqTrue
<1>10. PadSema'
  BY DEF PadInv, PadSema
<1>11. ASSUME NEW u \in Callers PROVE PadHeld(u)'
  <2>1. CASE u = t
    <3>1. op \notin P!Binds => buffer'.of = t
      BY <1>3
    <3> QED
      BY <1>2, <2>1, <3>1 DEF PadHeld, P!UsesBuffer
  <2>2. CASE u # t
    <3>1. pcall'[u] = pcall[u] /\ (P!UsesBuffer(u)' <=> P!UsesBuffer(u))
          /\ (PadAsked(u)' <=> PadAsked(u)) /\ padsif'[0].req = padsif[0].req
      BY <1>1, <2>2 DEF P!UsesBuffer, PadAsked
    <3>2. P!UsesBuffer(u) /\ u \notin pdisturbed' => u \notin pdisturbed /\ buffer' = buffer
      BY <1>3, <2>2
    <3>3. PadHeld(u)
      BY DEF PadInv, PadArguments
    <3> QED
      BY ONLY <3>1, <3>2, <3>3 DEF PadHeld, PadAnswer
  <2> QED
    BY <2>1, <2>2
<1>12. PadPorts'
  <2>1. ASSUME NEW q \in opened
        PROVE  q \in padData \/ \E u \in Callers : pcall'[u].store /\ pcall'[u].port = q
    <3>1. CASE q \in padData
      BY <3>1
    <3>2. CASE \E u \in Callers : pcall[u].store /\ pcall[u].port = q
      <4>1. PICK u \in Callers : pcall[u].store /\ pcall[u].port = q
        BY <3>2
      <4>2. u # t
        BY <1>5, <4>1
      <4> QED
        BY <1>1, <4>1, <4>2
    <3> QED
      BY <3>1, <3>2 DEF PadInv, PadPorts, P!PortKnown
  <2>2. ASSUME NEW u \in Callers, pcall'[u].at = "wait", pcall'[u].op = P!PortOpen, ~pcall'[u].store
        PROVE  pcall'[u].port \in padData
    <3>1. u # t
      BY <1>2, <2>2
    <3> QED
      BY <1>1, <2>2, <3>1 DEF PadInv, PadPorts
  <2> QED
    BY <2>1, <2>2 DEF PadPorts, P!PortKnown
<1>13. P!AnswerOwn'
  <2>1. ASSUME NEW u \in Callers, presult'[u] # NULL, u \notin pdisturbed'
        PROVE  presult'[u] = [of |-> u, is |-> "answer"]
    <3>1. u # t /\ presult'[u] = presult[u]
      BY <2>1 DEF PadInv, PadTypeOK
    <3> QED
      BY <1>3, <2>1, <3>1 DEF PadInv, P!AnswerOwn
  <2> QED
    BY <2>1 DEF P!AnswerOwn
<1> QED
  BY <1>6, <1>8, <1>9, <1>10, <1>11, <1>12, <1>13 DEF PadInv, PadCallsTrue, PadArguments

(* Clearing a server leaves the rest of the client alone. *)
LEMMA PadServerSet ==
  ASSUME NEW r \in PadClients, NEW b \in BOOLEAN
  PROVE  /\ [r EXCEPT !.server = b] \in PadClients
         /\ [r EXCEPT !.server = b].state = r.state /\ [r EXCEPT !.server = b].req = r.req
         /\ [r EXCEPT !.server = b].server = b
BY DEF PadClients

(* sbcall_padinit makes the request of its stage. *)
LEMMA PadPadInit == ASSUME PadInv, NEW t \in Callers, P!PadInit(t) PROVE PadInv'
<1>1. PICK op : op = P!StageOp
  OBVIOUS
<1>2. PICK p \in Ports \cup {NULL} : p = NULL
  OBVIOUS
<1>3. op \in PadStages /\ op \in PadOps /\ (op \in P!Binds => padInitialiseCounter = op.client)
  BY <1>1, PadStageFacts, PadOpFacts DEF P!PadInit, PadInv
<1>4. /\ pcall[t] = P!Idle /\ t \in InitTasks /\ P!Fill(t, op)
      /\ pcall' = [pcall EXCEPT ![t] = P!Calling(t, op, p)]
      /\ presult' = [presult EXCEPT ![t] = NULL]
      /\ UNCHANGED <<rom, padInitialiseCounter, sema_id, padData, opened, pserved>>
  BY <1>1, <1>2 DEF P!PadInit
<1>5. /\ padsif' \in [{0, 1} -> PadClients]
      /\ \A c \in {0, 1} : padsif'[c].state = padsif[c].state /\ padsif'[c].req = padsif[c].req
  <2>1. padsif \in [{0, 1} -> PadClients]
    BY DEF PadInv, PadTypeOK
  <2>2. \/ padsif' = [c \in {0, 1} |-> [padsif[c] EXCEPT !.server = FALSE]]
        \/ padsif' = padsif
    BY DEF P!PadInit
  <2>3. FALSE \in BOOLEAN
    OBVIOUS
  <2>4. ASSUME NEW c \in {0, 1}
        PROVE  /\ [padsif[c] EXCEPT !.server = FALSE] \in PadClients
               /\ [padsif[c] EXCEPT !.server = FALSE].state = padsif[c].state
               /\ [padsif[c] EXCEPT !.server = FALSE].req = padsif[c].req
    BY ONLY <2>1, <2>3, c \in {0, 1}, PadServerSet
  <2>5. CASE padsif' = [c \in {0, 1} |-> [padsif[c] EXCEPT !.server = FALSE]]
    BY ONLY <2>4, <2>5
  <2> QED
    BY ONLY <2>1, <2>2, <2>5
<1>6. PadServers'
  <2>1. CASE padInitialiseCounter = 0
    BY <1>4, <2>1 DEF PadServers
  <2>2. CASE padInitialiseCounter # 0
    BY <2>2 DEF PadInv, PadServers, P!PadInit
  <2> QED
    BY <2>1, <2>2
<1> QED
  BY ONLY PadInv, t \in Callers, <1>3, <1>4, <1>5, <1>6, PadBegins

(* Any other call begins. *)
LEMMA PadBegin ==
  ASSUME PadInv, NEW t \in Callers, NEW op \in PadOps, NEW p \in Ports \cup {NULL},
         op \notin PadStages, P!Begin(t, op, p)
  PROVE  PadInv'
<1>1. /\ pcall[t] = P!Idle /\ P!Fill(t, op)
      /\ pcall' = [pcall EXCEPT ![t] = P!Calling(t, op, p)]
      /\ presult' = [presult EXCEPT ![t] = NULL]
      /\ UNCHANGED <<rom, padInitialiseCounter, sema_id, padData, opened, pserved>>
  BY DEF P!Begin
<1>2. /\ padsif' \in [{0, 1} -> PadClients]
      /\ \A c \in {0, 1} : padsif'[c].state = padsif[c].state /\ padsif'[c].req = padsif[c].req
      /\ PadServers'
  BY DEF P!Begin, PadInv, PadTypeOK, PadServers
<1>3. op \notin P!Binds
  BY PadOpFacts
<1> QED
  BY ONLY PadInv, t \in Callers, op \in PadOps, p \in Ports \cup {NULL}, op \notin PadStages,
     <1>1, <1>2, <1>3, PadBegins

(* The steps of a call after its arguments are in the buffer: the call goes on or *)
(* ends, nobody else's request changes, and what it is given is in the buffer.    *)
LEMMA PadCallStep ==
  ASSUME PadInv, NEW t \in Callers, pcall[t].at # "idle",
         pcall' \in [Callers -> PadCalls],
         \A u \in Callers : u # t => pcall'[u] = pcall[u],
         pcall'[t] = P!Idle \/ (pcall'[t].at # "idle" /\ pcall'[t].op = pcall[t].op),
         PadCallTrue(t)',
         padsif' \in [{0, 1} -> PadClients],
         \A c \in {0, 1} : PadReqTrue(c)',
         \A c \in {0, 1} : padsif[c].state = "pending" /\ padsif[c].req.by # t =>
           padsif'[c].state = "pending" /\ padsif'[c].req = padsif[c].req,
         \A c \in {0, 1} : padsif'[c].state = "pending" /\ padsif'[c].req.by # t =>
           padsif[c].state = "pending" /\ padsif'[c].req = padsif[c].req,
         \/ padInitialiseCounter' = padInitialiseCounter
         \/ padInitialiseCounter' = 0
         \/ /\ pcall'[t] = P!Idle /\ padInitialiseCounter' \in 0 .. P!Last
            /\ pcall[t].op \in PadStages,
         PadServers', PadSema', PadHeld(t)',
         \/ presult' = presult
         \/ /\ presult' = [presult EXCEPT ![t] = buffer]
            /\ t \notin pdisturbed => buffer = PadAnswer(t),
         padData \subseteq padData',
         \A q \in opened' : \/ q \in opened \/ q \in padData'
                            \/ pcall'[t].store /\ pcall'[t].port = q,
         pcall[t].store => pcall[t].port \in padData' \/
                             (pcall'[t].store /\ pcall'[t].port = pcall[t].port),
         pcall'[t].at = "wait" /\ pcall'[t].op = P!PortOpen /\ ~pcall'[t].store =>
            pcall'[t].port \in padData',
         UNCHANGED <<rom, buffer, pserved, pdisturbed>>
  PROVE  PadInv'
<1>1. P!Idle.at = "idle" /\ P!Idle' = P!Idle
  BY DEF P!Idle
<1>2. PadStaged(t) /\ pcall[t].op \in PadOps
  BY DEF PadInv, PadCallsTrue, PadStaged
<1>3. P!Last' = P!Last /\ P!Last \in {2, 4} /\ padInitialiseCounter \in 0 .. P!Last
      /\ padInitialiseCounter' \in 0 .. P!Last
  <2>1. P!Last' = P!Last /\ P!Last \in {2, 4} /\ padInitialiseCounter \in 0 .. P!Last
    BY PadStageFacts DEF P!Last, PadInv, PadTypeOK
  <2> QED
    BY <2>1
<1>4. PadTypeOK'
  <2>1. presult' \in [Callers -> PadBuffers \cup {NULL}]
    BY DEF PadInv, PadTypeOK
  <2>2. /\ rom' \in BOOLEAN /\ padInitialiseCounter' \in 0 .. P!Last' /\ pserved' \in BOOLEAN
        /\ buffer' \in PadBuffers
    BY <1>3 DEF PadInv, PadTypeOK
  <2> QED
    BY <2>1, <2>2 DEF PadTypeOK
<1>5. ASSUME NEW u \in Callers, pcall'[u].at # "idle" PROVE PadStaged(u)'
  <2>1. pcall'[u].op = pcall[u].op /\ pcall[u].at # "idle"
    BY <1>1, <1>5
  <2>2. PadStaged(u)
    BY DEF PadInv, PadCallsTrue
  <2>3. ASSUME pcall[u].op \in P!Binds PROVE padInitialiseCounter' <= pcall[u].op.client
    <3>1. /\ u \in InitTasks /\ padInitialiseCounter <= pcall[u].op.client
          /\ pcall[u].op.client \in {0, 1}
      BY <2>1, <2>2, <2>3, PadOpFacts DEF PadStaged
    <3>2. \/ padInitialiseCounter' = padInitialiseCounter \/ padInitialiseCounter' = 0
          \/ pcall'[t] = P!Idle /\ t \in InitTasks
      BY <1>2 DEF PadStaged
    <3>3. ~(pcall'[t] = P!Idle /\ t \in InitTasks)
      <4>1. t \in InitTasks => u = t
        BY <3>1, DriversAssumption
      <4> QED
        BY <1>1, <1>5, <4>1
    <3> QED
      BY <3>1, <3>2, <3>3
  <2> QED
    BY <2>1, <2>2, <2>3 DEF PadStaged
<1>6. \A u \in Callers : PadStaged(u)'
  BY <1>5 DEF PadStaged
<1>7. ASSUME NEW u \in Callers, u # t PROVE PadCallTrue(u)'
  <2>1. pcall'[u] = pcall[u] /\ PadCallTrue(u)
    BY <1>7 DEF PadInv, PadCallsTrue
  <2>2. pcall[u].at = "wait" => pcall[u].op.client \in {0, 1}
    BY PadOpFacts DEF PadInv, PadCallsTrue, PadStaged
  <2> QED
    BY <1>1, <1>7, <2>1, <2>2 DEF PadCallTrue
<1>8. ASSUME NEW u \in Callers, u # t PROVE PadHeld(u)'
  <2>1. pcall'[u] = pcall[u] /\ (P!UsesBuffer(u)' <=> P!UsesBuffer(u))
    BY <1>8 DEF P!UsesBuffer
  <2>2. /\ PadAsked(u)' <=> PadAsked(u)
        /\ PadAsked(u) => padsif'[0].req = padsif[0].req
    BY <1>8 DEF PadAsked
  <2>3. PadHeld(u)
    BY DEF PadInv, PadArguments
  <2> QED
    BY <2>1, <2>2, <2>3 DEF PadHeld, PadAnswer
<1>9. PadPorts'
  <2>1. ASSUME NEW u \in Callers, u # t
        PROVE  pcall'[u].at = "wait" /\ pcall'[u].op = P!PortOpen /\ ~pcall'[u].store =>
                 pcall'[u].port \in padData'
    BY <2>1 DEF PadInv, PadPorts
  <2>2. ASSUME NEW q \in opened'
        PROVE  q \in padData' \/ \E u \in Callers : pcall'[u].store /\ pcall'[u].port = q
    <3>1. CASE q \in opened
      <4>1. q \in padData \/ \E u \in Callers : pcall[u].store /\ pcall[u].port = q
        BY <3>1 DEF PadInv, PadPorts, P!PortKnown
      <4>2. ASSUME NEW u \in Callers, pcall[u].store, pcall[u].port = q
            PROVE  q \in padData' \/ \E v \in Callers : pcall'[v].store /\ pcall'[v].port = q
        <5>1. CASE u = t
          BY <4>2, <5>1
        <5>2. CASE u # t
          BY <4>2, <5>2
        <5> QED
          BY <5>1, <5>2
      <4> QED
        BY <4>1, <4>2
    <3>2. CASE q \notin opened
      BY <2>2, <3>2
    <3> QED
      BY <3>1, <3>2
  <2> QED
    BY <2>1, <2>2 DEF PadPorts, P!PortKnown
<1>10. P!AnswerOwn'
  <2>1. ASSUME NEW u \in Callers, presult'[u] # NULL, u \notin pdisturbed
        PROVE  presult'[u] = PadAnswer(u)
    <3>1. presult \in [Callers -> PadBuffers \cup {NULL}]
      BY DEF PadInv, PadTypeOK
    <3>2. presult[u] # NULL => presult[u] = PadAnswer(u)
      BY <2>1 DEF PadInv, P!AnswerOwn, PadAnswer
    <3> QED
      BY <2>1, <3>1, <3>2
  <2> QED
    BY <2>1 DEF P!AnswerOwn, PadAnswer
<1> QED
  BY <1>4, <1>6, <1>7, <1>8, <1>9, <1>10 DEF PadInv, PadCallsTrue, PadArguments

(* A request is accepted: it carries what the buffer holds. *)
LEMMA PadAccept ==
  ASSUME PadInv, NEW t \in Callers, pcall[t].at = "send", P!Accept(t),
         UNCHANGED <<rom, padInitialiseCounter, buffer, padData, opened, pserved, pdisturbed, presult>>
  PROVE  PadInv'
<1>1. PICK op \in PadOps : op = pcall[t].op
  BY DEF PadInv, PadCallsTrue, PadStaged
<1>2. PICK c \in {0, 1} : c = op.client
  BY PadOpFacts
<1>3. /\ padsif \in [{0, 1} -> PadClients] /\ buffer.of \in Callers \cup {NULL}
      /\ padsif[c].server \in BOOLEAN
  BY DEF PadInv, PadTypeOK, PadClients, PadBuffers
<1>4. PICK sv \in BOOLEAN : /\ sv = (op \notin P!Binds /\ padsif[c].server)
                            /\ op \notin P!Binds => sv = padsif[c].server
  BY <1>3
<1>5. PICK rq \in PadReqs : rq = [by |-> t, op |-> op, replied |-> FALSE,
                                   got |-> IF op \in P!Binds THEN t ELSE buffer.of]
  <2>1. PICK g \in Callers \cup {NULL} : g = IF op \in P!Binds THEN t ELSE buffer.of
    BY <1>3
  <2>2. [by |-> t, op |-> op, replied |-> FALSE, got |-> g] \in PadReqs
    BY ONLY g \in Callers \cup {NULL}, op \in PadOps, t \in Callers DEF PadReqs
  <2> QED
    BY ONLY <2>1, <2>2
<1>6. /\ padsif[c].state = "free"
      /\ padsif' = [padsif EXCEPT ![c] = [state |-> "pending", server |-> sv, req |-> rq]]
  BY <1>1, <1>2, <1>4, <1>5 DEF P!Accept
<1>7. /\ padsif' \in [{0, 1} -> PadClients]
      /\ padsif'[c] = [state |-> "pending", server |-> sv, req |-> rq]
      /\ \A d \in {0, 1} : d # c => padsif'[d] = padsif[d]
  BY ONLY <1>3, <1>6, c \in {0, 1}, sv \in BOOLEAN, rq \in PadReqs DEF PadClients
<1>8. padsif'[c].state = "pending" /\ padsif'[c].server = sv /\ padsif'[c].req = rq
  BY ONLY <1>7
<1>9. rq.by = t /\ rq.op = op /\ rq.replied = FALSE /\ (op \notin P!Binds => rq.got = buffer.of)
  BY ONLY <1>5
<1>11. /\ pcall' \in [Callers -> PadCalls]
       /\ pcall'[t].at = "wait" /\ pcall'[t].op = op /\ pcall'[t].port = pcall[t].port
       /\ pcall'[t].store = (op = P!PortOpen)
       /\ \A u \in Callers : u # t => pcall'[u] = pcall[u]
  <2>1. pcall \in [Callers -> PadCalls] /\ pcall[t].op = op
    BY <1>1 DEF PadInv, PadTypeOK
  <2>2. pcall' = [pcall EXCEPT ![t].at = "wait", ![t].store = (op = P!PortOpen)]
    BY <1>1 DEF P!Accept
  <2>3. (op = P!PortOpen) \in BOOLEAN
    OBVIOUS
  <2> QED
    BY ONLY <2>1, <2>2, <2>3, t \in Callers DEF PadCalls
<1>12. PadCallTrue(t)'
  BY <1>2, <1>8, <1>9, <1>11 DEF PadCallTrue
<1>13. ASSUME NEW d \in {0, 1} PROVE PadReqTrue(d)'
  <2>1. CASE d = c
    BY <1>2, <1>8, <1>9, <1>11, <2>1 DEF PadReqTrue
  <2>2. CASE d # c
    <3>1. padsif'[d] = padsif[d] /\ PadReqTrue(d)
      BY <1>7, <2>2 DEF PadInv, PadCallsTrue
    <3>2. padsif[d].state = "pending" => padsif[d].req.by # t
      BY <3>1 DEF PadReqTrue
    <3> QED
      BY <1>11, <3>1, <3>2 DEF PadReqTrue
  <2> QED
    BY <2>1, <2>2
<1>14. \A d \in {0, 1} : padsif[d].state = "pending" =>
         padsif'[d].state = "pending" /\ padsif'[d].req = padsif[d].req
  BY <1>6, <1>7
<1>15. PadServers'
  <2>1. op \in P!Binds => padInitialiseCounter <= c
    BY <1>1, <1>2 DEF PadInv, PadCallsTrue, PadStaged
  <2>2. padInitialiseCounter \in Nat /\ padInitialiseCounter' = padInitialiseCounter
    BY DEF PadInv, PadTypeOK
  <2>3. CASE op \in P!Binds
    BY <1>7, <2>1, <2>2, <2>3 DEF PadInv, PadServers
  <2>4. CASE op \notin P!Binds
    <3>1. padsif'[c].server = padsif[c].server
      BY <1>4, <1>8, <2>4
    <3> QED
      BY <1>7, <2>2, <3>1 DEF PadInv, PadServers
  <2> QED
    BY <2>3, <2>4
<1>16. PadHeld(t)'
  <2>1. ASSUME P!UsesBuffer(t)', t \notin pdisturbed
        PROVE  PadAsked(t)' /\ padsif'[0].req.got = t /\ ~padsif'[0].req.replied
    <3>1. op \notin P!Binds
      BY <1>11, <2>1 DEF P!UsesBuffer
    <3>2. c = 0 /\ P!UsesBuffer(t)
      BY <1>1, <1>2, <3>1, PadOpFacts DEF P!UsesBuffer
    <3>3. buffer.of = t
      BY <2>1, <3>2 DEF PadInv, PadArguments, PadHeld
    <3> QED
      BY <1>8, <1>9, <3>1, <3>2, <3>3 DEF PadAsked
  <2> QED
    BY <1>11, <2>1 DEF PadHeld
<1>17. PadSema'
  <2>1. sema_id' = IF c = 0 THEN 0 ELSE sema_id
    BY <1>1, <1>2 DEF P!Accept, P!SemaReset
  <2>2. CASE c = 0
    BY <2>1, <2>2 DEF PadSema
  <2>3. CASE c # 0
    BY <1>7, <2>1, <2>3 DEF PadInv, PadSema
  <2> QED
    BY <2>2, <2>3
<1>18. /\ pcall'[t].at = "wait" /\ pcall'[t].op = P!PortOpen /\ ~pcall'[t].store =>
            pcall'[t].port \in padData'
       /\ ~pcall[t].store /\ opened' = opened /\ padData' = padData
  BY <1>11 DEF PadInv, PadCallsTrue, PadCallTrue
<1>19. \A d \in {0, 1} : padsif'[d].state = "pending" /\ padsif'[d].req.by # t =>
           padsif[d].state = "pending" /\ padsif'[d].req = padsif[d].req
  BY <1>7, <1>8, <1>9
<1>20. /\ pcall'[t].at # "idle" /\ pcall'[t].op = pcall[t].op /\ pcall[t].at # "idle"
       /\ padInitialiseCounter' = padInitialiseCounter /\ presult' = presult
       /\ UNCHANGED <<rom, buffer, pserved, pdisturbed>>
  BY <1>1, <1>11
<1> QED
  BY ONLY PadInv, t \in Callers, <1>7, <1>11, <1>12, <1>13, <1>14, <1>15, <1>16, <1>17, <1>18,
     <1>19, <1>20, PadCallStep

(* A call ends before it has a request, or after its request is gone. *)
LEMMA PadGivesUp ==
  ASSUME PadInv, NEW t \in Callers, pcall[t].at \in {"send", "read", "ended"},
         pcall' = [pcall EXCEPT ![t] = P!Idle],
         padsif' \in [{0, 1} -> PadClients],
         \A c \in {0, 1} : /\ padsif'[c].req = padsif[c].req
                           /\ padsif'[c].state = "pending" <=> padsif[c].state = "pending",
         PadServers', PadSema',
         \/ presult' = presult
         \/ presult' = [presult EXCEPT ![t] = buffer] /\ pcall[t].at = "read",
         padData \subseteq padData', pcall[t].store => pcall[t].port \in padData',
         UNCHANGED <<rom, padInitialiseCounter, buffer, opened, pserved, pdisturbed>>
  PROVE  PadInv'
<1>1. P!Idle.at = "idle" /\ P!Idle \in PadCalls /\ P!Idle' = P!Idle /\ P!Idle.store = FALSE
  BY DEF P!Idle, PadCalls
<1>2. /\ pcall' \in [Callers -> PadCalls] /\ pcall'[t] = P!Idle
      /\ \A u \in Callers : u # t => pcall'[u] = pcall[u]
  BY <1>1 DEF PadInv, PadTypeOK
<1>3. PadCallTrue(t)'
  BY <1>1, <1>2 DEF PadCallTrue
<1>4. ASSUME NEW c \in {0, 1} PROVE PadReqTrue(c)'
  <2>1. PadReqTrue(c)
    BY DEF PadInv, PadCallsTrue
  <2>2. padsif[c].state = "pending" => padsif[c].req.by # t
    BY <2>1 DEF PadReqTrue
  <2> QED
    BY <1>2, <2>1, <2>2 DEF PadReqTrue
<1>5. ASSUME pcall[t].at = "read", t \notin pdisturbed PROVE buffer = PadAnswer(t)
  <2>1. pcall[t].op \in P!Blocking
    BY <1>5 DEF PadInv, PadCallsTrue, PadCallTrue
  <2>2. pcall[t].op \notin P!Binds
    BY <2>1, PadOpFacts
  <2>3. P!UsesBuffer(t)
    BY <1>5, <2>2 DEF P!UsesBuffer
  <2> QED
    BY <1>5, <2>3 DEF PadInv, PadArguments, PadHeld
<1>6. PadHeld(t)'
  BY <1>1, <1>2 DEF PadHeld, P!UsesBuffer
<1>7. pcall[t].at # "idle" /\ pcall'[t].at = "idle"
  BY <1>1, <1>2
<1>8. \/ presult' = presult
      \/ /\ presult' = [presult EXCEPT ![t] = buffer]
         /\ t \notin pdisturbed => buffer = PadAnswer(t)
  BY <1>5
<1>9. padInitialiseCounter' = padInitialiseCounter /\ opened' = opened
  OBVIOUS
<1> QED
  BY <1>2, <1>3, <1>4, <1>6, <1>7, <1>8, <1>9, PadCallStep

(* SIF RPC refuses a request, or loses the client to it. *)
LEMMA PadRefuse ==
  ASSUME PadInv, NEW t \in Callers, pcall[t].at = "send", P!Refuse(t),
         UNCHANGED <<rom, padInitialiseCounter, buffer, padData, opened, pserved, pdisturbed, presult>>
  PROVE  PadInv'
<1>1. PICK op \in PadOps : op = pcall[t].op
  BY DEF PadInv, PadCallsTrue, PadStaged
<1>2. PICK c \in {0, 1} : c = op.client
  BY PadOpFacts
<1>3. padsif \in [{0, 1} -> PadClients] /\ padsif[c].server \in BOOLEAN
  BY DEF PadInv, PadTypeOK, PadClients
<1>4. PICK sv \in BOOLEAN : /\ sv = (op \notin P!Binds /\ padsif[c].server)
                            /\ op \notin P!Binds => sv = padsif[c].server
  BY <1>3
<1>5. /\ padsif' \in [{0, 1} -> PadClients]
      /\ \A d \in {0, 1} : /\ padsif'[d].req = padsif[d].req
                           /\ padsif'[d].state = "pending" <=> padsif[d].state = "pending"
                           /\ d # c \/ op \notin P!Binds => padsif'[d].server = padsif[d].server
  <2>1. CASE padsif' = padsif
    BY <1>3, <2>1
  <2>2. CASE /\ padsif[c].state = "free"
             /\ padsif' = [padsif EXCEPT ![c].state = "lost",
                                         ![c].server = op \notin P!Binds /\ @]
    <3>1. /\ padsif' \in [{0, 1} -> PadClients]
          /\ padsif'[c].state = "lost" /\ padsif'[c].req = padsif[c].req
          /\ padsif'[c].server = (op \notin P!Binds /\ padsif[c].server)
          /\ \A d \in {0, 1} : d # c => padsif'[d] = padsif[d]
      BY ONLY <1>3, <2>2, c \in {0, 1} DEF PadClients
    <3>2. op \notin P!Binds => padsif'[c].server = padsif[c].server
      BY <1>4, <3>1
    <3>3. ASSUME NEW d \in {0, 1}
          PROVE  /\ padsif'[d].req = padsif[d].req
                 /\ padsif'[d].state = "pending" <=> padsif[d].state = "pending"
                 /\ d # c \/ op \notin P!Binds => padsif'[d].server = padsif[d].server
      <4>1. CASE d = c
        BY ONLY <2>2, <3>1, <3>2, <4>1
      <4>2. CASE d # c
        BY ONLY <3>1, <4>2, d \in {0, 1}
      <4> QED
        BY ONLY <4>1, <4>2
    <3> QED
      BY ONLY <3>1, <3>3
  <2> QED
    BY <1>1, <1>2, <2>1, <2>2 DEF P!Refuse
<1>6. PadServers'
  <2>0. PadServers /\ padInitialiseCounter' = padInitialiseCounter /\ 0 \in {0, 1} /\ 1 \in {0, 1}
    BY DEF PadInv
  <2>1. CASE op \notin P!Binds
    BY ONLY <1>5, <2>0, <2>1 DEF PadServers
  <2>2. CASE op \in P!Binds
    <3>1. padInitialiseCounter \in Nat /\ padInitialiseCounter <= c
      BY <1>1, <1>2, <2>2 DEF PadInv, PadCallsTrue, PadStaged, PadTypeOK
    <3> QED
      BY ONLY <1>5, <2>0, <3>1, c \in {0, 1} DEF PadServers
  <2> QED
    BY <2>1, <2>2
<1>7. /\ pcall' = [pcall EXCEPT ![t] = P!Idle] /\ pcall[t].at = "send" /\ presult' = presult
      /\ padData \subseteq padData' /\ ~pcall[t].store
      /\ UNCHANGED <<rom, padInitialiseCounter, buffer, opened, pserved, pdisturbed>>
  BY DEF P!Refuse, PadInv, PadCallsTrue, PadCallTrue
<1>8. PadSema'
  <2>1. sema_id' = sema_id \/ sema_id' = 0
    BY DEF P!Refuse, P!SemaReset
  <2>2. padsif'[0].state = "pending" <=> padsif[0].state = "pending"
    BY <1>5
  <2> QED
    BY <2>1, <2>2 DEF PadInv, PadSema
<1> QED
  BY ONLY PadInv, t \in Callers, <1>5, <1>6, <1>7, <1>8, PadGivesUp

(* SifBindRpc and SifCallRpc. *)
LEMMA PadSend == ASSUME PadInv, NEW t \in Callers, P!Send(t) PROVE PadInv'
BY PadAccept, PadRefuse DEF P!Send

(* A blocking call finds sema_id raised.  Its own request is answered by then: *)
(* while a request is under way nothing is there to be taken.                  *)
LEMMA PadPoll == ASSUME PadInv, NEW t \in Callers, P!Poll(t) PROVE PadInv'
<1>1. /\ pcall[t].at = "wait" /\ pcall[t].op \in P!Blocking
      /\ sema_id # 0 /\ sema_id' = sema_id - 1
      /\ pcall' = [pcall EXCEPT ![t].at = "read"]
      /\ UNCHANGED <<rom, padInitialiseCounter, padsif, buffer, padData, opened, pserved,
                     pdisturbed, presult>>
  BY DEF P!Poll
<1>2. sema_id \in Nat /\ padsif[0].state # "pending"
  BY <1>1 DEF PadInv, PadSema
<1>3. /\ pcall' \in [Callers -> PadCalls]
      /\ pcall'[t].at = "read" /\ pcall'[t].op = pcall[t].op /\ pcall'[t].port = pcall[t].port
      /\ pcall'[t].store = pcall[t].store
      /\ \A u \in Callers : u # t => pcall'[u] = pcall[u]
  <2>1. pcall \in [Callers -> PadCalls]
    BY DEF PadInv, PadTypeOK
  <2> QED
    BY ONLY <1>1, <2>1, t \in Callers DEF PadCalls
<1>4. ~pcall[t].store /\ pcall[t].op \notin P!Binds
  BY <1>1, PadOpFacts DEF PadInv, PadCallsTrue, PadCallTrue, PadStaged
<1>5. PadCallTrue(t)'
  BY <1>1, <1>3, <1>4 DEF PadCallTrue
<1>6. ASSUME NEW c \in {0, 1} PROVE PadReqTrue(c)'
  <2>1. PadReqTrue(c)
    BY DEF PadInv, PadCallsTrue
  <2>2. padsif[c].state = "pending" => padsif[c].req.by # t
    <3>1. c # 0 /\ padsif[c].state = "pending" /\ padsif[c].req.by = t => FALSE
      BY <1>1, <1>4, <2>1, PadOpFacts DEF PadReqTrue
    <3> QED
      BY <1>2, <3>1
  <2> QED
    BY <1>1, <1>3, <2>1, <2>2 DEF PadReqTrue
<1>7. PadHeld(t)'
  <2>1. t \notin pdisturbed => buffer = PadAnswer(t)
    <3>1. P!UsesBuffer(t) /\ ~PadAsked(t)
      BY <1>1, <1>2, <1>4 DEF P!UsesBuffer, PadAsked
    <3> QED
      BY <1>1, <3>1 DEF PadInv, PadArguments, PadHeld
  <2> QED
    BY <1>1, <1>3, <2>1 DEF PadHeld, PadAnswer
<1>8. PadServers' /\ PadSema' /\ padsif' \in [{0, 1} -> PadClients]
  BY <1>1, <1>2 DEF PadInv, PadServers, PadSema, PadTypeOK
<1> QED
  BY <1>1, <1>3, <1>4, <1>5, <1>6, <1>7, <1>8, PadCallStep

(* It reads what the buffer holds. *)
LEMMA PadReadAnswer == ASSUME PadInv, NEW t \in Callers, P!ReadAnswer(t) PROVE PadInv'
<1>1. /\ pcall[t].at = "read" /\ pcall' = [pcall EXCEPT ![t] = P!Idle]
      /\ presult' = [presult EXCEPT ![t] = buffer]
      /\ UNCHANGED <<rom, padInitialiseCounter, padsif, sema_id, buffer, padData, opened, pserved,
                     pdisturbed>>
  BY DEF P!ReadAnswer
<1>2. padsif' \in [{0, 1} -> PadClients] /\ PadServers' /\ PadSema' /\ ~pcall[t].store
  BY <1>1 DEF PadInv, PadTypeOK, PadServers, PadSema, PadCallsTrue, PadCallTrue
<1> QED
  BY <1>1, <1>2, PadGivesUp

(* padportopen stores the data area, before or after its end function. *)
LEMMA PadStore == ASSUME PadInv, NEW t \in Callers, P!Store(t) PROVE PadInv'
<1>1. /\ pcall[t].store /\ padData' = padData \cup {pcall[t].port}
      /\ UNCHANGED <<rom, padInitialiseCounter, padsif, sema_id, buffer, opened, pserved,
                     pdisturbed, presult>>
  BY DEF P!Store
<1>2. pcall[t].op = P!PortOpen /\ pcall[t].at \in {"wait", "ended"}
  BY <1>1 DEF PadInv, PadCallsTrue, PadCallTrue
<1>3. /\ padsif' \in [{0, 1} -> PadClients] /\ PadServers' /\ PadSema'
      /\ padData \subseteq padData' /\ pcall[t].port \in padData'
  BY <1>1 DEF PadInv, PadTypeOK, PadServers, PadSema
<1>4. CASE pcall[t].at = "ended"
  <2>1. pcall' = [pcall EXCEPT ![t] = P!Idle]
    BY <1>4 DEF P!Store
  <2> QED
    BY <1>1, <1>3, <1>4, <2>1, PadGivesUp
<1>5. CASE pcall[t].at = "wait"
  <2>1. /\ pcall' \in [Callers -> PadCalls]
        /\ pcall'[t].at = "wait" /\ pcall'[t].op = pcall[t].op /\ pcall'[t].port = pcall[t].port
        /\ pcall'[t].store = FALSE
        /\ \A u \in Callers : u # t => pcall'[u] = pcall[u]
    <3>1. pcall \in [Callers -> PadCalls]
      BY DEF PadInv, PadTypeOK
    <3>2. pcall' = [pcall EXCEPT ![t] = [@ EXCEPT !.store = FALSE]]
      BY <1>5 DEF P!Store
    <3> QED
      BY ONLY <1>5, <3>1, <3>2, t \in Callers DEF PadCalls
  <2>2. PadCallTrue(t)'
    BY <1>1, <1>5, <2>1 DEF PadInv, PadCallsTrue, PadCallTrue
  <2>3. ASSUME NEW c \in {0, 1} PROVE PadReqTrue(c)'
    BY <1>1, <1>5, <2>1 DEF PadInv, PadCallsTrue, PadReqTrue
  <2>4. PadHeld(t)'
    <3>1. (P!UsesBuffer(t)' <=> P!UsesBuffer(t)) /\ (PadAsked(t)' <=> PadAsked(t))
      BY <1>1, <1>5, <2>1 DEF P!UsesBuffer, PadAsked
    <3>2. PadHeld(t)
      BY DEF PadInv, PadArguments
    <3> QED
      BY <1>1, <1>5, <2>1, <3>1, <3>2 DEF PadHeld, PadAnswer
  <2>5. pcall'[t].port \in padData'
    BY <1>1, <2>1
  <2> QED
    BY <1>1, <1>3, <1>5, <2>1, <2>2, <2>3, <2>4, <2>5, PadCallStep
<1> QED
  BY <1>2, <1>4, <1>5

(* padman answers into the buffer: its caller finds it there if nobody disturbed *)
(* the request, and the others that use the buffer are disturbed.                *)
LEMMA PadReply == ASSUME PadInv, NEW c \in {0, 1}, P!IopReply(c) PROVE PadInv'
<1>1. /\ padsif[c].state = "pending" /\ ~padsif[c].req.replied
      /\ padsif' = [padsif EXCEPT ![c].req.replied = TRUE]
      /\ UNCHANGED <<rom, padInitialiseCounter, sema_id, padData, pcall, opened, pserved, presult>>
  BY DEF P!IopReply
<1>2. PICK t \in Callers, op \in PadOps :
           /\ t = padsif[c].req.by /\ op = padsif[c].req.op /\ op.client = c
           /\ pcall[t].at = "wait" /\ pcall[t].op = op
  BY <1>1, PadWaits, Zenon
<1>3. padsif \in [{0, 1} -> PadClients] /\ buffer \in PadBuffers
  BY DEF PadInv, PadTypeOK
<1>4. /\ padsif' \in [{0, 1} -> PadClients]
      /\ padsif'[c].state = padsif[c].state /\ padsif'[c].server = padsif[c].server
      /\ padsif'[c].req.by = padsif[c].req.by /\ padsif'[c].req.op = padsif[c].req.op
      /\ padsif'[c].req.got = padsif[c].req.got
      /\ \A d \in {0, 1} : d # c => padsif'[d] = padsif[d]
  BY ONLY <1>1, <1>3, c \in {0, 1} DEF PadClients, PadReqs
<1>5. \A d \in {0, 1} :
        /\ padsif'[d].state = padsif[d].state /\ padsif'[d].server = padsif[d].server
        /\ padsif'[d].req.by = padsif[d].req.by /\ padsif'[d].req.op = padsif[d].req.op
        /\ padsif'[d].req.got = padsif[d].req.got
  BY ONLY <1>4
<1>6. PICK g \in Callers \cup {NULL} : g = padsif[c].req.got
  BY <1>3 DEF PadClients, PadReqs
<1>7. /\ op \in P!Binds => buffer' = buffer /\ pdisturbed' = pdisturbed
      /\ op \notin P!Binds =>
           /\ buffer' = [of |-> g, is |-> "answer"]
           /\ pdisturbed' = pdisturbed \cup {u \in Callers \ {t} : P!UsesBuffer(u)}
  BY <1>2, <1>6 DEF P!IopReply
<1>8. buffer' \in PadBuffers
  BY ONLY <1>3, <1>7, g \in Callers \cup {NULL} DEF PadBuffers
<1>9. P!Last' = P!Last /\ P!Idle' = P!Idle /\ P!Idle.at = "idle"
      /\ \A u \in Callers : P!UsesBuffer(u)' <=> P!UsesBuffer(u)
  BY <1>1 DEF P!Last, P!UsesBuffer, P!Idle
<1>10. PadTypeOK'
  BY <1>1, <1>4, <1>8, <1>9 DEF PadInv, PadTypeOK
<1>11. \A u \in Callers : PadStaged(u)'
  BY <1>1, <1>9 DEF PadInv, PadCallsTrue, PadStaged
<1>12. ASSUME NEW u \in Callers PROVE PadCallTrue(u)'
  <2>1. PadCallTrue(u) /\ (pcall[u].at = "wait" => pcall[u].op.client \in {0, 1})
    BY PadOpFacts DEF PadInv, PadCallsTrue, PadStaged
  <2> QED
    BY ONLY <1>1, <1>5, <1>9, <2>1 DEF PadCallTrue
<1>13. ASSUME NEW d \in {0, 1} PROVE PadReqTrue(d)'
  <2>1. PadReqTrue(d)
    BY DEF PadInv, PadCallsTrue
  <2> QED
    BY ONLY <1>1, <1>5, <2>1, d \in {0, 1} DEF PadReqTrue
<1>14. PadSema'
  BY <1>1, <1>5 DEF PadInv, PadSema
<1>15. ASSUME NEW u \in Callers PROVE PadHeld(u)'
  <2>1. SUFFICES ASSUME P!UsesBuffer(u), u \notin pdisturbed' PROVE PadHeld(u)'
    BY <1>9 DEF PadHeld
  <2>2. u \notin pdisturbed /\ PadHeld(u)
    BY <1>7, <2>1 DEF PadInv, PadArguments
  <2>3. PadAsked(u)' <=> PadAsked(u)
    BY <1>5 DEF PadAsked
  <2>4. CASE op \in P!Binds
    <3>1. u # t
      BY <1>2, <2>1, <2>4 DEF P!UsesBuffer
    <3>2. PadAsked(u) => padsif'[0] = padsif[0]
      BY <1>2, <1>4, <3>1 DEF PadAsked
    <3>3. buffer' = buffer /\ pcall' = pcall /\ pdisturbed' = pdisturbed
      BY <1>1, <1>7, <2>4
    <3> QED
      BY ONLY <2>1, <2>2, <2>3, <3>2, <3>3 DEF PadHeld, PadAnswer
  <2>5. CASE op \notin P!Binds
    <3>1. u = t /\ pcall[u].at = "wait" /\ c = 0
      BY <1>2, <1>7, <2>1, <2>5, PadOpFacts
    <3>2. PadAsked(u)
      BY <1>1, <1>2, <3>1 DEF PadAsked
    <3>3. padsif[0].req.got = u
      BY <2>1, <2>2, <3>1, <3>2 DEF PadHeld
    <3>4. buffer' = PadAnswer(u) /\ padsif'[0].req.got = u
      BY <1>4, <1>6, <1>7, <2>5, <3>1, <3>3 DEF PadAnswer
    <3>5. pcall'[u].at = "wait" /\ PadAsked(u)'
      BY <1>1, <2>3, <3>1, <3>2
    <3> QED
      BY ONLY <3>4, <3>5 DEF PadHeld, PadAnswer
  <2> QED
    BY <2>4, <2>5
<1>16. PadPorts'
  BY <1>1, <1>9 DEF PadInv, PadPorts, P!PortKnown
<1>17. PadServers'
  BY <1>1, <1>5 DEF PadInv, PadServers
<1>18. P!AnswerOwn'
  BY <1>1, <1>7 DEF PadInv, P!AnswerOwn
<1> QED
  BY <1>10, <1>11, <1>12, <1>13, <1>14, <1>15, <1>16, <1>17, <1>18
    DEF PadInv, PadCallsTrue, PadArguments

(* _request_end frees one client. *)
LEMMA PadFreedFacts ==
  ASSUME PadInv, NEW c \in {0, 1}, NEW sv \in BOOLEAN
  PROVE  /\ P!Freed(c, sv) \in [{0, 1} -> PadClients]
         /\ P!Freed(c, sv)[c].state = "free" /\ P!Freed(c, sv)[c].server = sv
         /\ \A d \in {0, 1} : d # c => P!Freed(c, sv)[d] = padsif[d]
<1>1. padsif \in [{0, 1} -> PadClients]
  BY DEF PadInv, PadTypeOK
<1>2. P!NoReq \in PadReqs
  BY DEF P!NoReq, PadReqs
<1> QED
  BY ONLY <1>1, <1>2, c \in {0, 1}, sv \in BOOLEAN DEF P!Freed, PadClients

(* What an end function finds, if its call was not disturbed. *)
LEMMA PadAnswerFacts ==
  ASSUME PadInv, NEW c \in {0, 1}, P!Answered(c)
  PROVE  \E t \in Callers, op \in PadOps :
           /\ t = padsif[c].req.by /\ op = padsif[c].req.op /\ op.client = c
           /\ pcall[t].at = "wait" /\ pcall[t].op = op
           /\ op \notin P!Binds /\ t \notin pdisturbed => buffer = PadAnswer(t)
<1>1. padsif[c].state = "pending" /\ padsif[c].req.replied
  BY DEF P!Answered
<1>2. PICK t \in Callers, op \in PadOps :
           /\ t = padsif[c].req.by /\ op = padsif[c].req.op /\ op.client = c
           /\ pcall[t].at = "wait" /\ pcall[t].op = op
  BY <1>1, PadWaits, Zenon
<1>3. ASSUME op \notin P!Binds, t \notin pdisturbed PROVE buffer = PadAnswer(t)
  <2>1. c = 0
    BY <1>2, <1>3, PadOpFacts
  <2>2. P!UsesBuffer(t) /\ PadAsked(t)
    BY <1>1, <1>2, <1>3, <2>1 DEF P!UsesBuffer, PadAsked
  <2> QED
    BY <1>1, <1>2, <1>3, <2>1, <2>2 DEF PadInv, PadArguments, PadHeld
<1> QED
  BY <1>2, <1>3

(* An answer has come: the call ends or still has its data area to store; a     *)
(* blocking call has no end function and sees sema_id raised later.             *)
LEMMA PadEndFunction ==
  ASSUME PadInv, NEW c \in {0, 1}, P!Answered(c), NEW t \in Callers, NEW op \in PadOps,
         t = padsif[c].req.by, op = padsif[c].req.op,
         padsif' \in [{0, 1} -> PadClients], padsif'[c].state = "free",
         \A d \in {0, 1} : d # c =>
           padsif'[d].state = padsif[d].state /\ padsif'[d].req = padsif[d].req,
         \/ pcall' = [pcall EXCEPT ![t] = P!Idle] /\ ~pcall[t].store
         \/ pcall' = pcall /\ op \in P!Blocking
         \/ pcall' = [pcall EXCEPT ![t] = [@ EXCEPT !.at = "ended"]] /\ pcall[t].store,
         \/ padInitialiseCounter' = padInitialiseCounter
         \/ padInitialiseCounter' = 0
         \/ /\ pcall' = [pcall EXCEPT ![t] = P!Idle] /\ padInitialiseCounter' \in 0 .. P!Last
            /\ op \in PadStages,
         PadServers', sema_id' = P!Raised(c),
         \/ presult' = presult
         \/ presult' = [presult EXCEPT ![t] = buffer] /\ op \notin P!Binds,
         \A q \in opened' : q \in opened \/ (op = P!PortOpen /\ q = pcall[t].port),
         UNCHANGED <<rom, buffer, padData, pserved, pdisturbed>>
  PROVE  PadInv'
<1>1. /\ pcall[t].at = "wait" /\ pcall[t].op = op /\ op.client = c
      /\ op \notin P!Binds /\ t \notin pdisturbed => buffer = PadAnswer(t)
  <2>1. PICK t1 \in Callers, op1 \in PadOps :
           /\ t1 = padsif[c].req.by /\ op1 = padsif[c].req.op /\ op1.client = c
           /\ pcall[t1].at = "wait" /\ pcall[t1].op = op1
           /\ op1 \notin P!Binds /\ t1 \notin pdisturbed => buffer = PadAnswer(t1)
    BY PadAnswerFacts, Zenon
  <2> QED
    BY <2>1
<1>2. pcall \in [Callers -> PadCalls] /\ P!Idle \in PadCalls /\ P!Idle.at = "idle"
      /\ P!Idle.store = FALSE /\ P!Idle' = P!Idle
  BY DEF PadInv, PadTypeOK, P!Idle, PadCalls
<1>3. /\ pcall' \in [Callers -> PadCalls]
      /\ \A u \in Callers : u # t => pcall'[u] = pcall[u]
      /\ \/ pcall'[t] = P!Idle /\ ~pcall[t].store
         \/ pcall'[t] = pcall[t] /\ op \in P!Blocking
         \/ /\ pcall'[t].at = "ended" /\ pcall'[t].op = op /\ pcall'[t].store /\ pcall[t].store
            /\ pcall'[t].port = pcall[t].port
  <2>1. CASE pcall' = [pcall EXCEPT ![t] = P!Idle] /\ ~pcall[t].store
    BY <1>2, <2>1
  <2>2. CASE pcall' = pcall /\ op \in P!Blocking
    BY <1>2, <2>2
  <2>3. CASE pcall' = [pcall EXCEPT ![t] = [@ EXCEPT !.at = "ended"]] /\ pcall[t].store
    <3>1. /\ pcall' \in [Callers -> PadCalls]
          /\ \A u \in Callers : u # t => pcall'[u] = pcall[u]
          /\ pcall'[t].at = "ended" /\ pcall'[t].op = pcall[t].op
          /\ pcall'[t].store = pcall[t].store /\ pcall'[t].port = pcall[t].port
      BY ONLY <1>2, <2>3, t \in Callers DEF PadCalls
    <3> QED
      BY ONLY <1>1, <2>3, <3>1
  <2> QED
    BY <2>1, <2>2, <2>3
<1>4. /\ pcall[t].store => op = P!PortOpen
      /\ op = P!PortOpen /\ ~pcall[t].store => pcall[t].port \in padData
  BY <1>1 DEF PadInv, PadCallsTrue, PadCallTrue, PadPorts
<1>5. op \in P!Blocking => op # P!PortOpen /\ op \notin P!Binds
  BY PadOpFacts
<1>6. PadCallTrue(t)'
  BY <1>1, <1>2, <1>3, <1>4, <1>5 DEF PadCallTrue
<1>7. pcall'[t] = P!Idle \/ (pcall'[t].at # "idle" /\ pcall'[t].op = pcall[t].op)
  BY <1>1, <1>3
<1>8. ASSUME NEW d \in {0, 1} PROVE PadReqTrue(d)'
  <2>1. CASE d = c
    BY <2>1 DEF PadReqTrue
  <2>2. CASE d # c
    <3>1. PadReqTrue(d) /\ padsif'[d].state = padsif[d].state /\ padsif'[d].req = padsif[d].req
      BY <2>2 DEF PadInv, PadCallsTrue
    <3>2. padsif[d].state = "pending" => padsif[d].req.by # t
      BY <1>1, <2>2, <3>1 DEF PadReqTrue
    <3> QED
      BY <1>3, <3>1, <3>2 DEF PadReqTrue
  <2> QED
    BY <2>1, <2>2
<1>9. /\ \A d \in {0, 1} : padsif[d].state = "pending" /\ padsif[d].req.by # t =>
           padsif'[d].state = "pending" /\ padsif'[d].req = padsif[d].req
      /\ \A d \in {0, 1} : padsif'[d].state = "pending" /\ padsif'[d].req.by # t =>
           padsif[d].state = "pending" /\ padsif'[d].req = padsif[d].req
  OBVIOUS
<1>10. \/ padInitialiseCounter' = padInitialiseCounter
       \/ padInitialiseCounter' = 0
       \/ /\ pcall'[t] = P!Idle /\ padInitialiseCounter' \in 0 .. P!Last
          /\ pcall[t].op \in PadStages
  BY <1>1, <1>2
<1>11. PadSema'
  <2>1. CASE c = 0
    BY <2>1 DEF PadInv, PadSema, P!Raised
  <2>2. CASE c # 0
    BY <2>2 DEF PadInv, PadSema, P!Raised
  <2> QED
    BY <2>1, <2>2
<1>12. PadHeld(t)'
  <2>1. CASE pcall'[t] = pcall[t] /\ op \in P!Blocking
    <3>1. c = 0
      BY <1>1, <1>5, <2>1, PadOpFacts
    <3>2. ~PadAsked(t)'
      BY <3>1 DEF PadAsked
    <3>3. pcall'[t].at = "wait" /\ (t \notin pdisturbed => buffer = PadAnswer(t))
      BY <1>1, <1>5, <2>1
    <3> QED
      BY <3>2, <3>3 DEF PadHeld, PadAnswer
  <2>2. CASE pcall'[t].at \in {"idle", "ended"}
    BY <2>2 DEF PadHeld, P!UsesBuffer
  <2> QED
    BY <1>2, <1>3, <2>1, <2>2
<1>13. \/ presult' = presult
       \/ /\ presult' = [presult EXCEPT ![t] = buffer]
          /\ t \notin pdisturbed => buffer = PadAnswer(t)
  BY <1>1
<1>14. /\ padData \subseteq padData' /\ pcall[t].at # "idle"
       /\ pcall[t].store => pcall[t].port \in padData' \/
                             (pcall'[t].store /\ pcall'[t].port = pcall[t].port)
       /\ pcall'[t].at = "wait" /\ pcall'[t].op = P!PortOpen /\ ~pcall'[t].store =>
            pcall'[t].port \in padData'
  BY <1>1, <1>2, <1>3, <1>4, <1>5
<1>15. \A q \in opened' : \/ q \in opened \/ q \in padData'
                          \/ pcall'[t].store /\ pcall'[t].port = q
  BY <1>3, <1>4, <1>5
<1>16. UNCHANGED <<rom, buffer, pserved, pdisturbed>> /\ PadServers'
       /\ padsif' \in [{0, 1} -> PadClients]
  OBVIOUS
<1> QED
  BY ONLY PadInv, t \in Callers, <1>3, <1>6, <1>7, <1>8, <1>9, <1>10, <1>11, <1>12, <1>13, <1>14,
     <1>15, <1>16, PadCallStep

(* The end functions of the commands preserve the invariant. *)
LEMMA PadCallback == ASSUME PadInv, P!Callback PROVE PadInv'
<1>0. PICK c \in {0, 1} : c = 0
  OBVIOUS
<1>1. P!Answered(c)
  BY <1>0 DEF P!Callback
<1>2. PICK t \in Callers, op \in PadOps :
           /\ t = padsif[c].req.by /\ op = padsif[c].req.op /\ op.client = c
           /\ pcall[t].at = "wait" /\ pcall[t].op = op
           /\ op \notin P!Binds /\ t \notin pdisturbed => buffer = PadAnswer(t)
  BY <1>1, PadAnswerFacts, Zenon
<1>3. /\ op.end \notin {"padInitCallback", "padEndCallback"}
      /\ padsif' = P!Freed(c, padsif[c].server) /\ sema_id' = P!Raised(c)
      /\ IF op.end = NULL
         THEN UNCHANGED <<pcall, presult, opened>>
         ELSE /\ presult' = [presult EXCEPT ![t] = buffer]
              /\ pcall' = [pcall EXCEPT ![t] = IF @.store THEN [@ EXCEPT !.at = "ended"] ELSE P!Idle]
              /\ opened' \in IF op = P!PortOpen THEN {opened, opened \cup {pcall[t].port}}
                             ELSE {opened}
      /\ UNCHANGED <<rom, padInitialiseCounter, buffer, padData, pserved, pdisturbed>>
  BY <1>0, <1>2 DEF P!Callback
<1>4. op \notin P!Binds /\ op # P!End /\ (op.end = NULL <=> op \in P!Blocking)
  BY <1>3, PadOpFacts
<1>5. padsif[c].server \in BOOLEAN
  BY DEF PadInv, PadTypeOK, PadClients
<1>6. /\ padsif' \in [{0, 1} -> PadClients] /\ padsif'[c].state = "free"
      /\ padsif'[c].server = padsif[c].server
      /\ \A d \in {0, 1} : d # c => padsif'[d] = padsif[d]
  BY <1>3, <1>5, PadFreedFacts
<1>7. PadServers'
  BY <1>0, <1>3, <1>6 DEF PadInv, PadServers
<1>8. \/ pcall' = [pcall EXCEPT ![t] = P!Idle] /\ ~pcall[t].store
      \/ pcall' = pcall /\ op \in P!Blocking
      \/ pcall' = [pcall EXCEPT ![t] = [@ EXCEPT !.at = "ended"]] /\ pcall[t].store
  <2>1. CASE op.end = NULL
    BY <1>3, <1>4, <2>1
  <2>2. CASE op.end # NULL /\ pcall[t].store
    BY <1>3, <2>2
  <2>3. CASE op.end # NULL /\ ~pcall[t].store
    BY <1>3, <2>3
  <2> QED
    BY <2>1, <2>2, <2>3
<1>9. \/ presult' = presult
      \/ presult' = [presult EXCEPT ![t] = buffer] /\ op \notin P!Binds
  BY <1>3, <1>4
<1>10. \A q \in opened' : q \in opened \/ (op = P!PortOpen /\ q = pcall[t].port)
  BY <1>3
<1>11. /\ UNCHANGED <<rom, buffer, padData, pserved, pdisturbed>> /\ sema_id' = P!Raised(c)
       /\ padInitialiseCounter' = padInitialiseCounter
  BY <1>3
<1> QED
  BY ONLY PadInv, c \in {0, 1}, <1>1, <1>2, <1>6, <1>7, <1>8, <1>9, <1>10, <1>11, PadEndFunction

(* padEndCallback preserves it: padReset starts over, whoever is under way. *)
LEMMA PadEndCallback == ASSUME PadInv, P!EndCallback PROVE PadInv'
<1>0. PICK c \in {0, 1} : c = 0
  OBVIOUS
<1>1. P!Answered(c)
  BY <1>0 DEF P!EndCallback
<1>2. PICK t \in Callers, op \in PadOps :
           /\ t = padsif[c].req.by /\ op = padsif[c].req.op /\ op.client = c
           /\ pcall[t].at = "wait" /\ pcall[t].op = op
           /\ op \notin P!Binds /\ t \notin pdisturbed => buffer = PadAnswer(t)
  BY <1>1, PadAnswerFacts, Zenon
<1>3. /\ op = P!End /\ op \notin P!Binds /\ sema_id' = P!Raised(c)
      /\ pcall' = [pcall EXCEPT ![t] = P!Idle] /\ presult' = [presult EXCEPT ![t] = buffer]
      /\ UNCHANGED <<rom, buffer, padData, opened, pserved, pdisturbed>>
  BY <1>0, <1>2, PadOpFacts DEF P!EndCallback
<1>4. ~pcall[t].store /\ \A q \in opened' : q \in opened
  BY <1>2, <1>3, PadOpFacts DEF PadInv, PadCallsTrue, PadCallTrue
<1>5. CASE /\ padInitialiseCounter' = 0
           /\ padsif' = [d \in {0, 1} |-> [P!Freed(c, FALSE)[d] EXCEPT !.server = FALSE]]
  <2>1. FALSE \in BOOLEAN
    OBVIOUS
  <2>2. /\ P!Freed(c, FALSE) \in [{0, 1} -> PadClients] /\ P!Freed(c, FALSE)[c].state = "free"
        /\ \A d \in {0, 1} : d # c => P!Freed(c, FALSE)[d] = padsif[d]
    BY <2>1, PadFreedFacts
  <2>3. ASSUME NEW d \in {0, 1}
        PROVE  /\ padsif'[d] \in PadClients
               /\ padsif'[d].state = P!Freed(c, FALSE)[d].state
               /\ padsif'[d].req = P!Freed(c, FALSE)[d].req
    <3>1. PICK r \in PadClients : r = P!Freed(c, FALSE)[d]
      BY <2>2
    <3>2. padsif'[d] = [r EXCEPT !.server = FALSE]
      BY <1>5, <3>1
    <3> QED
      BY ONLY <2>1, <3>1, <3>2, PadServerSet
  <2>4. padsif' \in [{0, 1} -> PadClients]
    <3>1. padsif' = [d \in {0, 1} |-> padsif'[d]]
      BY <1>5
    <3> QED
      BY ONLY <2>3, <3>1
  <2>5. padInitialiseCounter' = 0 /\ PadServers'
    BY <1>5 DEF PadServers
  <2>6. padsif'[c].state = "free" /\ \A d \in {0, 1} : d # c =>
           padsif'[d].state = padsif[d].state /\ padsif'[d].req = padsif[d].req
    BY <2>2, <2>3
  <2> QED
    BY ONLY PadInv, c \in {0, 1}, <1>1, <1>2, <1>3, <1>4, <2>4, <2>5, <2>6, PadEndFunction
<1>6. CASE /\ padsif' = P!Freed(c, padsif[c].server)
           /\ padInitialiseCounter' = padInitialiseCounter
  <2>1. padsif[c].server \in BOOLEAN
    BY DEF PadInv, PadTypeOK, PadClients
  <2>2. /\ padsif' \in [{0, 1} -> PadClients] /\ padsif'[c].state = "free"
        /\ padsif'[c].server = padsif[c].server
        /\ \A d \in {0, 1} : d # c => padsif'[d] = padsif[d]
    BY <1>6, <2>1, PadFreedFacts
  <2>3. PadServers' /\ padInitialiseCounter' = padInitialiseCounter
    BY <1>0, <1>6, <2>2 DEF PadInv, PadServers
  <2> QED
    BY ONLY PadInv, c \in {0, 1}, <1>1, <1>2, <1>3, <1>4, <2>2, <2>3, PadEndFunction
<1> QED
  BY <1>0, <1>5, <1>6 DEF P!EndCallback

(* padInitCallback preserves it: a stage is done when its server is there. *)
LEMMA PadInitCallback == ASSUME PadInv, NEW c \in {0, 1}, P!InitCallback(c) PROVE PadInv'
<1>1. P!Answered(c)
  BY DEF P!InitCallback
<1>2. PICK t \in Callers, op \in PadOps :
           /\ t = padsif[c].req.by /\ op = padsif[c].req.op /\ op.client = c
           /\ pcall[t].at = "wait" /\ pcall[t].op = op
           /\ op \notin P!Binds /\ t \notin pdisturbed => buffer = PadAnswer(t)
  BY <1>1, PadAnswerFacts, Zenon
<1>3. PICK n \in 0 .. 4 : n = padInitialiseCounter
  BY PadStageFacts DEF PadInv
<1>4. op \in PadStages /\ P!Last \in {2, 4} /\ n <= P!Last
  BY <1>2, <1>3, PadOpFacts, PadStageFacts DEF P!InitCallback, PadInv, PadTypeOK
<1>5. op \in P!Binds => n <= c
  BY <1>2, <1>3 DEF PadInv, PadCallsTrue, PadStaged
<1>6. PICK sv \in BOOLEAN :
        /\ padsif' = P!Freed(c, sv)
        /\ op \notin P!Binds => sv = padsif[c].server
  <2>1. padsif[c].server \in BOOLEAN /\ pserved \in BOOLEAN
    BY DEF PadInv, PadTypeOK, PadClients
  <2>2. padsif' = P!Freed(c, IF op \in P!Binds THEN pserved ELSE padsif[c].server)
    BY <1>2 DEF P!InitCallback
  <2> QED
    BY <2>1, <2>2
<1>7. /\ padsif' \in [{0, 1} -> PadClients] /\ padsif'[c].state = "free"
      /\ padsif'[c].server = sv
      /\ \A d \in {0, 1} : d # c => padsif'[d] = padsif[d]
  BY <1>6, PadFreedFacts
<1>8. \/ n < 2 /\ padInitialiseCounter' = IF padsif'[n].server THEN n + 1 ELSE n
      \/ n = 2 /\ P!Last = 4 /\ padInitialiseCounter' \in {2, 3}
      \/ n = 3 /\ P!Last = 4 /\ padInitialiseCounter' = 4
      \/ n = P!Last /\ padInitialiseCounter' = n
  <2>1. n = 3 => P!Last = 4
    BY <1>4
  <2> QED
    BY <1>3, <2>1 DEF P!InitCallback, P!Last
<1>9. padInitialiseCounter' \in 0 .. P!Last
  <2>1. n = 0 \/ n = 1 \/ n = 2 \/ n = 3 \/ n = 4
    BY ONLY n \in 0 .. 4
  <2> QED
    BY ONLY <1>4, <1>8, <2>1
<1>10. PadServers'
  <2>0. /\ n >= 1 => padsif[0].server
        /\ n >= 2 => padsif[1].server
    BY <1>3 DEF PadInv, PadServers
  <2>1. ASSUME NEW d \in {0, 1}, d < n PROVE padsif'[d].server
    <3>1. d # c \/ op \notin P!Binds
      BY ONLY <1>5, <2>1, d \in {0, 1}, c \in {0, 1}, n \in 0 .. 4
    <3>2. padsif[d].server
      BY ONLY <2>0, <2>1, d \in {0, 1}, n \in 0 .. 4
    <3> QED
      BY <1>6, <1>7, <3>1, <3>2
  <2>2. n = 0 /\ padInitialiseCounter' = 1 => padsif'[0].server
    BY <1>8
  <2>3. n = 1 /\ padInitialiseCounter' = 2 => padsif'[1].server
    BY <1>8
  <2>4. n < 2 => padInitialiseCounter' \in {n, n + 1}
    BY ONLY <1>4, <1>8, n \in 0 .. 4
  <2>5. n = 0 \/ n = 1 \/ n >= 2
    BY ONLY n \in 0 .. 4
  <2> QED
    BY ONLY <2>1, <2>2, <2>3, <2>4, <2>5 DEF PadServers
<1>11. /\ pcall' = [pcall EXCEPT ![t] = P!Idle] /\ presult' = presult
       /\ UNCHANGED <<rom, buffer, padData, pserved, pdisturbed>> /\ opened' = opened
       /\ sema_id' = P!Raised(c)
  BY <1>2 DEF P!InitCallback
<1>12. ~pcall[t].store /\ \A q \in opened' : q \in opened
  BY <1>2, <1>4, <1>11, PadOpFacts DEF PadInv, PadCallsTrue, PadCallTrue
<1> QED
  BY ONLY PadInv, c \in {0, 1}, <1>1, <1>2, <1>4, <1>7, <1>9, <1>10, <1>11, <1>12, PadEndFunction

(* Every step of pad.c preserves the invariant. *)
LEMMA PadNextInv == PadInv /\ [P!Next]_(P!vars) => PadInv'
<1> SUFFICES ASSUME PadInv, [P!Next]_(P!vars) PROVE PadInv'
  OBVIOUS
<1>1. ASSUME NEW t \in Callers, P!Begin(t, P!End, NULL) PROVE PadInv'
  <2>1. P!End \in PadOps /\ P!End \notin PadStages /\ NULL \in Ports \cup {NULL}
    BY PadOpFacts
  <2> QED
    BY <1>1, <2>1, PadBegin
<1>2. ASSUME NEW t \in Callers, NEW p \in Ports,
             NEW op \in P!Commands \cup P!Blocking \cup {P!PortOpen}, P!Begin(t, op, p)
      PROVE  PadInv'
  <2>1. op \in PadOps /\ op \notin PadStages
    BY PadOpFacts
  <2> QED
    BY <1>2, <2>1, PadBegin
<1> QED
  BY <1>1, <1>2, PadStutter, PadPadInit, PadSend, PadStore, PadPoll, PadReadAnswer, PadRegister, PadReply,
     PadInitCallback, PadEndCallback, PadCallback DEF P!Next, P!Task, P!Interrupt

(* What the invariant says of the servers and the data areas. *)
LEMMA PadHolds == PadInv => P!Bound /\ P!PortKnown /\ P!AnswerOwn
<1> SUFFICES ASSUME PadInv PROVE P!Bound /\ P!PortKnown /\ P!AnswerOwn
  OBVIOUS
<1>1. P!PortKnown /\ P!AnswerOwn
  BY DEF PadInv, PadPorts
<1>2. padInitialiseCounter = 0 \/ padInitialiseCounter >= 1
  BY PadStageFacts DEF PadInv
<1> QED
  BY <1>1, <1>2 DEF P!Bound, PadInv, PadServers

-----------------------------------------------------------------------------
(* pad.c: the data area *)

(* The half that is chosen is still being written: its number has come.      *)
Filling == IF rom THEN delivered = 1 ELSE delivered >= 3

(* The half with the last frame that is whole, and the number of that frame. *)
Done == IF Filling THEN 1 - D!padGetDmaStr ELSE D!padGetDmaStr
Whole == area[Done].frame

(* The frames on their way are numbered on from there, n; z is the place of   *)
(* the answer among them, or one place behind them.                          *)
FrameNo(i, z, n) == IF i < z THEN n + i ELSE IF i = z THEN 0 ELSE n + i - 1
LastNo(len, z, n) == IF z <= len THEN n + len - 1 ELSE n + len

Numbered(z) ==
  /\ \A i \in 1 .. Len(sif0) : sif0[i].n = FrameNo(i, z, Whole)
  /\ sent = LastNo(Len(sif0), z, Whole)

FrameRecs == [n : Nat, reqState : {"BUSY", "COMPLETE"}]

AreaRecs == [d1 : Nat, d2 : Nat, length : Nat, frame : Nat, reqState : {"BUSY", "COMPLETE"}]
ReadRecs == [at : {"idle", "copy1", "copy2", "state"}, half : {0, 1}, d1 : Nat, length : Nat,
             late : BOOLEAN, completed : Nat, fresh : Nat]

DataTypeOK ==
  /\ rom \in BOOLEAN
  /\ area \in [{0, 1} -> AreaRecs]
  /\ sif0 \in Seq(FrameRecs)
  /\ delivered \in IF rom THEN {0, 1} ELSE 0 .. 4
  /\ sent \in Nat /\ owed \in Nat
  /\ busy \in BOOLEAN /\ told \in BOOLEAN
  /\ rd \in ReadRecs

(* The halves: the last whole frame is in one, the next one is written into the *)
(* other.                                                                       *)
Halves ==
  LET new == Whole % 2
      old == (Whole + 1) % 2
  IN
  /\ Done = new
  /\ area[new].d1 = Whole /\ area[new].d2 = Whole /\ area[new].length = Whole
  /\ area[old].frame = IF Filling THEN Whole + 1 ELSE IF Whole = 0 THEN 0 ELSE Whole - 1
  /\ delivered >= 1 => area[old].d1 = Whole + 1
  /\ delivered >= 2 => area[old].d2 = Whole + 1
  /\ delivered = 4 => area[old].length = Whole + 1

DataFrames ==
  /\ \E z \in 1 .. Len(sif0) + 1 : Numbered(z) /\ (z <= Len(sif0) => owed = 0)
  /\ delivered > 0 => sif0 # <<>> /\ sif0[1].n # 0
  /\ Halves

(* padread: the frame it chose is the last whole one, or the next one when only *)
(* its request state was missing, less those that came since.                   *)
DataReads ==
  rd.at \in {"copy1", "copy2"} /\ rd.completed = 0 /\ ~rd.late =>
    /\ \/ rd.fresh = Whole /\ rd.half = Whole % 2
       \/ delivered = 4 /\ rd.fresh = Whole + 1 /\ rd.half = (Whole + 1) % 2
    /\ rd.length = rd.fresh
    /\ rd.at = "copy2" => rd.d1 = rd.fresh

(* While padman works on a request that was answered, no frame on its way    *)
(* calls the pad ready; before the answer, none behind it does.              *)
DataBusy ==
  /\ told => busy
  /\ told /\ (rom \/ delivered < 3) => area[D!padGetDmaStr].reqState = "BUSY"
  /\ busy => \A i \in 1 .. Len(sif0) :
       sif0[i].n # 0 /\ sif0[i].reqState = "COMPLETE" =>
         ~told /\ owed = 0 /\ \E j \in i + 1 .. Len(sif0) : sif0[j].n = 0

DataInv == DataTypeOK /\ DataFrames /\ DataReads /\ DataBusy
(* The parity of a frame alternates. *)
LEMMA Mod2 == \A n \in Nat : n % 2 \in {0, 1} /\ (n + 1) % 2 = 1 - (n % 2)
OBVIOUS

(* What Append and Tail do to the places of a queue. *)
LEMMA QueueFacts ==
  ASSUME NEW T, NEW s \in Seq(T)
  PROVE  /\ Len(s) \in Nat
         /\ \A i \in 1 .. Len(s) : s[i] \in T
         /\ \A e \in T : /\ Append(s, e) \in Seq(T) /\ Len(Append(s, e)) = Len(s) + 1
                         /\ Append(s, e)[Len(s) + 1] = e
                         /\ \A i \in 1 .. Len(s) : Append(s, e)[i] = s[i]
         /\ s # <<>> => /\ Len(s) >= 1 /\ Head(s) = s[1]
                        /\ Tail(s) \in Seq(T) /\ Len(Tail(s)) = Len(s) - 1
                        /\ \A i \in 1 .. Len(s) - 1 : Tail(s)[i] = s[i + 1]
OBVIOUS

(* The frame an entry of sif0 belongs to. *)
LEMMA FrameNoFacts ==
  ASSUME NEW i \in Nat, NEW z \in Nat, NEW n \in Nat
  PROVE  /\ i < z => FrameNo(i, z, n) = n + i
         /\ i = z => FrameNo(i, z, n) = 0
         /\ i > z => FrameNo(i, z, n) = n + i - 1
         /\ FrameNo(i + 1, z + 1, n) = FrameNo(i, z, n + 1)
         /\ LastNo(i + 1, z + 1, n) = LastNo(i, z, n + 1)
         /\ z <= i => LastNo(i, z, n) = n + i - 1
         /\ z > i => LastNo(i, z, n) = n + i
BY DEF FrameNo, LastNo

(* The invariant holds when a port is opened. *)
LEMMA DataInitInv == D!Init => DataInv
<1> SUFFICES ASSUME D!Init PROVE DataInv
  OBVIOUS
<1> USE DEF D!Init
<1>1. DataTypeOK
  <2>1. busy \in BOOLEAN /\ told \in BOOLEAN /\ rom \in BOOLEAN
    BY Zenon
  <2>2. /\ sif0 \in Seq(FrameRecs)
        /\ area \in [{0, 1} -> AreaRecs]
    BY DEF AreaRecs
  <2>3. rd \in ReadRecs
    BY DEF D!Quiet, ReadRecs
  <2> QED
    BY <2>1, <2>2, <2>3 DEF DataTypeOK
<1>2. D!padGetDmaStr = 0 /\ Done = 0 /\ Whole = 0 /\ ~Filling
  BY DEF D!padGetDmaStr, Whole, Done, Filling
<1>3. Numbered(1) /\ Len(sif0) = 0
  <2>1. Len(sif0) = 0
    OBVIOUS
  <2>2. sent = LastNo(0, 1, 0)
    BY DEF LastNo
  <2> QED
    BY <1>2, <2>1, <2>2 DEF Numbered
<1>4. Halves
  BY <1>2, 0 % 2 = 0, (0 + 1) % 2 = 1 DEF Halves
<1>5. DataFrames
  BY <1>3, <1>4 DEF DataFrames
<1>6. DataReads /\ DataBusy
  BY <1>3 DEF DataReads, DataBusy, D!Quiet
<1> QED
  BY <1>1, <1>5, <1>6 DEF DataInv

(* Without a step of the DMA or of padman the frames are what they were. *)
LEMMA DataStill ==
  ASSUME DataInv, UNCHANGED <<rom, area, sif0, delivered, sent>>
  PROVE  /\ D!padGetDmaStr' = D!padGetDmaStr /\ Whole' = Whole /\ Halves'
         /\ \A z : Numbered(z)' <=> Numbered(z)
<1>1. D!padGetDmaStr' = D!padGetDmaStr
  BY DEF D!padGetDmaStr
<1>2. Whole' = Whole /\ Done' = Done /\ (Filling' <=> Filling)
  BY <1>1 DEF Whole, Done, Filling
<1>3. Halves'
  BY <1>1, <1>2 DEF DataInv, DataFrames, Halves
<1>4. ASSUME NEW z PROVE Numbered(z)' <=> Numbered(z)
  BY <1>2 DEF Numbered
<1> QED
  BY <1>1, <1>2, <1>3, <1>4

(* A step of another driver leaves the invariant alone. *)
LEMMA DataStutter == ASSUME DataInv, UNCHANGED D!vars PROVE DataInv'
<1> USE DEF DataInv, D!vars
<1>1. DataTypeOK'
  BY DEF DataTypeOK
<1>2. DataFrames'
  BY DataStill DEF DataFrames
<1>3. DataReads' /\ DataBusy'
  BY DataStill DEF DataReads, DataBusy
<1> QED
  BY <1>1, <1>2, <1>3

(* The parts of a frame in the order of the builds, and when a field is late. *)
LEMMA DataLayout ==
  /\ rom => /\ Len(D!Layout) = 2 /\ D!Layout[1] = {"frame", "reqState", "d1"}
            /\ D!Layout[2] = {"d2", "length"}
  /\ ~rom => /\ Len(D!Layout) = 5 /\ D!Layout[1] = {"d1"} /\ D!Layout[2] = {"d2"}
             /\ D!Layout[3] = {"frame"} /\ D!Layout[4] = {"length"}
             /\ D!Layout[5] = {"reqState"}
BY DEF D!Layout

(* Between the number of a frame and its request state, or its data. *)
LEMMA DataLate ==
  ASSUME DataTypeOK
  PROVE  /\ D!Late("reqState") <=> ~rom /\ delivered >= 3
         /\ (rom /\ delivered = 1) \/ (~rom /\ delivered = 3) =>
              \E f \in {"d1", "d2", "length"} : D!Late(f)
<1>0. delivered \in Nat /\ (rom => delivered <= 1) /\ (~rom => delivered <= 4)
  BY DEF DataTypeOK
<1>1. CASE rom
  <2>1. ASSUME NEW i \in 1 .. 2, NEW j \in 1 .. 2, i <= delivered, delivered < j,
               "frame" \in D!Layout[i], "reqState" \in D!Layout[j]
        PROVE  FALSE
    <3>1. i = 1 /\ j = 2
      BY <1>0, <2>1
    <3> QED
      BY <1>1, <2>1, <3>1, DataLayout
  <2>2. ~D!Late("reqState")
    BY <1>1, <2>1, DataLayout DEF D!Late
  <2>3. delivered = 1 => D!Late("d2")
    <3>1. "frame" \in D!Layout[1] /\ "d2" \in D!Layout[2] /\ Len(D!Layout) = 2
      BY <1>1, DataLayout
    <3> QED
      BY ONLY <3>1 DEF D!Late
  <2> QED
    BY <1>1, <2>2, <2>3
<1>2. CASE ~rom
  <2>1. ASSUME NEW i \in 1 .. 5, "frame" \in D!Layout[i]
        PROVE  i = 3
    <3>1. i = 1 \/ i = 2 \/ i = 3 \/ i = 4 \/ i = 5
      OBVIOUS
    <3> QED
      BY <1>2, <2>1, <3>1, DataLayout
  <2>2. Len(D!Layout) = 5 /\ "frame" \in D!Layout[3] /\ "length" \in D!Layout[4]
        /\ "reqState" \in D!Layout[5]
    BY <1>2, DataLayout
  <2>3. D!Late("reqState") => delivered >= 3
    BY ONLY <1>0, <2>1, <2>2 DEF D!Late
  <2>4. delivered >= 3 => D!Late("reqState")
    BY ONLY <1>0, <1>2, <2>2 DEF D!Late
  <2>5. delivered = 3 => D!Late("length")
    BY ONLY <2>2 DEF D!Late
  <2> QED
    BY <1>2, <2>3, <2>4, <2>5
<1> QED
  BY <1>1, <1>2

(* The half that is chosen holds the last whole frame or the next one, and what *)
(* belongs to it unless that is late.                                           *)
LEMMA DataChosen ==
  ASSUME DataInv
  PROVE  LET g == D!padGetDmaStr IN
         (\E f \in {"d1", "d2", "length"} : D!Late(f)) \/
           /\ \/ area[g].frame = Whole /\ g = Whole % 2
              \/ delivered = 4 /\ area[g].frame = Whole + 1 /\ g = (Whole + 1) % 2
           /\ area[g].length = area[g].frame
<1> PICK g : g = D!padGetDmaStr
  OBVIOUS
<1>1. delivered \in Nat /\ (rom => delivered <= 1) /\ (~rom => delivered <= 4)
  BY DEF DataInv, DataTypeOK
<1>2. CASE ~Filling
  <2>1. Done = g /\ Whole = area[g].frame
    BY <1>2 DEF Done, Whole
  <2> QED
    BY <2>1 DEF DataInv, DataFrames, Halves
<1>3. CASE Filling /\ delivered = 4
  <2>0. g \in {0, 1} /\ Whole \in Nat
    BY DEF DataInv, DataTypeOK, AreaRecs, D!padGetDmaStr, Whole, Done
  <2>1. Done = 1 - g /\ Done = Whole % 2
    BY <1>3 DEF Done, DataInv, DataFrames, Halves
  <2>2. g = (Whole + 1) % 2
    BY <2>0, <2>1, Mod2
  <2> QED
    BY <1>3, <2>2 DEF DataInv, DataFrames, Halves
<1>4. CASE Filling /\ delivered # 4
  <2>1. (rom /\ delivered = 1) \/ (~rom /\ delivered = 3)
    BY <1>1, <1>4 DEF Filling
  <2> QED
    BY <2>1, DataLate DEF DataInv
<1> QED
  BY <1>2, <1>3, <1>4

(* The reading calls change nothing but their own place. *)
LEMMA DataReading ==
  ASSUME DataInv, D!padread \/ D!Copy \/ D!padgetstate \/ D!GetReqState PROVE DataInv'
<1> USE DEF DataInv, D!padread, D!Copy, D!padgetstate, D!GetReqState, D!Quiet
<1>0. UNCHANGED <<rom, area, sif0, delivered, sent, busy, owed, told>>
  OBVIOUS
<1> HIDE DEF D!padread, D!Copy, D!padgetstate, D!GetReqState, D!Quiet
<1>1. /\ Whole \in Nat /\ D!padGetDmaStr \in {0, 1} /\ rd \in ReadRecs
      /\ \A h \in {0, 1} : area[h] \in AreaRecs
      /\ DataTypeOK' <=> rd' \in ReadRecs
      /\ DataReads' <=> (rd'.at \in {"copy1", "copy2"} /\ rd'.completed = 0 /\ ~rd'.late =>
           /\ \/ rd'.fresh = Whole /\ rd'.half = Whole % 2
              \/ delivered = 4 /\ rd'.fresh = Whole + 1 /\ rd'.half = (Whole + 1) % 2
           /\ rd'.length = rd'.fresh
           /\ rd'.at = "copy2" => rd'.d1 = rd'.fresh)
  <2>1. D!padGetDmaStr \in {0, 1} /\ Done \in {0, 1}
    BY DEF D!padGetDmaStr, Done
  <2>2. \A h \in {0, 1} : area[h] \in AreaRecs
    BY DEF DataTypeOK
  <2>3. Whole \in Nat
    BY <2>1, <2>2 DEF Whole, AreaRecs
  <2>4. DataTypeOK' <=> rd' \in ReadRecs
    BY <1>0 DEF DataTypeOK
  <2>5. DataReads' <=> (rd'.at \in {"copy1", "copy2"} /\ rd'.completed = 0 /\ ~rd'.late =>
           /\ \/ rd'.fresh = Whole /\ rd'.half = Whole % 2
              \/ delivered = 4 /\ rd'.fresh = Whole + 1 /\ rd'.half = (Whole + 1) % 2
           /\ rd'.length = rd'.fresh
           /\ rd'.at = "copy2" => rd'.d1 = rd'.fresh)
    BY <1>0, DataStill DEF DataReads
  <2> QED
    BY <2>1, <2>2, <2>3, <2>4, <2>5 DEF DataTypeOK
<1>2. /\ DataTypeOK'
      /\ DataReads'
  <2>1. CASE D!padread
    <3>1. PICK g, behind : g = D!padGetDmaStr /\ behind = (\E f \in {"d1", "d2", "length"} : D!Late(f))
      OBVIOUS
    <3>2. rd' = [at |-> "copy1", half |-> g, d1 |-> 0, length |-> area[g].length,
                 late |-> behind, completed |-> 0, fresh |-> area[g].frame]
      BY <2>1, <3>1 DEF D!padread, D!Quiet
    <3>3. behind \in BOOLEAN
      BY <3>1, Zenon
    <3>4. rd' \in ReadRecs
      BY <1>1, <3>1, <3>2, <3>3 DEF ReadRecs, AreaRecs
    <3>5. ~behind => /\ \/ area[g].frame = Whole /\ g = Whole % 2
                        \/ delivered = 4 /\ area[g].frame = Whole + 1 /\ g = (Whole + 1) % 2
                     /\ area[g].length = area[g].frame
      BY <3>1, DataChosen
    <3> QED
      BY <1>1, <3>2, <3>4, <3>5
  <2>2. CASE D!Copy /\ rd.at = "copy1"
    <3>1. rd' = [rd EXCEPT !.at = "copy2", !.d1 = area[rd.half].d1]
      BY <2>2 DEF D!Copy
    <3>2. /\ rd.half \in {0, 1} /\ area[rd.half].d1 \in Nat
          /\ rd' \in ReadRecs
      BY <1>1, <3>1 DEF ReadRecs, AreaRecs
    <3>3. /\ rd'.at = "copy2" /\ rd'.half = rd.half /\ rd'.d1 = area[rd.half].d1
          /\ rd'.length = rd.length /\ rd'.late = rd.late
          /\ rd'.completed = rd.completed /\ rd'.fresh = rd.fresh
      BY ONLY <1>1, <3>1 DEF ReadRecs
    <3>4. rd.completed = 0 /\ ~rd.late =>
            /\ \/ rd.fresh = Whole /\ rd.half = Whole % 2
               \/ delivered = 4 /\ rd.fresh = Whole + 1 /\ rd.half = (Whole + 1) % 2
            /\ rd.length = rd.fresh
      BY <2>2 DEF DataReads
    <3>5. /\ area[Whole % 2].d1 = Whole
          /\ delivered = 4 => area[(Whole + 1) % 2].d1 = Whole + 1
      BY DEF DataFrames, Halves
    <3> QED
      BY ONLY <1>1, <3>2, <3>3, <3>4, <3>5
  <2>3. CASE (D!Copy /\ rd.at # "copy1") \/ D!padgetstate \/ D!GetReqState
    <3>1. PICK at \in {"idle", "state"}, half \in {0, 1} :
            rd' = [at |-> at, half |-> half, d1 |-> 0, length |-> 0, late |-> FALSE,
                   completed |-> 0, fresh |-> 0]
      BY <2>3, <1>1 DEF D!Copy, D!padgetstate, D!GetReqState, D!Quiet
    <3> QED
      BY ONLY <1>1, <3>1 DEF ReadRecs
  <2> QED
    BY <2>1, <2>2, <2>3 DEF D!Copy
<1>3. DataFrames'
  BY <1>0, DataStill DEF DataFrames
<1>4. DataBusy'
  BY <1>0, DataStill DEF DataBusy
<1> QED
  BY <1>2, <1>3, <1>4

(* The place of the answer on its way, if there is one. *)
LEMMA DataAnswerPlace ==
  ASSUME DataInv
  PROVE  /\ Whole \in Nat /\ Len(sif0) \in Nat
         /\ \E z \in 1 .. Len(sif0) + 1 :
              /\ Numbered(z) /\ (z <= Len(sif0) => owed = 0)
              /\ \A i \in 1 .. Len(sif0) : sif0[i].n = 0 <=> i = z
<1>1. Whole \in Nat /\ Len(sif0) \in Nat
  BY QueueFacts DEF DataInv, DataTypeOK, AreaRecs, Whole, Done, D!padGetDmaStr
<1>2. PICK z \in 1 .. Len(sif0) + 1 : Numbered(z) /\ (z <= Len(sif0) => owed = 0)
  BY DEF DataInv, DataFrames
<1>3. ASSUME NEW i \in 1 .. Len(sif0) PROVE sif0[i].n = 0 <=> i = z
  <2>1. sif0[i].n = FrameNo(i, z, Whole)
    BY <1>2 DEF Numbered
  <2>2. i \in Nat /\ z \in Nat /\ i >= 1 /\ z >= 1
    BY <1>1
  <2> QED
    BY ONLY <1>1, <2>1, <2>2 DEF FrameNo
<1> QED
  BY <1>1, <1>2, <1>3

(* padman sends a frame to the older of the two halves. *)
LEMMA DataSendFrame == ASSUME DataInv, D!SendFrame PROVE DataInv'
<1> USE DEF D!SendFrame
<1> PICK e : e = [n |-> sent + 1, reqState |-> IF busy THEN "BUSY" ELSE "COMPLETE"]
  OBVIOUS
<1> PICK L : L = Len(sif0)
  OBVIOUS
<1>0. /\ e \in FrameRecs /\ sif0' = Append(sif0, e)
      /\ sif0 \in Seq(FrameRecs)
      /\ e.n = sent + 1 /\ (busy => e.reqState = "BUSY")
      /\ sent \in Nat
  BY DEF DataInv, DataTypeOK, FrameRecs
<1>1. /\ sif0' \in Seq(FrameRecs)
      /\ L \in Nat /\ Len(sif0') = L + 1 /\ sif0'[L + 1] = e
      /\ \A i \in 1 .. L : sif0'[i] = sif0[i]
  BY <1>0, QueueFacts
<1>2. D!padGetDmaStr' = D!padGetDmaStr /\ Whole' = Whole /\ Done' = Done
      /\ (Filling' <=> Filling)
  BY DEF D!padGetDmaStr, Whole, Done, Filling
<1>3. DataTypeOK'
  BY <1>0, <1>1 DEF DataInv, DataTypeOK
<1>4. PICK z \in 1 .. L + 1 : Numbered(z) /\ (z <= L => owed = 0)
  BY DEF DataInv, DataFrames
<1>5. Whole \in Nat
  BY DataAnswerPlace
<1>6. \E y \in 1 .. L + 2 : Numbered(y)' /\ (y <= L + 1 => owed = 0)
  <2>1. /\ \A i \in 1 .. L : sif0[i].n = FrameNo(i, z, Whole)
        /\ sent = LastNo(L, z, Whole) /\ sent' = sent + 1 /\ z \in Nat
    BY <1>1, <1>4 DEF Numbered
  <2>2. CASE z = L + 1
    <3>1. e.n = Whole + (L + 1) /\ sent' = Whole + (L + 1)
      BY ONLY <1>0, <1>1, <1>5, <2>1, <2>2, FrameNoFacts
    <3>2. ASSUME NEW i \in 1 .. L + 1 PROVE sif0'[i].n = FrameNo(i, L + 2, Whole)
      <4>0. L \in Nat
        BY <1>1
      <4>1. i \in Nat /\ L + 2 \in Nat /\ i < L + 2 /\ (i = L + 1 \/ (i \in 1 .. L /\ i < z))
        BY ONLY <4>0, <2>2, <3>2
      <4>2. FrameNo(i, L + 2, Whole) = Whole + i
        BY ONLY <1>5, <4>1, FrameNoFacts
      <4>3. i \in 1 .. L => sif0[i].n = Whole + i
        <5>1. i \in 1 .. L => i < z /\ sif0[i].n = FrameNo(i, z, Whole) /\ z \in Nat
          BY ONLY <2>1, <2>2, <4>0, <4>1
        <5> QED
          BY ONLY <1>5, <4>1, <5>1, FrameNoFacts
      <4> QED
        BY ONLY <1>1, <3>1, <4>1, <4>2, <4>3
    <3>3. sent' = LastNo(L + 1, L + 2, Whole)
      BY ONLY <1>1, <1>5, <3>1, FrameNoFacts
    <3>4. Numbered(L + 2)'
      BY ONLY <1>1, <1>2, <3>2, <3>3 DEF Numbered
    <3> QED
      BY ONLY <1>1, <3>4
  <2>3. CASE z \in 1 .. L
    <3>1. e.n = Whole + (L + 1) - 1 /\ sent' = Whole + (L + 1) - 1 /\ L + 1 > z
      BY ONLY <1>0, <1>1, <1>5, <2>1, <2>3, FrameNoFacts
    <3>2. e.n = FrameNo(L + 1, z, Whole) /\ sent' = LastNo(L + 1, z, Whole)
      BY ONLY <1>1, <1>5, <2>1, <3>1, FrameNoFacts
    <3>3. ASSUME NEW i \in 1 .. L + 1 PROVE sif0'[i].n = FrameNo(i, z, Whole)
      <4>1. i = L + 1 \/ i \in 1 .. L
        BY ONLY <1>1, <3>3
      <4> QED
        BY ONLY <1>1, <2>1, <3>2, <4>1
    <3>4. Numbered(z)'
      BY ONLY <1>1, <1>2, <3>2, <3>3 DEF Numbered
    <3> QED
      BY ONLY <1>1, <1>4, <2>3, <3>4
  <2> QED
    BY <1>1, <2>2, <2>3
<1>7. \E y \in 1 .. L + 2 : Numbered(y)' /\ (y <= L + 1 => owed' = 0)
  BY <1>6
<1>8. delivered' > 0 => sif0' # <<>> /\ sif0'[1].n # 0
  <2>1. delivered > 0 => L >= 1 /\ sif0[1].n # 0
    BY <1>0, QueueFacts DEF DataInv, DataFrames
  <2> QED
    BY <1>1, <2>1
<1>9. Halves'
  BY <1>2 DEF DataInv, DataFrames, Halves
<1>10. DataFrames'
  BY <1>1, <1>7, <1>8, <1>9 DEF DataFrames
<1>11. DataReads'
  BY <1>2 DEF DataInv, DataReads
<1>12. DataBusy'
  <2>1. ASSUME busy, NEW i \in 1 .. L + 1, sif0'[i].n # 0, sif0'[i].reqState = "COMPLETE"
        PROVE  ~told /\ owed = 0 /\ \E j \in i + 1 .. L + 1 : sif0'[j].n = 0
    <3>1. i \in 1 .. L /\ sif0'[i] = sif0[i]
      BY <1>0, <1>1, <2>1
    <3>2. ~told /\ owed = 0 /\ \E j \in i + 1 .. L : sif0[j].n = 0
      BY <2>1, <3>1 DEF DataInv, DataBusy
    <3> QED
      BY <1>1, <3>1, <3>2
  <2> QED
    BY <1>1, <1>2, <2>1 DEF DataInv, DataBusy
<1> QED
  BY <1>3, <1>10, <1>11, <1>12 DEF DataInv

(* padman takes a request when the last one is finished and told. *)
LEMMA DataTakeRequest == ASSUME DataInv, D!TakeRequest PROVE DataInv'
<1> PICK e, L : e = [n |-> 0, reqState |-> "BUSY"] /\ L = Len(sif0)
  OBVIOUS
<1>0. /\ e \in FrameRecs /\ sif0' = Append(sif0, e)
      /\ sif0 \in Seq(FrameRecs)
      /\ e.n = 0 /\ e.reqState = "BUSY" /\ sent \in Nat
      /\ ~busy /\ busy' /\ owed = 0 /\ \A i \in 1 .. L : sif0[i].n # 0
      /\ UNCHANGED <<rom, area, delivered, sent, owed, told, rd>>
  BY DEF DataInv, DataTypeOK, FrameRecs, D!TakeRequest
<1>1. /\ sif0' \in Seq(FrameRecs)
      /\ L \in Nat /\ Len(sif0') = L + 1 /\ sif0'[L + 1] = e
      /\ \A i \in 1 .. L : sif0'[i] = sif0[i]
  BY <1>0, QueueFacts
<1>2. D!padGetDmaStr' = D!padGetDmaStr /\ Whole' = Whole /\ Done' = Done
      /\ (Filling' <=> Filling)
  BY <1>0 DEF D!padGetDmaStr, Whole, Done, Filling
<1>3. DataTypeOK'
  BY <1>0, <1>1 DEF DataInv, DataTypeOK, D!TakeRequest
<1>4. PICK z \in 1 .. L + 1 : /\ Numbered(z)
                              /\ \A i \in 1 .. L : sif0[i].n = 0 <=> i = z
  BY DataAnswerPlace
<1>5. Whole \in Nat /\ z = L + 1
  BY <1>0, <1>1, <1>4, DataAnswerPlace
<1>6. Numbered(L + 1)'
  <2>1. /\ \A i \in 1 .. L : sif0[i].n = FrameNo(i, L + 1, Whole)
        /\ sent = LastNo(L, L + 1, Whole)
    BY <1>4, <1>5 DEF Numbered
  <2>2. e.n = FrameNo(L + 1, L + 1, Whole) /\ LastNo(L, L + 1, Whole) = Whole + L
    BY ONLY <1>0, <1>1, <1>5 DEF FrameNo, LastNo
  <2>3. LastNo(L + 1, L + 1, Whole) = Whole + (L + 1) - 1
    BY ONLY <1>1, <1>5, FrameNoFacts
  <2>4. ASSUME NEW i \in 1 .. L + 1 PROVE sif0'[i].n = FrameNo(i, L + 1, Whole)
    <3>1. i = L + 1 \/ i \in 1 .. L
      BY ONLY <1>1, <2>4
    <3> QED
      BY ONLY <1>1, <2>1, <2>2, <3>1
  <2>5. sent' = LastNo(L + 1, L + 1, Whole)
    BY ONLY <1>0, <1>1, <1>5, <2>1, <2>2, <2>3
  <2> QED
    BY ONLY <1>1, <1>2, <2>4, <2>5 DEF Numbered
<1>7. delivered' > 0 => sif0' # <<>> /\ sif0'[1].n # 0
  <2>1. delivered > 0 => L >= 1 /\ sif0[1].n # 0
    BY <1>0, QueueFacts DEF DataInv, DataFrames
  <2> QED
    BY <1>0, <1>1, <2>1
<1>8. DataFrames'
  BY <1>0, <1>1, <1>2, <1>6, <1>7 DEF DataInv, DataFrames, Halves
<1>9. DataReads'
  BY <1>0, <1>2 DEF DataInv, DataReads
<1>10. DataBusy'
  <2>1. ~told
    BY <1>0 DEF DataInv, DataBusy
  <2>2. ASSUME NEW i \in 1 .. L + 1, sif0'[i].reqState = "COMPLETE"
        PROVE  \E j \in i + 1 .. L + 1 : sif0'[j].n = 0
    <3>1. i \in 1 .. L
      BY <1>0, <1>1, <2>2
    <3> QED
      BY <1>0, <1>1, <3>1
  <2> QED
    BY <1>0, <1>1, <2>1, <2>2 DEF DataBusy
<1> QED
  BY <1>3, <1>8, <1>9, <1>10 DEF DataInv

(* padman finishes a request; the next frame says so. *)
LEMMA DataFinishRequest == ASSUME DataInv, D!FinishRequest PROVE DataInv'
<1> USE DEF DataInv
<1>0. ~busy' /\ ~told' /\ UNCHANGED <<rom, area, sif0, delivered, sent, owed, rd>>
  BY DEF D!FinishRequest
<1>1. DataTypeOK'
  BY DEF DataTypeOK, D!FinishRequest
<1>2. DataFrames'
  BY <1>0, DataStill DEF DataFrames
<1>3. DataReads' /\ DataBusy'
  BY <1>0, DataStill DEF DataReads, DataBusy
<1> QED
  BY <1>1, <1>2, <1>3

(* padSetReqState marks the pad busy for its own request. *)
LEMMA DataSetReqState == ASSUME DataInv, D!padSetReqState PROVE DataInv'
<1> USE DEF DataInv
<1> PICK g : g = D!padGetDmaStr
  OBVIOUS
<1>0. /\ g \in {0, 1} /\ owed > 0 /\ owed' = owed - 1 /\ (told' <=> busy)
      /\ area' = [area EXCEPT ![g].reqState = "BUSY"]
      /\ UNCHANGED <<rom, sif0, delivered, sent, busy, rd>>
  BY DEF D!padSetReqState, D!padGetDmaStr, DataTypeOK
<1>1. /\ area'[g].reqState = "BUSY"
      /\ \A h \in {0, 1} : /\ area'[h].frame = area[h].frame /\ area'[h].d1 = area[h].d1
                           /\ area'[h].d2 = area[h].d2 /\ area'[h].length = area[h].length
  BY <1>0 DEF DataTypeOK, AreaRecs
<1>2. DataTypeOK'
  <2>1. area' \in [{0, 1} -> AreaRecs]
    BY <1>0 DEF DataTypeOK, AreaRecs
  <2>2. told' \in BOOLEAN /\ owed' \in Nat
    BY <1>0 DEF DataTypeOK, D!padSetReqState
  <2> QED
    BY <1>0, <2>1, <2>2 DEF DataTypeOK
<1>3. D!padGetDmaStr' = g
  BY <1>1 DEF D!padGetDmaStr
<1>4. Whole' = Whole /\ Whole \in Nat /\ Done' = Done /\ (Filling' <=> Filling)
  <2>1. Done' = Done /\ (Filling' <=> Filling) /\ Done \in {0, 1}
    BY <1>0, <1>3 DEF Done, Filling
  <2> QED
    BY <1>1, <2>1 DEF Whole, DataTypeOK, AreaRecs
<1>5. Halves'
  <2>1. Whole % 2 \in {0, 1} /\ (Whole + 1) % 2 \in {0, 1}
    BY <1>4, Mod2
  <2> QED
    BY <1>0, <1>1, <1>4, <2>1 DEF DataFrames, Halves
<1>6. DataFrames'
  <2>1. PICK z \in 1 .. Len(sif0) + 1 : Numbered(z) /\ (z <= Len(sif0) => owed = 0)
    BY DEF DataFrames
  <2>2. z > Len(sif0)
    BY <1>0, <2>1, QueueFacts DEF DataTypeOK
  <2>3. Numbered(z)'
    BY <1>0, <1>4, <2>1 DEF Numbered
  <2> QED
    BY <1>0, <1>5, <2>1, <2>2, <2>3, QueueFacts DEF DataFrames, DataTypeOK
<1>7. DataReads'
  BY <1>0, <1>4 DEF DataReads
<1>8. DataBusy'
  BY <1>0, <1>1, <1>3 DEF DataBusy, DataTypeOK
<1> QED
  BY <1>2, <1>6, <1>7, <1>8

(* The answer has come: its end function is owed. *)
LEMMA DataDeliverAnswer ==
  ASSUME DataInv, D!Deliver, Head(sif0).n = 0 PROVE DataInv'
<1> PICK L : L = Len(sif0)
  OBVIOUS
<1>0. /\ sif0 # <<>> /\ sif0' = Tail(sif0) /\ owed' = owed + 1 /\ owed \in Nat
      /\ sif0 \in Seq(FrameRecs)
      /\ UNCHANGED <<rom, area, delivered, rd, sent, busy, told>>
  BY DEF D!Deliver, DataInv, DataTypeOK
<1>1. /\ L \in Nat /\ L >= 1 /\ sif0[1].n = 0
      /\ sif0' \in Seq(FrameRecs)
      /\ Len(sif0') = L - 1 /\ \A i \in 1 .. L - 1 : sif0'[i] = sif0[i + 1]
  BY <1>0, QueueFacts
<1>2. D!padGetDmaStr' = D!padGetDmaStr /\ Whole' = Whole /\ Done' = Done
      /\ (Filling' <=> Filling)
  BY <1>0 DEF D!padGetDmaStr, Whole, Done, Filling
<1>3. DataTypeOK'
  BY <1>0, <1>1 DEF DataInv, DataTypeOK
<1>4. /\ Whole \in Nat /\ Numbered(1) /\ owed = 0
      /\ \A i \in 2 .. L : sif0[i].n # 0
  BY <1>1, DataAnswerPlace
<1>5. Numbered(L)'
  <2>1. /\ \A i \in 1 .. L : sif0[i].n = FrameNo(i, 1, Whole)
        /\ sent = LastNo(L, 1, Whole)
    BY <1>4 DEF Numbered
  <2>2. ASSUME NEW i \in 1 .. L - 1 PROVE sif0'[i].n = FrameNo(i, L, Whole)
    <3>1. /\ i + 1 \in 1 .. L /\ sif0'[i] = sif0[i + 1] /\ i \in Nat /\ i + 1 \in Nat
          /\ i < L /\ i + 1 > 1
      BY ONLY <1>1, <2>2
    <3>2. FrameNo(i + 1, 1, Whole) = Whole + (i + 1) - 1
      BY ONLY <1>4, <3>1, FrameNoFacts
    <3>3. FrameNo(i, L, Whole) = Whole + i
      BY ONLY <1>1, <1>4, <3>1, FrameNoFacts
    <3> QED
      BY ONLY <1>4, <2>1, <3>1, <3>2, <3>3
  <2>3. LastNo(L, 1, Whole) = Whole + L - 1
    BY ONLY <1>1, <1>4, FrameNoFacts
  <2>4. LastNo(L - 1, L, Whole) = Whole + (L - 1)
    BY ONLY <1>1, <1>4, FrameNoFacts, L - 1 \in Nat
  <2>5. sent' = LastNo(L - 1, L, Whole)
    BY ONLY <1>0, <1>1, <1>4, <2>1, <2>3, <2>4
  <2> QED
    BY ONLY <1>1, <1>2, <2>2, <2>5 DEF Numbered
<1>6. delivered = 0
  BY <1>0, <1>1 DEF DataInv, DataFrames, DataTypeOK
<1>7. DataFrames'
  BY <1>0, <1>1, <1>2, <1>5, <1>6 DEF DataInv, DataFrames, Halves
<1>8. DataReads'
  BY <1>0, <1>2 DEF DataInv, DataReads
<1>9. DataBusy'
  <2>1. ASSUME busy, NEW i \in 1 .. L - 1, sif0'[i].n # 0, sif0'[i].reqState = "COMPLETE"
        PROVE  FALSE
    <3>1. i + 1 \in 1 .. L /\ sif0[i + 1].n # 0 /\ sif0[i + 1].reqState = "COMPLETE"
      BY <1>1, <2>1
    <3>2. \E j \in i + 2 .. L : sif0[j].n = 0
      BY <2>1, <3>1 DEF DataInv, DataBusy
    <3> QED
      BY <1>1, <1>4, <3>2
  <2> QED
    BY <1>0, <1>1, <1>2, <2>1 DEF DataInv, DataBusy
<1> QED
  BY <1>3, <1>7, <1>8, <1>9 DEF DataInv

(* The two halves by their numbers, and the number of the frame that comes. *)
LEMMA DataHalves ==
  ASSUME DataInv, sif0 # <<>>, Head(sif0).n # 0
  PROVE  \E new, old \in {0, 1} :
           /\ new # old /\ new = Done /\ new = Whole % 2 /\ old = (Whole + 1) % 2
           /\ (Whole + 1) % 2 = old /\ ((Whole + 1) + 1) % 2 = new
           /\ Head(sif0).n = Whole + 1
           /\ area[new].frame = Whole /\ area[new].d1 = Whole /\ area[new].d2 = Whole
           /\ area[new].length = Whole
<1>0. /\ Len(sif0) \in Nat /\ Len(sif0) >= 1 /\ Head(sif0) = sif0[1]
  BY QueueFacts DEF DataInv, DataTypeOK
<1>1. PICK z \in 1 .. Len(sif0) + 1 : /\ Numbered(z)
                                      /\ \A i \in 1 .. Len(sif0) : sif0[i].n = 0 <=> i = z
  BY DataAnswerPlace
<1>2. Whole \in Nat
  BY DataAnswerPlace
<1>3. sif0[1].n = Whole + 1
  <2>1. sif0[1].n = FrameNo(1, z, Whole) /\ z # 1
    BY <1>0, <1>1 DEF Numbered
  <2> QED
    BY ONLY <1>0, z \in 1 .. Len(sif0) + 1, <1>2, <2>1 DEF FrameNo
<1>4. PICK new, old : new = Whole % 2 /\ old = (Whole + 1) % 2
  OBVIOUS
<1>5. /\ new \in {0, 1} /\ old = 1 - new /\ ((Whole + 1) + 1) % 2 = 1 - old
  BY <1>2, <1>4, Mod2
<1>6. /\ Done = new /\ area[new].d1 = Whole /\ area[new].d2 = Whole
      /\ area[new].length = Whole
  BY <1>4 DEF DataInv, DataFrames, Halves
<1>7. area[new].frame = Whole
  BY <1>6 DEF Whole
<1>8. new # old /\ old \in {0, 1} /\ ((Whole + 1) + 1) % 2 = new
  BY <1>5
<1> QED
  BY <1>0, <1>2, <1>3, <1>4, <1>5, <1>6, <1>7, <1>8

(* What a part of the frame brings, in either build. *)
LEMMA DataPart ==
  ASSUME DataInv, D!Deliver, Head(sif0).n # 0,
         NEW new \in {0, 1}, NEW old \in {0, 1}, new # old, Head(sif0).n % 2 = old
  PROVE  LET N == Head(sif0).n IN
         /\ area' \in [{0, 1} -> AreaRecs] /\ area'[new] = area[new]
         /\ area'[old].d1 = IF delivered = 0 THEN N ELSE area[old].d1
         /\ area'[old].d2 = IF delivered = 1 THEN N ELSE area[old].d2
         /\ area'[old].length = IF delivered = IF rom THEN 1 ELSE 3 THEN N ELSE area[old].length
         /\ area'[old].frame = IF delivered = IF rom THEN 0 ELSE 2 THEN N ELSE area[old].frame
         /\ area'[old].reqState = IF delivered = IF rom THEN 0 ELSE 4 THEN Head(sif0).reqState
                                  ELSE area[old].reqState
         /\ delivered + 1 = Len(D!Layout) <=> delivered = IF rom THEN 1 ELSE 4
<1> PICK f : f = Head(sif0)
  OBVIOUS
<1> DEFINE Came(x) == x \in D!Layout[delivered + 1]
<1>1. f \in FrameRecs
  BY QueueFacts DEF DataInv, DataTypeOK, D!Deliver
<1>2. area' = [area EXCEPT ![old] =
                 [d1 |-> IF Came("d1") THEN f.n ELSE area[old].d1,
                  d2 |-> IF Came("d2") THEN f.n ELSE area[old].d2,
                  length |-> IF Came("length") THEN f.n ELSE area[old].length,
                  frame |-> IF Came("frame") THEN f.n ELSE area[old].frame,
                  reqState |-> IF Came("reqState") THEN f.reqState ELSE area[old].reqState]]
  BY DEF D!Deliver
<1>3. area \in [{0, 1} -> AreaRecs] /\ delivered \in IF rom THEN {0, 1} ELSE 0 .. 4
  BY DEF DataInv, DataTypeOK
<1>4. /\ Came("d1") <=> delivered = 0
      /\ Came("d2") <=> delivered = 1
      /\ Came("length") <=> delivered = IF rom THEN 1 ELSE 3
      /\ Came("frame") <=> delivered = IF rom THEN 0 ELSE 2
      /\ Came("reqState") <=> delivered = IF rom THEN 0 ELSE 4
      /\ delivered + 1 = Len(D!Layout) <=> delivered = IF rom THEN 1 ELSE 4
  <2>1. CASE rom /\ delivered = 0
    BY <2>1, DataLayout
  <2>2. CASE rom /\ delivered = 1
    BY <2>2, DataLayout
  <2>3. CASE ~rom /\ delivered = 0
    BY <2>3, DataLayout
  <2>4. CASE ~rom /\ delivered = 1
    BY <2>4, DataLayout
  <2>5. CASE ~rom /\ delivered = 2
    BY <2>5, DataLayout
  <2>6. CASE ~rom /\ delivered = 3
    BY <2>6, DataLayout
  <2>7. CASE ~rom /\ delivered = 4
    BY <2>7, DataLayout
  <2> QED
    BY <1>3, <2>1, <2>2, <2>3, <2>4, <2>5, <2>6, <2>7
<1> HIDE DEF Came
<1>5. area' \in [{0, 1} -> AreaRecs] /\ area'[new] = area[new]
  BY ONLY <1>1, <1>2, <1>3, new # old DEF AreaRecs, FrameRecs
<1>6. /\ area'[old].d1 = IF Came("d1") THEN f.n ELSE area[old].d1
      /\ area'[old].d2 = IF Came("d2") THEN f.n ELSE area[old].d2
      /\ area'[old].length = IF Came("length") THEN f.n ELSE area[old].length
      /\ area'[old].frame = IF Came("frame") THEN f.n ELSE area[old].frame
      /\ area'[old].reqState = IF Came("reqState") THEN f.reqState ELSE area[old].reqState
  BY ONLY <1>2, <1>3
<1> QED
  BY ONLY <1>4, <1>5, <1>6, f = Head(sif0)

(* A part of the next frame has come, and not the last one. *)
LEMMA DataDeliverPart ==
  ASSUME DataInv, D!Deliver, Head(sif0).n # 0, delivered # IF rom THEN 1 ELSE 4 PROVE DataInv'
<1>0. PICK new, old \in {0, 1} :
           /\ new # old /\ new = Done /\ new = Whole % 2 /\ old = (Whole + 1) % 2
           /\ Head(sif0).n = Whole + 1
           /\ area[new].frame = Whole /\ area[new].d1 = Whole /\ area[new].d2 = Whole
           /\ area[new].length = Whole
  BY DataHalves DEF D!Deliver
<1> PICK N, s : N = Whole + 1 /\ s = Head(sif0).reqState
  OBVIOUS
<1>1. Whole \in Nat /\ N \in Nat
  BY DataAnswerPlace
<1>2. /\ area' \in [{0, 1} -> AreaRecs] /\ area'[new] = area[new]
      /\ area'[old].d1 = IF delivered = 0 THEN N ELSE area[old].d1
      /\ area'[old].d2 = IF delivered = 1 THEN N ELSE area[old].d2
      /\ area'[old].length = IF delivered = IF rom THEN 1 ELSE 3 THEN N ELSE area[old].length
      /\ area'[old].frame = IF delivered = IF rom THEN 0 ELSE 2 THEN N ELSE area[old].frame
      /\ area'[old].reqState = IF delivered = IF rom THEN 0 ELSE 4 THEN s ELSE area[old].reqState
      /\ delivered + 1 # Len(D!Layout)
  BY <1>0, DataPart
<1>3. /\ delivered' = delivered + 1 /\ sif0 # <<>>
      /\ UNCHANGED <<rom, sif0, rd, owed, sent, busy, told>>
  BY <1>2 DEF DataInv, DataTypeOK, D!Deliver
<1>4. /\ delivered \in Nat /\ (rom => delivered = 0) /\ (~rom => delivered <= 3)
      /\ sif0 \in Seq(FrameRecs) /\ area \in [{0, 1} -> AreaRecs]
  BY DEF DataInv, DataTypeOK
<1>5. DataTypeOK'
  BY <1>2, <1>3, <1>4 DEF DataInv, DataTypeOK
<1>6. /\ area[old].frame = IF Filling THEN N ELSE IF Whole = 0 THEN 0 ELSE Whole - 1
      /\ delivered >= 1 => area[old].d1 = N
      /\ delivered >= 2 => area[old].d2 = N
      /\ D!padGetDmaStr = IF Filling THEN old ELSE new
  <2>1. D!padGetDmaStr \in {0, 1} /\ new = IF Filling THEN 1 - D!padGetDmaStr ELSE D!padGetDmaStr
    BY <1>0 DEF Done, D!padGetDmaStr
  <2>2. D!padGetDmaStr = IF Filling THEN old ELSE new
    BY ONLY <1>0, <2>1
  <2> QED
    BY <1>0, <2>2 DEF DataInv, DataFrames, Halves
<1>7. /\ Filling <=> ~rom /\ delivered = 3
      /\ Filling' <=> rom \/ delivered >= 2
  BY <1>3, <1>4 DEF Filling
<1>8. area'[old].frame = IF Filling' THEN N ELSE area[old].frame
  BY <1>2, <1>4, <1>6, <1>7
<1>9. D!padGetDmaStr' = IF Filling' THEN old ELSE new
  <2>1. CASE Filling'
    <3>1. area'[new].frame < area'[old].frame
      BY <1>0, <1>1, <1>2, <1>8, <2>1
    <3> QED
      BY <1>0, <1>1, <1>2, <1>8, <2>1, <3>1 DEF D!padGetDmaStr
  <2>2. CASE ~Filling'
    <3>1. ~Filling
      BY <1>4, <1>7, <2>2
    <3> QED
      BY <1>0, <1>2, <1>6, <1>8, <2>2, <3>1 DEF D!padGetDmaStr
  <2> QED
    BY <2>1, <2>2
<1>10. Done' = new /\ Whole' = Whole
  <2>1. Done' = new
    BY <1>0, <1>9 DEF Done
  <2> QED
    BY <1>0, <1>2, <2>1 DEF Whole
<1>11. Halves'
  <2>1. /\ area'[old].frame = IF Filling' THEN Whole + 1 ELSE IF Whole = 0 THEN 0 ELSE Whole - 1
        /\ delivered' >= 1 => area'[old].d1 = Whole + 1
        /\ delivered' >= 2 => area'[old].d2 = Whole + 1
        /\ delivered' = 4 => area'[old].length = Whole + 1
    <3>1. ~Filling' => area[old].frame = IF Whole = 0 THEN 0 ELSE Whole - 1
      BY <1>4, <1>6, <1>7
    <3> QED
      BY <1>2, <1>3, <1>4, <1>6, <1>8, <3>1
  <2>2. area'[new].d1 = Whole /\ area'[new].d2 = Whole /\ area'[new].length = Whole
    BY <1>0, <1>2
  <2> QED
    BY ONLY <1>0, <1>10, <2>1, <2>2 DEF Halves
<1>12. DataFrames'
  <2>1. ASSUME NEW z PROVE Numbered(z) => Numbered(z)'
    BY <1>3, <1>10 DEF Numbered
  <2>2. sif0[1].n # 0
    BY <1>3, <1>4, QueueFacts
  <2> QED
    BY <1>3, <1>11, <2>1, <2>2 DEF DataInv, DataFrames
<1>13. DataReads'
  BY <1>3, <1>4, <1>10 DEF DataInv, DataReads
<1>14. DataBusy'
  <2>1. told /\ rom => s = "BUSY"
    <3>1. Len(sif0) \in Nat /\ Len(sif0) >= 1 /\ Head(sif0) = sif0[1]
      BY <1>3, <1>4, QueueFacts
    <3>2. sif0[1] \in FrameRecs
      BY <1>4, <3>1, QueueFacts
    <3>3. s = sif0[1].reqState /\ s \in {"BUSY", "COMPLETE"} /\ sif0[1].n # 0
      BY <3>1, <3>2 DEF FrameRecs
    <3> QED
      BY <3>1, <3>3 DEF DataInv, DataBusy
  <2>2. told /\ (rom \/ delivered' < 3) => area'[D!padGetDmaStr'].reqState = "BUSY"
    <3>1. CASE rom
      <4>1. D!padGetDmaStr' = old /\ area'[old].reqState = s
        BY <1>2, <1>4, <1>7, <1>9, <3>1
      <4> QED
        BY <2>1, <3>1, <4>1
    <3>2. CASE ~rom /\ delivered < 2
      <4>1. D!padGetDmaStr' = new /\ D!padGetDmaStr = new
        BY <1>4, <1>6, <1>7, <1>9, <3>2
      <4> QED
        BY <1>2, <1>4, <3>2, <4>1 DEF DataInv, DataBusy
    <3> QED
      BY <1>3, <1>4, <3>1, <3>2
  <2> QED
    BY <1>3, <2>2 DEF DataInv, DataBusy
<1> QED
  BY <1>5, <1>12, <1>13, <1>14 DEF DataInv

(* The frame is complete: its half is the newest now, its data are whole. *)
LEMMA DataDeliverFrame ==
  ASSUME DataInv, D!Deliver, Head(sif0).n # 0, delivered = IF rom THEN 1 ELSE 4 PROVE DataInv'
<1>0. PICK new, old \in {0, 1} :
           /\ new # old /\ new = Done /\ new = Whole % 2
           /\ (Whole + 1) % 2 = old /\ ((Whole + 1) + 1) % 2 = new
           /\ Head(sif0).n = Whole + 1
           /\ area[new].frame = Whole /\ area[new].d1 = Whole /\ area[new].d2 = Whole
           /\ area[new].length = Whole
  BY DataHalves DEF D!Deliver
<1>a. PICK N : N = Whole + 1
  OBVIOUS
<1>b. PICK L, s : L = Len(sif0) /\ s = sif0[1].reqState
  OBVIOUS
<1>c. new # old /\ area[new].frame = Whole /\ Head(sif0).n = N /\ N % 2 = old
  BY ONLY <1>0, <1>a
<1>1. Whole \in Nat /\ N \in Nat
  BY <1>a, DataAnswerPlace
<1>d. /\ area' \in [{0, 1} -> AreaRecs] /\ area'[new] = area[new]
      /\ area'[old].d1 = area[old].d1 \/ (delivered = 0 /\ area'[old].d1 = N)
      /\ area'[old].d2 = IF delivered = 1 THEN N ELSE area[old].d2
      /\ area'[old].length = IF rom THEN N ELSE area[old].length
      /\ area'[old].frame = area[old].frame
      /\ area'[old].reqState = IF rom THEN area[old].reqState ELSE Head(sif0).reqState
      /\ delivered + 1 = Len(D!Layout)
  <2>1. Head(sif0).n % 2 = old
    BY <1>0
  <2> QED
    BY <1>0, <1>c, <2>1, DataPart
<1>2. /\ delivered' = 0 /\ sif0' = Tail(sif0) /\ sif0 # <<>>
      /\ sif0 \in Seq(FrameRecs)
      /\ UNCHANGED <<rom, owed, sent, busy, told>>
  BY <1>d DEF DataInv, DataTypeOK, D!Deliver
<1>3. /\ L \in Nat /\ L >= 1 /\ Head(sif0) = sif0[1] /\ sif0[1].n = N
      /\ s \in {"BUSY", "COMPLETE"}
      /\ sif0' \in Seq(FrameRecs)
      /\ Len(sif0') = L - 1 /\ \A i \in 1 .. L - 1 : sif0'[i] = sif0[i + 1]
  <2>0. L \in Nat /\ L >= 1 /\ Head(sif0) = sif0[1]
    BY ONLY <1>b, <1>2, QueueFacts
  <2>a. sif0[1] \in FrameRecs
    <3>1. \A i \in 1 .. L : sif0[i] \in FrameRecs
      BY ONLY <1>b, <1>2, QueueFacts
    <3> QED
      BY ONLY <2>0, <3>1
  <2>1. /\ Tail(sif0) \in Seq(FrameRecs)
        /\ Len(Tail(sif0)) = L - 1 /\ \A i \in 1 .. L - 1 : Tail(sif0)[i] = sif0[i + 1]
    BY ONLY <1>b, <1>2, QueueFacts
  <2>2. sif0[1].n = N /\ s \in {"BUSY", "COMPLETE"}
    BY ONLY <1>b, <1>c, <2>0, <2>a DEF FrameRecs
  <2> QED
    BY ONLY <1>2, <2>0, <2>1, <2>2
<1>4. Filling /\ ~Filling'
  BY <1>2 DEF Filling
<1>5. /\ area[old].d1 = N /\ (~rom => area[old].d2 = N /\ area[old].length = N)
      /\ area[old].frame = N
  BY <1>0, <1>a, <1>4 DEF DataInv, DataFrames, Halves
<1>6. /\ area'[old].frame = N
      /\ area'[old].d1 = N /\ area'[old].d2 = N /\ area'[old].length = N
  <2>1. rom => delivered = 1
    OBVIOUS
  <2> QED
    BY ONLY <1>d, <1>5, <2>1, (~rom => delivered = 4)
<1>7. D!padGetDmaStr = old /\ D!padGetDmaStr' = old
  <2>0. area[new].frame = Whole /\ area[old].frame = N /\ Whole < N
    BY <1>0, <1>1, <1>5, <1>a
  <2>1. D!padGetDmaStr = old
    BY <1>0, <1>1, <2>0 DEF D!padGetDmaStr
  <2>2. area'[new].frame = area[new].frame /\ area'[old].frame = area[old].frame
    BY <1>d
  <2> QED
    BY <1>0, <2>1, <2>2 DEF D!padGetDmaStr
<1>8. Done' = old /\ Whole' = N
  <2>1. Done' = old
    BY <1>4, <1>7 DEF Done
  <2> QED
    BY <1>6, <2>1 DEF Whole
<1>9. /\ DataTypeOK'
      /\ rd'.at = "idle" \/ rd'.completed # 0
  <2>1. rd' = IF rd.at # "idle" THEN [rd EXCEPT !.completed = @ + 1] ELSE rd
    BY <1>d DEF D!Deliver
  <2>2. rd \in ReadRecs
    BY DEF DataInv, DataTypeOK
  <2>3. /\ rd' \in ReadRecs
        /\ rd'.at = "idle" \/ rd'.completed # 0
    BY ONLY <2>1, <2>2 DEF ReadRecs
  <2> QED
    BY <1>2, <1>3, <1>d, <2>3 DEF DataInv, DataTypeOK
<1>10. Halves'
  <2>1. area'[new].frame = N - 1 /\ N # 0
    BY ONLY <1>a, <1>c, <1>1, <1>d
  <2> QED
    BY ONLY <1>0, <1>a, <1>1, <1>2, <1>4, <1>6, <1>8, <2>1 DEF Halves
<1>11. PICK z \in 1 .. L + 1 : /\ Numbered(z) /\ (z <= L => owed = 0)
                               /\ \A i \in 1 .. L : sif0[i].n = 0 <=> i = z
  BY <1>b, DataAnswerPlace
<1>12. z >= 2
  BY ONLY <1>1, <1>3, <1>11, <1>a
<1>13. Numbered(z - 1)'
  <2>1. /\ \A i \in 1 .. L : sif0[i].n = FrameNo(i, z, Whole)
        /\ sent = LastNo(L, z, Whole)
    BY <1>b, <1>11 DEF Numbered
  <2>2. PICK y : y \in Nat /\ z = y + 1 /\ y = z - 1
    BY ONLY <1>3, <1>12, z \in 1 .. L + 1
  <2>3. ASSUME NEW i \in 1 .. L - 1 PROVE sif0'[i].n = FrameNo(i, y, N)
    <3>1. i + 1 \in 1 .. L /\ sif0'[i] = sif0[i + 1] /\ i \in Nat
      BY ONLY <1>3, <2>3
    <3>2. FrameNo(i + 1, y + 1, Whole) = FrameNo(i, y, Whole + 1)
      BY ONLY <1>1, <2>2, <3>1, FrameNoFacts
    <3> QED
      BY ONLY <1>a, <2>1, <2>2, <3>1, <3>2
  <2>4. PICK k : k \in Nat /\ L = k + 1 /\ k = L - 1
    BY ONLY <1>3
  <2>5. LastNo(k + 1, y + 1, Whole) = LastNo(k, y, Whole + 1)
    BY ONLY <1>1, <2>2, <2>4, FrameNoFacts
  <2>6. sent' = LastNo(L - 1, y, N)
    BY ONLY <1>2, <1>a, <2>1, <2>2, <2>4, <2>5
  <2> QED
    BY ONLY <1>3, <1>8, <2>2, <2>3, <2>6 DEF Numbered
<1>14. DataFrames'
  <2>1. z - 1 \in 1 .. (L - 1) + 1 /\ (z - 1 <= L - 1 => owed' = 0)
    BY ONLY <1>2, <1>3, <1>11, <1>12
  <2> QED
    BY ONLY <1>2, <1>3, <1>10, <1>13, <2>1 DEF DataFrames
<1>15. DataReads'
  BY <1>9 DEF DataReads
<1>16. DataBusy'
  <2>1. told => s = "BUSY"
    BY <1>a, <1>b, <1>1, <1>3 DEF DataInv, DataBusy
  <2>2. ASSUME busy, NEW i \in 1 .. L - 1, sif0'[i].n # 0, sif0'[i].reqState = "COMPLETE"
        PROVE  ~told /\ owed = 0 /\ \E j \in i + 1 .. L - 1 : sif0'[j].n = 0
    <3>1. i + 1 \in 1 .. L /\ sif0[i + 1].n # 0 /\ sif0[i + 1].reqState = "COMPLETE"
      BY <1>3, <2>2
    <3>2. ~told /\ owed = 0 /\ \E j \in i + 2 .. L : sif0[j].n = 0
      BY <1>b, <2>2, <3>1 DEF DataInv, DataBusy
    <3>3. PICK j \in i + 2 .. L : sif0[j].n = 0
      BY <3>2
    <3>4. j - 1 \in i + 1 .. L - 1 /\ j - 1 \in 1 .. L - 1 /\ (j - 1) + 1 = j
      BY ONLY <1>3, <2>2, j \in i + 2 .. L
    <3>5. sif0'[j - 1].n = 0
      BY ONLY <1>3, <3>3, <3>4
    <3> QED
      BY <3>2, <3>4, <3>5
  <2>3. told => area'[old].reqState = "BUSY"
    <3>1. rom /\ told => area[old].reqState = "BUSY"
      BY <1>7 DEF DataInv, DataBusy
    <3>2. Head(sif0).reqState = s
      BY ONLY <1>3, <1>b
    <3> QED
      BY <1>d, <2>1, <3>1, <3>2
  <2> QED
    BY <1>2, <1>3, <1>7, <2>2, <2>3 DEF DataInv, DataBusy
<1> QED
  BY <1>9, <1>14, <1>15, <1>16 DEF DataInv

(* Every step of padman, the DMA and padread preserves the invariant. *)
LEMMA DataNextInv == DataInv /\ [D!Next]_(D!vars) => DataInv'
BY DataStutter, DataSendFrame, DataTakeRequest, DataFinishRequest, DataDeliverAnswer,
   DataDeliverPart, DataDeliverFrame, DataSetReqState, DataReading DEF D!Next

(* What it says of a frame that was read and of a pad at work. *)
LEMMA DataHolds == DataInv => D!ReadWhole /\ D!BusyShown
<1> SUFFICES ASSUME DataInv PROVE D!ReadWhole /\ D!BusyShown
  OBVIOUS
<1>1. D!BusyShown
  BY DataLate DEF DataInv, DataBusy, DataTypeOK, D!BusyShown
<1>2. ASSUME rd.at = "copy2", rd.completed = 0, ~rd.late
      PROVE  {rd.d1, area[rd.half].d2, rd.length} = {rd.fresh}
  <2>1. /\ \/ rd.fresh = Whole /\ rd.half = Whole % 2
           \/ delivered = 4 /\ rd.fresh = Whole + 1 /\ rd.half = (Whole + 1) % 2
        /\ rd.length = rd.fresh /\ rd.d1 = rd.fresh
    BY <1>2 DEF DataInv, DataReads
  <2>2. /\ area[Whole % 2].d2 = Whole
        /\ delivered = 4 => area[(Whole + 1) % 2].d2 = Whole + 1
    BY DEF DataInv, DataFrames, Halves
  <2> QED
    BY <2>1, <2>2
<1> QED
  BY <1>1, <1>2 DEF D!ReadWhole

-----------------------------------------------------------------------------
(* The drivers together *)

DriversInv == IInv /\ McInv /\ CdvdInv /\ SoundInv /\ PadInv /\ DataInv

(* A step of the whole is a step of one driver and leaves the others as they are. *)
LEMMA DriversSteps ==
  ASSUME [DriversNext]_allvars
  PROVE  /\ [Next]_vars /\ [M!Next]_(M!vars) /\ [C!Next]_(C!vars)
         /\ [P!Next]_(P!vars) /\ [D!Next]_(D!vars) /\ [S!Next]_(S!vars)
<1>1. UNCHANGED mcvars => UNCHANGED M!vars
  BY DEF mcvars, M!vars
<1>2. UNCHANGED cdvdvars => UNCHANGED C!vars
  BY DEF cdvdvars, C!vars
<1>3. UNCHANGED padvars => UNCHANGED P!vars
  BY DEF padvars, P!vars
<1>4. UNCHANGED datavars => UNCHANGED D!vars
  BY DEF datavars, D!vars
<1>5. UNCHANGED soundvars => UNCHANGED S!vars
  BY DEF soundvars, S!vars
<1>6. CASE UNCHANGED allvars
  <2>1. /\ UNCHANGED vars /\ UNCHANGED mcvars /\ UNCHANGED cdvdvars /\ UNCHANGED padvars
        /\ UNCHANGED datavars /\ UNCHANGED soundvars
    BY <1>6 DEF allvars
  <2> QED
    BY <1>1, <1>2, <1>3, <1>4, <1>5, <2>1
<1>7. CASE DriversNext
  BY <1>1, <1>2, <1>3, <1>4, <1>5, <1>7 DEF DriversNext
<1> QED
  BY <1>6, <1>7

(* All invariants hold at the start. *)
LEMMA DriversInitInv == DriversInit => DriversInv
BY InitIInv, McInitInv, CdvdInitInv, SoundInitInv, PadInitInv, DataInitInv
  DEF DriversInit, DriversInv

(* Every step of a driver preserves all of them. *)
LEMMA DriversNextInv == DriversInv /\ [DriversNext]_allvars => DriversInv'
BY DriversSteps, NextIInv, McNextInv, CdvdNextInv, SoundNextInv, PadNextInv, DataNextInv
  DEF DriversInv

(* Whatever driver is in use, the invariant of each driver holds. *)
THEOREM DriversInvariance == DriversSpec => []DriversInv
<1>1. DriversSpec => DriversInit /\ [][DriversNext]_allvars
  BY DEF DriversSpec
<1> QED
  BY <1>1, DriversInitInv, DriversNextInv, PTL

(* cdvd.c's mutexes are locked, and mc.c's lastCmd is set, exactly while one call *)
(* holds them, for any number of callers.                                         *)
THEOREM LocksOwnedHolds == DriversSpec => []LocksOwned
<1>1. DriversInv => LocksOwned
  BY CdvdMutexOwned DEF DriversInv, LocksOwned, McInv
<1> QED
  BY <1>1, DriversInvariance, PTL

(* Each caller of the memory card, the disc, the pads and the sound gets the      *)
(* answer to its own arguments, unless, where there is no mutex or cdPowerOff has  *)
(* given it back, the buffer was overwritten meanwhile.                            *)
THEOREM AnswersOwnHolds == DriversSpec => []AnswersOwn
<1>1. DriversInv => AnswersOwn
  BY PadHolds, SoundHolds DEF DriversInv, AnswersOwn, McInv, CdvdInv
<1> QED
  BY <1>1, DriversInvariance, PTL

(* What the stage counters of the drivers claim of their servers is true: a command *)
(* goes to a bound server, but for calls of pad.c and a cdvdreset made before the    *)
(* first stage is done, and sound.c's stages are never ahead of its driver.          *)
THEOREM ServersBoundHolds == DriversSpec => []ServersBound
<1>1. DriversInv => ServersBound
  BY PadHolds, SoundHolds, CdvdBoundWhenCalled DEF DriversInv, ServersBound, McInv, IInv
<1> QED
  BY <1>1, DriversInvariance, PTL

(* For any number of frames and either layout: a port reported open has its data   *)
(* area or padportopen is about to store it, padread copies one whole frame and a   *)
(* pad padman works for is not shown as ready, but between a frame's number and     *)
(* the rest of it.                                                                  *)
THEOREM PadTrueHolds == DriversSpec => []PadTrue
<1>1. DriversInv => PadTrue
  BY PadHolds, DataHolds DEF DriversInv, PadTrue
<1> QED
  BY <1>1, DriversInvariance, PTL
=============================================================================
