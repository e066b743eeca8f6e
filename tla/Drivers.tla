------------------------------- MODULE Drivers -------------------------------
(***************************************************************************)
(* The drivers of the SBIOS side by side.  They share nothing but the table  *)
(* of RPC packets, which each of them sees only as calls that fail, so one    *)
(* of them is in use while the others rest in their initial states.          *)
(***************************************************************************)
EXTENDS IopHeap

CONSTANTS
  Callers,    \* the tasks that use the memory card, the disc, the pads and the sound
  InitTasks,  \* the task that walks through the stages of cdvd.c, pad.c and sound.c
  Ports,      \* controller ports
  MaxFrames   \* bound on the frames padman sends

VARIABLES
  part,          \* the driver in use
  mcInitializeCounter, mcType, lastCmd, cdata, buff, rdata, endParameter, mcall, mserved,
  mresult,
  cdvdInitCounter, bind, cmutex, cclient, cbuff, recv, ccall, late,
  rom, padInitialiseCounter, padsif, sema_id, buffer, padData, pcall, opened, pserved, pdisturbed,
  presult,
  area, sif0, delivered, sent, busy, owed, told, rd,
  soundInitCounter, soundInitialized, sdrsif, rpcBuffer, rpcResultBuffer, callback,
  sregistered, sdr, sserved, scall, sdisturbed, sresult

mcvars == <<mcInitializeCounter, mcType, lastCmd, cdata, buff, rdata, endParameter, mcall,
            mserved, mresult>>
cdvdvars == <<cdvdInitCounter, bind, cmutex, cclient, cbuff, recv, ccall, late>>
padvars == <<rom, padInitialiseCounter, padsif, sema_id, buffer, padData, pcall, opened, pserved,
             pdisturbed, presult>>
datavars == <<rom, area, sif0, delivered, sent, busy, owed, told, rd>>
soundvars == <<soundInitCounter, soundInitialized, sdrsif, rpcBuffer, rpcResultBuffer,
               callback, sregistered, sdr, sserved, scall, sdisturbed, sresult>>
allvars == <<part, vars, mcvars, cdvdvars, padvars, datavars, soundvars>>

M == INSTANCE Mc WITH Tasks <- Callers, call <- mcall, served <- mserved, result <- mresult
C == INSTANCE Cdvd WITH Tasks <- Callers, mutex <- cmutex, client <- cclient,
                        buff <- cbuff, call <- ccall
P == INSTANCE Pad WITH Tasks <- Callers, call <- pcall,
                       served <- pserved, disturbed <- pdisturbed, result <- presult
D == INSTANCE PadData WITH part <- delivered
S == INSTANCE Sound WITH Tasks <- Callers, registered <- sregistered,
                         served <- sserved, call <- scall, disturbed <- sdisturbed,
                         result <- sresult

(* Linux's driver of each device initialises it from one task; NULL stands for *)
(* a null pointer, which is no port, no command and no end function.           *)
ASSUME DriversAssumption ==
  /\ Callers \subseteq Tasks
  /\ InitTasks \subseteq Callers
  /\ \A t, u \in InitTasks : t = u
  /\ NULL \notin Ports
  /\ \A op \in M!Commands : op.cmd # NULL
  /\ \A op \in P!Binds \cup {P!ModVer, P!InitPad} \cup P!Commands \cup {P!PortOpen, P!End} : op.end # NULL

DriversInit ==
  /\ part \in {"iopheap", "mc", "cdvd", "pad", "paddata", "sound"}
  /\ Init /\ M!Init /\ C!Init /\ P!Init /\ D!Init /\ S!Init
  /\ rom => part \in {"pad", "paddata"}

DriversNext ==
  /\ UNCHANGED part
  /\ \/ part = "iopheap" /\ Next /\ UNCHANGED <<mcvars, cdvdvars, padvars, datavars, soundvars>>
     \/ part = "mc" /\ M!Next /\ UNCHANGED <<vars, cdvdvars, padvars, datavars, soundvars>>
     \/ part = "cdvd" /\ C!Next /\ UNCHANGED <<vars, mcvars, padvars, datavars, soundvars>>
     \/ part = "pad" /\ P!Next /\ UNCHANGED <<vars, mcvars, cdvdvars, datavars, soundvars>>
     \/ part = "paddata" /\ D!Next /\ UNCHANGED <<vars, mcvars, cdvdvars, padvars, soundvars>>
     \/ part = "sound" /\ S!Next /\ UNCHANGED <<vars, mcvars, cdvdvars, padvars, datavars>>

(* A driver at rest has no call under way, so its fairness asks for nothing. *)
DriversSpec ==
  /\ DriversInit /\ [][DriversNext]_allvars
  /\ Fairness /\ M!Fairness /\ C!Fairness /\ P!Fairness /\ S!Fairness

-----------------------------------------------------------------------------
(* cdvd.c's mutexes are locked, and mc.c's lastCmd is set, exactly while one   *)
(* call holds them: no error path and no stage of cdvdinit leaves one behind.  *)
LocksOwned == C!MutexOwned /\ M!LastCmdOwned

(* Whoever calls gets the answer to his own arguments, though every driver     *)
(* passes them through buffers that all callers share.  In pad.c and sound.c,  *)
(* which have no mutex, this holds unless a buffer was overwritten meanwhile.  *)
AnswersOwn == C!OwnAnswer /\ M!OwnResult /\ P!AnswerOwn /\ S!AnswerOwn

(* What the stage counters and flags claim is true of the IOP, whichever stage  *)
(* failed, was repeated, ran late or was undone: a command goes to a server that *)
(* is bound, but for those of pad.c and the cdvdreset that are made before the    *)
(* first stage of their driver is done, which look at nothing.  sound.c never     *)
(* thinks its driver further than it is.                                          *)
ServersBound ==
  BoundWhenCalled /\ M!BoundWhenCalled /\ C!BoundWhenCalled /\ P!Bound /\ S!Bound /\ S!StagesTrue

(* The data area of a pad: a port reported as open has one, or its padportopen  *)
(* is about to store it; padread copies one frame, and a pad padman still works  *)
(* for is not shown as ready, but for the moments in which the DMA is between    *)
(* the number of a frame and what belongs to it.                                 *)
PadTrue == P!PortKnown /\ D!ReadWhole /\ D!BusyShown

Calling(t) ==
  \/ call[t].at # "idle"
  \/ /\ t \in Callers
     /\ {mcall[t].at, ccall[t].at, pcall[t].at, scall[t].at} # {"idle"}

(* Every call comes to its end and its caller is told, with whatever failed, and *)
(* so, with MutexOwned and LocksOwned, gives back what it holds.  Two kinds may   *)
(* wait for ever: a request that went to no server, and a blocking call of pad.c  *)
(* whose sema_id another call of the same client reset or took before it looked.  *)
CallsEnd ==
  \A t \in Tasks :
    Calling(t) ~> \/ ~Calling(t)
                  \/ t \in Callers /\ (C!Unserved(t) \/ P!Unserved(t) \/ P!Stranded(t))
=============================================================================
