------------------------------- MODULE PadData -------------------------------
(***************************************************************************)
(* TGE/sbios/pad.c: the data area of an open port.  padman writes frames     *)
(* alternately into its two halves while padread and padgetstate choose the   *)
(* half with the larger frame number and read it; the end function of a       *)
(* request that changes the pad marks the chosen half busy.  A frame comes in *)
(* quadwords, and where its number lies among them depends on the build.      *)
(***************************************************************************)
EXTENDS Naturals, Sequences

CONSTANTS MaxFrames     \* bound on the frames padman sends

VARIABLES
  rom,       \* built for rom0:padman (ROM_PADMAN)
  area,      \* per half: [d1, d2, length, frame, reqState]; for the data in two pieces
             \* and their length, the number of the frame they are of
  sif0,      \* what padman has sent and the DMA has not delivered, in order
  part,      \* parts of the frame at the head of sif0 that are delivered
  sent,      \* number of the last frame sent
  busy,      \* padman works on a request
  owed,      \* end functions that have not run
  told,      \* requests whose end function has run that padman still works on
  rd         \* the call under way: [at, half, d1, length, late, completed, fresh]

vars == <<rom, area, sif0, part, sent, busy, owed, told, rd>>

Quiet == [at |-> "idle", half |-> 0, d1 |-> 0, length |-> 0, late |-> FALSE,
          completed |-> 0, fresh |-> 0]

(* struct pad_data of either build: the fields that come with the same quadword, *)
(* in the order of the quadwords.                                                *)
Layout ==
  IF rom THEN <<{"frame", "reqState", "d1"}, {"d2", "length"}>>
  ELSE <<{"d1"}, {"d2"}, {"frame"}, {"length"}, {"reqState"}>>

(* A frame has its number in the area, and so is the one that is chosen, but not *)
(* yet its field f.                                                              *)
Late(f) ==
  \E i, j \in 1 .. Len(Layout) :
    "frame" \in Layout[i] /\ f \in Layout[j] /\ i <= part /\ part < j

(* padGetDmaStr *)
padGetDmaStr == IF area[0].frame < area[1].frame THEN 1 ELSE 0

-----------------------------------------------------------------------------
(* padman (external).  The answer to a request follows the frames sent before *)
(* it; frames sent later carry the state the request brought about.           *)
SendFrame ==
  /\ sent < MaxFrames
  /\ sent' = sent + 1
  /\ sif0' = Append(sif0, [n |-> sent + 1,
                           reqState |-> IF busy THEN "BUSY" ELSE "COMPLETE"])
  /\ UNCHANGED <<rom, area, part, busy, owed, told, rd>>

(* The RPC client is in use until the answer has come. *)
TakeRequest ==
  /\ ~busy /\ owed = 0
  /\ \A i \in 1 .. Len(sif0) : sif0[i].n # 0
  /\ busy' = TRUE
  /\ sif0' = Append(sif0, [n |-> 0, reqState |-> "BUSY"])    \* the answer
  /\ UNCHANGED <<rom, area, part, sent, owed, told, rd>>

FinishRequest ==
  /\ busy
  /\ busy' = FALSE /\ told' = FALSE
  /\ UNCHANGED <<rom, area, sif0, part, sent, owed, rd>>

(* DMA to the half that was not written last, one part after the other. *)
Deliver ==
  LET f == Head(sif0)
      h == f.n % 2
      Came(x) == x \in Layout[part + 1]
      last == part + 1 = Len(Layout)
  IN
  /\ sif0 # <<>>
  /\ IF f.n = 0
     THEN /\ sif0' = Tail(sif0) /\ owed' = owed + 1
          /\ UNCHANGED <<area, part, rd>>
     ELSE /\ area' = [area EXCEPT ![h] =
                        [d1 |-> IF Came("d1") THEN f.n ELSE @.d1,
                         d2 |-> IF Came("d2") THEN f.n ELSE @.d2,
                         length |-> IF Came("length") THEN f.n ELSE @.length,
                         frame |-> IF Came("frame") THEN f.n ELSE @.frame,
                         reqState |-> IF Came("reqState") THEN f.reqState ELSE @.reqState]]
          /\ part' = IF last THEN 0 ELSE part + 1
          /\ sif0' = IF last THEN Tail(sif0) ELSE sif0
          /\ rd' = IF last /\ rd.at # "idle" THEN [rd EXCEPT !.completed = @ + 1] ELSE rd
          /\ owed' = owed
  /\ UNCHANGED <<rom, sent, busy, told>>

-----------------------------------------------------------------------------
padSetReqState_First ==
  /\ owed > 0
  /\ owed' = owed - 1
  /\ area' = [area EXCEPT ![0].reqState = "BUSY"]
  /\ told' = busy
  /\ UNCHANGED <<rom, sif0, part, sent, busy, rd>>

(* padSetMainModeCallback, padSetButtonInfoCallback, padSetActAlignCallback:   *)
(* padSetReqState(BUSY), then Linux is told.                                   *)
padSetReqState ==
  /\ owed > 0
  /\ owed' = owed - 1
  /\ area' = [area EXCEPT ![padGetDmaStr].reqState = "BUSY"]
  /\ told' = busy
  /\ UNCHANGED <<rom, sif0, part, sent, busy, rd>>

(* sbcall_padread: choose, then copy as many bytes as length says. *)
padread ==
  LET half == padGetDmaStr IN
  /\ rd.at = "idle"
  /\ rd' = [Quiet EXCEPT !.at = "copy1", !.half = half, !.length = area[half].length,
                         !.late = \E f \in {"d1", "d2", "length"} : Late(f),
                         !.fresh = area[half].frame]
  /\ UNCHANGED <<rom, area, sif0, part, sent, busy, owed, told>>

Copy ==
  /\ \/ /\ rd.at = "copy1"
        /\ rd' = [rd EXCEPT !.at = "copy2", !.d1 = area[rd.half].d1]
     \/ /\ rd.at = "copy2"
        /\ rd' = Quiet
  /\ UNCHANGED <<rom, area, sif0, part, sent, busy, owed, told>>

(* sbcall_padgetstate (and padgetreqstate): a half is chosen for the state and *)
(* again for the request state.                                                *)
padgetstate ==
  /\ rd.at = "idle"
  /\ rd' = [Quiet EXCEPT !.at = "state", !.half = padGetDmaStr]
  /\ UNCHANGED <<rom, area, sif0, part, sent, busy, owed, told>>

GetReqState ==
  /\ rd.at = "state"
  /\ rd' = Quiet
  /\ UNCHANGED <<rom, area, sif0, part, sent, busy, owed, told>>

Init ==
  /\ rom \in BOOLEAN
  /\ area = [h \in {0, 1} |-> [d1 |-> 0, d2 |-> 0, length |-> 0, frame |-> 0,
                              reqState |-> "BUSY"]]
  /\ sif0 = <<>> /\ part = 0 /\ sent = 0
  /\ busy = FALSE /\ owed = 0 /\ told = FALSE
  /\ rd = Quiet

Next ==
  \/ SendFrame \/ TakeRequest \/ FinishRequest \/ Deliver
  \/ padSetReqState \/ padread \/ Copy \/ padgetstate \/ GetReqState

Spec == Init /\ [][Next]_vars

-----------------------------------------------------------------------------
(* What padread copies is one frame, and not an older one than the newest at   *)
(* its beginning, unless a frame became whole while it copied or the frame it  *)
(* chose was not whole when it began: the number is not the last to come.      *)
ReadWhole ==
  rd.at = "copy2" /\ rd.completed = 0 /\ ~rd.late
    => {rd.d1, area[rd.half].d2, rd.length} = {rd.fresh}

(* When Linux knows of a request that padman still works on, no half that      *)
(* padgetstate can choose calls the pad ready, but for the moment in which the  *)
(* number of the next frame has come and its request state, in the new build    *)
(* two quadwords behind, has not.                                               *)
BusyShown == told /\ ~Late("reqState") => area[padGetDmaStr].reqState = "BUSY"
=============================================================================
