----------------------------- MODULE Iop_proofs ------------------------------
(***************************************************************************)
(* Proofs about what runs on the IOP and what the SBIOS does for it: the      *)
(* reception of frames (Smap), the search for a link (SmapLink), the sector   *)
(* that is kept between reads (Cdfs), the cache of a part of a directory       *)
(* (CdfsDir) and the answers to the IOP (SifServer), for every value of their     *)
(* constants.                                                                   *)
(***************************************************************************)
EXTENDS Iop, TLAPS, WellFoundedInduction, SequenceTheorems

-----------------------------------------------------------------------------
(* Smap: reception *)

(* What reception works with. *)
RxFrame == [n : Int, len : Lens, ok : BOOLEAN]
Left == [sent : Int, received : Int]

NetTypeOK ==
  /\ ee \in [base : Nat, pos : Nat, size : Nat, given : Nat \X Nat]
  /\ asked \in Int \X Int
  /\ left \in Left
  /\ rxFull \in Seq(RxFrame)

(* The buffer in use is the one that was given, from the first DMA boundary on, *)
(* and holds every frame.                                                        *)
BufferSet == ee.size > 0 =>
  /\ ee.base = ee.given[1] + N!Offset(ee.given[1])
  /\ ee.base + ee.size = ee.given[1] + ee.given[2]
  /\ \A len \in Lens : len <= ee.size

(* No frame is stored while SMAP_CMD_SET_BUFFER is between its steps. *)
BufferChanges ==
  /\ smPc \in {"base", "size"} => ee.size = 0 /\ asked \in EeBuffers
  /\ smPc = "size" => /\ asked[2] > 0 /\ ee.given = asked
                      /\ ee.base = asked[1] + N!Offset(asked[1])

NetInv == NetTypeOK /\ BufferSet /\ BufferChanges /\ RxInBuffer

(* Offsets are less than a DMA transfer. *)
LEMMA OffsetNat == ASSUME NEW a \in Nat PROVE N!Offset(a) \in Nat
BY SmapAssumption DEF N!Offset

(* The IOP starts without a buffer of the EE. *)
LEMMA NetInitInv == N!Init => NetInv
<1> SUFFICES ASSUME N!Init PROVE NetInv
  OBVIOUS
<1>1. ee = [base |-> 0, pos |-> 0, size |-> 0, given |-> <<0, 0>>] /\ asked = <<0, 0>>
      /\ rxFull = <<>> /\ transfers = {} /\ smPc = "idle"
  BY DEF N!Init
<1>2. left \in Left
  BY SmapAssumption DEF N!Init, Left
<1>3. NetTypeOK
  BY <1>1, <1>2 DEF NetTypeOK
<1> QED
  BY <1>1, <1>3 DEF NetInv, BufferSet, BufferChanges, RxInBuffer, N!RxInBuffer

(* Steps of the thread outside SMAP_CMD_SET_BUFFER. *)
LEMMA NetSends ==
  ASSUME NetInv, smPc \notin {"base", "size"}, smPc' \notin {"base", "size"},
         asked' \in Int \X Int, left' \in Left,
         UNCHANGED <<ee, rxFull, transfers>>
  PROVE  NetInv'
BY DEF NetInv, NetTypeOK, BufferSet, BufferChanges, RxInBuffer, N!RxInBuffer

(* SMAP_CMD_SET_BUFFER takes the old buffer away before it sets the new one. *)
LEMMA NetSetBuffer ==
  ASSUME NetInv, NEW buffer \in EeBuffers, N!SetBuffer(buffer)
  PROVE  NetInv'
<1>1. /\ ee' = [ee EXCEPT !.size = 0] /\ smPc' = "base" /\ asked' = buffer
      /\ UNCHANGED <<rxFull, transfers, left>>
  BY DEF N!SetBuffer
<1>2. buffer \in Nat \X Nat
  BY SmapAssumption
<1>3. ee'.size = 0 /\ ee' \in [base : Nat, pos : Nat, size : Nat, given : Nat \X Nat]
  BY <1>1 DEF NetInv, NetTypeOK
<1>4. NetTypeOK'
  BY <1>1, <1>2, <1>3 DEF NetInv, NetTypeOK
<1> QED
  BY <1>1, <1>3, <1>4 DEF NetInv, BufferSet, BufferChanges, RxInBuffer, N!RxInBuffer

(* The second step, which ends the call when the EE took its buffer back. *)
LEMMA NetSetBase == ASSUME NetInv, N!SetBuffer_Base PROVE NetInv'
<1>1. /\ smPc = "base" /\ ee.size = 0 /\ asked \in EeBuffers /\ asked \in Nat \X Nat
      /\ UNCHANGED <<rxFull, transfers, left>>
  BY SmapAssumption DEF N!SetBuffer_Base, NetInv, BufferChanges
<1>2. CASE /\ asked[2] > 0
           /\ ee' = [ee EXCEPT !.base = asked[1] + N!Offset(asked[1]), !.given = asked]
           /\ smPc' = "size" /\ UNCHANGED asked
  <2>1. ee'.size = 0 /\ ee'.given = asked /\ ee'.base = asked[1] + N!Offset(asked[1])
    BY <1>1, <1>2 DEF NetInv, NetTypeOK
  <2>2. asked[1] + N!Offset(asked[1]) \in Nat
    BY <1>1, OffsetNat
  <2>3. ee' \in [base : Nat, pos : Nat, size : Nat, given : Nat \X Nat]
    BY <1>1, <1>2, <2>2 DEF NetInv, NetTypeOK
  <2> QED
    BY <1>1, <1>2, <2>1, <2>3
      DEF NetInv, NetTypeOK, BufferSet, BufferChanges, RxInBuffer, N!RxInBuffer
<1>3. CASE /\ ee' = [ee EXCEPT !.base = asked[1], !.given = asked]
           /\ smPc' = "idle" /\ asked' = <<0, 0>>
  <2>1. ee'.size = 0 /\ ee' \in [base : Nat, pos : Nat, size : Nat, given : Nat \X Nat]
    BY <1>1, <1>3 DEF NetInv, NetTypeOK
  <2> QED
    BY <1>1, <1>3, <2>1
      DEF NetInv, NetTypeOK, BufferSet, BufferChanges, RxInBuffer, N!RxInBuffer
<1> QED
  BY <1>2, <1>3 DEF N!SetBuffer_Base

(* The third step gives the buffer to the interrupt. *)
LEMMA NetSetSize == ASSUME NetInv, N!SetBuffer_Size PROVE NetInv'
<1>1. /\ smPc = "size" /\ asked \in EeBuffers /\ asked \in Nat \X Nat /\ asked[2] > 0
      /\ ee.given = asked /\ ee.base = asked[1] + N!Offset(asked[1])
      /\ ee' = [ee EXCEPT !.pos = 0, !.size = asked[2] - N!Offset(asked[1])]
      /\ smPc' = "idle" /\ asked' = <<0, 0>>
      /\ UNCHANGED <<rxFull, transfers, left>>
  BY SmapAssumption DEF N!SetBuffer_Size, NetInv, BufferChanges
<1>2. N!Offset(asked[1]) \in Nat /\ asked[1] \in Nat /\ asked[2] \in Nat
  BY <1>1, OffsetNat
<1>3. asked[2] > N!Offset(asked[1]) /\ \A len \in Lens : N!Offset(asked[1]) + len <= asked[2]
  BY <1>1, SmapAssumption
<1>4. /\ ee'.given = asked /\ ee'.base = asked[1] + N!Offset(asked[1]) /\ ee'.pos = 0
      /\ ee'.size = asked[2] - N!Offset(asked[1])
  BY <1>1 DEF NetInv, NetTypeOK
<1>5. asked[2] - N!Offset(asked[1]) \in Nat
  BY <1>2, <1>3
<1>6. ee' \in [base : Nat, pos : Nat, size : Nat, given : Nat \X Nat]
  BY <1>1, <1>5 DEF NetInv, NetTypeOK
<1>7. BufferSet'
  BY <1>2, <1>3, <1>4, SmapAssumption DEF BufferSet
<1> QED
  BY <1>1, <1>6, <1>7 DEF NetInv, NetTypeOK, BufferChanges, RxInBuffer, N!RxInBuffer

(* A frame goes to the place in the buffer where it fits, or to the start. *)
LEMMA NetInput ==
  ASSUME NetInv, NEW b, NEW k, NEW len \in Lens, N!SMapLowLevelInput(b, k, len),
         rxFull' \in Seq(RxFrame), UNCHANGED <<smPc, asked, left>>
  PROVE  NetInv'
<1>1. CASE ee.size = 0 /\ UNCHANGED <<ee, transfers>>
  BY <1>1 DEF NetInv, NetTypeOK, BufferSet, BufferChanges, RxInBuffer, N!RxInBuffer
<1>2. CASE /\ ee.size # 0
           /\ ee' = [ee EXCEPT !.pos = N!RoundUp(N!RxPos(len) + len)]
           /\ \/ transfers' = transfers \cup {[id |-> k, to |-> ee.base + N!RxPos(len),
                                               len |-> len, given |-> ee.given]}
              \/ UNCHANGED transfers
  <2>0. /\ ee.size \in Nat /\ ee.size > 0 /\ ee.pos \in Nat /\ ee.base \in Nat /\ len \in Nat
        /\ ee.given[1] \in Nat /\ ee.given[2] \in Nat
    BY <1>2, SmapAssumption DEF NetInv, NetTypeOK
  <2>1. N!RxPos(len) \in Nat /\ N!RxPos(len) + len <= ee.size
    BY <2>0 DEF NetInv, BufferSet, N!RxPos
  <2>2. N!RoundUp(N!RxPos(len) + len) \in Nat
    <3> DEFINE r == N!RxPos(len) + len
    <3>1. r \in Nat
      BY <2>0, <2>1
    <3> HIDE DEF r
    <3>2. (r + Align - 1) \div Align \in Nat
      BY <3>1, SmapAssumption
    <3>3. \A x, y \in Nat : x * y \in Nat
      OBVIOUS
    <3>4. N!RoundUp(r) \in Nat
      BY <3>2, <3>3, SmapAssumption DEF N!RoundUp
    <3> QED
      BY <3>4 DEF r
  <2>3. /\ ee' \in [base : Nat, pos : Nat, size : Nat, given : Nat \X Nat]
        /\ ee'.size = ee.size /\ ee'.base = ee.base /\ ee'.given = ee.given
    BY <1>2, <2>2 DEF NetInv, NetTypeOK
  <2>4. NetTypeOK' /\ BufferSet' /\ BufferChanges'
    BY <2>3 DEF NetInv, NetTypeOK, BufferSet, BufferChanges
  <2>5. ee.given[1] <= ee.base + N!RxPos(len)
        /\ (ee.base + N!RxPos(len)) + len <= ee.given[1] + ee.given[2]
    <3>1. /\ ee.base = ee.given[1] + N!Offset(ee.given[1]) /\ N!Offset(ee.given[1]) \in Nat
          /\ ee.base + ee.size = ee.given[1] + ee.given[2]
      BY <2>0, OffsetNat DEF NetInv, BufferSet
    <3>2. \A g, o, y, z, h, r, l \in Nat :
            y = g + o /\ y + z = g + h /\ r + l <= z => g <= y + r /\ (y + r) + l <= g + h
      OBVIOUS
    <3> QED
      BY ONLY <2>0, <2>1, <3>1, <3>2
  <2>6. RxInBuffer'
    BY <1>2, <2>5 DEF NetInv, RxInBuffer, N!RxInBuffer
  <2> QED
    BY <2>4, <2>6 DEF NetInv
<1> QED
  BY <1>1, <1>2 DEF N!SMapLowLevelInput

(* One round of HandleRXInt. *)
LEMMA NetReceives == ASSUME NetInv, N!HandleRXInt PROVE NetInv'
<1>0. UNCHANGED <<smPc, asked, left>>
  BY DEF N!HandleRXInt, N!thread
<1>1. CASE UNCHANGED <<rxFull, ee, transfers>>
  BY <1>0, <1>1 DEF NetInv, NetTypeOK, BufferSet, BufferChanges, RxInBuffer, N!RxInBuffer
<1>2. CASE rxFull # <<>> /\ rxFull' = Tail(rxFull)
  <2>0. rxFull \in Seq(RxFrame)
    BY DEF NetInv, NetTypeOK
  <2>1. Head(rxFull).len \in Lens /\ rxFull' \in Seq(RxFrame)
    <3>1. Head(rxFull) \in RxFrame /\ Tail(rxFull) \in Seq(RxFrame)
      BY ONLY <1>2, <2>0
    <3> QED
      BY <1>2, <3>1 DEF RxFrame
  <2>2. CASE UNCHANGED <<ee, transfers>>
    BY <1>0, <2>1, <2>2 DEF NetInv, NetTypeOK, BufferSet, BufferChanges, RxInBuffer, N!RxInBuffer
  <2>3. CASE \E b : N!SMapLowLevelInput(b, Head(rxFull).n, Head(rxFull).len)
    BY <1>0, <2>1, <2>3, NetInput
  <2> QED
    BY <1>1, <2>2, <2>3 DEF N!HandleRXInt, N!rx
<1> QED
  BY <1>1, <1>2 DEF N!HandleRXInt, N!rx

(* The chip and the DMA controller. *)
LEMMA NetHardware ==
  ASSUME NetInv,
         \/ \E len \in Lens, ok \in BOOLEAN : N!Receive(len, ok)
         \/ N!TransferDone
  PROVE  NetInv'
<1>1. ASSUME NEW len \in Lens, NEW ok \in BOOLEAN, N!Receive(len, ok) PROVE NetInv'
  <2>1. /\ left' = [left EXCEPT !.received = @ - 1]
        /\ rxFull' = Append(rxFull, [n |-> -left.received, len |-> len, ok |-> ok])
        /\ UNCHANGED <<ee, transfers, smPc, asked>>
    BY <1>1 DEF N!Receive, N!others, N!thread
  <2>2. left \in Left /\ rxFull \in Seq(RxFrame)
    BY DEF NetInv, NetTypeOK
  <2>3. left' \in Left /\ -left.received \in Int
    BY ONLY <2>1, <2>2 DEF Left
  <2>4. [n |-> -left.received, len |-> len, ok |-> ok] \in RxFrame
    BY <2>3 DEF RxFrame
  <2>5. rxFull' \in Seq(RxFrame)
    BY ONLY <2>1, <2>2, <2>4
  <2> QED
    BY <2>1, <2>3, <2>5 DEF NetInv, NetTypeOK, BufferSet, BufferChanges, RxInBuffer, N!RxInBuffer
<1>2. CASE N!TransferDone
  <2>1. transfers' \subseteq transfers /\ UNCHANGED <<ee, rxFull, smPc, asked, left>>
    BY <1>2 DEF N!TransferDone, N!others, N!thread
  <2> QED
    BY <2>1 DEF NetInv, NetTypeOK, BufferSet, BufferChanges, RxInBuffer, N!RxInBuffer
<1> QED
  BY <1>1, <1>2

(* smap_send and what it does until it returns. *)
LEMMA NetThread ==
  ASSUME NetInv,
         \/ \E len \in Lens : N!smap_send(len)
         \/ N!pbuf_alloc_Take \/ N!AddToQueue \/ N!Send_Check \/ N!Send_Wait
  PROVE  NetInv'
<1>1. UNCHANGED <<ee, rxFull, transfers>>
  BY DEF N!smap_send, N!pbuf_alloc_Take, N!AddToQueue, N!Send_Check, N!Send_Wait, N!rx
<1>2. smPc \notin {"base", "size"} /\ smPc' \notin {"base", "size"}
  BY DEF N!smap_send, N!pbuf_alloc_Take, N!AddToQueue, N!Send_Check, N!Send_Wait, N!thread
<1>3. CASE \E len \in Lens : N!smap_send(len)
  <2>1. PICK len \in Lens : N!smap_send(len)
    BY <1>3
  <2>2. /\ left' = [left EXCEPT !.sent = @ - 1]
        /\ asked' = asked \/ asked' = <<left.sent, len>>
    BY <2>1 DEF N!smap_send, N!thread
  <2>3. left' \in Left /\ asked' \in Int \X Int
    BY <2>2, SmapAssumption DEF NetInv, NetTypeOK, Left
  <2> QED
    BY <1>1, <1>2, <2>3, NetSends
<1>4. CASE N!pbuf_alloc_Take \/ N!AddToQueue \/ N!Send_Check \/ N!Send_Wait
  <2>1. left' = left /\ (asked' = asked \/ asked' = <<0, 0>>)
    BY <1>4 DEF N!pbuf_alloc_Take, N!AddToQueue, N!Send_Check, N!Send_Wait
  <2>2. left' \in Left /\ asked' \in Int \X Int
    BY <2>1 DEF NetInv, NetTypeOK
  <2> QED
    BY <1>1, <1>2, <2>2, NetSends
<1> QED
  BY <1>3, <1>4

(* Every step of the Ethernet module keeps the invariant. *)
LEMMA NetNextInv == NetInv /\ [N!Next]_netvars => NetInv'
<1> SUFFICES ASSUME NetInv, [N!Next]_netvars PROVE NetInv'
  OBVIOUS
<1>1. ASSUME UNCHANGED <<ee, rxFull, transfers, smPc, asked, left>> PROVE NetInv'
  BY <1>1 DEF NetInv, NetTypeOK, BufferSet, BufferChanges, RxInBuffer, N!RxInBuffer
<1>2. CASE UNCHANGED netvars
  BY <1>1, <1>2 DEF netvars
<1>3. CASE \/ N!SMapInterrupt \/ N!HandleTXInt \/ N!SendRequest \/ N!SendRequests_Done
           \/ N!QueueHandler \/ N!GetIRQ \/ N!Timer \/ N!Transmit
  BY <1>1, <1>3 DEF N!SMapInterrupt, N!HandleTXInt, N!SendRequest, N!SendRequests_Done,
    N!QueueHandler, N!GetIRQ, N!Timer, N!Transmit, N!handler, N!thread, N!rx, N!others
<1> QED
  BY <1>2, <1>3, NetThread, NetSetBuffer, NetSetBase, NetSetSize, NetReceives, NetHardware
    DEF N!Next, N!Thread, N!Handler

-----------------------------------------------------------------------------
(* SmapLink *)

LinkTypeOK ==
  /\ slPc \in {"init", "failed", "emac", "phy", "nego", "forced", "defaults", "reinit", "start",
               "open"}
  /\ enabled \in BOOLEAN /\ newChip \in BOOLEAN

(* The link is declared valid by PhySetDSP only, frames are sent at the end, and *)
(* until a mode is found the chip keeps the mode of its first reset.             *)
LinkStages ==
  /\ slPc \in {"init", "failed", "emac", "phy", "nego", "forced"} => "LINKVALID" \notin flags
  /\ slPc # "open" => ~enabled
  /\ slPc \in {"phy", "nego"} => mode1 = K!Mode(100, TRUE)

(* While a mode is tried by force it is the one the phy was set to, if it was. *)
LinkForced == slPc = "forced" =>
  /\ phy = K!ForcedMode(flags) \/ doubt = "unwritten"
  /\ "FORCE100M" \in flags \/ "FORCE10M" \in flags

(* The chip's mode and the phy's agree, or for one of three reasons need not. *)
Agree(chip) ==
  \/ chip = phy
  \/ doubt = "skipped" /\ newChip /\ chip = K!Mode(100, TRUE)
  \/ doubt = "unread" /\ ~newChip
  \/ doubt = "unwritten" /\ chip \in {K!Mode(100, FALSE), K!Mode(10, FALSE)}

(* The saved mode survives the second reset of the chip. *)
LinkSaved == "LINKVALID" \in flags =>
  /\ Agree(txMode)
  /\ slPc \in {"start", "open"} => mode1 = txMode

LinkInv == LinkTypeOK /\ LinkStages /\ LinkForced /\ LinkSaved

(* Before SMapInit nothing is valid. *)
LEMMA LinkInitInv == K!Init => LinkInv
<1> SUFFICES ASSUME K!Init PROVE LinkInv
  OBVIOUS
<1>1. enabled \in BOOLEAN /\ newChip \in BOOLEAN
  BY Zenon DEF K!Init
<1> QED
  BY <1>1 DEF K!Init, LinkInv, LinkTypeOK, LinkStages, LinkForced, LinkSaved

(* The steps of the auto-negotiation. *)
LEMMA LinkNegotiates ==
  ASSUME LinkInv, K!ConfirmAutoNegotiation \/ K!ConfirmAutoNegotiation_Unsure
  PROVE  LinkInv'
<1>1. /\ slPc = "nego" /\ slPc' = "defaults"
      /\ txMode' = mode1'
      /\ flags' = flags \cup {"LINKESTABLISH", "LINKVALID"}
      /\ UNCHANGED <<newChip, enabled>>
  BY DEF K!ConfirmAutoNegotiation, K!ConfirmAutoNegotiation_Unsure, K!PhySetDSP
<1>2. Agree(mode1)'
  <2>1. mode1 = K!Mode(100, TRUE)
    BY <1>1 DEF LinkInv, LinkStages
  <2>2. CASE K!ConfirmAutoNegotiation
    <3>1. CASE newChip
      BY <1>1, <2>1, <2>2, <3>1 DEF K!ConfirmAutoNegotiation, Agree
    <3>2. CASE ~newChip
      BY <2>2, <3>2 DEF K!ConfirmAutoNegotiation, Agree
    <3> QED
      BY <3>1, <3>2
  <2>3. CASE K!ConfirmAutoNegotiation_Unsure
    BY <1>1, <2>3 DEF K!ConfirmAutoNegotiation_Unsure, Agree
  <2> QED
    BY <2>2, <2>3
<1> QED
  BY <1>1, <1>2 DEF LinkInv, LinkTypeOK, LinkStages, LinkForced, LinkSaved, Agree

(* The forced modes, 100 Mbit first. *)
LEMMA LinkForces ==
  ASSUME LinkInv,
         \/ K!AutoNegotiation_Timeout \/ K!ConfirmForceSPD
         \/ K!ConfirmForceSPD_Timeout \/ K!ConfirmForceSPD_Fails
  PROVE  LinkInv'
<1>1. CASE K!AutoNegotiation_Timeout
  <2>1. slPc = "nego" /\ UNCHANGED <<mode1, txMode, newChip, enabled>>
    BY <1>1 DEF K!AutoNegotiation_Timeout
  <2>2. CASE UNCHANGED <<slPc, flags, phy, doubt>>
    BY <2>1, <2>2 DEF LinkInv, LinkTypeOK, LinkStages, LinkForced, LinkSaved, Agree
  <2>3. CASE slPc' = "forced" /\ flags' = flags \cup {"FORCE100M"} /\ K!WritePhy(K!Mode(100, FALSE))
    <3>1. K!ForcedMode(flags') = K!Mode(100, FALSE)
      BY <2>3 DEF K!ForcedMode
    <3>2. phy' = K!Mode(100, FALSE) \/ doubt' = "unwritten"
      BY <2>3 DEF K!WritePhy
    <3> QED
      BY <2>1, <2>3, <3>1, <3>2 DEF LinkInv, LinkTypeOK, LinkStages, LinkForced, LinkSaved
  <2> QED
    BY <1>1, <2>2, <2>3 DEF K!AutoNegotiation_Timeout
<1>2. CASE K!ConfirmForceSPD
  <2>1. /\ slPc = "forced" /\ slPc' = "defaults"
        /\ mode1' = K!ForcedMode(flags) /\ txMode' = mode1'
        /\ UNCHANGED <<phy, doubt, newChip, enabled>>
    BY <1>2 DEF K!ConfirmForceSPD, K!PhySetDSP
  <2>2. K!ForcedMode(flags) \in {K!Mode(100, FALSE), K!Mode(10, FALSE)}
    BY <2>1 DEF LinkInv, LinkForced, K!ForcedMode
  <2>3. phy = K!ForcedMode(flags) \/ doubt = "unwritten"
    BY <2>1 DEF LinkInv, LinkForced
  <2>4. Agree(txMode)'
    BY <2>1, <2>2, <2>3 DEF Agree
  <2> QED
    BY <2>1, <2>4 DEF LinkInv, LinkTypeOK, LinkStages, LinkForced, LinkSaved, Agree
<1>3. CASE K!ConfirmForceSPD_Timeout
  <2>1. /\ slPc = "forced" /\ slPc' = "forced"
        /\ flags' = (flags \ {"FORCE100M"}) \cup {"FORCE10M"}
        /\ UNCHANGED <<mode1, txMode, newChip, enabled>>
    BY <1>3 DEF K!ConfirmForceSPD_Timeout
  <2>2. phy' = K!Mode(10, FALSE) \/ doubt' = "unwritten"
    BY <1>3 DEF K!ConfirmForceSPD_Timeout, K!WritePhy
  <2>3. K!ForcedMode(flags') = K!Mode(10, FALSE)
    BY <2>1 DEF K!ForcedMode
  <2> QED
    BY <2>1, <2>2, <2>3 DEF LinkInv, LinkTypeOK, LinkStages, LinkForced, LinkSaved
<1>4. CASE K!ConfirmForceSPD_Fails
  BY <1>4 DEF LinkInv, LinkTypeOK, LinkStages, LinkForced, LinkSaved, Agree, K!ConfirmForceSPD_Fails
<1> QED
  BY <1>1, <1>2, <1>3, <1>4

(* The steps before and after the search. *)
LEMMA LinkOther ==
  ASSUME LinkInv,
         \/ \E ok \in BOOLEAN : K!GetNodeAddr(ok) \/ K!PhyReset(ok)
         \/ K!EMAC3Init \/ K!EMAC3SetDefValue \/ K!EMAC3ReInit \/ K!SMap_Start
  PROVE  LinkInv'
<1>1. CASE \E ok \in BOOLEAN : K!GetNodeAddr(ok) \/ K!PhyReset(ok)
  <2>1. /\ \/ slPc = "init" /\ slPc' \in {"emac", "failed"}
           \/ slPc = "phy" /\ slPc' \in {"nego", "reinit"}
        /\ UNCHANGED <<flags, mode1, txMode, phy, doubt, newChip, enabled>>
    BY <1>1 DEF K!GetNodeAddr, K!PhyReset
  <2> QED
    BY <2>1 DEF LinkInv, LinkTypeOK, LinkStages, LinkForced, LinkSaved
<1>2. CASE K!EMAC3Init
  <2>1. enabled' \in BOOLEAN
    BY <1>2, Zenon DEF K!EMAC3Init
  <2> QED
    BY <1>2, <2>1 DEF LinkInv, LinkTypeOK, LinkStages, LinkForced, LinkSaved, K!EMAC3Init
<1>3. CASE K!EMAC3SetDefValue \/ K!EMAC3ReInit
  <2>1. /\ \/ slPc = "defaults" /\ slPc' = "reinit"
           \/ slPc = "reinit" /\ slPc' = "start" /\ mode1' = txMode
        /\ UNCHANGED <<flags, txMode, phy, doubt, newChip, enabled>>
    BY <1>3 DEF K!EMAC3SetDefValue, K!EMAC3ReInit
  <2>2. Agree(txMode)' <=> Agree(txMode)
    BY <2>1 DEF Agree
  <2> QED
    BY <2>1, <2>2 DEF LinkInv, LinkTypeOK, LinkStages, LinkForced, LinkSaved
<1>4. CASE K!SMap_Start
  <2>1. enabled' \in BOOLEAN
    BY <1>4, Zenon DEF K!SMap_Start
  <2> QED
    BY <1>4, <2>1 DEF LinkInv, LinkTypeOK, LinkStages, LinkForced, LinkSaved, Agree, K!SMap_Start
<1> QED
  BY <1>1, <1>2, <1>3, <1>4

(* Every step of the search keeps the invariant. *)
LEMMA LinkNextInv == LinkInv /\ [K!Next]_linkvars => LinkInv'
<1> SUFFICES ASSUME LinkInv, [K!Next]_linkvars PROVE LinkInv'
  OBVIOUS
<1>1. CASE UNCHANGED linkvars
  BY <1>1 DEF linkvars, LinkInv, LinkTypeOK, LinkStages, LinkForced, LinkSaved, Agree
<1> QED
  BY <1>1, LinkNegotiates, LinkForces, LinkOther DEF K!Next

-----------------------------------------------------------------------------
(* Cdfs: the sector kept between reads *)

OpenFile == [used : BOOLEAN, lba : Nat, size : Nat, pos : Nat]

ReadTypeOK ==
  /\ fds \in [R!Fds -> OpenFile]
  /\ \A i \in R!Fds : fds[i].pos <= fds[i].size
  /\ lastSector \in Nat /\ lastBk \in R!Blocks
  /\ buf \in [R!Blocks -> Int]
  /\ udf \in BOOLEAN

(* s_LastBk is the block of the sector s_LastSector names, unless it is spoilt. *)
SectorKept == buf[lastBk] = lastSector \/ lastBk \in spoilt

ReadInv == ReadTypeOK /\ SectorKept /\ ReadTrue

(* A quotient is between its neighbours. *)
LEMMA Quotient ==
  ASSUME NEW x \in Nat, NEW s \in Nat \ {0}
  PROVE  /\ x \div s \in Nat /\ x % s \in 0 .. s - 1
         /\ s * (x \div s) <= x /\ x < s * (x \div s) + s
OBVIOUS

LEMMA QuotientBounds ==
  ASSUME NEW x \in Nat, NEW s \in Nat \ {0}, NEW q \in Nat
  PROVE  /\ x < s * q => x \div s < q
         /\ s <= x => 1 <= x \div s
<1>1. PICK d \in Nat : d = x \div s /\ s * d <= x /\ x < s * d + s
  BY Quotient
<1>2. ASSUME x < s * q, q <= d PROVE FALSE
  <2>1. PICK e \in Nat : d = q + e
    BY <1>2
  <2>2. s * d = s * q + s * e /\ s * q \in Nat /\ s * e \in Nat
    BY <2>1
  <2> QED
    BY <1>1, <1>2, <2>2
<1>3. ASSUME s <= x, d = 0 PROVE FALSE
  BY <1>1, <1>3
<1> QED
  BY <1>1, <1>2, <1>3

(* A read is at least one sector and at most what s_Buffer holds. *)
LEMMA SectorsFit ==
  ASSUME NEW pos1 \in Nat, NEW len \in Nat, 0 < len, len <= MaxRead
  PROVE  /\ R!Sectors((pos1 % SectorSize) + len) \in Nat \ {0}
         /\ R!Sectors((pos1 % SectorSize) + len) - 1 \in R!Blocks
<1> DEFINE s == SectorSize
           q == MaxRead \div SectorSize
           x == ((pos1 % SectorSize) + len) + SectorSize - 1
<1>1. s \in Nat \ {0} /\ q \in Nat /\ MaxRead = s * q
  BY CdfsAssumption
<1>2. pos1 % s \in 0 .. s - 1
  BY <1>1, Quotient
<1>3. x \in Nat /\ s <= x /\ x < s * q + s + s
  BY <1>1, <1>2
<1>4. s * (q + 2) = s * q + s + s
  BY <1>1
<1>5. PICK d : d = x \div s
  OBVIOUS
<1>6. d \in Nat
  BY <1>1, <1>3, <1>5, Quotient
<1>7. q + 2 \in Nat
  BY <1>1
<1>8. d < q + 2 /\ 1 <= d
  BY <1>1, <1>3, <1>4, <1>5, <1>7, QuotientBounds
<1>9. d - 1 \in 0 .. q
  BY <1>1, <1>6, <1>8
<1> QED
  BY <1>5, <1>6, <1>8, <1>9 DEF R!Sectors, R!Blocks

(* The length of a read. *)
LEMMA LeastOfThree ==
  ASSUME NEW a \in Int, NEW b \in Int, NEW c \in Int
  PROVE  /\ R!Min({a, b, c}) \in Int
         /\ R!Min({a, b, c}) <= a /\ R!Min({a, b, c}) <= b /\ R!Min({a, b, c}) <= c
<1>1. \E m \in {a, b, c} : \A y \in {a, b, c} : m <= y
  <2>1. CASE a <= b /\ a <= c
    BY <2>1
  <2>2. CASE b <= a /\ b <= c
    BY <2>2
  <2>3. CASE c <= a /\ c <= b
    BY <2>3
  <2> QED
    BY <2>1, <2>2, <2>3
<1>2. R!Min({a, b, c}) \in {a, b, c} /\ \A y \in {a, b, c} : R!Min({a, b, c}) <= y
  BY <1>1 DEF R!Min
<1> QED
  BY <1>2

(* Nothing is kept at first. *)
LEMMA ReadInitInv == R!Init => ReadInv
<1> SUFFICES ASSUME R!Init PROVE ReadInv
  OBVIOUS
<1>1. udf \in BOOLEAN
  BY Zenon DEF R!Init
<1>2. fds \in [R!Fds -> OpenFile] /\ \A i \in R!Fds : fds[i].pos <= fds[i].size
  BY DEF R!Init, OpenFile
<1>3. 0 \in R!Blocks
  <2>1. MaxRead \div SectorSize \in Nat
    BY CdfsAssumption, Quotient
  <2> QED
    BY <2>1 DEF R!Blocks
<1>4. ReadTypeOK
  BY <1>1, <1>2, <1>3 DEF R!Init, ReadTypeOK, R!Zero
<1> QED
  BY <1>3, <1>4 DEF R!Init, ReadInv, SectorKept, ReadTrue, R!ReadTrue, R!Zero, R!Nothing

(* A step that returns no data and leaves the kept sector alone, or spoils it. *)
LEMMA ReadNothing ==
  ASSUME ReadInv, out' = R!Nothing, UNCHANGED <<lastSector, lastBk>>,
         fds' \in [R!Fds -> OpenFile], \A i \in R!Fds : fds'[i].pos <= fds'[i].size,
         buf' \in [R!Blocks -> Int], udf' \in BOOLEAN, spoilt \subseteq spoilt',
         \A k \in R!Blocks : buf'[k] = buf[k] \/ k \in spoilt'
  PROVE  ReadInv'
<1>1. ReadTypeOK'
  BY DEF ReadInv, ReadTypeOK
<1>2. SectorKept'
  BY DEF ReadInv, ReadTypeOK, SectorKept
<1>3. ReadTrue'
  BY DEF ReadTrue, R!ReadTrue, R!Nothing
<1> QED
  BY <1>1, <1>2, <1>3 DEF ReadInv

(* Opening, closing, seeking, scanning and changing the file system. *)
LEMMA ReadOther ==
  ASSUME ReadInv,
         \/ \E file \in Files : R!Open(file)
         \/ R!Look
         \/ \E i \in R!Fds : R!CDVD_close(i)
         \/ \E i \in R!Fds, p \in -1 .. MaxRead + 1 : R!CDVD_lseek(i, p)
         \/ \E dvdv \in BOOLEAN : R!CDVDRpc_SetDVDV(dvdv)
  PROVE  ReadInv'
<1>0. /\ ReadTypeOK /\ buf \in [R!Blocks -> Int] /\ fds \in [R!Fds -> OpenFile]
      /\ \A i \in R!Fds : fds[i].pos <= fds[i].size
  BY DEF ReadInv, ReadTypeOK
<1>1. /\ out' = R!Nothing /\ UNCHANGED <<lastSector, lastBk>>
  BY DEF R!Open, R!Look, R!CDVD_close, R!CDVD_lseek, R!CDVDRpc_SetDVDV
<1>2. udf' \in BOOLEAN
  BY <1>0, Zenon DEF ReadTypeOK, R!Open, R!Look, R!CDVD_close, R!CDVD_lseek, R!CDVDRpc_SetDVDV
<1>3. /\ \/ {0, 1} \subseteq spoilt' /\ buf' = [buf EXCEPT ![0] = R!Other, ![1] = R!Other]
         \/ buf' = buf
      /\ spoilt \subseteq spoilt'
  BY DEF R!Open, R!Look, R!CDVD_close, R!CDVD_lseek, R!CDVDRpc_SetDVDV, R!ScanDirectory, R!UDFScanDir
<1>4. spoilt \subseteq spoilt' /\ \A k \in R!Blocks : buf'[k] = buf[k] \/ k \in spoilt'
  BY <1>0, <1>3
<1>5. buf' \in [R!Blocks -> Int]
  BY <1>0, <1>3 DEF R!Other
<1>6. fds' \in [R!Fds -> OpenFile] /\ \A i \in R!Fds : fds'[i].pos <= fds'[i].size
  <2>1. ASSUME NEW file \in Files, R!Open(file)
        PROVE  fds' \in [R!Fds -> OpenFile] /\ \A i \in R!Fds : fds'[i].pos <= fds'[i].size
    <3>1. PICK k, f : /\ f = [used |-> TRUE, lba |-> file[1], size |-> file[2], pos |-> 0]
                      /\ fds' = fds \/ fds' = [fds EXCEPT ![k] = f]
      BY <2>1 DEF R!Open
    <3>2. f \in OpenFile /\ f.pos <= f.size
      BY <3>1, CdfsAssumption DEF OpenFile
    <3> QED
      BY <1>0, <3>1, <3>2
  <2>2. ASSUME NEW i \in R!Fds, R!CDVD_close(i)
        PROVE  fds' \in [R!Fds -> OpenFile] /\ \A k \in R!Fds : fds'[k].pos <= fds'[k].size
    <3>1. PICK f : f = [fds[i] EXCEPT !.used = FALSE]
      OBVIOUS
    <3>2. fds' = [fds EXCEPT ![i] = f]
      BY <2>2, <3>1 DEF R!CDVD_close
    <3>3. f \in OpenFile /\ f.pos = fds[i].pos /\ f.size = fds[i].size
      BY <1>0, <3>1 DEF OpenFile
    <3> QED
      BY <1>0, <3>2, <3>3
  <2>3. ASSUME NEW i \in R!Fds, NEW p \in -1 .. MaxRead + 1, R!CDVD_lseek(i, p)
        PROVE  fds' \in [R!Fds -> OpenFile] /\ \A k \in R!Fds : fds'[k].pos <= fds'[k].size
    <3>0. fds[i].size \in Nat /\ p \in Int
      BY <1>0, CdfsAssumption DEF OpenFile
    <3>1. PICK v \in Nat : v = (IF p < 0 \/ p > fds[i].size THEN fds[i].size ELSE p)
      BY <3>0
    <3>2. v <= fds[i].size
      BY <3>0, <3>1
    <3>3. PICK f : f = [fds[i] EXCEPT !.pos = v]
      OBVIOUS
    <3>4. fds' = [fds EXCEPT ![i] = f]
      BY <2>3, <3>1, <3>3 DEF R!CDVD_lseek
    <3>5. f \in OpenFile /\ f.pos = v /\ f.size = fds[i].size
      BY <1>0, <3>3 DEF OpenFile
    <3> QED
      BY <1>0, <3>2, <3>4, <3>5
  <2> QED
    BY <1>0, <2>1, <2>2, <2>3 DEF R!Look, R!CDVDRpc_SetDVDV
<1> QED
  BY <1>1, <1>2, <1>4, <1>5, <1>6, ReadNothing

(* A read takes its first sector from the buffer only if that is the one kept. *)
LEMMA ReadReads ==
  ASSUME ReadInv, NEW i \in R!Fds, NEW size \in Nat, NEW arrived \in Nat, NEW cleared \in BOOLEAN,
         R!Read(i, size, arrived, cleared)
  PROVE  ReadInv'
<1> DEFINE fd == fds[i]
           len == R!Min({size, fds[i].size - fds[i].pos, MaxRead})
           start == fds[i].lba + (fds[i].pos \div SectorSize)
           num == R!Sectors((fds[i].pos % SectorSize) + len)
           hit == start = lastSector
           first == IF hit THEN 1 ELSE 0
           new == {k \in R!Blocks : first <= k /\ k < num}
           here == {k \in new : ~cleared /\ k < first + arrived}
<1>0. /\ ReadTypeOK /\ buf \in [R!Blocks -> Int] /\ fds \in [R!Fds -> OpenFile]
      /\ fd \in OpenFile /\ fd.pos <= fd.size /\ lastBk \in R!Blocks
      /\ udf \in BOOLEAN
  BY DEF ReadInv, ReadTypeOK
<1>1. /\ fd.used /\ len > 0
      /\ lastSector' = start + num - 1
      /\ buf' = [k \in R!Blocks |-> IF k \in here THEN start + k
                                    ELSE IF k \in new /\ cleared THEN R!Zero ELSE R!KeepLast(hit)[k]]
      /\ spoilt' = (R!StillSpoilt(hit) \ here) \cup (new \ here)
      /\ lastBk' = IF first < num THEN num - 1 ELSE 0
      /\ fds' = [fds EXCEPT ![i].pos = fd.pos + len]
      /\ out' = [start |-> start, got |-> [k \in 0 .. num - 1 |-> buf'[k]], spoilt |-> spoilt']
      /\ udf' = udf
  BY DEF R!Read
<1>2. fd.pos \in Nat /\ fd.size \in Nat /\ fd.lba \in Nat
  BY <1>0 DEF OpenFile
<1>3. len \in Nat /\ len <= fd.size - fd.pos /\ len <= MaxRead
  <2>1. PICK z \in Int : z = fds[i].size - fds[i].pos
    BY <1>2
  <2>2. MaxRead \in Int /\ size \in Int
    BY CdfsAssumption
  <2>3. len \in Int /\ len <= z /\ len <= MaxRead
    BY <2>1, <2>2, LeastOfThree
  <2>4. len > 0
    BY <1>1
  <2> HIDE DEF len
  <2> QED
    BY <2>1, <2>3, <2>4
<1>4. start \in Nat
  <2>1. PICK p \in Nat : p = fds[i].pos
    BY <1>2
  <2>2. p \div SectorSize \in Nat
    BY CdfsAssumption, Quotient
  <2> QED
    BY <1>2, <2>1, <2>2
<1>5. num \in Nat \ {0} /\ num - 1 \in R!Blocks
  BY <1>1, <1>2, <1>3, SectorsFit
<1> HIDE DEF len, start, num
<1>6. PICK q \in Nat : R!Blocks = 0 .. q
  <2>1. MaxRead \div SectorSize \in Nat
    BY CdfsAssumption, Quotient
  <2> QED
    BY <2>1 DEF R!Blocks
<1>7. \A k \in R!Blocks : /\ k \notin new => buf'[k] = R!KeepLast(hit)[k]
                          /\ k \in new => buf'[k] = start + k \/ k \in spoilt'
  <2> SUFFICES ASSUME NEW k \in R!Blocks
               PROVE  /\ k \notin new => buf'[k] = R!KeepLast(hit)[k]
                      /\ k \in new => buf'[k] = start + k \/ k \in spoilt'
    OBVIOUS
  <2>1. k \in here => k \in new /\ buf'[k] = start + k
    BY <1>1
  <2>2. k \in new /\ k \notin here => k \in spoilt'
    BY <1>1
  <2>3. k \notin new => buf'[k] = R!KeepLast(hit)[k]
    BY <1>1, <2>1
  <2> QED
    BY <2>1, <2>2, <2>3
<1>8. R!KeepLast(hit) \in [R!Blocks -> Int] /\ R!KeepLast(hit)[0] = (IF hit THEN buf[lastBk] ELSE buf[0])
  BY <1>0, <1>6 DEF R!KeepLast
<1>9. buf' \in [R!Blocks -> Int]
  <2>1. \A k \in R!Blocks : start + k \in Int /\ R!Zero \in Int /\ R!KeepLast(hit)[k] \in Int
    BY <1>4, <1>6, <1>8 DEF R!Zero
  <2> HIDE DEF new, here
  <2> QED
    BY <1>1, <2>1
<1>10. hit => buf'[0] = start \/ 0 \in spoilt'
  <2> SUFFICES ASSUME hit PROVE buf'[0] = start \/ 0 \in spoilt'
    OBVIOUS
  <2>1. 0 \in R!Blocks /\ 0 \notin new /\ 0 \notin here
    BY <1>6
  <2>2. buf'[0] = buf[lastBk]
    BY <1>7, <1>8, <2>1
  <2>3. lastBk \in spoilt => 0 \in R!StillSpoilt(hit)
    BY <1>0, <1>6 DEF R!StillSpoilt
  <2>4. 0 \in R!StillSpoilt(hit) => 0 \in spoilt'
    BY <1>1, <2>1
  <2> QED
    BY <2>2, <2>3, <2>4 DEF ReadInv, SectorKept
<1>11. \A k \in 0 .. num - 1 : buf'[k] = start + k \/ k \in spoilt'
  <2> SUFFICES ASSUME NEW k \in 0 .. num - 1
               PROVE  buf'[k] = start + k \/ k \in spoilt'
    OBVIOUS
  <2>1. k \in R!Blocks /\ k \in Nat /\ k < num
    BY <1>5, <1>6
  <2>2. CASE hit /\ k = 0
    BY <1>4, <1>10, <2>2
  <2>3. CASE ~(hit /\ k = 0)
    <3>1. k \in new
      BY <1>5, <2>1, <2>3
    <3> QED
      BY <1>7, <2>1, <3>1
  <2> QED
    BY <2>2, <2>3
<1>12. ReadTrue'
  BY <1>1, <1>11 DEF ReadTrue, R!ReadTrue
<1>13. SectorKept'
  <2> SUFFICES buf'[lastBk'] = lastSector' \/ lastBk' \in spoilt'
    BY DEF SectorKept
  <2>1. CASE first < num
    <3>1. num - 1 \in 0 .. num - 1 /\ lastBk' = num - 1 /\ start + (num - 1) = lastSector'
      BY <1>1, <1>4, <1>5, <1>6, <2>1
    <3> QED
      BY <1>11, <3>1
  <2>2. CASE ~(first < num)
    <3>1. hit /\ num = 1
      BY <1>5, <1>6, <2>2
    <3>2. lastBk' = 0 /\ lastSector' = start
      BY <1>1, <1>4, <2>2, <3>1
    <3> QED
      BY <1>10, <3>1, <3>2
  <2> QED
    BY <2>1, <2>2
<1>14. ReadTypeOK'
  <2>1. lastSector' \in Nat /\ lastBk' \in R!Blocks
    BY <1>1, <1>4, <1>5, <1>6
  <2>2. udf' \in BOOLEAN
    BY <1>0, <1>1, Zenon
  <2>3. PICK f : f = [fd EXCEPT !.pos = fd.pos + len]
    OBVIOUS
  <2>4. fds' = [fds EXCEPT ![i] = f]
    BY <1>0, <1>1, <2>3
  <2>5. f \in OpenFile /\ f.pos = fd.pos + len /\ f.size = fd.size
    BY <1>0, <1>2, <1>3, <2>3 DEF OpenFile
  <2>6. f.pos <= f.size
    BY <1>2, <1>3, <2>5
  <2>7. fds' \in [R!Fds -> OpenFile] /\ \A k \in R!Fds : fds'[k].pos <= fds'[k].size
    BY <1>0, <2>4, <2>5, <2>6 DEF ReadTypeOK
  <2> QED
    BY <1>9, <2>1, <2>2, <2>7 DEF ReadTypeOK
<1> QED
  BY <1>12, <1>13, <1>14 DEF ReadInv

(* Every step of the file system keeps the invariant. *)
LEMMA ReadNextInv == ReadInv /\ [R!Next]_readvars => ReadInv'
<1> SUFFICES ASSUME ReadInv, [R!Next]_readvars PROVE ReadInv'
  OBVIOUS
<1>1. CASE UNCHANGED readvars
  BY <1>1 DEF readvars, ReadInv, ReadTypeOK, SectorKept, ReadTrue, R!ReadTrue
<1>2. 1 .. MaxRead + 1 \subseteq Nat /\ 0 .. MaxRead \subseteq Nat
  BY CdfsAssumption
<1>3. CASE \E i \in R!Fds, size \in 1 .. MaxRead + 1, arrived \in 0 .. MaxRead, cleared \in BOOLEAN :
             R!Read(i, size, arrived, cleared)
  BY <1>2, <1>3, ReadReads
<1> QED
  BY <1>1, <1>3, ReadOther DEF R!Next

-----------------------------------------------------------------------------
(* SifServer: the packets of the IOP and the answers to them *)

Packet == [n : Nat, command : Requests \cup {"none"}]
Parts == {"data", "end", "rec"}
Reply == [n : Nat, part : Parts]

(* Packets that have left the wire and that sif_cmd_interrupt is not done with. *)
InPacket == IF packet.n = 0 THEN 0 ELSE 1
InBuffer == IF pktbuf.n = 0 THEN 0 ELSE 1

ServerTyped ==
  /\ packet \in Packet /\ pktbuf \in Packet /\ wire \in Seq(Packet)
  /\ sent \in Nat /\ handled \in Nat /\ replies \in Seq(Reply)

(* No packet is lost, doubled or overtaken between the IOP and its handler. *)
PacketsInOrder ==
  /\ packet.n # 0 => packet.n = handled + 1
  /\ pktbuf.n # 0 => pktbuf.n = handled + InPacket + 1
  /\ \A k \in 1 .. Len(wire) : wire[k].n = handled + InPacket + InBuffer + k
  /\ sent = handled + InPacket + InBuffer + Len(wire)
  /\ packet.n = 0 <=> svHpc = "none"
  /\ pktbuf.n = 0 => pktbuf.command = "none"
  /\ armed \/ svHpc = "copied" => pktbuf.n = 0
  /\ svHpc = "copied" => ~armed

(* What was answered, taken and lost are the requests that were handled, and in   *)
(* the loop at the end of a call the one that is being handled.                   *)
AnswersUpTo ==
  /\ \A i \in 1 .. Len(replies) :
       \/ replies[i].n <= handled
       \/ svHpc = "spin" /\ replies[i].n = packet.n /\ replies[i].part # "rec"
  /\ \A m \in taken : m \in Nat \ {0} /\ (m <= handled \/ (svHpc = "spin" /\ m = packet.n))
  /\ \A m \in lost : m \in Nat /\ m <= handled

ServerInv == ServerTyped /\ PacketsInOrder /\ AnswersUpTo /\ AnswerKept

(* At first there is nothing to answer. *)
LEMMA ServerInitInv == V!Init => ServerInv
<1> SUFFICES ASSUME V!Init PROVE ServerInv
  OBVIOUS
<1>1. packet = V!None /\ pktbuf = V!None /\ V!None \in Packet /\ V!None.n = 0 /\ V!None.command = "none"
  BY DEF V!Init, V!None, Packet
<1>2. ServerTyped
  BY <1>1 DEF V!Init, ServerTyped
<1>3. PacketsInOrder
  BY <1>1 DEF V!Init, PacketsInOrder, InPacket, InBuffer
<1>4. AnswersUpTo /\ AnswerKept
  BY DEF V!Init, AnswersUpTo, AnswerKept, V!AnswerKept, V!RepliesInOrder, V!Answered
<1> QED
  BY <1>2, <1>3, <1>4 DEF ServerInv

(* A transfer is put behind those that were handed over before. *)
LEMMA SetDmaAdds ==
  ASSUME ServerTyped, NEW parts \in Seq(Parts), V!SetDma(parts)
  PROVE  /\ replies' \in Seq(Reply) /\ Len(replies') = Len(replies) + Len(parts)
         /\ \A i \in 1 .. Len(replies) : replies'[i] = replies[i]
         /\ \A i \in 1 .. Len(parts) :
              replies'[Len(replies) + i] = [n |-> packet.n, part |-> parts[i]]
<1>1. packet.n \in Nat /\ replies \in Seq(Reply)
  BY DEF ServerTyped, Packet
<1>2. PICK m : m = packet.n
  OBVIOUS
<1>3. PICK more : more = [i \in 1 .. Len(parts) |-> [n |-> m, part |-> parts[i]]]
  OBVIOUS
<1>4. \A i \in 1 .. Len(parts) : parts[i] \in Parts
  OBVIOUS
<1>5. more \in Seq(Reply) /\ Len(more) = Len(parts)
  <2>1. Len(parts) \in Nat
    OBVIOUS
  <2>2. \A i \in 1 .. Len(parts) : [n |-> m, part |-> parts[i]] \in Reply
    BY <1>1, <1>2, <1>4 DEF Reply
  <2> QED
    BY ONLY <1>3, <2>1, <2>2
<1>6. replies' = replies \o more
  BY <1>2, <1>3 DEF V!SetDma
<1>7. /\ replies' \in Seq(Reply) /\ Len(replies') = Len(replies) + Len(more)
      /\ \A i \in 1 .. Len(replies) : replies'[i] = replies[i]
      /\ \A i \in 1 .. Len(more) : replies'[Len(replies) + i] = more[i]
  <2>1. PICK L \in Nat : L = Len(replies)
    BY <1>1
  <2>2. PICK M \in Nat : M = Len(more)
    BY <1>5
  <2>3. /\ replies \o more \in Seq(Reply) /\ Len(replies \o more) = L + M
        /\ \A i \in 1 .. L + M : (replies \o more)[i] = IF i <= L THEN replies[i] ELSE more[i - L]
    <3>1. /\ replies \o more \in Seq(Reply) /\ Len(replies \o more) = Len(replies) + Len(more)
          /\ \A i \in 1 .. Len(replies) + Len(more) :
               (replies \o more)[i] = IF i <= Len(replies) THEN replies[i] ELSE more[i - Len(replies)]
      BY ONLY <1>1, <1>5, ConcatProperties, Zenon
    <3> QED
      BY ONLY <2>1, <2>2, <3>1
  <2>4. ASSUME NEW i \in 1 .. L PROVE replies'[i] = replies[i]
    BY <1>6, <2>3
  <2>5. ASSUME NEW i \in 1 .. M PROVE replies'[L + i] = more[i]
    <3>1. L + i \in 1 .. L + M /\ ~(L + i <= L) /\ (L + i) - L = i
      OBVIOUS
    <3> QED
      BY <1>6, <2>3, <3>1
  <2> QED
    BY <1>6, <2>1, <2>2, <2>3, <2>4, <2>5
<1> QED
  BY <1>2, <1>3, <1>5, <1>7

(* The order of the answers is kept when the parts added are in order and follow   *)
(* what was sent for the same request.                                            *)
LEMMA AnswersGrow ==
  ASSUME ServerInv, NEW parts \in Seq(Parts), V!SetDma(parts),
         packet.n = handled + 1,
         \A i, j \in 1 .. Len(parts) : i < j => V!Rank[parts[i]] < V!Rank[parts[j]],
         svHpc # "spin" \/ parts = <<"rec">>
  PROVE  /\ replies' \in Seq(Reply)
         /\ V!RepliesInOrder'
         /\ V!Answered' = V!Answered \cup {packet.n : i \in 1 .. Len(parts)}
         /\ \A i \in 1 .. Len(replies') :
              \/ i \in 1 .. Len(replies) /\ replies'[i] = replies[i]
              \/ i - Len(replies) \in 1 .. Len(parts) /\ replies'[i].n = packet.n
                 /\ replies'[i].part = parts[i - Len(replies)]
<1>1. ServerTyped /\ packet.n \in Nat /\ handled \in Nat /\ replies \in Seq(Reply)
  BY DEF ServerInv, ServerTyped, Packet
<1>2. PICK L \in Nat : L = Len(replies)
  BY <1>1
<1>3. PICK M \in Nat : M = Len(parts)
  OBVIOUS
<1>4. /\ replies' \in Seq(Reply) /\ Len(replies') = L + M
      /\ \A i \in 1 .. L : replies'[i] = replies[i]
      /\ \A i \in 1 .. M : replies'[L + i] = [n |-> packet.n, part |-> parts[i]]
  BY <1>1, <1>2, <1>3, SetDmaAdds
<1>5. ASSUME NEW i \in 1 .. L + M
      PROVE  \/ i \in 1 .. L /\ replies'[i] = replies[i]
             \/ i - L \in 1 .. M /\ replies'[i].n = packet.n /\ replies'[i].part = parts[i - L]
  <2>1. CASE i \in 1 .. L
    BY <1>4, <2>1
  <2>2. CASE i - L \in 1 .. M
    <3>1. L + (i - L) = i
      BY <1>2
    <3>2. replies'[i] = [n |-> packet.n, part |-> parts[i - L]]
      BY <1>4, <2>2, <3>1
    <3> QED
      BY <2>2, <3>2
  <2> QED
    BY <1>2, <1>3, <2>1, <2>2
<1>6. \A i \in 1 .. L : replies[i].n \in Nat /\ replies[i].part \in Parts
  <2>1. \A i \in 1 .. L : replies[i] \in Reply
    BY <1>1, <1>2
  <2> QED
    BY <2>1 DEF Reply
<1>7. V!Rank["data"] = 1 /\ V!Rank["end"] = 2 /\ V!Rank["rec"] = 3
  BY DEF V!Rank
<1>8. ASSUME NEW i \in 1 .. L + M, NEW j \in 1 .. L + M, i < j
      PROVE  \/ replies'[i].n < replies'[j].n
             \/ replies'[i].n = replies'[j].n /\ V!Rank[replies'[i].part] < V!Rank[replies'[j].part]
  <2>1. CASE j \in 1 .. L
    <3>1. i \in 1 .. L
      BY <1>2, <1>8, <2>1
    <3>2. replies'[i] = replies[i] /\ replies'[j] = replies[j]
      BY <1>4, <2>1, <3>1
    <3> QED
      BY <1>2, <1>8, <2>1, <3>1, <3>2 DEF ServerInv, AnswerKept, V!AnswerKept, V!RepliesInOrder
  <2>2. CASE j - L \in 1 .. M /\ i \in 1 .. L
    <3>1. replies'[i] = replies[i]
      BY <1>4, <2>2
    <3>2. replies'[j].n = packet.n /\ replies'[j].part = parts[j - L]
      BY <1>2, <1>5, <2>2
    <3>3. \/ replies[i].n <= handled
          \/ svHpc = "spin" /\ replies[i].n = packet.n /\ replies[i].part # "rec"
      BY <1>2, <2>2 DEF ServerInv, AnswersUpTo
    <3>4. CASE replies[i].n <= handled
      BY <1>1, <1>6, <2>2, <3>1, <3>2, <3>4
    <3>5. CASE svHpc = "spin" /\ replies[i].n = packet.n /\ replies[i].part # "rec"
      <4>1. parts = <<"rec">> /\ j - L = 1
        BY <1>3, <2>2, <3>5
      <4>2. replies'[j].part = "rec"
        BY <3>2, <4>1
      <4>3. replies[i].part = "data" \/ replies[i].part = "end"
        BY <1>6, <2>2, <3>5 DEF Parts
      <4>4. V!Rank[replies[i].part] < 3
        BY <1>7, <4>3
      <4> QED
        BY <1>7, <3>1, <3>2, <3>5, <4>2, <4>4
    <3> QED
      BY <3>3, <3>4, <3>5
  <2>3. CASE j - L \in 1 .. M /\ i - L \in 1 .. M
    <3>1. i \notin 1 .. L /\ j \notin 1 .. L
      BY <1>2, <2>3
    <3>2. /\ replies'[i].n = packet.n /\ replies'[i].part = parts[i - L]
          /\ replies'[j].n = packet.n /\ replies'[j].part = parts[j - L]
      BY <1>5, <3>1
    <3>3. i - L < j - L
      BY <1>2, <1>8
    <3>4. V!Rank[parts[i - L]] < V!Rank[parts[j - L]]
      BY <1>3, <2>3, <3>3
    <3> QED
      BY <3>2, <3>4
  <2> QED
    BY <1>2, <1>3, <1>8, <2>1, <2>2, <2>3
<1>9. V!RepliesInOrder'
  BY <1>4, <1>8 DEF V!RepliesInOrder
<1>10. V!Answered' = V!Answered \cup {packet.n : i \in 1 .. M}
  <2>1. \A m : m \in V!Answered <=> \E i \in 1 .. L : m = replies[i].n
    BY <1>2 DEF V!Answered
  <2>2. \A m : m \in V!Answered' <=> \E i \in 1 .. L + M : m = replies'[i].n
    BY <1>4 DEF V!Answered
  <2>3. ASSUME NEW m \in V!Answered' PROVE m \in V!Answered \cup {packet.n : i \in 1 .. M}
    <3>1. PICK i \in 1 .. L + M : m = replies'[i].n
      BY <2>2
    <3>2. \/ i \in 1 .. L /\ replies'[i] = replies[i]
          \/ i - L \in 1 .. M /\ replies'[i].n = packet.n
      BY <1>5
    <3> QED
      BY <2>1, <3>1, <3>2
  <2>4. ASSUME NEW m \in V!Answered PROVE m \in V!Answered'
    <3>1. PICK i \in 1 .. L : m = replies[i].n
      BY <2>1
    <3>2. i \in 1 .. L + M /\ replies'[i] = replies[i]
      BY <1>2, <1>3, <1>4
    <3> QED
      BY <2>2, <3>1, <3>2
  <2>5. ASSUME NEW i \in 1 .. M PROVE packet.n \in V!Answered'
    <3>1. L + i \in 1 .. L + M /\ replies'[L + i] = [n |-> packet.n, part |-> parts[i]]
      BY <1>2, <1>3, <1>4
    <3> QED
      BY <2>2, <3>1
  <2> QED
    BY <2>3, <2>4, <2>5
<1> QED
  BY <1>2, <1>3, <1>4, <1>5, <1>9, <1>10

(* What sif_cmd_send hands over is in order. *)
LEMMA TransfersInOrder ==
  ASSUME NEW command
  PROVE  /\ V!Transfers(command) \in Seq(Parts) /\ Len(V!Transfers(command)) \in 1 .. 2
         /\ \A i, j \in 1 .. Len(V!Transfers(command)) :
              i < j => V!Rank[V!Transfers(command)[i]] < V!Rank[V!Transfers(command)[j]]
         /\ \A i \in 1 .. Len(V!Transfers(command)) : V!Transfers(command)[i] # "rec"
<1>1. V!Rank["data"] < V!Rank["end"]
  BY DEF V!Rank
<1>2. CASE command \in {"rdata", "fetch"}
  <2>1. V!Transfers(command) = <<"data", "end">>
    BY <1>2 DEF V!Transfers
  <2> QED
    BY <1>1, <2>1 DEF Parts
<1>3. CASE command \notin {"rdata", "fetch"}
  <2>1. V!Transfers(command) = <<"end">>
    BY <1>3 DEF V!Transfers
  <2> QED
    BY <2>1 DEF Parts
<1> QED
  BY <1>2, <1>3

(* The handler is done with its packet, and the next one has the next number. *)
LEMMA PacketDone ==
  ASSUME ServerInv, V!Done, svHpc \notin {"none", "copied"}, UNCHANGED <<sent, wire, pktbuf, armed>>
  PROVE  /\ packet.n = handled + 1 /\ packet' = V!None /\ packet'.n = 0 /\ handled' = handled + 1
         /\ svHpc' = "none" /\ handled \in Nat /\ packet' \in Packet /\ handled' \in Nat
         /\ PacketsInOrder'
<1>1. /\ packet.n # 0 /\ packet.n = handled + 1 /\ handled \in Nat
      /\ packet' = V!None /\ packet'.n = 0 /\ handled' = handled + 1 /\ svHpc' = "none"
  BY DEF ServerInv, PacketsInOrder, ServerTyped, V!Done, V!None
<1>2. packet' \in Packet
  BY <1>1 DEF V!None, Packet
<1>3. handled + InPacket = handled' + InPacket'
  BY <1>1 DEF InPacket
<1>4. InBuffer \in Nat /\ InBuffer' = InBuffer
  BY DEF InBuffer
<1>5. PacketsInOrder'
  BY <1>1, <1>3, <1>4 DEF ServerInv, PacketsInOrder
<1> QED
  BY <1>1, <1>2, <1>5

(* Handlers that answer, or have to drop the answer. *)
LEMMA ServerAnswers ==
  ASSUME ServerInv, V!Request \/ V!RequestCall
  PROVE  ServerInv'
<1> DEFINE p == packet.n
           parts == V!Transfers(packet.command)
<1>1. /\ svHpc = "dispatch" /\ taken' = taken \cup {p}
      /\ UNCHANGED <<sent, wire, pktbuf, armed>>
      /\ \/ V!SendCmd /\ V!Done
         \/ V!SendCmd_Fails /\ V!Done
         \/ /\ V!SendCmd \/ UNCHANGED <<replies, lost>>
            /\ svHpc' = "spin" /\ UNCHANGED <<packet, handled>>
  BY DEF V!Request, V!RequestCall, V!iop, V!dma
<1>2. ServerTyped /\ PacketsInOrder /\ AnswersUpTo /\ AnswerKept
  BY DEF ServerInv
<1>3. p = handled + 1 /\ handled \in Nat /\ replies \in Seq(Reply)
  BY <1>1, <1>2 DEF PacketsInOrder, ServerTyped
<1>4. \A i \in 1 .. Len(replies) : replies[i].n <= handled /\ replies[i].n \in Nat
  <2>1. \A i \in 1 .. Len(replies) : replies[i] \in Reply
    BY <1>3
  <2> QED
    BY <1>1, <1>2, <2>1 DEF AnswersUpTo, Reply
<1>5. \A m \in taken \cup lost : m \in Nat /\ m <= handled
  BY <1>1, <1>2 DEF AnswersUpTo
<1>6. p \notin lost /\ p \notin V!Answered
  <2>1. p \notin lost
    BY <1>3, <1>5
  <2>2. \A i \in 1 .. Len(replies) : replies[i].n # p
    BY <1>3, <1>4
  <2> QED
    BY <2>1, <2>2 DEF V!Answered
<1>7. taken \subseteq lost \cup V!Answered /\ lost \cap V!Answered = {} /\ V!RepliesInOrder
  <2>1. p \notin taken
    BY <1>3, <1>5
  <2> QED
    BY <1>2, <2>1 DEF AnswerKept, V!AnswerKept
<1>8. \A m \in taken : m # 0
  BY <1>2 DEF AnswersUpTo
<1>9. ASSUME V!SendCmd
      PROVE  /\ replies' \in Seq(Reply) /\ V!RepliesInOrder' /\ lost' = lost
             /\ V!Answered' = V!Answered \cup {p}
             /\ \A i \in 1 .. Len(replies') :
                  replies'[i].n <= handled \/ (replies'[i].n = p /\ replies'[i].part # "rec")
  <2>1. /\ V!SetDma(parts) /\ lost' = lost
    BY <1>9 DEF V!SendCmd
  <2>2. /\ parts \in Seq(Parts) /\ Len(parts) \in 1 .. 2
        /\ \A i, j \in 1 .. Len(parts) : i < j => V!Rank[parts[i]] < V!Rank[parts[j]]
        /\ \A i \in 1 .. Len(parts) : parts[i] # "rec"
    BY TransfersInOrder
  <2> HIDE DEF parts
  <2>3. /\ replies' \in Seq(Reply) /\ V!RepliesInOrder'
        /\ V!Answered' = V!Answered \cup {p : i \in 1 .. Len(parts)}
        /\ \A i \in 1 .. Len(replies') :
              \/ i \in 1 .. Len(replies) /\ replies'[i] = replies[i]
              \/ i - Len(replies) \in 1 .. Len(parts) /\ replies'[i].n = p
                 /\ replies'[i].part = parts[i - Len(replies)]
    BY <1>1, <1>3, <2>1, <2>2, AnswersGrow
  <2>4. 1 \in 1 .. Len(parts)
    BY <2>2
  <2>5. {p : i \in 1 .. Len(parts)} = {p}
    BY <2>4
  <2>6. \A i \in 1 .. Len(replies') :
          replies'[i].n <= handled \/ (replies'[i].n = p /\ replies'[i].part # "rec")
    BY <1>4, <2>2, <2>3
  <2> QED
    BY <2>1, <2>3, <2>5, <2>6
<1>10. CASE V!Done
  <2>1. /\ packet' = V!None /\ packet'.n = 0 /\ handled' = handled + 1 /\ packet' \in Packet
        /\ svHpc' = "none" /\ PacketsInOrder' /\ handled' \in Nat
    BY <1>1, <1>10, PacketDone
  <2>2. \A m \in taken' : m \in Nat \ {0} /\ m <= handled'
    BY <1>1, <1>3, <1>5, <1>8, <2>1
  <2>3. CASE V!SendCmd
    <3>1. ServerTyped'
      BY <1>1, <1>2, <1>9, <2>1, <2>3 DEF ServerTyped
    <3>2. \A m \in lost' : m \in Nat /\ m <= handled'
      BY <1>3, <1>5, <1>9, <2>1, <2>3
    <3>3. \A k \in 1 .. Len(replies') : replies'[k].n <= handled'
      <4>1. \A k \in 1 .. Len(replies') : replies'[k] \in Reply
        BY <1>9, <2>3
      <4>2. \A k \in 1 .. Len(replies') : replies'[k].n \in Nat
        BY <4>1 DEF Reply
      <4> QED
        BY <1>3, <1>9, <2>1, <2>3, <4>2
    <3>4. AnswersUpTo'
      BY <2>2, <3>2, <3>3 DEF AnswersUpTo
    <3>5. AnswerKept'
      BY <1>1, <1>6, <1>7, <1>9, <2>3 DEF AnswerKept, V!AnswerKept
    <3> QED
      BY <2>1, <3>1, <3>4, <3>5 DEF ServerInv
  <2>4. CASE V!SendCmd_Fails
    <3>1. replies' = replies /\ lost' = lost \cup {p}
      BY <2>4 DEF V!SendCmd_Fails
    <3>2. ServerTyped'
      BY <1>1, <1>2, <2>1, <3>1 DEF ServerTyped
    <3>3. \A m \in lost' : m \in Nat /\ m <= handled'
      BY <1>3, <1>5, <2>1, <3>1
    <3>4. \A k \in 1 .. Len(replies') : replies'[k].n <= handled'
      BY <1>3, <1>4, <2>1, <3>1
    <3>5. AnswersUpTo'
      BY <2>2, <3>3, <3>4 DEF AnswersUpTo
    <3>6. V!Answered' = V!Answered /\ V!RepliesInOrder'
      BY <1>7, <3>1 DEF V!Answered, V!RepliesInOrder
    <3>7. AnswerKept'
      BY <1>1, <1>6, <1>7, <3>1, <3>6 DEF AnswerKept, V!AnswerKept
    <3> QED
      BY <2>1, <3>2, <3>5, <3>7 DEF ServerInv
  <2>5. svHpc' # "spin"
    BY <2>1
  <2> QED
    BY <1>1, <2>3, <2>4, <2>5
<1>11. CASE /\ V!SendCmd \/ UNCHANGED <<replies, lost>>
            /\ svHpc' = "spin" /\ UNCHANGED <<packet, handled>>
  <2>1. /\ replies' \in Seq(Reply) /\ V!RepliesInOrder' /\ lost' = lost
        /\ \/ V!Answered' = V!Answered
           \/ V!Answered' = V!Answered \cup {p}
        /\ \A i \in 1 .. Len(replies') :
             replies'[i].n <= handled \/ (replies'[i].n = p /\ replies'[i].part # "rec")
    <3>1. CASE V!SendCmd
      BY <1>9, <3>1
    <3>2. CASE UNCHANGED <<replies, lost>>
      <4>1. V!Answered' = V!Answered /\ V!RepliesInOrder'
        BY <1>7, <3>2 DEF V!Answered, V!RepliesInOrder
      <4> QED
        BY <1>3, <1>4, <3>2, <4>1
    <3> QED
      BY <1>11, <3>1, <3>2
  <2>2. ServerTyped' /\ PacketsInOrder'
    <3>1. InPacket' = InPacket /\ InBuffer' = InBuffer
      BY <1>1, <1>11 DEF InPacket, InBuffer
    <3>3. packet.n # 0
      BY <1>3
    <3>4. ServerTyped'
      BY <1>1, <1>2, <1>11, <2>1 DEF ServerTyped
    <3> QED
      BY <1>1, <1>2, <1>11, <3>1, <3>3, <3>4 DEF PacketsInOrder
  <2>3. \A m \in taken' : m \in Nat \ {0} /\ (m <= handled' \/ (svHpc' = "spin" /\ m = packet'.n))
    BY <1>1, <1>3, <1>5, <1>8, <1>11
  <2>4. AnswersUpTo'
    BY <1>5, <1>11, <2>1, <2>3 DEF AnswersUpTo
  <2>5. AnswerKept'
    BY <1>1, <1>6, <1>7, <1>11, <2>1 DEF AnswerKept, V!AnswerKept
  <2> QED
    BY <2>2, <2>4, <2>5 DEF ServerInv
<1> QED
  BY <1>1, <1>10, <1>11

(* The end of a call: its last transfer is in the ring. *)
LEMMA ServerSpins == ASSUME ServerInv, V!Spin PROVE ServerInv'
<1> DEFINE p == packet.n
<1>1. /\ svHpc = "spin" /\ V!SetDma(<<"rec">>) /\ V!Done
      /\ UNCHANGED <<sent, wire, pktbuf, armed, taken, lost>>
  BY DEF V!Spin, V!iop, V!dma
<1>2. /\ p = handled + 1 /\ packet' = V!None /\ packet'.n = 0 /\ handled' = handled + 1
      /\ handled \in Nat /\ svHpc' = "none" /\ PacketsInOrder' /\ packet' \in Packet /\ handled' \in Nat
  BY <1>1, PacketDone
<1>3. PICK parts : parts = <<"rec">>
  OBVIOUS
<1>4. /\ parts \in Seq(Parts) /\ Len(parts) = 1
      /\ \A i, j \in 1 .. Len(parts) : i < j => V!Rank[parts[i]] < V!Rank[parts[j]]
  BY ONLY <1>3 DEF Parts
<1>5. /\ replies' \in Seq(Reply) /\ V!RepliesInOrder'
      /\ V!Answered' = V!Answered \cup {p : i \in 1 .. Len(parts)}
      /\ \A i \in 1 .. Len(replies') :
           \/ i \in 1 .. Len(replies) /\ replies'[i] = replies[i]
           \/ i - Len(replies) \in 1 .. Len(parts) /\ replies'[i].n = p
              /\ replies'[i].part = parts[i - Len(replies)]
  BY <1>1, <1>2, <1>3, <1>4, AnswersGrow
<1>6. V!Answered' = V!Answered \cup {p}
  BY <1>4, <1>5
<1>7. \A k \in 1 .. Len(replies') : replies'[k].n <= handled'
  <2>1. \A k \in 1 .. Len(replies) : replies[k].n <= handled \/ replies[k].n = p
    BY DEF ServerInv, AnswersUpTo
  <2>2. \A k \in 1 .. Len(replies') : replies'[k] \in Reply
    BY <1>5
  <2>3. \A k \in 1 .. Len(replies') : replies'[k].n \in Nat
    BY <2>2 DEF Reply
  <2>4. \A k \in 1 .. Len(replies') : replies'[k].n <= handled \/ replies'[k].n = p
    BY <1>5, <2>1
  <2> QED
    BY <1>2, <2>3, <2>4
<1>8. /\ \A m \in taken' : m \in Nat \ {0} /\ m <= handled'
      /\ \A m \in lost' : m \in Nat /\ m <= handled'
  BY <1>1, <1>2 DEF ServerInv, AnswersUpTo
<1>9. AnswersUpTo'
  BY <1>7, <1>8 DEF AnswersUpTo
<1>10. p \notin lost
  BY <1>2 DEF ServerInv, AnswersUpTo
<1>11. AnswerKept'
  BY <1>1, <1>5, <1>6, <1>10 DEF ServerInv, AnswerKept, V!AnswerKept
<1>12. ServerTyped'
  BY <1>1, <1>2, <1>5 DEF ServerInv, ServerTyped
<1> QED
  BY <1>2, <1>9, <1>11, <1>12 DEF ServerInv

(* Steps that only move packets leave the answers as they are. *)
LEMMA AnswersStay ==
  ASSUME ServerInv, UNCHANGED <<taken, replies, lost, handled>>, svHpc # "spin", svHpc' # "spin",
         packet'.n \notin taken \/ packet'.n = packet.n
  PROVE  AnswersUpTo' /\ AnswerKept'
<1>1. AnswersUpTo'
  BY DEF ServerInv, AnswersUpTo
<1>2. V!Answered' = V!Answered /\ V!RepliesInOrder'
  BY DEF ServerInv, AnswerKept, V!AnswerKept, V!Answered, V!RepliesInOrder
<1>3. packet.n \notin taken
  <2>1. packet.n = 0 \/ packet.n = handled + 1
    BY DEF ServerInv, PacketsInOrder
  <2>2. \A m \in taken : m \in Nat \ {0} /\ m <= handled
    BY DEF ServerInv, AnswersUpTo
  <2>3. handled \in Nat
    BY DEF ServerInv, ServerTyped
  <2> QED
    BY <2>1, <2>2, <2>3
<1>4. AnswerKept'
  BY <1>2, <1>3 DEF ServerInv, AnswerKept, V!AnswerKept
<1> QED
  BY <1>1, <1>4

(* A packet that no handler wants is dropped. *)
LEMMA ServerDrops == ASSUME ServerInv, V!Dispatch PROVE ServerInv'
<1>1. /\ svHpc = "dispatch" /\ V!Done
      /\ UNCHANGED <<sent, wire, pktbuf, armed, taken, replies, lost>>
  BY DEF V!Dispatch, V!iop, V!dma, V!rpc
<1>2. /\ packet.n = handled + 1 /\ packet' = V!None /\ packet'.n = 0 /\ handled' = handled + 1
      /\ handled \in Nat /\ svHpc' = "none" /\ PacketsInOrder' /\ packet' \in Packet /\ handled' \in Nat
  BY <1>1, PacketDone
<1>3. ServerTyped'
  BY <1>1, <1>2 DEF ServerInv, ServerTyped
<1>4. \A k \in 1 .. Len(replies) : replies[k].n \in Nat
  <2>1. \A k \in 1 .. Len(replies) : replies[k] \in Reply
    BY DEF ServerInv, ServerTyped
  <2> QED
    BY <2>1 DEF Reply
<1>5. AnswersUpTo'
  BY <1>1, <1>2, <1>4 DEF ServerInv, AnswersUpTo
<1>6. V!Answered' = V!Answered /\ V!RepliesInOrder'
  BY <1>1 DEF ServerInv, AnswerKept, V!AnswerKept, V!Answered, V!RepliesInOrder
<1>7. packet.n \notin taken
  BY <1>1, <1>2 DEF ServerInv, AnswersUpTo
<1>8. AnswerKept'
  BY <1>1, <1>6, <1>7 DEF ServerInv, AnswerKept, V!AnswerKept
<1> QED
  BY <1>2, <1>3, <1>5, <1>8 DEF ServerInv

(* A packet is copied for its handler, or the interrupt is ignored. *)
LEMMA ServerCopies == ASSUME ServerInv, V!sif_cmd_interrupt PROVE ServerInv'
<1>1. /\ svHpc = "none" /\ UNCHANGED <<sent, wire, armed, handled, taken, replies, lost>>
      /\ \/ /\ ~armed /\ pktbuf.command \notin {"none", "empty"}
            /\ svHpc' = "copied" /\ packet' = pktbuf /\ pktbuf' = V!None
         \/ UNCHANGED <<svHpc, packet, pktbuf>>
  BY DEF V!sif_cmd_interrupt, V!iop, V!rpc
<1>2. ServerTyped /\ PacketsInOrder /\ packet.n = 0
  BY <1>1 DEF ServerInv, PacketsInOrder
<1>3. CASE UNCHANGED <<svHpc, packet, pktbuf>>
  <2>1. ServerTyped' /\ PacketsInOrder'
    BY <1>1, <1>2, <1>3 DEF ServerTyped, PacketsInOrder, InPacket, InBuffer
  <2>2. AnswersUpTo' /\ AnswerKept'
    BY <1>1, <1>3, AnswersStay
  <2> QED
    BY <2>1, <2>2 DEF ServerInv
<1>4. CASE /\ ~armed /\ pktbuf.command \notin {"none", "empty"}
           /\ svHpc' = "copied" /\ packet' = pktbuf /\ pktbuf' = V!None
  <2>1. V!None \in Packet /\ V!None.n = 0 /\ V!None.command = "none"
    BY DEF V!None, Packet
  <2>2. /\ pktbuf.n = handled + 1 /\ packet'.n = handled + 1 /\ pktbuf'.n = 0 /\ handled \in Nat
        /\ pktbuf'.command = "none"
    BY <1>2, <1>4, <2>1 DEF PacketsInOrder, InPacket, ServerTyped
  <2>3. InPacket = 0 /\ InPacket' = 1 /\ InBuffer = 1 /\ InBuffer' = 0
    BY <1>2, <2>2 DEF InPacket, InBuffer
  <2>4. ServerTyped'
    BY <1>1, <1>2, <1>4, <2>1 DEF ServerTyped
  <2>5. PacketsInOrder'
    BY <1>1, <1>2, <1>4, <2>2, <2>3 DEF PacketsInOrder
  <2>6. packet'.n \notin taken
    BY <1>1, <2>2 DEF ServerInv, AnswersUpTo
  <2>7. AnswersUpTo' /\ AnswerKept'
    BY <1>1, <1>4, <2>6, AnswersStay
  <2> QED
    BY <2>4, <2>5, <2>7 DEF ServerInv
<1> QED
  BY <1>1, <1>3, <1>4

(* A packet arrives in the buffer, which is empty while the channel runs. *)
LEMMA ServerReceives == ASSUME ServerInv, V!Sif0 PROVE ServerInv'
<1>1. /\ armed /\ ~armed' /\ wire # <<>> /\ pktbuf' = Head(wire) /\ wire' = Tail(wire)
      /\ UNCHANGED <<sent, svHpc, packet, handled, taken, replies, lost>>
  BY DEF V!Sif0, V!handler, V!rpc
<1>2. ServerTyped /\ PacketsInOrder
  BY DEF ServerInv
<1>3. PICK L \in Nat : L = Len(wire)
  BY <1>2 DEF ServerTyped
<1>4. wire \in Seq(Packet)
  BY <1>2 DEF ServerTyped
<1>5. /\ L > 0 /\ wire' \in Seq(Packet) /\ Len(wire') = L - 1 /\ pktbuf' = wire[1] /\ pktbuf' \in Packet
      /\ \A k \in 1 .. L - 1 : wire'[k] = wire[k + 1]
  BY ONLY <1>1, <1>3, <1>4
<1>6. pktbuf.n = 0 /\ InBuffer = 0 /\ InPacket \in {0, 1} /\ InPacket' = InPacket /\ handled \in Nat
  BY <1>1, <1>2 DEF PacketsInOrder, InBuffer, InPacket, ServerTyped
<1>7. \A k \in 1 .. L : wire[k].n = handled + InPacket + k
  BY <1>2, <1>3, <1>6 DEF PacketsInOrder
<1>8. pktbuf'.n = handled + InPacket + 1 /\ InBuffer' = 1
  <2>1. pktbuf'.n = handled + InPacket + 1
    BY <1>5, <1>7
  <2> QED
    BY <1>6, <2>1 DEF InBuffer
<1>9. \A k \in 1 .. Len(wire') : wire'[k].n = handled' + InPacket' + InBuffer' + k
  BY <1>1, <1>3, <1>5, <1>6, <1>7, <1>8
<1>10. sent' = handled' + InPacket' + InBuffer' + Len(wire')
  BY <1>1, <1>2, <1>3, <1>5, <1>6, <1>8 DEF PacketsInOrder
<1>11. svHpc # "copied" /\ pktbuf'.n # 0
  BY <1>1, <1>2, <1>6, <1>8 DEF PacketsInOrder
<1>12. PacketsInOrder'
  BY <1>1, <1>2, <1>6, <1>8, <1>9, <1>10, <1>11 DEF PacketsInOrder
<1>13. ServerTyped'
  BY <1>1, <1>2, <1>5 DEF ServerTyped
<1>14. AnswersUpTo' /\ AnswerKept'
  <2>1. V!Answered' = V!Answered /\ V!RepliesInOrder'
    BY <1>1 DEF ServerInv, AnswerKept, V!AnswerKept, V!Answered, V!RepliesInOrder
  <2> QED
    BY <1>1, <2>1 DEF ServerInv, AnswersUpTo, AnswerKept, V!AnswerKept
<1> QED
  BY <1>12, <1>13, <1>14 DEF ServerInv

(* A packet is made. *)
LEMMA ServerAsked ==
  ASSUME ServerInv, NEW command \in Requests, V!IopSend(command)
  PROVE  ServerInv'
<1>1. /\ sent' = sent + 1 /\ wire' = Append(wire, [n |-> sent', command |-> command])
      /\ UNCHANGED <<pktbuf, armed, svHpc, packet, handled, taken, replies, lost>>
  BY DEF V!IopSend, V!handler, V!dma, V!rpc
<1>2. ServerTyped /\ PacketsInOrder /\ sent \in Nat /\ handled \in Nat /\ wire \in Seq(Packet)
  BY DEF ServerInv, ServerTyped
<1>3. PICK a : a = [n |-> sent', command |-> command]
  OBVIOUS
<1>4. a \in Packet /\ a.n = sent + 1
  BY <1>1, <1>2, <1>3 DEF Packet
<1>5. PICK L \in Nat : L = Len(wire)
  BY <1>2
<1>6. wire' = Append(wire, a)
  BY <1>1, <1>3
<1>7. /\ wire' \in Seq(Packet) /\ Len(wire') = L + 1 /\ wire'[L + 1] = a
      /\ \A k \in 1 .. L : wire'[k] = wire[k]
  BY ONLY <1>2, <1>4, <1>5, <1>6
<1>8. /\ InPacket' = InPacket /\ InBuffer' = InBuffer /\ InPacket \in {0, 1} /\ InBuffer \in {0, 1}
  BY <1>1 DEF InPacket, InBuffer
<1>9. sent = handled + InPacket + InBuffer + L
  BY <1>2, <1>5 DEF PacketsInOrder
<1>10. \A k \in 1 .. Len(wire') : wire'[k].n = handled' + InPacket' + InBuffer' + k
  <2> SUFFICES ASSUME NEW k \in 1 .. L + 1 PROVE wire'[k].n = handled + InPacket + InBuffer + k
    BY <1>1, <1>7, <1>8
  <2>1. CASE k = L + 1
    BY <1>2, <1>4, <1>7, <1>8, <1>9, <2>1
  <2>2. CASE k \in 1 .. L
    BY <1>2, <1>5, <1>7, <2>2 DEF PacketsInOrder
  <2> QED
    BY <2>1, <2>2
<1>11. sent' = handled' + InPacket' + InBuffer' + Len(wire')
  BY <1>1, <1>2, <1>7, <1>8, <1>9
<1>12. PacketsInOrder'
  BY <1>1, <1>2, <1>8, <1>10, <1>11 DEF PacketsInOrder
<1>13. ServerTyped'
  BY <1>1, <1>2, <1>7 DEF ServerTyped
<1>14. AnswersUpTo' /\ AnswerKept'
  <2>1. V!Answered' = V!Answered /\ V!RepliesInOrder'
    BY <1>1 DEF ServerInv, AnswerKept, V!AnswerKept, V!Answered, V!RepliesInOrder
  <2> QED
    BY <1>1, <2>1 DEF ServerInv, AnswersUpTo, AnswerKept, V!AnswerKept
<1> QED
  BY <1>12, <1>13, <1>14 DEF ServerInv

(* The channel is armed once the packet has been copied. *)
LEMMA ServerArms == ASSUME ServerInv, V!sifsetdchain PROVE ServerInv'
<1>1. /\ svHpc = "copied" /\ svHpc' = "dispatch" /\ armed'
      /\ UNCHANGED <<sent, wire, pktbuf, packet, handled, taken, replies, lost>>
  BY DEF V!sifsetdchain, V!iop, V!rpc
<1>2. ServerTyped' /\ PacketsInOrder'
  <2>1. pktbuf.n = 0 /\ packet.n # 0
    BY <1>1 DEF ServerInv, PacketsInOrder
  <2> QED
    BY <1>1, <2>1 DEF ServerInv, ServerTyped, PacketsInOrder, InPacket, InBuffer
<1>3. AnswersUpTo' /\ AnswerKept'
  BY <1>1, AnswersStay
<1> QED
  BY <1>2, <1>3 DEF ServerInv

(* Every step of the SBIOS's side keeps the invariant. *)
LEMMA ServerNextInv == ServerInv /\ [V!Next]_servervars => ServerInv'
<1> SUFFICES ASSUME ServerInv, [V!Next]_servervars PROVE ServerInv'
  OBVIOUS
<1>1. ASSUME UNCHANGED <<sent, wire, pktbuf, armed, svHpc, packet, handled, taken, replies, lost>>
      PROVE  ServerInv'
  <2>1. V!Answered' = V!Answered /\ V!RepliesInOrder'
    BY <1>1 DEF ServerInv, AnswerKept, V!AnswerKept, V!Answered, V!RepliesInOrder
  <2>2. ServerTyped' /\ PacketsInOrder'
    BY <1>1 DEF ServerInv, ServerTyped, PacketsInOrder, InPacket, InBuffer
  <2>3. AnswersUpTo' /\ AnswerKept'
    BY <1>1, <2>1 DEF ServerInv, AnswersUpTo, AnswerKept, V!AnswerKept
  <2> QED
    BY <2>2, <2>3 DEF ServerInv
<1>2. CASE UNCHANGED servervars
  BY <1>1, <1>2 DEF servervars
<1>3. CASE \/ V!SifInitCmd \/ V!SifInitRpc \/ V!SifExitCmd \/ V!SifExitRpc \/ V!SifRegisterRpc
           \/ \E command \in Requests : V!sif_cmd_del_handler(V!HandlerOf(command))
           \/ V!Spurious \/ V!Sif1 \/ V!OtherCall
  BY <1>1, <1>3 DEF V!SifInitCmd, V!SifInitRpc, V!SifExitCmd, V!SifExitRpc, V!SifRegisterRpc,
    V!sif_cmd_del_handler, V!Spurious, V!Sif1, V!OtherCall, V!iop, V!dma, V!handler, V!rpc
<1> QED
  BY <1>2, <1>3, ServerAnswers, ServerSpins, ServerDrops, ServerCopies, ServerReceives, ServerAsked,
    ServerArms DEF V!Next, V!Handler

-----------------------------------------------------------------------------
(* CdfsDir: the directories on the way along a path *)

(* Every set of natural numbers has a least element. *)
LEMMA Minimum ==
  ASSUME NEW T \in SUBSET Nat, T # {}
  PROVE  \E k \in T : \A l \in T : k <= l
<1>1. IsWellFoundedOn(OpToRel(<, Nat), Nat)
  BY NatLessThanWellFounded
<1>2. PICK k \in T : \A l \in T : ~(<<l, k>> \in OpToRel(<, Nat))
  BY <1>1, WFMin
<1>3. \A l \in T : ~(l < k)
  BY <1>2 DEF OpToRel
<1> QED
  BY <1>3

(* What Walk computes for the first m components. *)
Way(path, g, m) ==
  g = [n \in 0..m |-> IF n = 0 THEN D!Root ELSE D!Below(g[n - 1], path[n])]

(* A path has a walk. *)
LEMMA WayExists ==
  ASSUME NEW path, NEW m \in Nat
  PROVE  \E g : Way(path, g, m)
<1> DEFINE T == {k \in Nat : ~\E g : Way(path, g, k)}
<1> SUFFICES ASSUME T # {} PROVE FALSE
  OBVIOUS
<1>1. PICK k \in T : \A l \in T : k <= l
  BY Minimum
<1>2. k \in Nat /\ ~\E g : Way(path, g, k)
  BY <1>1
<1>3. k # 0
  <2>1. Way(path, [n \in 0..0 |-> D!Root], 0)
    BY DEF Way
  <2> QED
    BY <1>2, <2>1
<1>4. k - 1 \in Nat /\ k - 1 \notin T
  BY <1>1, <1>2, <1>3
<1>5. PICK g : Way(path, g, k - 1)
  BY <1>4
<1>6. PICK h : h = [n \in 0..k |-> IF n = k THEN D!Below(g[k - 1], path[k]) ELSE g[n]]
  OBVIOUS
<1>7. ASSUME NEW n \in 0..k
      PROVE  h[n] = IF n = 0 THEN D!Root ELSE D!Below(h[n - 1], path[n])
  <2>1. CASE n = k
    <3>1. h[n] = D!Below(g[k - 1], path[k])
      BY <1>6, <2>1
    <3>2. h[k - 1] = g[k - 1]
      BY <1>3, <1>4, <1>6
    <3> QED
      BY <1>3, <2>1, <3>1, <3>2
  <2>2. CASE n # k
    <3>1. n \in 0..(k - 1) /\ h[n] = g[n]
      BY <1>2, <1>6, <2>2
    <3>2. g[n] = IF n = 0 THEN D!Root ELSE D!Below(g[n - 1], path[n])
      BY <1>5, <3>1 DEF Way
    <3>3. n # 0 => h[n - 1] = g[n - 1]
      BY <1>2, <1>6, <3>1
    <3> QED
      BY <3>1, <3>2, <3>3
  <2> QED
    BY <2>1, <2>2
<1>8. Way(path, h, k)
  <2>1. h = [n \in 0..k |-> h[n]]
    BY <1>6
  <2> QED
    BY <1>7, <2>1 DEF Way
<1> QED
  BY <1>2, <1>8

(* Walk goes from the root through one component after the other. *)
LEMMA WalkIsWay ==
  ASSUME NEW path \in Seq(STRING)
  PROVE  /\ D!Walk(path)[0] = D!Root
         /\ \A n \in 1..Len(path) : D!Walk(path)[n] = D!Below(D!Walk(path)[n - 1], path[n])
<1>1. PICK h : h = CHOOSE at : at = [n \in 0..Len(path) |->
                                       IF n = 0 THEN D!Root ELSE D!Below(at[n - 1], path[n])]
  OBVIOUS
<1>2. D!Walk(path) = h
  BY <1>1, Zenon DEF D!Walk
<1>3. \E g : g = [n \in 0..Len(path) |-> IF n = 0 THEN D!Root ELSE D!Below(g[n - 1], path[n])]
  <2>1. Len(path) \in Nat
    OBVIOUS
  <2>2. PICK g : Way(path, g, Len(path))
    BY <2>1, WayExists
  <2> QED
    BY <2>2, Zenon DEF Way
<1>4. h = [n \in 0..Len(path) |-> IF n = 0 THEN D!Root ELSE D!Below(h[n - 1], path[n])]
  BY <1>1, <1>3, Zenon
<1>5. h[0] = D!Root
  BY <1>4
<1>6. ASSUME NEW n \in 1..Len(path) PROVE h[n] = D!Below(h[n - 1], path[n])
  BY <1>4
<1> QED
  BY <1>2, <1>5, <1>6

(* Paths that begin alike lead through the same directories. *)
LEMMA WalkAlike ==
  ASSUME NEW p \in Seq(STRING), NEW q \in Seq(STRING), Len(p) <= Len(q),
         \A n \in 1..Len(p) : p[n] = q[n]
  PROVE  \A n \in 0..Len(p) : D!Walk(p)[n] = D!Walk(q)[n]
<1> DEFINE T == {n \in 0..Len(p) : D!Walk(p)[n] # D!Walk(q)[n]}
<1> SUFFICES ASSUME T # {} PROVE FALSE
  OBVIOUS
<1>0. T \in SUBSET Nat /\ Len(p) \in Nat /\ Len(q) \in Nat
  OBVIOUS
<1>1. PICK k \in T : \A l \in T : k <= l
  BY <1>0, Minimum
<1>2. k \in 0..Len(p) /\ D!Walk(p)[k] # D!Walk(q)[k] /\ k # 0
  BY <1>1, WalkIsWay
<1>3. k \in 1..Len(p) /\ k \in 1..Len(q) /\ k - 1 \in 0..Len(p) /\ k - 1 \notin T
  BY <1>0, <1>1, <1>2
<1>4. D!Walk(p)[k - 1] = D!Walk(q)[k - 1]
  BY <1>3
<1>5. D!Walk(p)[k] = D!Below(D!Walk(p)[k - 1], p[k])
  BY <1>3, WalkIsWay
<1>6. D!Walk(q)[k] = D!Below(D!Walk(q)[k - 1], q[k])
  BY <1>3, WalkIsWay
<1>7. p[k] = q[k]
  BY <1>3
<1> QED
  BY <1>2, <1>4, <1>5, <1>6, <1>7, Zenon

(* Nothing is below a directory that does not exist. *)
LEMMA WalkLost ==
  ASSUME NEW p \in Seq(STRING), NEW m \in 0..Len(p), D!Walk(p)[m] = "none"
  PROVE  D!Walk(p)[Len(p)] = "none"
<1> DEFINE T == {n \in m..Len(p) : D!Walk(p)[n] # "none"}
<1>0. T \in SUBSET Nat /\ Len(p) \in Nat
  OBVIOUS
<1>1. ASSUME T # {} PROVE FALSE
  <2>1. PICK k \in T : \A l \in T : k <= l
    BY <1>0, <1>1, Minimum
  <2>2. k \in m..Len(p) /\ D!Walk(p)[k] # "none" /\ k # m
    BY <2>1
  <2>3. k \in 1..Len(p) /\ k - 1 \in m..Len(p) /\ k - 1 \notin T
    BY <1>0, <2>1, <2>2
  <2>4. D!Walk(p)[k - 1] = "none"
    BY <2>3
  <2>5. D!Walk(p)[k] = D!Below("none", p[k])
    BY <2>3, <2>4, WalkIsWay
  <2>6. D!Below("none", p[k]) = "none"
    BY DEF D!Below, D!Seen, D!All
  <2> QED
    BY <2>2, <2>5, <2>6
<1>2. Len(p) \in m..Len(p)
  BY <1>0
<1> QED
  BY <1>1, <1>2

(* The empty path leads to the root. *)
LEMMA DirAtRoot == D!DirAt(<<>>) = D!Root
<1>1. <<>> \in Seq(STRING) /\ Len(<<>>) = 0
  OBVIOUS
<1>2. D!Walk(<<>>)[0] = D!Root
  BY <1>1, WalkIsWay
<1> QED
  BY <1>1, <1>2 DEF D!DirAt

(* One component more leads one directory further. *)
LEMMA DirAtBelow ==
  ASSUME NEW p \in Seq(STRING), NEW x \in STRING
  PROVE  Append(p, x) \in Seq(STRING) /\ D!DirAt(Append(p, x)) = D!Below(D!DirAt(p), x)
<1>1. PICK q : q = Append(p, x)
  OBVIOUS
<1>2. q \in Seq(STRING) /\ Len(q) = Len(p) + 1 /\ q[Len(p) + 1] = x /\ Len(p) \in Nat
      /\ \A n \in 1..Len(p) : q[n] = p[n]
  <2>1. q \in Seq(STRING) /\ q[Len(p) + 1] = x
    BY <1>1, AppendProperties
  <2>2. Len(q) = Len(p) + 1 /\ Len(p) \in Nat
    BY <1>1
  <2>3. ASSUME NEW n \in 1..Len(p) PROVE q[n] = p[n]
    BY <1>1
  <2> QED
    BY <2>1, <2>2, <2>3
<1>3. D!Walk(p)[Len(p)] = D!Walk(q)[Len(p)]
  <2>1. Len(p) <= Len(q) /\ Len(p) \in 0..Len(p)
    BY <1>2
  <2> QED
    BY <1>2, <2>1, WalkAlike
<1>4. D!Walk(q)[Len(q)] = D!Below(D!Walk(q)[Len(p)], x)
  <2>1. Len(q) \in 1..Len(q) /\ Len(q) - 1 = Len(p) /\ q[Len(q)] = x
    BY <1>2
  <2>2. D!Walk(q)[Len(q)] = D!Below(D!Walk(q)[Len(q) - 1], q[Len(q)])
    BY <1>2, <2>1, WalkIsWay
  <2> QED
    BY <2>1, <2>2, Zenon
<1>5. D!DirAt(q) = D!Below(D!DirAt(p), x)
  BY <1>3, <1>4, Zenon DEF D!DirAt
<1> QED
  BY <1>1, <1>2, <1>5

(* A path one of whose components is missing leads nowhere. *)
LEMMA DirAtLost ==
  ASSUME NEW p \in Seq(STRING), NEW q \in Seq(STRING), q # <<>>,
         ~\E e \in D!Seen(D!DirAt(p)) : e.dir /\ e.name = Head(q)
  PROVE  D!DirAt(p \o q) = "none"
<1>1. PICK w : w = p \o q
  OBVIOUS
<1>2. PICK m : m = Len(p)
  OBVIOUS
<1>3. /\ w \in Seq(STRING) /\ m \in Nat /\ Len(w) >= m + 1 /\ Len(w) \in Nat
      /\ w[m + 1] = Head(q) /\ \A n \in 1..m : p[n] = w[n]
  <2>1. w \in Seq(STRING) /\ Len(w) = Len(p) + Len(q) /\ Len(p) \in Nat /\ Len(q) \in Nat
    BY <1>1
  <2>2. Len(q) # 0
    BY EmptySeq
  <2>3. \A n \in 1..Len(p) : p[n] = w[n]
    BY <1>1
  <2>4. w[Len(p) + 1] = q[1] /\ Head(q) = q[1]
    BY <1>1, <2>1, <2>2
  <2> QED
    BY <1>2, <2>1, <2>2, <2>3, <2>4
<1>4. D!Walk(w)[m] = D!DirAt(p)
  <2>1. m <= Len(w) /\ m \in 0..m
    BY <1>3
  <2>2. D!Walk(p)[m] = D!Walk(w)[m]
    BY <1>2, <1>3, <2>1, WalkAlike
  <2> QED
    BY <1>2, <2>2 DEF D!DirAt
<1>5. D!Walk(w)[m + 1] = "none"
  <2>1. m + 1 \in 1..Len(w) /\ (m + 1) - 1 = m
    BY <1>3
  <2>2. D!Walk(w)[m + 1] = D!Below(D!Walk(w)[(m + 1) - 1], w[m + 1])
    BY <1>3, <2>1, WalkIsWay
  <2>3. w[m + 1] = Head(q)
    BY <1>1, <1>2, <1>3
  <2>4. D!Below(D!DirAt(p), Head(q)) = "none"
    BY DEF D!Below
  <2> QED
    BY <1>4, <2>1, <2>2, <2>3, <2>4, Zenon
<1>6. D!Walk(w)[Len(w)] = "none"
  <2>1. m + 1 \in 0..Len(w)
    BY <1>3
  <2> QED
    BY <1>3, <1>5, <2>1, WalkLost
<1> QED
  BY <1>1, <1>6 DEF D!DirAt

-----------------------------------------------------------------------------
(* CdfsDir: the search for a file *)

(* An entry of a directory, and the directories on the disc. *)
Entry == [name : STRING, dir : BOOLEAN, at : STRING]
Dirs == DOMAIN Disc

(* What the assumption says of a directory. *)
LEMMA OnDisc ==
  ASSUME NEW d \in Dirs
  PROVE  /\ Disc[d] \in Seq(Seq(Entry)) /\ Len(Disc[d]) \in Nat /\ Len(Disc[d]) > 0
         /\ Len(Disc[d][1]) > 1 /\ d # "none" /\ D!All(d) = D!In(d, 1, Len(Disc[d]))
         /\ \A e, f \in D!All(d) : e.name = f.name /\ e.name # "self" => e = f
         /\ \A e \in D!All(d) : e.dir /\ e.name # "self" => e.at \in Dirs
<1>1. D!Self.name = "self"
  BY DEF D!Self
<1>2. /\ Disc[d] \in Seq(Seq(Entry)) /\ Len(Disc[d]) > 0 /\ Len(Disc[d][1]) > 1 /\ d # "none"
      /\ \A e, f \in D!All(d) : e.name = f.name /\ e.name # D!Self.name => e = f
      /\ \A e \in D!All(d) : e.dir /\ e.name # D!Self.name => e.at \in Dirs
  BY DirAssumption, Zenon DEF Entry, Dirs
<1>3. Len(Disc[d]) \in Nat
  BY <1>2
<1>4. D!All(d) = D!In(d, 1, Len(Disc[d]))
  BY <1>2 DEF D!All
<1> QED
  BY <1>1, <1>2, <1>3, <1>4, Zenon

(* The entries in some sectors are those of each of them. *)
LEMMA InSectors ==
  ASSUME NEW d, NEW low, NEW high, NEW e
  PROVE  e \in D!In(d, low, high) <=>
           \E k \in low..high : e \in {Disc[d][k][j] : j \in 1..Len(Disc[d][k])}
BY DEF D!In

(* More sectors have more entries. *)
LEMMA InMore ==
  ASSUME NEW d, NEW low, NEW high, NEW low2, NEW high2, \A k \in low..high : k \in low2..high2
  PROVE  \A e \in D!In(d, low, high) : e \in D!In(d, low2, high2)
<1> TAKE e \in D!In(d, low, high)
<1>1. PICK k \in low..high : e \in {Disc[d][k][j] : j \in 1..Len(Disc[d][k])}
  BY InSectors
<1>2. k \in low2..high2
  OBVIOUS
<1> QED
  BY <1>1, <1>2, InSectors

(* A range of sectors is part of the directory, and two ranges make up a longer one. *)
LEMMA InParts ==
  ASSUME NEW d, NEW a \in Nat, NEW b \in Nat, a <= b
  PROVE  /\ D!In(d, a + 1, b) \subseteq D!In(d, 1, b)
         /\ \A e \in D!In(d, 1, b) : e \in D!In(d, 1, a) \/ e \in D!In(d, a + 1, b)
<1>1. \A k \in (a + 1)..b : k \in 1..b
  OBVIOUS
<1>2. \A k \in 1..b : k \in 1..a \/ k \in (a + 1)..b
  OBVIOUS
<1>3. \A e \in D!In(d, a + 1, b) : e \in D!In(d, 1, b)
  BY <1>1, InMore
<1>4. ASSUME NEW e \in D!In(d, 1, b) PROVE e \in D!In(d, 1, a) \/ e \in D!In(d, a + 1, b)
  <2>1. PICK k \in 1..b : e \in {Disc[d][k][j] : j \in 1..Len(Disc[d][k])}
    BY <1>4, InSectors
  <2>2. CASE k \in 1..a
    BY <2>1, <2>2, InSectors
  <2>3. CASE k \in (a + 1)..b
    BY <2>1, <2>3, InSectors
  <2> QED
    BY <1>2, <2>2, <2>3
<1> QED
  BY <1>3, <1>4

(* The first sectors have a part of what more sectors have. *)
LEMMA InLess ==
  ASSUME NEW d, NEW a \in Nat, NEW b \in Nat, a <= b
  PROVE  D!In(d, 1, a) \subseteq D!In(d, 1, b)
<1>1. \A k \in 1..a : k \in 1..b
  OBVIOUS
<1>2. \A e \in D!In(d, 1, a) : e \in D!In(d, 1, b)
  BY <1>1, InMore
<1> QED
  BY <1>2

(* No sectors have no entries. *)
LEMMA InNothing == ASSUME NEW d PROVE D!In(d, 1, 0) = {}
<1>1. 1..0 = {}
  OBVIOUS
<1>2. ASSUME NEW e \in D!In(d, 1, 0) PROVE FALSE
  BY <1>1, <1>2, InSectors, Zenon
<1> QED
  BY <1>2

(* Multiples of the size of the cache, where its parts end. *)
LEMMA PartEnds ==
  ASSUME NEW M \in Nat \ {0}, NEW j \in Nat, NEW a \in Nat, a = j * M
  PROVE  /\ a + M = (j + 1) * M /\ (a + M) % M = 0
         /\ \A n \in Nat : n % M = 0 /\ a < n => a + M <= n
<1>1. a + M = (j + 1) * M
  OBVIOUS
<1>2. \A x \in Nat : x = M * (x \div M) + (x % M)
  OBVIOUS
<1>3. ASSUME NEW u \in Nat, NEW v \in Nat, u < v PROVE M * u + M <= M * v
  <2>1. PICK w \in Nat : v = u + 1 + w
    BY <1>3
  <2>2. M * v = M * u + M + M * w /\ M * w \in Nat /\ M * u \in Nat
    BY <2>1
  <2> QED
    BY <2>2
<1>4. (a + M) % M = 0
  <2>1. PICK x \in Nat : x = a + M
    OBVIOUS
  <2>2. PICK d \in Nat : d = x \div M
    BY Quotient
  <2>3. x = M * d + (x % M) /\ x % M \in 0 .. M - 1
    BY <1>2, <2>2, Quotient
  <2>4. PICK e \in Nat : e = j + 1
    OBVIOUS
  <2>5. x = M * e /\ M * e \in Nat /\ M * d \in Nat
    BY <1>1, <2>1, <2>4
  <2>6. ~(d < e) /\ ~(e < d)
    BY <1>3, <2>3, <2>5
  <2>7. d = e
    BY <2>6
  <2> QED
    BY <2>1, <2>3, <2>5, <2>7
<1>5. ASSUME NEW n \in Nat, n % M = 0, a < n PROVE a + M <= n
  <2>1. PICK d \in Nat : d = n \div M
    BY Quotient
  <2>2. n = M * d /\ a = M * j /\ M * d \in Nat /\ M * j \in Nat
    BY <1>2, <1>5, <2>1
  <2>3. ~(d < j) /\ d # j
    BY <1>3, <1>5, <2>2
  <2> QED
    BY <1>3, <2>2, <2>3
<1> QED
  BY <1>1, <1>4, <1>5

(* CachedDirInfo. *)
Caches == [path : Seq(STRING), valid : BOOLEAN, at : Dirs, offset : Nat, size : Nat]

(* The part of a directory in a cache is the one that begins at its offset. *)
Filled(c) == c.size = D!Fill(D!SectorNum(c) - c.offset)

(* A cache is of the directory its path leads to. *)
CacheIs(c) ==
  /\ c \in Caches /\ c.at = D!DirAt(c.path) /\ c.offset + c.size <= D!SectorNum(c)
  /\ Filled(c) \/ (~c.valid /\ c.offset = 0 /\ c.size = 0)

(* No directory of this name in the first n sectors of d, no file of this name. *)
NoDir(d, n, x) == \A e \in D!In(d, 1, n) : ~(e.dir /\ e.name = x)
NoFileIn(d, n, x) == \A e \in D!In(d, 1, n) : ~(~e.dir /\ e.name = x)

(* A path that may be asked for. *)
Asked(p) == p \in Seq(STRING) /\ \A n \in 1..Len(p) : p[n] # "self"

(* The call under way. *)
DirTypeOK ==
  /\ dirPc \in {"idle", "start", "find", "cached", "next"}
  /\ op = [path |-> op.path, name |-> op.name] /\ Asked(op.path) /\ op.name # "self"

(* The cache begins where a part does, and no part up to here is a full one. *)
InSight(c) ==
  /\ \E j \in Nat : c.offset = j * MaxCache
  /\ \A n \in D!FullParts(c.at) : c.offset + c.size <= n

(* FindPath has still to find rest, and has not passed its first component. *)
Finding ==
  dirPc = "find" =>
    /\ rest \in Seq(STRING) /\ op.path = cache.path \o rest /\ Filled(cache) /\ InSight(cache)
    /\ rest = <<>> => cache.offset = 0
    /\ rest # <<>> => NoDir(cache.at, cache.offset, Head(rest))

(* The parts before the one in the cache do not have the file. *)
Searching ==
  /\ dirPc = "cached" /\ ~failed =>
       /\ cache.valid /\ cache.path = op.path /\ Filled(cache)
       /\ op.name = D!NoFile => cache.offset = 0
       /\ op.name # D!NoFile => NoFileIn(cache.at, cache.offset, op.name)
  /\ dirPc = "next" /\ ~failed =>
       /\ cache.valid /\ cache.path = op.path
       /\ NoFileIn(cache.at, cache.offset + cache.size, op.name)
  /\ dirPc = "next" => op.name # D!NoFile
  /\ dirPc # "idle" /\ op.name = D!NoFile => ~failed

(* What the search for a file relies on. *)
FindInv == DirTypeOK /\ CacheIs(cache) /\ Finding /\ Searching /\ D!FindTrue

(* A part that was read is filled from its offset on. *)
LEMMA ChunkIs ==
  ASSUME NEW c \in Caches, c.at = D!DirAt(c.path), NEW a \in Nat, a <= D!SectorNum(c)
  PROVE  LET q == D!Chunk(c, a)
         IN /\ CacheIs(q) /\ Filled(q) /\ q.offset = a
            /\ q.path = c.path /\ q.at = c.at /\ q.valid = c.valid
<1>1. c.at \in Dirs /\ c.path \in Seq(STRING) /\ c.valid \in BOOLEAN
  BY DEF Caches
<1>2. D!SectorNum(c) \in Nat /\ MaxCache \in Nat
  BY <1>1, OnDisc, DirAssumption DEF D!SectorNum
<1>3. PICK b : b = D!Fill(D!SectorNum(c) - a)
  OBVIOUS
<1>4. b \in Nat /\ a + b <= D!SectorNum(c)
  BY <1>2, <1>3 DEF D!Fill
<1>5. PICK q : q = D!Chunk(c, a)
  OBVIOUS
<1>6. /\ q \in Caches /\ q.offset = a /\ q.size = b
      /\ q.path = c.path /\ q.at = c.at /\ q.valid = c.valid
  BY <1>3, <1>4, <1>5 DEF D!Chunk, Caches
<1>7. D!SectorNum(q) = D!SectorNum(c)
  BY <1>6 DEF D!SectorNum
<1>8. Filled(q)
  BY <1>3, <1>6, <1>7 DEF Filled
<1>9. CacheIs(q)
  BY <1>4, <1>6, <1>7, <1>8 DEF CacheIs
<1> QED
  BY <1>5, <1>6, <1>8, <1>9

(* A read that failed leaves the cache of the same directory, but not valid. *)
LEMMA FailIs ==
  ASSUME NEW c, CacheIs(c), Filled(c)
  PROVE  CacheIs([c EXCEPT !.valid = FALSE])
<1>1. c \in Caches
  BY DEF CacheIs
<1>2. PICK q : q = [c EXCEPT !.valid = FALSE]
  OBVIOUS
<1>3. /\ q \in Caches /\ q.offset = c.offset /\ q.size = c.size
      /\ q.path = c.path /\ q.at = c.at
  BY <1>1, <1>2 DEF Caches
<1>4. D!SectorNum(q) = D!SectorNum(c)
  BY <1>3 DEF D!SectorNum
<1>5. CacheIs(q)
  BY <1>3, <1>4 DEF CacheIs, Filled
<1> QED
  BY <1>2, <1>5

(* What is known of the cache. *)
LEMMA CacheFacts ==
  ASSUME CacheIs(cache)
  PROVE  /\ cache \in Caches /\ cache.at \in Dirs /\ cache.path \in Seq(STRING)
         /\ cache.offset \in Nat /\ cache.size \in Nat /\ cache.valid \in BOOLEAN
         /\ D!SectorNum(cache) \in Nat /\ D!SectorNum(cache) > 0 /\ MaxCache \in Nat /\ MaxCache > 0
         /\ D!SectorNum(cache) = Len(Disc[cache.at])
         /\ cache.at = D!DirAt(cache.path) /\ cache.offset + cache.size <= D!SectorNum(cache)
         /\ cache.valid => Filled(cache)
<1>1. /\ cache \in Caches /\ cache.at \in Dirs /\ cache.path \in Seq(STRING)
      /\ cache.offset \in Nat /\ cache.size \in Nat
  BY DEF CacheIs, Caches
<1>b. cache.valid \in BOOLEAN
  BY Zenon DEF CacheIs, Caches
<1>2. D!SectorNum(cache) = Len(Disc[cache.at])
  BY DEF D!SectorNum
<1>3. Len(Disc[cache.at]) \in Nat /\ Len(Disc[cache.at]) > 0
  BY <1>1, OnDisc
<1>4. MaxCache \in Nat /\ MaxCache > 0
  BY DirAssumption
<1>5. /\ cache.at = D!DirAt(cache.path) /\ cache.offset + cache.size <= D!SectorNum(cache)
      /\ cache.valid => Filled(cache)
  BY DEF CacheIs
<1> QED
  BY <1>1, <1>b, <1>2, <1>3, <1>4, <1>5

(* What the cache holds is in its directory. *)
LEMMA CachedIn ==
  ASSUME CacheIs(cache)
  PROVE  /\ D!DirEntries(cache) \subseteq D!All(cache.at)
         /\ \A e \in D!In(cache.at, 1, cache.offset + cache.size) :
              e \in D!In(cache.at, 1, cache.offset) \/ e \in D!DirEntries(cache)
<1>1. /\ cache.offset \in Nat /\ cache.offset + cache.size \in Nat
      /\ cache.offset <= cache.offset + cache.size
      /\ cache.offset + cache.size <= Len(Disc[cache.at]) /\ Len(Disc[cache.at]) \in Nat
  BY CacheFacts
<1>2. D!All(cache.at) = D!In(cache.at, 1, Len(Disc[cache.at]))
  BY CacheFacts, OnDisc
<1>3. D!DirEntries(cache) \subseteq D!In(cache.at, 1, cache.offset + cache.size)
  BY <1>1, InParts DEF D!DirEntries
<1>4. D!In(cache.at, 1, cache.offset + cache.size) \subseteq D!In(cache.at, 1, Len(Disc[cache.at]))
  BY <1>1, InLess
<1>5. \A e \in D!In(cache.at, 1, cache.offset + cache.size) :
        e \in D!In(cache.at, 1, cache.offset) \/ e \in D!DirEntries(cache)
  BY <1>1, InParts DEF D!DirEntries
<1> QED
  BY <1>2, <1>3, <1>4, <1>5

(* A part that begins behind none of the full ones is in sight. *)
LEMMA InSightIs ==
  ASSUME NEW c, CacheIs(c), Filled(c), NEW j \in Nat, c.offset = j * MaxCache,
         \A n \in D!FullParts(c.at) : c.offset < n
  PROVE  InSight(c)
<1>1. MaxCache \in Nat \ {0} /\ c.offset \in Nat /\ c.size \in Nat
  BY DirAssumption DEF CacheIs, Caches
<1>2. c.at \in Dirs
  BY DEF CacheIs, Caches
<1>3. D!SectorNum(c) \in Nat
  BY <1>2, OnDisc DEF D!SectorNum
<1>4. c.size <= MaxCache
  BY <1>1, <1>3 DEF Filled, D!Fill
<1>5. ASSUME NEW n \in D!FullParts(c.at) PROVE c.offset + c.size <= n
  <2>1. n \in Nat /\ n % MaxCache = 0
    BY <1>5 DEF D!FullParts
  <2>2. c.offset + MaxCache <= n
    BY <1>1, <2>1, PartEnds
  <2> QED
    BY <1>1, <1>4, <2>1, <2>2
<1> QED
  BY <1>5 DEF InSight

(* So is the beginning of a directory. *)
LEMMA InSightFirst ==
  ASSUME NEW c, CacheIs(c), Filled(c), c.offset = 0
  PROVE  InSight(c)
<1>1. 0 \in Nat /\ c.offset = 0 * MaxCache
  BY DirAssumption
<1>2. \A n \in D!FullParts(c.at) : c.offset < n
  BY DEF D!FullParts
<1> QED
  BY <1>1, <1>2, InSightIs

(* What FindPath has in the cache it can see. *)
LEMMA CachedSeen ==
  ASSUME CacheIs(cache), InSight(cache)
  PROVE  D!DirEntries(cache) \subseteq D!Seen(cache.at)
<1> SUFFICES ASSUME NEW e \in D!DirEntries(cache) PROVE e \in D!Seen(cache.at)
  OBVIOUS
<1>1. /\ cache.offset \in Nat /\ cache.offset + cache.size \in Nat /\ cache.size \in Nat
      /\ cache.offset <= cache.offset + cache.size
      /\ cache.offset + cache.size <= Len(Disc[cache.at]) /\ Len(Disc[cache.at]) \in Nat
  BY CacheFacts
<1>2. e \in D!All(cache.at)
  BY CachedIn
<1>3. e \in D!In(cache.at, 1, cache.offset + cache.size)
  BY <1>1, InParts DEF D!DirEntries
<1>4. cache.offset + cache.size # 0
  <2>1. ASSUME cache.offset + cache.size = 0 PROVE FALSE
    BY <1>3, <2>1, InNothing
  <2> QED
    BY <2>1
<1>5. cache.offset + cache.size \in 1..Len(Disc[cache.at])
  BY <1>1, <1>4
<1>6. \A n \in D!FullParts(cache.at) : cache.offset + cache.size <= n
  BY DEF InSight
<1> QED
  BY <1>2, <1>3, <1>5, <1>6 DEF D!Seen

(* The answer y to a request for file x in path p. *)
Answered(p, x, y) ==
  LET same == {e \in D!All(D!DirAt(p)) : e.name = x}
  IN  (same = {} => y = "no") /\ \A e \in same : ~e.dir => e.at = y

(* FindTrue is about the answer to the last request. *)
LEMMA FindTrueIs ==
  D!FindTrue <=> (dirPc = "idle" /\ op.name # D!NoFile /\ ~failed /\ found # "none" =>
                    Answered(op.path, op.name, found))
BY DEF D!FindTrue, Answered

(* A name belongs to one entry only, so the entry found is the answer. *)
LEMMA AnsweredFound ==
  ASSUME NEW p, D!DirAt(p) \in Dirs, NEW x, x # "self", NEW e \in D!All(D!DirAt(p)), e.name = x
  PROVE  Answered(p, x, e.at)
<1>1. \A f \in D!All(D!DirAt(p)) : f.name = x => f = e
  BY OnDisc
<1> QED
  BY <1>1 DEF Answered

(* The answer for a directory that has no such file. *)
LEMMA AnsweredNo ==
  ASSUME NEW p, D!DirAt(p) \in Dirs, NEW x, NoFileIn(D!DirAt(p), Len(Disc[D!DirAt(p)]), x)
  PROVE  Answered(p, x, "no")
BY OnDisc DEF Answered, NoFileIn

(* The answer for a path that leads nowhere. *)
LEMMA AnsweredNowhere ==
  ASSUME NEW p, D!DirAt(p) = "none", NEW x
  PROVE  Answered(p, x, "no")
BY DEF Answered, D!All

-----------------------------------------------------------------------------
(* Nothing is cached at first. *)
LEMMA FindInitInv == D!Init => FindInv
<1> SUFFICES ASSUME D!Init PROVE FindInv
  OBVIOUS
<1>1. /\ cache = [path |-> <<>>, valid |-> FALSE, at |-> D!Root, offset |-> 0, size |-> 0]
      /\ dirPc = "idle" /\ op = [path |-> <<>>, name |-> D!NoFile]
  BY DEF D!Init, D!NoOp
<1>2. DirTypeOK
  BY <1>1 DEF DirTypeOK, Asked, D!NoFile
<1>3. CacheIs(cache)
  <2>1. D!Root \in Dirs
    BY DirAssumption DEF Dirs
  <2>2. cache \in Caches
    BY <1>1, <2>1 DEF Caches
  <2>3. D!SectorNum(cache) \in Nat
    BY <1>1, <2>1, OnDisc DEF D!SectorNum
  <2> QED
    BY <1>1, <2>2, <2>3, DirAtRoot DEF CacheIs
<1> QED
  BY <1>1, <1>2, <1>3 DEF FindInv, Finding, Searching, D!FindTrue

(* CDVD_findfile, which looks at the part in the cache first. *)
LEMMA FindBegun ==
  ASSUME FindInv, NEW p \in Paths, NEW x \in Names, D!CDVD_findfile(p, x)
  PROVE  FindInv'
<1>1. /\ dirPc = "idle" /\ op' = [path |-> p, name |-> x] /\ failed' = FALSE
      /\ cache' = cache /\ rest' = rest
  BY DEF D!CDVD_findfile
<1>2. Asked(p) /\ x # "self" /\ x # D!NoFile
  BY DirAssumption DEF D!Self, Asked
<1>3. op'.path = p /\ op'.name = x
  BY <1>1
<1>4. CacheIs(cache)
  BY DEF FindInv
<1>5. CASE D!MATCH(p) /\ D!InCache(x) /\ found' = D!At(x).at /\ dirPc' = dirPc
  <2>1. PICK e \in D!DirEntries(cache) : e = D!At(x) /\ ~e.dir /\ e.name = x
    BY <1>5 DEF D!InCache, D!At
  <2>2. cache.path = p /\ D!DirAt(p) = cache.at /\ cache.at \in Dirs
    BY <1>4, <1>5, CacheFacts DEF D!MATCH
  <2>3. Answered(p, x, e.at)
    BY <1>2, <1>4, <2>1, <2>2, AnsweredFound, CachedIn
  <2>4. Answered(op'.path, op'.name, found')
    BY <1>3, <1>5, <2>1, <2>3
  <2>5. D!FindTrue'
    BY <2>4 DEF D!FindTrue, Answered
  <2> QED
    BY <1>1, <1>2, <1>3, <1>4, <1>5, <2>5 DEF FindInv, DirTypeOK, Finding, Searching, CacheIs, Filled, D!SectorNum
<1>6. CASE D!MATCH(p) /\ ~D!InCache(x) /\ cache.size = D!SectorNum(cache) /\ found' = "no" /\ dirPc' = dirPc
  <2>1. cache.path = p /\ D!DirAt(p) = cache.at /\ cache.at \in Dirs
    BY <1>4, <1>6, CacheFacts DEF D!MATCH
  <2>2. cache.offset + 1 = 1 /\ cache.offset + cache.size = Len(Disc[cache.at])
    BY <1>4, <1>6, CacheFacts
  <2>3. D!DirEntries(cache) = D!In(cache.at, 1, Len(Disc[cache.at]))
    BY <2>2 DEF D!DirEntries
  <2>4. NoFileIn(cache.at, Len(Disc[cache.at]), x)
    BY <1>6, <2>3 DEF NoFileIn, D!InCache
  <2>5. Answered(op'.path, op'.name, found')
    BY <1>3, <1>6, <2>1, <2>4, AnsweredNo
  <2>6. D!FindTrue'
    BY <2>5 DEF D!FindTrue, Answered
  <2> QED
    BY <1>1, <1>2, <1>3, <1>4, <1>6, <2>6 DEF FindInv, DirTypeOK, Finding, Searching, CacheIs, Filled, D!SectorNum
<1>7. CASE /\ D!MATCH(p) /\ ~D!InCache(x) /\ found' = "none"
           /\ dirPc' = IF cache.offset = 0 THEN "next" ELSE "start"
  <2>1. cache.valid /\ cache.path = p
    BY <1>7 DEF D!MATCH
  <2>2. cache.offset = 0 => NoFileIn(cache.at, cache.offset + cache.size, x)
    BY <1>7 DEF NoFileIn, D!InCache, D!DirEntries
  <2>3. Searching'
    BY <1>1, <1>2, <1>3, <1>7, <2>1, <2>2 DEF Searching, NoFileIn
  <2> QED
    BY <1>1, <1>2, <1>3, <1>4, <1>7, <2>3 DEF FindInv, DirTypeOK, Finding, CacheIs, Filled, D!SectorNum, D!FindTrue
<1>8. CASE found' = "none" /\ dirPc' = "start"
  BY <1>1, <1>2, <1>3, <1>4, <1>8 DEF FindInv, DirTypeOK, Finding, Searching, CacheIs, Filled, D!SectorNum, D!FindTrue
<1> QED
  BY <1>5, <1>6, <1>7, <1>8 DEF D!CDVD_findfile

(* ISO_DOpen. *)
LEMMA ListBegun ==
  ASSUME FindInv, NEW p \in Paths, D!ISO_DOpen(p)
  PROVE  FindInv'
<1>1. /\ op' = [path |-> p, name |-> D!NoFile] /\ failed' = FALSE /\ dirPc' = "start"
      /\ cache' = cache
  BY DEF D!ISO_DOpen
<1>2. Asked(p) /\ D!NoFile # "self"
  BY DirAssumption DEF D!Self, Asked, D!NoFile
<1> QED
  BY <1>1, <1>2 DEF FindInv, DirTypeOK, Finding, Searching, CacheIs, Filled, D!SectorNum, D!FindTrue

(* A path is its first components and the others. *)
LEMMA PathSplit ==
  ASSUME NEW p \in Seq(STRING), NEW m \in Nat, m < Len(p)
  PROVE  p = SubSeq(p, 1, m) \o SubSeq(p, m + 1, Len(p))
<1>1. 1 \in 1..(Len(p) + 1) /\ m \in (1 - 1)..Len(p) /\ Len(p) \in m..Len(p)
  OBVIOUS
<1>2. SubSeq(p, 1, m) \o SubSeq(p, m + 1, Len(p)) = SubSeq(p, 1, Len(p))
  BY <1>1, ConcatAdjacentSubSeq
<1>3. SubSeq(p, 1, Len(p)) = p
  OBVIOUS
<1> QED
  BY <1>2, <1>3

(* The cache turned to the root. *)
LEMMA AtRoot ==
  ASSUME NEW c \in Caches, D!Root \in Dirs
  PROVE  LET a == [c EXCEPT !.path = <<>>, !.at = D!Root]
         IN  a \in Caches /\ a.path = <<>> /\ a.at = D!Root
<1>0. <<>> \in Seq(STRING)
  OBVIOUS
<1>1. PICK e : e = <<>> /\ e \in Seq(STRING)
  BY <1>0, Zenon
<1>2. [c EXCEPT !.path = e, !.at = D!Root] \in Caches
  BY <1>1, Zenon DEF Caches
<1>3. PICK a : a = [c EXCEPT !.path = e, !.at = D!Root]
  OBVIOUS
<1>4. a.path = e /\ a.at = D!Root
  BY <1>3 DEF Caches
<1> QED
  BY <1>1, <1>2, <1>3, <1>4, Zenon

(* A call that is given up after a read has failed. *)
LEMMA FindFailed ==
  ASSUME FindInv, NEW c, CacheIs(c), Filled(c), cache' = [c EXCEPT !.valid = FALSE],
         failed' = TRUE, dirPc' = "idle", op' = op
  PROVE  FindInv'
<1>1. CacheIs([c EXCEPT !.valid = FALSE])
  BY FailIs
<1>2. CacheIs(cache')
  BY <1>1
<1>3. CacheIs(cache)'
  BY <1>2 DEF CacheIs, Filled, D!SectorNum
<1> QED
  BY <1>3 DEF FindInv, DirTypeOK, Finding, Searching, D!FindTrue

(* The beginning of the directory asked for is in the cache. *)
LEMMA FindCached ==
  ASSUME FindInv, dirPc # "idle", CacheIs(cache'), Filled(cache'), cache'.offset = 0, cache'.valid,
         cache'.path = op.path, dirPc' = "cached", op' = op, failed' = failed
  PROVE  FindInv'
<1>1. CacheIs(cache)' /\ Filled(cache)'
  BY DEF CacheIs, Filled, D!SectorNum
<1>2. NoFileIn(cache'.at, 0, op.name)
  BY InNothing DEF NoFileIn
<1>3. NoFileIn(cache.at, cache.offset, op.name)'
  BY <1>2 DEF NoFileIn
<1>4. dirPc # "idle" /\ op.name = D!NoFile => ~failed
  BY DEF FindInv, Searching
<1>5. Searching'
  <2>1. op.name = D!NoFile => ~failed \/ dirPc = "idle"
    BY <1>4
  <2> QED
    BY <1>1, <1>3, <2>1 DEF Searching
<1> QED
  BY <1>1, <1>5 DEF FindInv, DirTypeOK, Finding, D!FindTrue

(* FindPath is at the beginning of a directory. *)
LEMMA FindEnters ==
  ASSUME FindInv, dirPc # "idle", CacheIs(cache'), Filled(cache'), cache'.offset = 0,
         rest' \in Seq(STRING), op.path = cache'.path \o rest', dirPc' = "find", op' = op,
         failed' = failed
  PROVE  FindInv'
<1>1. CacheIs(cache)' /\ Filled(cache)'
  BY DEF CacheIs, Filled, D!SectorNum
<1>2. NoDir(cache'.at, 0, Head(rest'))
  BY InNothing DEF NoDir
<1>3. NoDir(cache.at, cache.offset, Head(rest))'
  BY <1>2 DEF NoDir
<1>s. InSight(cache)'
  <2>1. InSight(cache')
    BY InSightFirst
  <2> QED
    BY <2>1 DEF InSight, D!FullParts
<1>4. Finding'
  BY <1>1, <1>3, <1>s DEF Finding
<1>5. Searching'
  BY DEF FindInv, Searching
<1> QED
  BY <1>1, <1>4, <1>5 DEF FindInv, DirTypeOK, D!FindTrue

(* CDVD_Cache_Dir with CACHE_START. *)
LEMMA FindStarts == ASSUME FindInv, D!Cache_Start PROVE FindInv'
<1>1. dirPc = "start" /\ op' = op
  BY DEF D!Cache_Start
<1>2. CacheIs(cache) /\ op.path \in Seq(STRING)
  BY DEF FindInv, DirTypeOK, Asked
<1>3. /\ cache \in Caches /\ cache.at = D!DirAt(cache.path) /\ D!SectorNum(cache) \in Nat
      /\ 0 \in Nat /\ 0 <= D!SectorNum(cache) /\ cache.path \in Seq(STRING)
      /\ cache.valid => Filled(cache)
  BY <1>2, CacheFacts
<1>4. PICK c : c = D!Chunk(cache, 0)
  OBVIOUS
<1>5. /\ CacheIs(c) /\ Filled(c) /\ c.offset = 0
      /\ c.path = cache.path /\ c.at = cache.at /\ c.valid = cache.valid
  BY <1>3, <1>4, ChunkIs
<1>6. CASE D!MATCH(op.path) /\ cache.offset = 0 /\ dirPc' = "cached" /\ UNCHANGED <<cache, failed>>
  <2>1. cache.valid /\ cache.path = op.path
    BY <1>6 DEF D!MATCH
  <2> QED
    BY <1>1, <1>2, <1>3, <1>6, <2>1, FindCached
<1>7. CASE D!MATCH(op.path) /\ cache' = D!Chunk(cache, 0) /\ dirPc' = "cached" /\ UNCHANGED failed
  <2>1. cache.valid /\ cache.path = op.path
    BY <1>7 DEF D!MATCH
  <2>2. cache' = c
    BY <1>4, <1>7
  <2> QED
    BY <1>1, <1>5, <1>7, <2>1, <2>2, FindCached
<1>8. CASE D!Fail(D!Chunk(cache, 0)) /\ dirPc' = "idle"
  BY <1>1, <1>4, <1>5, <1>8, FindFailed DEF D!Fail
<1>9. CASE /\ D!SUBDIR(op.path) /\ cache' = D!Chunk(cache, 0) /\ dirPc' = "find" /\ UNCHANGED failed
           /\ rest' = SubSeq(op.path, Len(cache.path) + 1, Len(op.path))
  <2>1. cache' = c
    BY <1>4, <1>9
  <2>2. PICK p, m : p = op.path /\ m = Len(cache.path)
    OBVIOUS
  <2>3. p \in Seq(STRING) /\ m \in Nat /\ m < Len(p) /\ SubSeq(p, 1, m) = cache.path
    BY <1>2, <1>3, <1>9, <2>2 DEF D!SUBDIR
  <2>4. SubSeq(p, m + 1, Len(p)) \in Seq(STRING)
    BY <2>3
  <2>5. p = SubSeq(p, 1, m) \o SubSeq(p, m + 1, Len(p))
    BY <2>3, PathSplit
  <2>6. rest' \in Seq(STRING) /\ op.path = c.path \o rest'
    BY <1>5, <1>9, <2>2, <2>3, <2>4, <2>5
  <2> QED
    BY <1>1, <1>5, <1>9, <2>1, <2>6, FindEnters
<1>10. ASSUME NEW b, b = D!Chunk([cache EXCEPT !.path = <<>>, !.at = D!Root], 0)
       PROVE  CacheIs(b) /\ Filled(b) /\ b.offset = 0 /\ b.path = <<>>
  <2>1. PICK a : a = [cache EXCEPT !.path = <<>>, !.at = D!Root]
    OBVIOUS
  <2>2. D!Root \in Dirs
    BY DirAssumption DEF Dirs
  <2>3. a \in Caches /\ a.path = <<>> /\ a.at = D!Root
    BY <1>3, <2>1, <2>2, AtRoot
  <2>4. D!SectorNum(a) \in Nat
    BY <2>2, <2>3, OnDisc DEF D!SectorNum
  <2>5. a.at = D!DirAt(a.path)
    BY <2>3, DirAtRoot
  <2>6. 0 \in Nat /\ 0 <= D!SectorNum(a)
    BY <2>4
  <2> QED
    BY <1>10, <2>1, <2>3, <2>5, <2>6, ChunkIs
<1>11. CASE /\ cache' = D!Chunk([cache EXCEPT !.path = <<>>, !.at = D!Root], 0)
            /\ dirPc' = "find" /\ UNCHANGED failed /\ rest' = op.path
  <2>1. CacheIs(cache') /\ Filled(cache') /\ cache'.offset = 0 /\ cache'.path = <<>>
    BY <1>10, <1>11
  <2>2. op.path = <<>> \o op.path
    BY <1>2
  <2> QED
    BY <1>1, <1>2, <1>11, <2>1, <2>2, FindEnters
<1>12. CASE D!Fail(D!Chunk([cache EXCEPT !.path = <<>>, !.at = D!Root], 0)) /\ dirPc' = "idle"
  BY <1>1, <1>10, <1>12, FindFailed DEF D!Fail
<1> QED
  BY <1>6, <1>7, <1>8, <1>9, <1>11, <1>12 DEF D!Cache_Start

(* The subdirectory whose name comes next. *)
LEMMA SubIs ==
  ASSUME NEW c \in Caches, c.at = D!DirAt(c.path), NEW e \in D!Seen(c.at), e.dir, e.name # "self",
         e.name \in STRING
  PROVE  LET q == D!Chunk([c EXCEPT !.path = Append(@, e.name), !.at = e.at], 0)
         IN  CacheIs(q) /\ Filled(q) /\ q.offset = 0 /\ q.path = Append(c.path, e.name)
<1>1. c.at \in Dirs /\ c.path \in Seq(STRING)
  BY DEF Caches
<1>a. e \in D!All(c.at) /\ \A f \in D!Seen(c.at) : f \in D!All(c.at)
  BY DEF D!Seen
<1>2. e.at \in Dirs
  BY <1>1, <1>a, OnDisc
<1>3. D!Below(c.at, e.name) = e.at
  <2>1. \A f \in D!Seen(c.at) : f.dir /\ f.name = e.name => f = e
    BY <1>1, <1>a, OnDisc
  <2>2. (CHOOSE f \in D!Seen(c.at) : f.dir /\ f.name = e.name) = e
    BY <2>1
  <2> QED
    BY <2>2 DEF D!Below
<1>4. PICK p : p = Append(c.path, e.name)
  OBVIOUS
<1>5. p \in Seq(STRING) /\ D!DirAt(p) = e.at
  BY <1>1, <1>3, <1>4, DirAtBelow
<1>6. PICK a : a = [c EXCEPT !.path = p, !.at = e.at]
  OBVIOUS
<1>7. a \in Caches
  BY <1>2, <1>5, <1>6, Zenon DEF Caches
<1>8. a.path = p /\ a.at = e.at
  BY <1>6 DEF Caches
<1>9. D!SectorNum(a) \in Nat /\ 0 \in Nat /\ 0 <= D!SectorNum(a)
  BY <1>2, <1>8, OnDisc DEF D!SectorNum
<1>10. CacheIs(D!Chunk(a, 0)) /\ Filled(D!Chunk(a, 0)) /\ D!Chunk(a, 0).offset = 0
       /\ D!Chunk(a, 0).path = p
  BY <1>5, <1>7, <1>8, <1>9, ChunkIs
<1>11. a = [c EXCEPT !.path = Append(@, e.name), !.at = e.at]
  BY <1>4, <1>6
<1> QED
  BY <1>4, <1>10, <1>11, Zenon

(* FindPath. *)
LEMMA FindGoesOn == ASSUME FindInv, D!FindPath PROVE FindInv'
<1>1. dirPc = "find" /\ op' = op
  BY DEF D!FindPath
<1>2. /\ CacheIs(cache) /\ Filled(cache) /\ Asked(op.path) /\ rest \in Seq(STRING)
      /\ op.path = cache.path \o rest /\ InSight(cache)
  BY <1>1 DEF FindInv, DirTypeOK, Finding
<1>3. /\ cache \in Caches /\ cache.at = D!DirAt(cache.path) /\ D!SectorNum(cache) \in Nat
      /\ cache.path \in Seq(STRING) /\ cache.offset \in Nat /\ cache.size \in Nat
      /\ cache.offset + cache.size <= D!SectorNum(cache) /\ cache.at \in Dirs
  BY <1>2, CacheFacts
<1>h. rest # <<>> => Head(rest) \in STRING /\ Head(rest) # "self" /\ Tail(rest) \in Seq(STRING)
                       /\ rest = <<Head(rest)>> \o Tail(rest)
  <2> SUFFICES ASSUME rest # <<>>
               PROVE  /\ Head(rest) \in STRING /\ Head(rest) # "self" /\ Tail(rest) \in Seq(STRING)
                      /\ rest = <<Head(rest)>> \o Tail(rest)
    OBVIOUS
  <2>1. Head(rest) \in STRING /\ Tail(rest) \in Seq(STRING) /\ Head(rest) = rest[1] /\ Len(rest) > 0
    BY <1>2
  <2>2. rest = <<Head(rest)>> \o Tail(rest)
    BY <1>2
  <2>3. PICK p, q, m : p = cache.path /\ q = rest /\ m = Len(cache.path)
    OBVIOUS
  <2>4. /\ p \in Seq(STRING) /\ q \in Seq(STRING) /\ m = Len(p) /\ m \in Nat /\ Len(q) > 0
        /\ op.path = p \o q
    BY <1>2, <1>3, <2>1, <2>3
  <2>5. (p \o q)[m + 1] = q[1] /\ m + 1 \in 1..Len(p \o q)
    BY <2>4
  <2>6. op.path[m + 1] # "self"
    BY <1>2, <2>4, <2>5 DEF Asked
  <2> QED
    BY <2>1, <2>2, <2>3, <2>4, <2>5, <2>6
<1>4. CASE rest = <<>> /\ cache' = [cache EXCEPT !.valid = TRUE] /\ dirPc' = "cached" /\ UNCHANGED failed
  <2>1. cache.offset = 0
    BY <1>1, <1>4 DEF FindInv, Finding
  <2>2. op.path = cache.path
    BY <1>2, <1>3, <1>4
  <2>3. PICK q : q = [cache EXCEPT !.valid = TRUE]
    OBVIOUS
  <2>4. /\ q \in Caches /\ q.offset = cache.offset /\ q.size = cache.size /\ q.valid
        /\ q.path = cache.path /\ q.at = cache.at
    BY <1>3, <2>3 DEF Caches
  <2>5. D!SectorNum(q) = D!SectorNum(cache)
    BY <2>4 DEF D!SectorNum
  <2>6. CacheIs(q) /\ Filled(q)
    BY <1>2, <1>3, <2>4, <2>5 DEF CacheIs, Filled
  <2>7. cache' = q
    BY <1>4, <2>3
  <2> QED
    BY <1>1, <1>4, <2>1, <2>2, <2>4, <2>6, <2>7, FindCached
<1>5. ASSUME NEW e \in D!DirEntries(cache), rest # <<>>, e.dir, e.name = Head(rest)
      PROVE  LET q == D!Chunk([cache EXCEPT !.path = Append(@, e.name), !.at = e.at], 0)
             IN  CacheIs(q) /\ Filled(q) /\ q.offset = 0 /\ q.path = Append(cache.path, e.name)
  <2>1. e \in D!Seen(cache.at) /\ e.name \in STRING /\ e.name # "self"
    BY <1>2, <1>5, <1>h, CachedSeen
  <2> QED
    BY <1>3, <1>5, <2>1, SubIs
<1>6. CASE \E e \in D!DirEntries(cache) :
             /\ rest # <<>> /\ e.dir /\ e.name = Head(rest) /\ rest' = Tail(rest)
             /\ cache' = D!Chunk([cache EXCEPT !.path = Append(@, e.name), !.at = e.at], 0)
             /\ UNCHANGED <<dirPc, failed>>
  <2>1. PICK e \in D!DirEntries(cache) :
             /\ rest # <<>> /\ e.dir /\ e.name = Head(rest) /\ rest' = Tail(rest)
             /\ cache' = D!Chunk([cache EXCEPT !.path = Append(@, e.name), !.at = e.at], 0)
             /\ UNCHANGED <<dirPc, failed>>
    BY <1>6
  <2>2. CacheIs(cache') /\ Filled(cache') /\ cache'.offset = 0 /\ cache'.path = Append(cache.path, e.name)
    BY <1>5, <2>1
  <2>3. PICK p, x, t : p = cache.path /\ x = Head(rest) /\ t = Tail(rest)
    OBVIOUS
  <2>4. p \in Seq(STRING) /\ x \in STRING /\ t \in Seq(STRING) /\ op.path = p \o (<<x>> \o t)
    BY <1>2, <1>3, <1>h, <2>1, <2>3
  <2>5. p \o (<<x>> \o t) = Append(p, x) \o t
    BY <2>4
  <2>6. rest' \in Seq(STRING) /\ op.path = cache'.path \o rest'
    BY <2>1, <2>2, <2>3, <2>4, <2>5
  <2> QED
    BY <1>1, <2>1, <2>2, <2>6, FindEnters
<1>7. CASE \E e \in D!DirEntries(cache) :
             /\ rest # <<>> /\ e.dir /\ e.name = Head(rest)
             /\ D!Fail(D!Chunk([cache EXCEPT !.path = Append(@, e.name), !.at = e.at], 0))
             /\ dirPc' = "idle"
  <2>1. PICK e \in D!DirEntries(cache) :
             /\ rest # <<>> /\ e.dir /\ e.name = Head(rest)
             /\ D!Fail(D!Chunk([cache EXCEPT !.path = Append(@, e.name), !.at = e.at], 0))
             /\ dirPc' = "idle"
    BY <1>7
  <2>2. PICK q : q = D!Chunk([cache EXCEPT !.path = Append(@, e.name), !.at = e.at], 0)
    OBVIOUS
  <2>3. CacheIs(q) /\ Filled(q)
    BY <1>5, <2>1, <2>2
  <2>4. D!Fail(q)
    BY <2>1, <2>2
  <2> QED
    BY <1>1, <2>1, <2>3, <2>4, FindFailed DEF D!Fail
<1>8. ASSUME rest # <<>>, \A e \in D!DirEntries(cache) : ~(e.dir /\ e.name = Head(rest))
      PROVE  NoDir(cache.at, cache.offset + cache.size, Head(rest))
  <2>1. NoDir(cache.at, cache.offset, Head(rest))
    BY <1>1, <1>8 DEF FindInv, Finding
  <2> QED
    BY <1>2, <1>8, <2>1, CachedIn DEF NoDir
<1>9. PICK b : b = D!Chunk(cache, D!NextChunk)
  OBVIOUS
<1>10. ASSUME D!NextChunk < D!SectorNum(cache)
       PROVE  CacheIs(b) /\ Filled(b) /\ b.offset = cache.offset + cache.size
              /\ b.path = cache.path /\ b.at = cache.at /\ b.valid = cache.valid
  <2>1. PICK a : a = cache.offset + cache.size /\ a \in Nat /\ a <= D!SectorNum(cache)
    BY <1>3
  <2>2. b = D!Chunk(cache, a)
    BY <1>9, <2>1 DEF D!NextChunk
  <2> QED
    BY <1>3, <2>1, <2>2, ChunkIs
<1>e. PICK j \in Nat : cache.offset = j * MaxCache
  BY <1>2 DEF InSight
<1>f. ASSUME D!NextChunk < D!SectorNum(cache)
      PROVE  /\ cache.offset + cache.size = (j + 1) * MaxCache
             /\ (cache.offset + cache.size) % MaxCache = 0
             /\ cache.offset + cache.size \in 1..Len(Disc[cache.at])
  <2>1. MaxCache \in Nat \ {0} /\ D!SectorNum(cache) = Len(Disc[cache.at])
    BY <1>2, CacheFacts
  <2>2. cache.size = MaxCache
    BY <1>2, <1>3, <1>f, <2>1 DEF Filled, D!Fill, D!NextChunk
  <2>3. /\ cache.offset + MaxCache = (j + 1) * MaxCache
        /\ (cache.offset + MaxCache) % MaxCache = 0
    BY <1>3, <1>e, <2>1, PartEnds
  <2>4. cache.offset + MaxCache \in 1..Len(Disc[cache.at])
    BY <1>3, <2>1, <2>2
  <2> QED
    BY <2>2, <2>3, <2>4
<1>11. CASE /\ rest # <<>> /\ \A e \in D!DirEntries(cache) : ~(e.dir /\ e.name = Head(rest))
            /\ D!NextChunk < D!SectorNum(cache) /\ <<cache.at, D!NextChunk>> \notin Full
            /\ cache' = b /\ UNCHANGED <<dirPc, failed, rest>>
  <2>1. CacheIs(cache)' /\ Filled(cache)'
    BY <1>10, <1>11 DEF CacheIs, Filled, D!SectorNum
  <2>2. NoDir(cache.at, cache.offset, Head(rest))'
    <3>1. NoDir(cache'.at, cache'.offset, Head(rest'))
      BY <1>8, <1>10, <1>11
    <3> QED
      BY <3>1 DEF NoDir
  <2>3. op'.path = cache'.path \o rest'
    BY <1>1, <1>2, <1>10, <1>11
  <2>s. InSight(cache)'
    <3>1. j + 1 \in Nat /\ b.offset = (j + 1) * MaxCache
      BY <1>10, <1>11, <1>f
    <3>2. ASSUME NEW n \in D!FullParts(b.at) PROVE b.offset < n
      <4>1. n \in Nat /\ b.offset <= n /\ <<cache.at, n>> \in Full
        <5>1. n \in D!FullParts(cache.at) /\ b.offset = cache.offset + cache.size
          BY <1>10, <1>11, <3>2
        <5>2. n \in Nat /\ <<cache.at, n>> \in Full
          BY <5>1 DEF D!FullParts
        <5>3. cache.offset + cache.size <= n
          BY <1>2, <5>1 DEF InSight
        <5> QED
          BY <5>1, <5>2, <5>3
      <4>2. n # cache.offset + cache.size
        BY <1>11, <4>1 DEF D!NextChunk
      <4> QED
        BY <1>3, <1>10, <1>11, <4>1, <4>2
    <3>3. InSight(b)
      BY <1>10, <1>11, <3>1, <3>2, InSightIs
    <3> QED
      BY <1>11, <3>3 DEF InSight, D!FullParts
  <2>4. Finding'
    BY <1>2, <1>11, <2>1, <2>2, <2>3, <2>s DEF Finding
  <2> QED
    BY <1>1, <1>11, <2>1, <2>4 DEF FindInv, DirTypeOK, Searching, D!FindTrue
<1>12. CASE D!NextChunk < D!SectorNum(cache) /\ D!Fail(b) /\ dirPc' = "idle"
  BY <1>1, <1>10, <1>12, FindFailed DEF D!Fail
<1>13. CASE /\ rest # <<>> /\ \A e \in D!DirEntries(cache) : ~(e.dir /\ e.name = Head(rest))
            /\ ~(D!NextChunk < D!SectorNum(cache) /\ <<cache.at, D!NextChunk>> \notin Full)
            /\ cache' = [cache EXCEPT !.valid = FALSE]
            /\ dirPc' = "idle" /\ found' = "no" /\ UNCHANGED failed
  <2>1. NoDir(cache.at, cache.offset + cache.size, Head(rest))
    BY <1>8, <1>13
  <2>2. cache.offset + cache.size \in Nat /\ Len(Disc[cache.at]) \in Nat
    BY <1>2, <1>3, CacheFacts
  <2>3. ASSUME NEW e \in D!Seen(cache.at)
        PROVE  e \in D!In(cache.at, 1, cache.offset + cache.size)
    <3>1. PICK k \in 1..Len(Disc[cache.at]) :
                 e \in D!In(cache.at, 1, k) /\ \A n \in D!FullParts(cache.at) : k <= n
      BY <2>3 DEF D!Seen
    <3>2. k <= cache.offset + cache.size
      <4>1. CASE D!NextChunk < D!SectorNum(cache)
        <5>1. cache.offset + cache.size \in D!FullParts(cache.at)
          BY <1>13, <1>f, <4>1 DEF D!FullParts, D!NextChunk
        <5> QED
          BY <3>1, <5>1
      <4>2. CASE ~(D!NextChunk < D!SectorNum(cache))
        <5>1. cache.offset + cache.size = Len(Disc[cache.at])
          BY <1>2, <1>3, <4>2, CacheFacts DEF D!NextChunk
        <5> QED
          BY <2>2, <5>1
      <4> QED
        BY <4>1, <4>2
    <3> QED
      BY <2>2, <3>1, <3>2, InLess
  <2>4. ~\E e \in D!Seen(D!DirAt(cache.path)) : e.dir /\ e.name = Head(rest)
    BY <1>3, <2>1, <2>3 DEF NoDir
  <2>5. D!DirAt(op.path) = "none"
    BY <1>2, <1>3, <1>13, <2>4, DirAtLost
  <2>6. Answered(op'.path, op'.name, found')
    BY <1>1, <1>13, <2>5, AnsweredNowhere
  <2>7. D!FindTrue'
    BY <2>6 DEF D!FindTrue, Answered
  <2>8. CacheIs([cache EXCEPT !.valid = FALSE])
    BY <1>2, FailIs
  <2>9. CacheIs(cache)'
    <3>1. CacheIs(cache')
      BY <1>13, <2>8
    <3> QED
      BY <3>1 DEF CacheIs, Filled, D!SectorNum
  <2> QED
    BY <1>1, <1>13, <2>7, <2>9 DEF FindInv, DirTypeOK, Finding, Searching
<1> QED
  BY <1>4, <1>6, <1>7, <1>9, <1>11, <1>12, <1>13 DEF D!FindPath

(* The search of the part in the cache. *)
LEMMA FindSearches == ASSUME FindInv, D!Search PROVE FindInv'
<1>1. /\ dirPc = "cached" /\ op.name # D!NoFile /\ op' = op /\ cache' = cache /\ failed' = failed
      /\ rest' = rest
  BY DEF D!Search
<1>2. CacheIs(cache) /\ op.name # "self" /\ DirTypeOK
  BY DEF FindInv, DirTypeOK
<1>3. /\ cache.at = D!DirAt(cache.path) /\ D!SectorNum(cache) \in Nat /\ cache.at \in Dirs
      /\ cache.offset \in Nat /\ cache.size \in Nat /\ D!SectorNum(cache) = Len(Disc[cache.at])
      /\ cache.offset + cache.size <= D!SectorNum(cache) /\ MaxCache \in Nat /\ MaxCache > 0
  BY <1>2, CacheFacts
<1>4. ~failed => /\ cache.valid /\ cache.path = op.path /\ Filled(cache)
                 /\ NoFileIn(cache.at, cache.offset, op.name)
  BY <1>1 DEF FindInv, Searching
<1>5. CacheIs(cache)'
  BY <1>1, <1>2 DEF CacheIs, Filled, D!SectorNum
<1>6. ASSUME dirPc' = "idle", ~failed => Answered(op.path, op.name, found')
      PROVE  FindInv'
  <2>1. D!FindTrue'
    BY <1>1, <1>6 DEF D!FindTrue, Answered
  <2> QED
    BY <1>1, <1>2, <1>5, <1>6, <2>1 DEF FindInv, DirTypeOK, Finding, Searching
<1>7. CASE dirPc' = "idle" /\ \E e \in D!DirEntries(cache) : e.name = op.name /\ found' = e.at
  <2>1. PICK e \in D!DirEntries(cache) : e.name = op.name /\ found' = e.at
    BY <1>7
  <2>2. ASSUME ~failed PROVE Answered(op.path, op.name, found')
    <3>1. D!DirAt(op.path) = cache.at
      BY <1>3, <1>4, <2>2
    <3>2. e \in D!All(cache.at)
      BY <1>2, <2>1, CachedIn
    <3>3. Answered(op.path, op.name, e.at)
      BY <1>2, <1>3, <2>1, <3>1, <3>2, AnsweredFound
    <3> QED
      BY <2>1, <3>3
  <2> QED
    BY <1>6, <1>7, <2>2
<1>8. CASE ~(cache.size > 0) /\ dirPc' = "idle" /\ found' = "no"
  <2>1. ASSUME ~failed PROVE Answered(op.path, op.name, found')
    <3>1. cache.size = D!Fill(D!SectorNum(cache) - cache.offset)
      BY <1>4, <2>1 DEF Filled
    <3>2. cache.offset = Len(Disc[cache.at])
      BY <1>3, <1>8, <3>1 DEF D!Fill
    <3>3. D!DirAt(op.path) = cache.at
      BY <1>3, <1>4, <2>1
    <3>4. NoFileIn(D!DirAt(op.path), Len(Disc[D!DirAt(op.path)]), op.name)
      BY <1>4, <2>1, <3>2, <3>3
    <3> QED
      BY <1>3, <1>8, <3>3, <3>4, AnsweredNo
  <2> QED
    BY <1>6, <1>8, <2>1
<1>9. CASE ~(\E e \in D!DirEntries(cache) : e.name = op.name) /\ dirPc' = "next"
  <2>1. ASSUME ~failed PROVE NoFileIn(cache.at, cache.offset + cache.size, op.name)
    BY <1>2, <1>4, <1>9, <2>1, CachedIn DEF NoFileIn
  <2>2. NoFileIn(cache.at, cache.offset + cache.size, op.name)'
          <=> NoFileIn(cache.at, cache.offset + cache.size, op.name)
    BY <1>1 DEF NoFileIn
  <2>3. Searching'
    BY <1>1, <1>4, <1>9, <2>1, <2>2 DEF Searching
  <2> QED
    BY <1>1, <1>2, <1>5, <1>9, <2>3 DEF FindInv, DirTypeOK, Finding, D!FindTrue
<1> QED
  BY <1>7, <1>8, <1>9 DEF D!Search

(* The part after the one in the cache. *)
LEMMA NextIs ==
  ASSUME CacheIs(cache)
  PROVE  LET b == D!Chunk(cache, D!NextChunk)
         IN /\ CacheIs(b) /\ Filled(b) /\ b.offset = cache.offset + cache.size
            /\ b.path = cache.path /\ b.at = cache.at /\ b.valid = cache.valid
<1>1. PICK a : a = cache.offset + cache.size /\ a \in Nat /\ a <= D!SectorNum(cache)
  BY CacheFacts
<1>2. D!Chunk(cache, D!NextChunk) = D!Chunk(cache, a)
  BY <1>1 DEF D!NextChunk
<1>3. cache \in Caches /\ cache.at = D!DirAt(cache.path)
  BY CacheFacts
<1> QED
  BY <1>1, <1>2, <1>3, ChunkIs

(* CDVD_Cache_Dir with CACHE_NEXT. *)
LEMMA FindNextPart == ASSUME FindInv, D!Cache_Next PROVE FindInv'
<1>1. dirPc = "next" /\ op' = op /\ op.name # D!NoFile
  BY DEF D!Cache_Next, FindInv, Searching
<1>2. CacheIs(cache) /\ DirTypeOK
  BY DEF FindInv
<1>3. ~failed => /\ cache.valid /\ cache.path = op.path
                 /\ NoFileIn(cache.at, cache.offset + cache.size, op.name)
  BY <1>1 DEF FindInv, Searching
<1>4. PICK b : b = D!Chunk(cache, D!NextChunk)
  OBVIOUS
<1>5. /\ CacheIs(b) /\ Filled(b) /\ b.offset = cache.offset + cache.size
      /\ b.path = cache.path /\ b.at = cache.at /\ b.valid = cache.valid
  BY <1>2, <1>4, NextIs
<1>6. CASE cache.valid /\ cache' = b /\ dirPc' = "cached" /\ failed' = failed
  <2>1. CacheIs(cache)' /\ Filled(cache)'
    BY <1>5, <1>6 DEF CacheIs, Filled, D!SectorNum
  <2>2. ASSUME ~failed PROVE NoFileIn(cache.at, cache.offset, op.name)'
    <3>1. NoFileIn(cache'.at, cache'.offset, op'.name)
      BY <1>1, <1>3, <1>5, <1>6, <2>2
    <3> QED
      BY <3>1 DEF NoFileIn
  <2>3. cache'.valid /\ (~failed => cache'.path = op'.path)
    BY <1>1, <1>3, <1>5, <1>6
  <2>4. Searching'
    BY <1>1, <1>6, <2>1, <2>2, <2>3 DEF Searching
  <2> QED
    BY <1>1, <1>2, <1>6, <2>1, <2>4 DEF FindInv, DirTypeOK, Finding, D!FindTrue
<1>7. CASE D!Fail(b) /\ dirPc' \in {"cached", "start"}
  <2>1. cache' = [b EXCEPT !.valid = FALSE] /\ failed'
    BY <1>7 DEF D!Fail
  <2>2. CacheIs([b EXCEPT !.valid = FALSE])
    BY <1>5, FailIs
  <2>3. CacheIs(cache)'
    <3>1. CacheIs(cache')
      BY <2>1, <2>2
    <3> QED
      BY <3>1 DEF CacheIs, Filled, D!SectorNum
  <2> QED
    BY <1>1, <1>2, <1>7, <2>1, <2>3 DEF FindInv, DirTypeOK, Finding, Searching, D!FindTrue
<1>8. CASE dirPc' = "start" /\ UNCHANGED <<cache, failed>>
  BY <1>1, <1>2, <1>8 DEF FindInv, DirTypeOK, Finding, Searching, CacheIs, Filled, D!SectorNum, D!FindTrue
<1>9. \/ cache.valid /\ cache' = b /\ dirPc' = "cached" /\ failed' = failed
      \/ D!Fail(b) /\ dirPc' = IF cache'.size = 0 THEN "cached" ELSE "start"
      \/ dirPc' = "start" /\ UNCHANGED <<cache, failed>>
  BY <1>4, Zenon DEF D!Cache_Next
<1> QED
  BY <1>6, <1>7, <1>8, <1>9

(* A step between two calls that at most replaces the cache. *)
LEMMA FindRests ==
  ASSUME FindInv, dirPc = "idle", UNCHANGED <<dirPc, op, found, failed>>, CacheIs(cache')
  PROVE  FindInv'
<1>1. CacheIs(cache)'
  BY DEF CacheIs, Filled, D!SectorNum
<1>2. D!FindTrue'
  <2>1. D!FindTrue
    BY DEF FindInv
  <2> QED
    BY <2>1 DEF D!FindTrue
<1> QED
  BY <1>1, <1>2 DEF FindInv, DirTypeOK, Finding, Searching

(* ISO_DRead reads the next part, or after a failure the beginning of the root. *)
LEMMA DReadIs ==
  ASSUME CacheIs(cache)
  PROVE  /\ CacheIs(D!DReadChunk) /\ Filled(D!DReadChunk)
<1>1. CASE cache.valid
  BY <1>1, NextIs DEF D!DReadChunk
<1>2. CASE ~cache.valid
  <2>1. PICK b : b = [cache EXCEPT !.path = <<>>, !.at = D!Root]
    OBVIOUS
  <2>2. cache \in Caches /\ D!Root \in Dirs
    BY CacheFacts, DirAssumption DEF Dirs
  <2>3. b \in Caches /\ b.path = <<>> /\ b.at = D!Root
    BY <2>1, <2>2, AtRoot
  <2>4. PICK a : a = [b EXCEPT !.valid = TRUE]
    OBVIOUS
  <2>5. a \in Caches
    BY <2>3, <2>4, Zenon DEF Caches
  <2>6. a.path = <<>> /\ a.at = D!Root
    BY <2>3, <2>4 DEF Caches
  <2>7. a = [cache EXCEPT !.path = <<>>, !.at = D!Root, !.valid = TRUE]
    BY <2>1, <2>4
  <2>8. a.at = D!DirAt(a.path)
    BY <2>6, DirAtRoot
  <2>9. D!SectorNum(a) \in Nat /\ 0 \in Nat /\ 0 <= D!SectorNum(a)
    BY <2>2, <2>6, OnDisc DEF D!SectorNum
  <2>10. CacheIs(D!Chunk(a, 0)) /\ Filled(D!Chunk(a, 0))
    BY <2>5, <2>8, <2>9, ChunkIs
  <2> QED
    BY <1>2, <2>7, <2>10 DEF D!DReadChunk
<1> QED
  BY <1>1, <1>2

(* ISO_DRead. *)
LEMMA FindReads == ASSUME FindInv, D!ISO_DRead PROVE FindInv'
<1>1. dirPc = "idle" /\ UNCHANGED <<dirPc, op, found, failed>>
  BY DEF D!ISO_DRead
<1>2. CacheIs(cache) /\ CacheIs(D!DReadChunk) /\ CacheIs([D!DReadChunk EXCEPT !.valid = FALSE])
  BY DReadIs, FailIs DEF FindInv
<1>3. cache' = cache \/ cache' = D!DReadChunk \/ cache' = [D!DReadChunk EXCEPT !.valid = FALSE]
  BY DEF D!ISO_DRead
<1>4. CacheIs(cache')
  BY <1>2, <1>3
<1> QED
  BY <1>1, <1>4, FindRests

(* CDVDRpc_FlushCache. *)
LEMMA FindFlushed == ASSUME FindInv, D!CdFlushCache PROVE FindInv'
<1>1. /\ dirPc = "idle" /\ UNCHANGED <<dirPc, op, found, failed>>
      /\ cache' = [path |-> <<>>, valid |-> FALSE, at |-> D!Root, offset |-> 0, size |-> 0]
  BY DEF D!CdFlushCache
<1>2. CacheIs(cache')
  <2>1. D!Root \in Dirs
    BY DirAssumption DEF Dirs
  <2>2. cache' \in Caches
    BY <1>1, <2>1 DEF Caches
  <2>3. D!SectorNum(cache') \in Nat
    BY <1>1, <2>1, OnDisc DEF D!SectorNum
  <2> QED
    BY <1>1, <2>2, <2>3, DirAtRoot DEF CacheIs
<1> QED
  BY <1>1, <1>2, FindRests

(* The end of ISO_DOpen. *)
LEMMA FindOpened == ASSUME FindInv, D!ISO_DOpen_Done PROVE FindInv'
<1>1. /\ dirPc = "cached" /\ op.name = D!NoFile /\ dirPc' = "idle"
      /\ UNCHANGED <<cache, op, rest, failed>>
  BY DEF D!ISO_DOpen_Done
<1> QED
  BY <1>1 DEF FindInv, DirTypeOK, Finding, Searching, CacheIs, Filled, D!SectorNum, D!FindTrue

(* A step of another module. *)
LEMMA FindStays == ASSUME FindInv, UNCHANGED dirvars PROVE FindInv'
<1>1. CacheIs(cache)'
  BY DEF FindInv, CacheIs, Filled, D!SectorNum, dirvars
<1>2. Finding'
  BY DEF FindInv, Finding, Filled, D!SectorNum, NoDir, dirvars
<1>3. Searching'
  BY DEF FindInv, Searching, Filled, D!SectorNum, NoFileIn, dirvars
<1>4. D!FindTrue'
  <2>1. D!FindTrue
    BY DEF FindInv
  <2> QED
    BY <2>1 DEF D!FindTrue, dirvars
<1> QED
  BY <1>1, <1>2, <1>3, <1>4 DEF FindInv, DirTypeOK, dirvars

(* Every step of the directories keeps what the search relies on. *)
LEMMA FindNextInv == ASSUME FindInv, D!Next PROVE FindInv'
<1>1. CASE D!ISO_DClose
  <2>1. dirPc = "idle" /\ UNCHANGED <<dirPc, op, found, failed, cache>> /\ CacheIs(cache)
    BY <1>1 DEF D!ISO_DClose, FindInv
  <2>2. CacheIs(cache')
    BY <2>1
  <2> QED
    BY <2>1, <2>2, FindRests
<1> QED
  BY <1>1, FindBegun, ListBegun, FindStarts, FindGoesOn, FindSearches, FindNextPart, FindOpened,
     FindReads, FindFlushed DEF D!Next, D!Step

-----------------------------------------------------------------------------
(* CdfsDir: the listing of a directory *)

(* What Upto computes for the first m sectors of directory d. *)
Read(d, g, m) == g = [n \in 0..m |-> IF n = 0 THEN <<>> ELSE g[n - 1] \o Disc[d][n]]

(* Any number of sectors can be put together. *)
LEMMA ReadExists ==
  ASSUME NEW d, NEW m \in Nat
  PROVE  \E g : Read(d, g, m)
<1> DEFINE T == {k \in Nat : ~\E g : Read(d, g, k)}
<1> SUFFICES ASSUME T # {} PROVE FALSE
  OBVIOUS
<1>1. PICK k \in T : \A l \in T : k <= l
  BY Minimum
<1>2. k \in Nat /\ ~\E g : Read(d, g, k)
  BY <1>1
<1>3. k # 0
  <2>1. Read(d, [n \in 0..0 |-> <<>>], 0)
    BY DEF Read
  <2> QED
    BY <1>2, <2>1
<1>4. k - 1 \in Nat /\ k - 1 \notin T
  BY <1>1, <1>2, <1>3
<1>5. PICK g : Read(d, g, k - 1)
  BY <1>4
<1>6. PICK h : h = [n \in 0..k |-> IF n = k THEN g[k - 1] \o Disc[d][k] ELSE g[n]]
  OBVIOUS
<1>7. ASSUME NEW n \in 0..k
      PROVE  h[n] = IF n = 0 THEN <<>> ELSE h[n - 1] \o Disc[d][n]
  <2>1. CASE n = k
    <3>1. h[n] = g[k - 1] \o Disc[d][k]
      BY <1>6, <2>1
    <3>2. h[k - 1] = g[k - 1]
      BY <1>3, <1>4, <1>6
    <3> QED
      BY <1>3, <2>1, <3>1, <3>2
  <2>2. CASE n # k
    <3>1. n \in 0..(k - 1) /\ h[n] = g[n]
      BY <1>2, <1>6, <2>2
    <3>2. g[n] = IF n = 0 THEN <<>> ELSE g[n - 1] \o Disc[d][n]
      BY <1>5, <3>1 DEF Read
    <3>3. n # 0 => h[n - 1] = g[n - 1]
      BY <1>2, <1>6, <3>1
    <3> QED
      BY <3>1, <3>2, <3>3
  <2> QED
    BY <2>1, <2>2
<1>8. Read(d, h, k)
  <2>1. h = [n \in 0..k |-> h[n]]
    BY <1>6
  <2> QED
    BY <1>7, <2>1 DEF Read
<1> QED
  BY <1>2, <1>8

(* Upto adds one sector after the other. *)
LEMMA UptoIs ==
  ASSUME NEW d \in Dirs
  PROVE  /\ D!Upto(d, 0) = <<>>
         /\ \A n \in 1..Len(Disc[d]) : D!Upto(d, n) = D!Upto(d, n - 1) \o Disc[d][n]
<1>1. PICK h : h = CHOOSE g : g = [n \in 0..Len(Disc[d]) |->
                                     IF n = 0 THEN <<>> ELSE g[n - 1] \o Disc[d][n]]
  OBVIOUS
<1>2. \A n : D!Upto(d, n) = h[n]
  BY <1>1, Zenon DEF D!Upto
<1>3. \E g : g = [n \in 0..Len(Disc[d]) |-> IF n = 0 THEN <<>> ELSE g[n - 1] \o Disc[d][n]]
  <2>1. Len(Disc[d]) \in Nat
    BY OnDisc
  <2>2. PICK g : Read(d, g, Len(Disc[d]))
    BY <2>1, ReadExists
  <2> QED
    BY <2>2, Zenon DEF Read
<1>4. h = [n \in 0..Len(Disc[d]) |-> IF n = 0 THEN <<>> ELSE h[n - 1] \o Disc[d][n]]
  BY <1>1, <1>3, Zenon
<1>5. Len(Disc[d]) \in Nat
  BY OnDisc
<1>6. h[0] = <<>>
  BY <1>4, <1>5
<1>7. ASSUME NEW n \in 1..Len(Disc[d]) PROVE h[n] = h[n - 1] \o Disc[d][n]
  BY <1>4, <1>5
<1> QED
  BY <1>2, <1>6, <1>7

(* Entries put together are a sequence of entries. *)
LEMMA UptoSeq ==
  ASSUME NEW d \in Dirs, NEW m \in 0..Len(Disc[d])
  PROVE  D!Upto(d, m) \in Seq(Entry) /\ Len(D!Upto(d, m)) \in Nat
<1> DEFINE T == {k \in 0..Len(Disc[d]) : D!Upto(d, k) \notin Seq(Entry)}
<1>1. T \in SUBSET Nat /\ Len(Disc[d]) \in Nat
  BY OnDisc
<1>2. ASSUME T # {} PROVE FALSE
  <2>1. PICK k \in T : \A l \in T : k <= l
    BY <1>1, <1>2, Minimum
  <2>2. k \in 0..Len(Disc[d]) /\ D!Upto(d, k) \notin Seq(Entry)
    BY <2>1
  <2>3. k # 0
    <3>1. <<>> \in Seq(Entry)
      OBVIOUS
    <3> QED
      BY <2>2, <3>1, UptoIs
  <2>4. k \in 1..Len(Disc[d]) /\ k - 1 \in 0..Len(Disc[d]) /\ k - 1 \notin T
    BY <1>1, <2>1, <2>2, <2>3
  <2>5. D!Upto(d, k - 1) \in Seq(Entry)
    BY <2>4
  <2>6. Disc[d][k] \in Seq(Entry)
    BY <2>4, OnDisc
  <2>7. D!Upto(d, k) = D!Upto(d, k - 1) \o Disc[d][k]
    BY <2>4, UptoIs
  <2> QED
    BY <2>2, <2>5, <2>6, <2>7, ConcatProperties
<1>3. D!Upto(d, m) \in Seq(Entry)
  BY <1>2
<1> QED
  BY <1>3

(* What the first sectors hold comes first in what more sectors hold. *)
LEMMA UptoPrefix ==
  ASSUME NEW d \in Dirs, NEW a \in Nat, NEW b \in Nat, a <= b, b <= Len(Disc[d])
  PROVE  /\ Len(D!Upto(d, a)) <= Len(D!Upto(d, b))
         /\ \A j \in 1..Len(D!Upto(d, a)) : D!Upto(d, b)[j] = D!Upto(d, a)[j]
<1> DEFINE Longer(k) == /\ Len(D!Upto(d, a)) <= Len(D!Upto(d, k))
                        /\ \A j \in 1..Len(D!Upto(d, a)) : D!Upto(d, k)[j] = D!Upto(d, a)[j]
           T == {k \in a..Len(Disc[d]) : ~Longer(k)}
<1>1. T \in SUBSET Nat /\ Len(Disc[d]) \in Nat
  BY OnDisc
<1>2. ASSUME T # {} PROVE FALSE
  <2>1. PICK k \in T : \A l \in T : k <= l
    BY <1>1, <1>2, Minimum
  <2>2. k \in a..Len(Disc[d]) /\ ~Longer(k)
    BY <2>1
  <2>3. k # a
    <3>1. a \in 0..Len(Disc[d])
      BY <1>1
    <3>2. Len(D!Upto(d, a)) \in Nat
      BY <3>1, UptoSeq
    <3> QED
      BY <2>2, <3>2
  <2>4. k \in 1..Len(Disc[d]) /\ k - 1 \in a..Len(Disc[d]) /\ k - 1 \notin T
    BY <1>1, <2>1, <2>2, <2>3
  <2>5. Longer(k - 1)
    BY <2>4
  <2>6. PICK s, t, w : s = D!Upto(d, a) /\ t = D!Upto(d, k - 1) /\ w = Disc[d][k]
    OBVIOUS
  <2>7. s \in Seq(Entry) /\ t \in Seq(Entry) /\ w \in Seq(Entry)
    <3>1. a \in 0..Len(Disc[d]) /\ k - 1 \in 0..Len(Disc[d])
      BY <1>1, <2>4
    <3> QED
      BY <2>4, <2>6, <3>1, UptoSeq, OnDisc
  <2>8. D!Upto(d, k) = t \o w
    BY <2>4, <2>6, UptoIs
  <2>9. Len(s) <= Len(t) /\ \A j \in 1..Len(s) : t[j] = s[j]
    BY <2>5, <2>6
  <2>10. Len(s) <= Len(t \o w) /\ \A j \in 1..Len(s) : (t \o w)[j] = s[j]
    BY ONLY <2>7, <2>9
  <2> QED
    BY <2>2, <2>6, <2>8, <2>10
<1>3. b \in a..Len(Disc[d])
  BY <1>1
<1>4. Longer(b)
  BY <1>2, <1>3
<1> QED
  BY <1>4

(* The entries for the directory itself and for its parent are in its first sector. *)
LEMMA UptoFirst ==
  ASSUME NEW d \in Dirs, NEW b \in Nat, b >= 1, b <= Len(Disc[d])
  PROVE  Len(D!Upto(d, b)) >= 2
<1>1. Len(Disc[d]) \in Nat /\ Disc[d][1] \in Seq(Entry) /\ Len(Disc[d][1]) > 1
  BY OnDisc
<1>2. 1 \in 1..Len(Disc[d]) /\ 1 - 1 = 0
  BY <1>1
<1>3. D!Upto(d, 1) = <<>> \o Disc[d][1]
  BY <1>2, UptoIs
<1>4. D!Upto(d, 1) = Disc[d][1]
  BY <1>1, <1>3
<1>5. Len(D!Upto(d, 1)) <= Len(D!Upto(d, b))
  BY UptoPrefix
<1>6. Len(D!Upto(d, b)) \in Nat /\ Len(Disc[d][1]) \in Nat
  BY <1>1, UptoSeq
<1> QED
  BY <1>1, <1>4, <1>5, <1>6

(* All entries of a directory in order, and how many are before the part in the cache. *)
Whole(d) == D!Upto(d, Len(Disc[d]))
Before(c) == Len(D!Upto(c.at, c.offset))

(* The part in the cache is where its offset says in the whole directory. *)
LEMMA CachedIs ==
  ASSUME NEW c, CacheIs(c)
  PROVE  /\ Before(c) \in Nat /\ Len(D!Cached(c)) \in Nat /\ Len(Whole(c.at)) \in Nat
         /\ Before(c) + Len(D!Cached(c)) = Len(D!Upto(c.at, c.offset + c.size))
         /\ Before(c) + Len(D!Cached(c)) <= Len(Whole(c.at))
         /\ \A j \in 1..Len(D!Cached(c)) : /\ D!Cached(c)[j] = Whole(c.at)[Before(c) + j]
                                            /\ D!Cached(c)[j].name \in STRING
<1>1. PICK d, a, b, n : d = c.at /\ a = c.offset /\ b = c.offset + c.size /\ n = Len(Disc[d])
  OBVIOUS
<1>2. d \in Dirs /\ a \in Nat /\ b \in Nat /\ a <= b /\ c.size \in Nat
  BY <1>1 DEF CacheIs, Caches
<1>3. n \in Nat /\ b <= n
  BY <1>1, <1>2, OnDisc DEF CacheIs, D!SectorNum
<1>4. PICK s, t, w : s = D!Upto(d, a) /\ t = D!Upto(d, b) /\ w = D!Upto(d, n)
  OBVIOUS
<1>5. s \in Seq(Entry) /\ t \in Seq(Entry) /\ w \in Seq(Entry)
  <2>1. a \in 0..Len(Disc[d]) /\ b \in 0..Len(Disc[d]) /\ n \in 0..Len(Disc[d])
    BY <1>1, <1>2, <1>3
  <2> QED
    BY <1>2, <1>4, <2>1, UptoSeq
<1>6. Len(s) <= Len(t) /\ Len(t) <= Len(w) /\ \A j \in 1..Len(t) : w[j] = t[j]
  <2>1. Len(s) <= Len(t)
    BY <1>1, <1>2, <1>3, <1>4, UptoPrefix
  <2>2. Len(t) <= Len(w) /\ \A j \in 1..Len(t) : w[j] = t[j]
    BY <1>1, <1>2, <1>3, <1>4, UptoPrefix
  <2> QED
    BY <2>1, <2>2
<1>7. PICK r : r = SubSeq(t, Len(s) + 1, Len(t))
  OBVIOUS
<1>8. /\ Len(s) \in Nat /\ Len(r) \in Nat /\ Len(w) \in Nat /\ Len(s) + Len(r) = Len(t)
      /\ Len(s) + Len(r) <= Len(w)
  BY ONLY <1>5, <1>6, <1>7
<1>9. ASSUME NEW j \in 1..Len(r) PROVE r[j] = w[Len(s) + j] /\ r[j] \in Entry
  <2>1. Len(s) + j \in 1..Len(t) /\ r[j] = t[Len(s) + j] /\ t[Len(s) + j] \in Entry
    BY ONLY <1>5, <1>7, <1>8, <1>9
  <2> QED
    BY <1>6, <2>1
<1>10. D!Cached(c) = r
  BY <1>1, <1>4, <1>7 DEF D!Cached
<1>11. Before(c) = Len(s) /\ Whole(c.at) = w
  BY <1>1, <1>4 DEF Before, Whole
<1>12. \A j \in 1..Len(r) : r[j].name \in STRING
  BY <1>9 DEF Entry
<1> QED
  BY <1>1, <1>4, <1>8, <1>9, <1>10, <1>11, <1>12

(* The first entry a listing returns. *)
First(p) == IF p = <<>> THEN 3 ELSE 2

(* Entry q of the cache c is the next one of the listing l, which has every entry before it. *)
Lists(c, q, l) ==
  /\ c.valid /\ c.path = l.path /\ q >= 1 /\ q <= Len(D!Cached(c)) + 1
  /\ Len(l.names) = Before(c) + q - First(l.path)
  /\ \A j \in 1..Len(l.names) : l.names[j] = Whole(c.at)[j + First(l.path) - 1].name
  /\ l.ended => c.offset + c.size = D!SectorNum(c) /\ q = Len(D!Cached(c)) + 1

Listings == [names : Seq(STRING), sure : BOOLEAN, ended : BOOLEAN, path : Seq(STRING)]

(* A listing that can be trusted goes on where it stopped. *)
ListInv ==
  /\ listing \in Listings /\ pos \in Nat
  /\ listing.sure => dirPc = "idle" /\ pos > 0 /\ Lists(cache, pos, listing)

(* A listing at its end has the whole directory. *)
LEMMA ListWholeHolds == ASSUME FindInv, ListInv PROVE D!ListWhole
<1> SUFFICES ASSUME listing.ended, listing.sure PROVE D!ListWhole
  BY DEF D!ListWhole
<1>1. CacheIs(cache) /\ Lists(cache, pos, listing) /\ pos \in Nat /\ listing.names \in Seq(STRING)
  BY DEF FindInv, ListInv, Listings
<1>2. cache.at = D!DirAt(listing.path) /\ D!SectorNum(cache) = Len(Disc[cache.at])
  BY <1>1, CacheFacts DEF Lists
<1>3. /\ Before(cache) \in Nat /\ Len(D!Cached(cache)) \in Nat
      /\ Before(cache) + Len(D!Cached(cache)) = Len(D!Upto(cache.at, cache.offset + cache.size))
  BY <1>1, CachedIs
<1>4. cache.offset + cache.size = D!SectorNum(cache) /\ pos = Len(D!Cached(cache)) + 1
  BY <1>1 DEF Lists
<1>5. Before(cache) + pos = Len(Whole(cache.at)) + 1
  BY <1>2, <1>3, <1>4 DEF Whole
<1> DEFINE d == D!DirAt(listing.path)
           all == D!Upto(d, Len(Disc[d]))
           first == IF listing.path = <<>> THEN 3 ELSE 2
<1>6. all = Whole(cache.at) /\ first = First(listing.path) /\ first \in {2, 3}
  BY <1>2 DEF Whole, First
<1>7. PICK t : t = listing.names
  OBVIOUS
<1> HIDE DEF all, first
<1>8. /\ t \in Seq(STRING) /\ Len(t) = Before(cache) + pos - first
      /\ \A j \in 1..Len(t) : t[j] = all[j + first - 1].name
  BY <1>1, <1>6, <1>7 DEF Lists
<1>9. Len(t) = Len(all) - first + 1
  BY <1>1, <1>3, <1>4, <1>5, <1>6, <1>8
<1>10. t = [j \in 1..Len(t) |-> t[j]]
  BY <1>8
<1>11. t = [j \in 1..(Len(all) - first + 1) |-> all[j + first - 1].name]
  BY <1>8, <1>9, <1>10
<1>12. listing.names = [j \in 1..(Len(all) - first + 1) |-> all[j + first - 1].name]
  BY <1>7, <1>11
<1> QED
  BY <1>12, Zenon DEF D!ListWhole, all, first

(* No listing at first. *)
LEMMA ListInitInv == D!Init => ListInv
<1> SUFFICES ASSUME D!Init PROVE ListInv
  OBVIOUS
<1>1. listing = [names |-> <<>>, sure |-> FALSE, ended |-> FALSE, path |-> <<>>] /\ pos = 0
  BY DEF D!Init
<1> QED
  BY <1>1 DEF ListInv, Listings

(* A listing that is no longer trusted, or none. *)
LEMMA ListOff ==
  ASSUME listing' \in Listings, ~listing'.sure, pos' \in Nat
  PROVE  ListInv'
BY DEF ListInv, Listings

(* Untrusted ends the trust in a listing. *)
LEMMA UntrustedIs ==
  ASSUME ListInv
  PROVE  D!Untrusted \in Listings /\ ~D!Untrusted.sure
<1>1. <<>> \in Seq(STRING)
  OBVIOUS
<1> QED
  BY <1>1 DEF ListInv, Listings, D!Untrusted

(* The directory is open. *)
LEMMA ListOpened == ASSUME FindInv, ListInv, D!ISO_DOpen_Done PROVE ListInv'
<1>1. /\ dirPc = "cached" /\ op.name = D!NoFile /\ dirPc' = "idle" /\ cache' = cache
      /\ pos' = IF cache.path = <<>> THEN 3 ELSE 2
      /\ listing' = [names |-> <<>>, sure |-> TRUE, ended |-> FALSE, path |-> op.path]
  BY DEF D!ISO_DOpen_Done
<1>2. CacheIs(cache) /\ op.path \in Seq(STRING)
  BY DEF FindInv, DirTypeOK, Asked
<1>3. cache.valid /\ cache.path = op.path /\ Filled(cache) /\ cache.offset = 0
  BY <1>1 DEF FindInv, Searching
<1>4. /\ D!SectorNum(cache) \in Nat /\ D!SectorNum(cache) > 0 /\ MaxCache \in Nat /\ MaxCache > 0
      /\ cache.at \in Dirs /\ D!SectorNum(cache) = Len(Disc[cache.at])
  BY <1>2, CacheFacts
<1>5. cache.size \in Nat /\ cache.size >= 1 /\ cache.size <= Len(Disc[cache.at])
  <2>1. cache.size = D!Fill(D!SectorNum(cache) - cache.offset)
    BY <1>3 DEF Filled
  <2> QED
    BY <1>3, <1>4, <2>1 DEF D!Fill
<1>6. Len(D!Upto(cache.at, cache.size)) >= 2
  BY <1>4, <1>5, UptoFirst
<1>7. Before(cache) = 0
  <2>1. D!Upto(cache.at, 0) = <<>> /\ Len(<<>>) = 0
    BY <1>4, UptoIs
  <2> QED
    BY <1>3, <2>1, Zenon DEF Before
<1>8. Len(D!Cached(cache)) \in Nat /\ Len(D!Cached(cache)) >= 2
  <2>1. Before(cache) + Len(D!Cached(cache)) = Len(D!Upto(cache.at, cache.offset + cache.size))
        /\ Len(D!Cached(cache)) \in Nat
    BY <1>2, CachedIs
  <2>2. cache.offset + cache.size = cache.size
    BY <1>3, <1>5
  <2> QED
    BY <1>6, <1>7, <2>1, <2>2
<1>9. PICK l : l = [names |-> <<>>, sure |-> TRUE, ended |-> FALSE, path |-> op.path]
  OBVIOUS
<1>10. PICK q : q = First(op.path)
  OBVIOUS
<1>11. q \in {2, 3}
  BY <1>10 DEF First
<1>12. l \in Listings
  BY <1>2, <1>9 DEF Listings
<1>13. l.names = <<>> /\ l.path = op.path /\ l.ended = FALSE /\ Len(l.names) = 0
  BY <1>9
<1>14. Lists(cache, q, l)
  <2>1. First(l.path) = q
    BY <1>10, <1>13
  <2> QED
    BY <1>3, <1>7, <1>8, <1>11, <1>13, <2>1 DEF Lists
<1>15. pos' = q /\ listing' = l
  BY <1>1, <1>3, <1>9, <1>10 DEF First
<1>16. Lists(cache', pos', listing')
  BY <1>1, <1>14, <1>15
<1>17. Lists(cache, pos, listing)'
  BY <1>16 DEF Lists, Before, Whole, D!SectorNum, D!Cached
<1>18. listing' \in Listings /\ pos' \in Nat /\ pos' > 0
  BY <1>11, <1>12, <1>15
<1> QED
  BY <1>1, <1>17, <1>18 DEF ListInv, Listings

(* ISO_DRead returns the next entry. *)
LEMMA ListsOne ==
  ASSUME NEW c, CacheIs(c), NEW q \in Nat, NEW l \in Listings, ~l.ended, Lists(c, q, l),
         q <= Len(D!Cached(c))
  PROVE  LET m == [l EXCEPT !.names = Append(@, D!Cached(c)[q].name)]
         IN  m \in Listings /\ Lists(c, q + 1, m)
<1>1. PICK x : x = D!Cached(c)[q].name
  OBVIOUS
<1>2. /\ Before(c) \in Nat /\ Len(D!Cached(c)) \in Nat /\ x \in STRING
      /\ x = Whole(c.at)[Before(c) + q].name
  <2>1. Before(c) \in Nat /\ Len(D!Cached(c)) \in Nat
    BY CachedIs
  <2>2. q \in 1..Len(D!Cached(c))
    BY <2>1 DEF Lists
  <2> QED
    BY <1>1, <2>1, <2>2, CachedIs
<1>3. PICK s, t, w, first : /\ s = l.names /\ t = Append(s, x) /\ w = Whole(c.at)
                            /\ first = First(l.path)
  OBVIOUS
<1>4. /\ s \in Seq(STRING) /\ Len(s) = Before(c) + q - first /\ first \in {2, 3} /\ q >= 1
      /\ \A j \in 1..Len(s) : s[j] = w[j + first - 1].name
  BY <1>3 DEF Lists, Listings, First
<1>5. t \in Seq(STRING) /\ Len(t) = Len(s) + 1 /\ t[Len(s) + 1] = x /\ Len(s) \in Nat
      /\ \A j \in 1..Len(s) : t[j] = s[j]
  <2>1. t \in Seq(STRING) /\ Len(t) = Len(s) + 1 /\ t[Len(s) + 1] = x
        /\ \A j \in 1..Len(s) : t[j] = s[j]
    BY <1>2, <1>3, <1>4, AppendProperties
  <2> QED
    BY <1>4, <2>1
<1>6. ASSUME NEW j \in 1..Len(t) PROVE t[j] = w[j + first - 1].name
  <2>1. CASE j \in 1..Len(s)
    BY <1>4, <1>5, <2>1
  <2>2. CASE j = Len(s) + 1
    <3>1. j + first - 1 = Before(c) + q
      BY <1>2, <1>4, <2>2
    <3> QED
      BY <1>2, <1>3, <1>5, <2>2, <3>1
  <2> QED
    BY <1>5, <2>1, <2>2
<1>7. PICK m : m = [l EXCEPT !.names = t]
  OBVIOUS
<1>8. m \in Listings
  BY <1>5, <1>7, Zenon DEF Listings
<1>9. m.names = t /\ m.path = l.path /\ m.ended = l.ended
  BY <1>7 DEF Listings
<1>10. Len(t) = Before(c) + (q + 1) - first
  BY <1>2, <1>4, <1>5
<1>11. Lists(c, q + 1, m)
  <2>1. c.valid /\ c.path = m.path /\ q + 1 >= 1 /\ q + 1 <= Len(D!Cached(c)) + 1
    BY <1>2, <1>9 DEF Lists
  <2> QED
    BY <1>3, <1>6, <1>9, <1>10, <2>1 DEF Lists
<1>12. m = [l EXCEPT !.names = Append(@, D!Cached(c)[q].name)]
  BY <1>1, <1>3, <1>7
<1> QED
  BY <1>8, <1>11, <1>12, Zenon

(* ISO_DRead has the next part read: the entry after the last of the old one is next. *)
LEMMA ListsOn ==
  ASSUME CacheIs(cache), NEW q \in Nat, NEW l \in Listings, ~l.ended, Lists(cache, q, l),
         q > Len(D!Cached(cache))
  PROVE  Lists(D!DReadChunk, 1, l)
<1>1. PICK b : b = D!DReadChunk
  OBVIOUS
<1>2. b = D!Chunk(cache, D!NextChunk) /\ cache.valid
  BY <1>1 DEF D!DReadChunk, Lists
<1>3. /\ CacheIs(b) /\ b.offset = cache.offset + cache.size
      /\ b.path = cache.path /\ b.at = cache.at /\ b.valid = cache.valid
  BY <1>2, NextIs
<1>4. /\ Before(cache) \in Nat /\ Len(D!Cached(cache)) \in Nat
      /\ Before(cache) + Len(D!Cached(cache)) = Len(D!Upto(cache.at, cache.offset + cache.size))
  BY CachedIs
<1>5. Before(b) = Before(cache) + Len(D!Cached(cache))
  BY <1>3, <1>4 DEF Before
<1>6. Before(b) \in Nat /\ Len(D!Cached(b)) \in Nat
  BY <1>3, CachedIs
<1>7. q = Len(D!Cached(cache)) + 1
  BY <1>4 DEF Lists
<1>8. First(l.path) \in {2, 3}
  BY DEF First
<1>9. Before(b) + 1 - First(l.path) = Before(cache) + q - First(l.path)
  BY <1>4, <1>5, <1>7, <1>8
<1>10. Whole(b.at) = Whole(cache.at)
  BY <1>3
<1>11. Lists(b, 1, l)
  <2>1. 1 >= 1 /\ 1 <= Len(D!Cached(b)) + 1
    BY <1>6
  <2>2. Len(l.names) = Before(b) + 1 - First(l.path)
    BY <1>9 DEF Lists
  <2>3. \A j \in 1..Len(l.names) : l.names[j] = Whole(b.at)[j + First(l.path) - 1].name
    BY <1>10 DEF Lists
  <2>4. b.valid /\ b.path = l.path
    BY <1>2, <1>3 DEF Lists
  <2> QED
    BY <2>1, <2>2, <2>3, <2>4 DEF Lists
<1> QED
  BY <1>1, <1>11

(* ISO_DRead. *)
LEMMA ListReads == ASSUME FindInv, ListInv, D!ISO_DRead PROVE ListInv'
<1>1. dirPc = "idle" /\ dirPc' = "idle" /\ pos # 0 /\ ~listing.ended
  BY DEF D!ISO_DRead
<1>2. CacheIs(cache) /\ listing \in Listings /\ pos \in Nat /\ listing.sure \in BOOLEAN
  BY DEF FindInv, ListInv, Listings
<1>3. listing.sure => Lists(cache, pos, listing)
  BY DEF ListInv
<1>4. ASSUME listing' \in Listings, pos' \in Nat, pos' > 0,
             listing'.sure => Lists(cache', pos', listing')
      PROVE  ListInv'
  BY <1>1, <1>4 DEF ListInv, Lists, Before, Whole, D!SectorNum, D!Cached
<1>5. CASE /\ pos <= Len(D!Cached(cache)) /\ listing' = D!Listed(D!Cached(cache)[pos].name)
           /\ pos' = pos + 1 /\ cache' = cache
  <2>1. CASE listing.sure
    <3>1. listing' = [listing EXCEPT !.names = Append(@, D!Cached(cache)[pos].name)]
      BY <1>5, <2>1 DEF D!Listed
    <3>2. listing' \in Listings /\ Lists(cache, pos + 1, listing')
      <4>1. PICK c, q, l : c = cache /\ q = pos /\ l = listing
        OBVIOUS
      <4>2. /\ CacheIs(c) /\ q \in Nat /\ l \in Listings /\ ~l.ended /\ Lists(c, q, l)
            /\ q <= Len(D!Cached(c))
        BY <1>1, <1>2, <1>3, <1>5, <2>1, <4>1
      <4>3. PICK m : m = [l EXCEPT !.names = Append(@, D!Cached(c)[q].name)]
        OBVIOUS
      <4>4. m \in Listings /\ Lists(c, q + 1, m)
        BY <4>2, <4>3, ListsOne, Zenon
      <4> QED
        BY <3>1, <4>1, <4>3, <4>4
    <3> QED
      BY <1>2, <1>4, <1>5, <3>2
  <2>2. CASE ~listing.sure
    <3>1. listing' = listing
      BY <1>5, <2>2 DEF D!Listed
    <3> QED
      BY <1>2, <1>4, <1>5, <2>2, <3>1
  <2> QED
    BY <2>1, <2>2
<1>6. CASE /\ pos > Len(D!Cached(cache)) /\ cache' = D!DReadChunk /\ pos' = 1 /\ listing' = listing
  <2>1. listing.sure => Lists(D!DReadChunk, 1, listing)
    BY <1>1, <1>2, <1>3, <1>6, ListsOn
  <2> QED
    BY <1>2, <1>4, <1>6, <2>1
<1>7. CASE listing' = D!Untrusted /\ pos' = pos
  BY <1>2, <1>7, UntrustedIs, ListOff
<1>8. CASE /\ pos > Len(D!Cached(cache)) /\ D!NextChunk >= D!SectorNum(cache)
           /\ listing' = [listing EXCEPT !.ended = TRUE] /\ cache' = cache /\ pos' = pos
  <2>1. PICK l : l = [listing EXCEPT !.ended = TRUE]
    OBVIOUS
  <2>2. l \in Listings
    BY <1>2, <2>1, Zenon DEF Listings
  <2>3. l.names = listing.names /\ l.path = listing.path /\ l.sure = listing.sure
    BY <1>2, <2>1 DEF Listings
  <2>4. ASSUME listing.sure PROVE Lists(cache, pos, l)
    <3>1. cache.offset + cache.size = D!SectorNum(cache)
      BY <1>2, <1>8, CacheFacts DEF D!NextChunk
    <3>2. Len(D!Cached(cache)) \in Nat
      BY <1>2, CachedIs
    <3>3. pos = Len(D!Cached(cache)) + 1
      BY <1>2, <1>3, <1>8, <2>4, <3>2 DEF Lists
    <3> QED
      BY <1>3, <2>3, <2>4, <3>1, <3>3 DEF Lists
  <2> QED
    BY <1>1, <1>2, <1>4, <1>8, <2>1, <2>2, <2>3, <2>4
<1> QED
  BY <1>5, <1>6, <1>7, <1>8 DEF D!ISO_DRead

(* Every step of the directories keeps what the listing relies on. *)
LEMMA ListNextInv == ASSUME FindInv, ListInv, D!Next PROVE ListInv'
<1>1. listing \in Listings /\ pos \in Nat
  BY DEF ListInv
<1>2. ASSUME dirPc # "idle", UNCHANGED <<pos, listing>> PROVE ListInv'
  BY <1>1, <1>2, ListOff DEF ListInv
<1>3. CASE \E p \in Paths, x \in Names : D!CDVD_findfile(p, x)
  <2>1. listing' = D!Untrusted /\ pos' = pos
    BY <1>3 DEF D!CDVD_findfile
  <2> QED
    BY <1>1, <2>1, UntrustedIs, ListOff
<1>4. CASE \E p \in Paths : D!ISO_DOpen(p)
  <2>1. pos = 0 /\ UNCHANGED <<pos, listing>>
    BY <1>4 DEF D!ISO_DOpen, D!keep
  <2>2. ~listing.sure
    BY <2>1 DEF ListInv
  <2> QED
    BY <1>1, <2>1, <2>2, ListOff
<1>5. CASE D!Cache_Start \/ D!FindPath \/ D!Search \/ D!Cache_Next
  BY <1>2, <1>5 DEF D!Cache_Start, D!FindPath, D!Search, D!Cache_Next, D!keep
<1>6. CASE D!ISO_DClose
  <2>1. listing' = [names |-> <<>>, sure |-> FALSE, ended |-> FALSE, path |-> <<>>] /\ pos' = 0
    BY <1>6 DEF D!ISO_DClose
  <2>2. listing' \in Listings /\ ~listing'.sure
    BY <2>1 DEF Listings
  <2> QED
    BY <2>1, <2>2, ListOff
<1>7. CASE D!CdFlushCache
  <2>1. listing' = D!Untrusted /\ pos' = pos
    BY <1>7 DEF D!CdFlushCache
  <2> QED
    BY <1>1, <2>1, UntrustedIs, ListOff
<1> QED
  BY <1>3, <1>4, <1>5, <1>6, <1>7, ListOpened, ListReads DEF D!Next, D!Step

(* The invariant of the directories. *)
DirInv == FindInv /\ ListInv

(* Every step of the directories keeps the invariant. *)
LEMMA DirNextInv == ASSUME DirInv, [D!Next]_dirvars PROVE DirInv'
<1>1. CASE D!Next
  BY <1>1, FindNextInv, ListNextInv DEF DirInv
<1>2. CASE UNCHANGED dirvars
  <2>1. ListInv'
    BY <1>2 DEF DirInv, ListInv, Lists, Before, Whole, D!SectorNum, D!Cached, dirvars
  <2> QED
    BY <1>2, <2>1, FindStays DEF DirInv
<1> QED
  BY <1>1, <1>2

-----------------------------------------------------------------------------
(* The modules side by side *)

IopInv == LinkInv /\ NetInv /\ ReadInv /\ ServerInv /\ DirInv

(* The invariants of the modules hold together. *)
LEMMA IopInitInv == IopInit => IopInv
BY LinkInitInv, NetInitInv, ReadInitInv, ServerInitInv, FindInitInv, ListInitInv
   DEF IopInit, IopInv, DirInv

(* A step of one module leaves the others alone. *)
LEMMA IopParts ==
  [IopNext]_allvars =>
    /\ [K!Next]_linkvars /\ [N!Next]_netvars /\ [R!Next]_readvars /\ [V!Next]_servervars
    /\ [D!Next]_dirvars
<1>1. ASSUME UNCHANGED allvars
      PROVE  /\ UNCHANGED linkvars /\ UNCHANGED netvars /\ UNCHANGED readvars
             /\ UNCHANGED servervars /\ UNCHANGED dirvars
  BY <1>1 DEF allvars
<1> QED
  BY <1>1 DEF IopNext

LEMMA IopNextInv == IopInv /\ [IopNext]_allvars => IopInv'
BY IopParts, LinkNextInv, NetNextInv, ReadNextInv, ServerNextInv, DirNextInv DEF IopInv

(* The inductive invariant of the modules of the IOP. *)
THEOREM IopInvariance == IopSpec => []IopInv
BY IopInitInv, IopNextInv, PTL DEF IopSpec

(* For every number and size of frames and whatever buffers the EE gives, a      *)
(* received frame is stored inside the buffer given for it, also by an interrupt *)
(* between the assignments of SMAP_CMD_SET_BUFFER.                               *)
THEOREM RxInBufferHolds == IopSpec => []RxInBuffer
<1>1. IopInv => RxInBuffer
  BY DEF IopInv, NetInv
<1> QED
  BY <1>1, IopInvariance, PTL

(* For every number of retries, chip and phy work in the same mode when the      *)
(* link is up and its state could be read.                                       *)
THEOREM LinkAgreesHolds == IopSpec => []LinkAgrees
<1>1. IopInv => LinkAgrees
  BY DEF IopInv, LinkInv, LinkStages, LinkSaved, Agree, LinkAgrees, K!LinkAgrees
<1> QED
  BY <1>1, IopInvariance, PTL

(* For every size of sectors and reads and any files, a read returns the sectors *)
(* asked for, though one of them may come from an earlier read of another file.  *)
THEOREM ReadTrueHolds == IopSpec => []ReadTrue
<1>1. IopInv => ReadTrue
  BY DEF IopInv, ReadInv
<1> QED
  BY <1>1, IopInvariance, PTL

(* For every size of the table and every shorter ring, each answer the IOP gets  *)
(* is the one to its own request, as long as the ring had room for all.          *)
THEOREM AnswerKeptHolds == IopSpec => []AnswerKept
<1>1. IopInv => AnswerKept
  BY DEF IopInv, ServerInv
<1> QED
  BY <1>1, IopInvariance, PTL

(* For every disc whose directories are as DirAssumption says, and every size of  *)
(* the cache: whatever part of whatever directory an earlier call left in it, a    *)
(* file is found if and only if it is there, and a listing that nothing disturbed  *)
(* returns each entry of the directory once and in order, unless a read fails.     *)
THEOREM DirTrueHolds == IopSpec => []DirTrue
<1>1. IopInv => DirTrue
  BY ListWholeHolds DEF IopInv, DirInv, FindInv, DirTrue
<1> QED
  BY <1>1, IopInvariance, PTL
=============================================================================
