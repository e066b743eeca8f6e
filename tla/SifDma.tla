------------------------------- MODULE SifDma -------------------------------
(***************************************************************************)
(* TGE/sbios/sifdma.c: the ring of DMA tags through which the EE sends data *)
(* to the IOP on SIF1, filled by SifSetDma and drained by the DMAC at the   *)
(* same time.                                                               *)
(*                                                                          *)
(* SifSetDma stops the channel, counts the free tags from the hardware's    *)
(* tag address, links the new tags behind the ones already queued and       *)
(* restarts the channel.  Its loop over the caller's transfers is one step  *)
(* per transfer; interrupts are off and the channel is stopped meanwhile.   *)
(*                                                                          *)
(* Data are abstracted to the position of each quadword in the stream: the  *)
(* transfers accepted so far cover the quadwords 0 .. accepted-1.           *)
(***************************************************************************)
EXTENDS Integers

CONSTANTS
  N,          \* usable tags of the ring (31); tag N is the jump back to tag 0
  Payload,    \* QWC_PAYLOAD_FIRST_PKT (7): data quadwords beside an IOP tag
  Sizes,      \* sizes in bytes that callers pass
  MaxTags,    \* the most tags one call needs
  CountMod,   \* 2^16, the range of sif1_dma_count
  MaxWords    \* bound: no call starts once this many quadwords were accepted

ASSUME RingAssumption ==
  /\ N \in Nat /\ N >= 3
  /\ Payload \in Nat /\ Payload >= 1
  /\ \A s \in Sizes : s \in Nat /\ s >= 1
  \* A call for N-1 or N tags fills the ring so far that it looks empty.
  /\ MaxTags \in Nat /\ 1 <= MaxTags /\ MaxTags <= N - 2
  /\ CountMod \in Nat /\ CountMod >= 1
  /\ MaxWords \in Nat

VARIABLES
  sif1_dmatag_index,  \* last tag used by software
  sif1_dma_count,     \* laps of the ring
  sif1_dmatags,       \* the tags: [id, qwc, addr]
  iop_dmatags,        \* per tag, the first quadword of its bounce buffer
  tadr, qwc, madr,    \* DMAC registers: next tag, quadwords left, their address
  tagid,              \* id of the tag being processed (CHCR.TAG)
  str,                \* CHCR.STR: the channel runs
  left,               \* tags the running SifSetDma still has to fill, 0 if none
  initialized,
  accepted,           \* quadwords accepted so far
  wire                \* the quadword due next, as the IOP sees it

ring == <<sif1_dmatag_index, sif1_dma_count, sif1_dmatags, iop_dmatags>>
dmac == <<tadr, qwc, madr, tagid, str>>
vars == <<ring, dmac, left, initialized, accepted, wire>>

Slots == 0 .. N-1
REF == "ref"
REFE == "refe"
OUT_OF_ORDER == -1            \* wire, once another quadword than the one due was sent
MEM == -1                     \* address in the caller's memory, not in a slot
Addr == [slot : Slots \cup {MEM}, off : Nat]
Tag == [id : {REF, REFE}, qwc : Nat, addr : Addr]

(* A transfer asks for a size; TGE_SIFDMA_ATTR_DMATAG sends the IOP tag alone. *)
Transfers == [size : Sizes, attr : {"data"}] \cup {[size |-> 16, attr |-> "dmatag"]}

Qwc(t) == (t.size + 15) \div 16

(* The count SifSetDma makes before it queues anything. *)
TagsNeeded(t) == IF t.attr = "dmatag" \/ t.size <= Payload * 16 THEN 1 ELSE 2

NextSlot(i) == IF i + 1 = N THEN 0 ELSE i + 1

(* The quadword an address holds.  The bounce buffer of a slot holds what was *)
(* copied into it last.                                                       *)
Word(a) == IF a.slot = MEM THEN a.off ELSE iop_dmatags[a.slot] + a.off

-----------------------------------------------------------------------------
(* sif_get_number_of_free_dma_tags *)

HwIndex == IF tadr > 0 THEN tadr - 1 ELSE N - 1

FreeTags_NoReserve ==
  IF HwIndex = sif1_dmatag_index THEN IF qwc > 0 THEN N - 1 ELSE N
  ELSE IF HwIndex < sif1_dmatag_index THEN HwIndex - sif1_dmatag_index + N
  ELSE HwIndex - sif1_dmatag_index

FreeTags ==
  IF HwIndex = sif1_dmatag_index THEN IF qwc > 0 THEN N - 1 ELSE N
  ELSE IF HwIndex < sif1_dmatag_index THEN HwIndex - sif1_dmatag_index + N - 1
  ELSE HwIndex - sif1_dmatag_index - 1

SetupTag_KeepEnd(free) ==
  LET last == sif1_dmatag_index IN
  IF free = N - 1
  THEN /\ sif1_dmatags' = [sif1_dmatags EXCEPT ![last] =
                             [id |-> REF, qwc |-> qwc, addr |-> madr]]
       /\ qwc' = 0
       /\ tadr' = last
  ELSE UNCHANGED <<sif1_dmatags, tadr, qwc>>

SetupTag_SendAgain(free) ==
  LET last == sif1_dmatag_index IN
  CASE free = N -> UNCHANGED <<sif1_dmatags, tadr, qwc>>
    [] free = N - 1 ->
         /\ sif1_dmatags' = [sif1_dmatags EXCEPT ![last].id = REF]
         /\ qwc' = 0
         /\ tadr' = last
    [] OTHER ->
         /\ sif1_dmatags' = [sif1_dmatags EXCEPT ![last].id = REF]
         /\ UNCHANGED <<tadr, qwc>>

(* sif_dma_setup_tag: make the tag queued last lead on to the next one.  If  *)
(* it is the one being sent, rebuild it from the registers and reload it.    *)
SetupTag(free) ==
  LET last == sif1_dmatag_index IN
  CASE free = N -> UNCHANGED <<sif1_dmatags, tadr, qwc>>
    [] free = N - 1 ->
         /\ sif1_dmatags' = [sif1_dmatags EXCEPT ![last] =
                               [id |-> REF, qwc |-> qwc, addr |-> madr]]
         /\ qwc' = 0
         /\ tadr' = last
    [] OTHER ->
         /\ sif1_dmatags' = [sif1_dmatags EXCEPT ![last].id = REF]
         /\ UNCHANGED <<tadr, qwc>>

(* SifSetDma up to its loops: mask interrupts, stop the channel, count the   *)
(* free tags against the n that are needed.                                  *)
SifSetDmaStart(n) ==
  /\ left = 0
  /\ accepted < MaxWords
  /\ n <= FreeTags
  /\ str' = FALSE
  /\ SetupTag(FreeTags)
  /\ left' = n
  /\ UNCHANGED <<sif1_dmatag_index, sif1_dma_count, iop_dmatags, madr, tagid,
                 initialized, accepted, wire>>

(* SifSetDma without enough free tags: it restarts the channel and returns 0. *)
SifSetDmaFull(n) ==
  /\ left = 0
  /\ accepted < MaxWords
  /\ n > FreeTags
  /\ str' = TRUE
  /\ UNCHANGED <<ring, tadr, qwc, madr, tagid, left, initialized, accepted, wire>>

Lap(i) == IF NextSlot(i) = 0 THEN 1 ELSE 0

(* sif_dma_transfer when one tag is enough: the IOP tag and the data go into *)
(* the slot's buffer.                                                        *)
QueueOne(t, id) ==
  LET i == NextSlot(sif1_dmatag_index)
      words == IF t.attr = "dmatag" THEN Qwc(t) ELSE Qwc(t) + 1
  IN /\ t.attr = "dmatag" \/ Qwc(t) < Payload + 1
     /\ sif1_dmatags' = [sif1_dmatags EXCEPT ![i] =
          [id |-> id, qwc |-> words, addr |-> [slot |-> i, off |-> 0]]]
     /\ iop_dmatags' = [iop_dmatags EXCEPT ![i] = accepted]
     /\ sif1_dmatag_index' = i
     /\ sif1_dma_count' = (sif1_dma_count + Lap(sif1_dmatag_index)) % CountMod
     /\ accepted' = accepted + words

(* sif_dma_transfer of more data: the first Payload quadwords are copied, a  *)
(* second tag refers to the rest in the caller's memory.                     *)
QueueTwo(t, id) ==
  LET i == NextSlot(sif1_dmatag_index)
      j == NextSlot(i)
      rest == Qwc(t) - Payload
  IN /\ t.attr # "dmatag" /\ Qwc(t) >= Payload + 1
     /\ sif1_dmatags' = [sif1_dmatags EXCEPT
          ![i] = [id |-> REF, qwc |-> Payload + 1,
                  addr |-> [slot |-> i, off |-> 0]],
          ![j] = [id |-> id, qwc |-> rest,
                  addr |-> [slot |-> MEM, off |-> accepted + Payload + 1]]]
     /\ iop_dmatags' = [iop_dmatags EXCEPT ![i] = accepted]
     /\ sif1_dmatag_index' = j
     /\ sif1_dma_count' =
          (sif1_dma_count + Lap(sif1_dmatag_index) + Lap(i)) % CountMod
     /\ accepted' = accepted + Payload + 1 + rest

SifSetDmaTransfer_NoRestart(t) ==
  LET n == TagsNeeded(t)
      id == IF n = left THEN REFE ELSE REF
  IN /\ n <= left
     /\ QueueOne(t, id) \/ QueueTwo(t, id)
     /\ left' = left - n
     /\ str' = FALSE
     /\ UNCHANGED <<tadr, qwc, madr, tagid, initialized, wire>>

(* One round of SifSetDma's loops.  The last transfer stops the channel, and *)
(* after it the channel is restarted and interrupts are restored.            *)
SifSetDmaTransfer(t) ==
  LET n == TagsNeeded(t)
      id == IF n = left THEN REFE ELSE REF
  IN /\ n <= left
     /\ QueueOne(t, id) \/ QueueTwo(t, id)
     /\ left' = left - n
     /\ str' = (n = left)
     /\ UNCHANGED <<tadr, qwc, madr, tagid, initialized, wire>>

-----------------------------------------------------------------------------
(* The DMAC (external).  It reads the tag at TADR, moves QWC quadwords from  *)
(* MADR, and stops after a REFE tag.                                         *)

DmacFetch ==
  /\ str /\ qwc = 0
  /\ tadr < N
  /\ LET tag == sif1_dmatags[tadr] IN
       /\ qwc' = tag.qwc
       /\ madr' = tag.addr
       /\ tagid' = tag.id
  /\ tadr' = tadr + 1
  /\ UNCHANGED <<ring, str, left, initialized, accepted, wire>>

DmacJump_NoJump ==
  /\ str /\ qwc = 0
  /\ tadr = N
  /\ tadr' = tadr + 1
  /\ UNCHANGED <<ring, qwc, madr, tagid, str, left, initialized, accepted, wire>>

(* Tag N is a NEXT tag without data that leads to tag 0. *)
DmacJump ==
  /\ str /\ qwc = 0
  /\ tadr = N
  /\ tadr' = 0
  /\ UNCHANGED <<ring, qwc, madr, tagid, str, left, initialized, accepted, wire>>

DmacMove ==
  /\ str /\ qwc > 0
  /\ wire' = IF Word(madr) = wire THEN wire + 1 ELSE OUT_OF_ORDER
  /\ madr' = [madr EXCEPT !.off = @ + 1]
  /\ qwc' = qwc - 1
  /\ str' = ~(qwc = 1 /\ tagid = REFE)
  /\ UNCHANGED <<ring, tadr, tagid, left, initialized, accepted>>

-----------------------------------------------------------------------------
(* sbcall_sifexit only forgets that the interface was initialised. *)
SifExit ==
  /\ left = 0 /\ initialized
  /\ initialized' = FALSE
  /\ UNCHANGED <<ring, dmac, left, accepted, wire>>

(* sbcall_sifinit: stops both channels and empties the ring (sif_dma_init). *)
SifInit ==
  /\ left = 0 /\ ~initialized
  /\ initialized' = TRUE
  /\ sif1_dma_count' = CountMod - 1
  /\ sif1_dmatag_index' = N - 1
  /\ tadr' = 0 /\ qwc' = 0
  /\ str' = FALSE
  /\ wire' = accepted
  /\ UNCHANGED <<sif1_dmatags, iop_dmatags, madr, tagid, left, accepted>>

(* The state sbcall_sifinit leaves at boot. *)
Init ==
  /\ sif1_dmatag_index = N - 1
  /\ sif1_dma_count = CountMod - 1
  /\ sif1_dmatags = [i \in Slots |->
        [id |-> REFE, qwc |-> 0, addr |-> [slot |-> MEM, off |-> 0]]]
  /\ iop_dmatags = [i \in Slots |-> 0]
  /\ tadr = 0 /\ qwc = 0
  /\ madr = [slot |-> MEM, off |-> 0]
  /\ tagid = REFE
  /\ str = FALSE
  /\ left = 0
  /\ initialized = TRUE
  /\ accepted = 0 /\ wire = 0

Dmac == DmacFetch \/ DmacJump \/ DmacMove

SifSetDma ==
  \/ \E n \in 1 .. MaxTags : SifSetDmaStart(n)
  \/ \E n \in 1 .. MaxTags : SifSetDmaFull(n)
  \/ \E t \in Transfers : SifSetDmaTransfer(t)

Next == Dmac \/ SifSetDma \/ SifExit \/ SifInit

(* The DMAC moves data as long as the channel runs, and a call of SifSetDma  *)
(* that has begun runs to its end: nothing can preempt it.                   *)
Fairness ==
  /\ WF_vars(Dmac)
  /\ WF_vars(\E t \in Transfers : SifSetDmaTransfer(t))

Spec == Init /\ [][Next]_vars
FairSpec == Spec /\ Fairness
-----------------------------------------------------------------------------
(* Properties *)

(* Types of the ring, the registers and the bookkeeping. *)
TypeOK ==
  /\ sif1_dmatag_index \in Slots
  /\ sif1_dma_count \in 0 .. CountMod-1
  /\ sif1_dmatags \in [Slots -> Tag]
  /\ iop_dmatags \in [Slots -> Nat]
  /\ tadr \in 0 .. N
  /\ qwc \in Nat
  /\ madr \in Addr
  /\ tagid \in {REF, REFE}
  /\ str \in BOOLEAN
  /\ left \in 0 .. MaxTags
  /\ initialized \in BOOLEAN
  /\ accepted \in Nat
  /\ wire \in Nat

(* How many tags the DMAC has still to read, when it gets to slot i, and     *)
(* which slots hold them.                                                    *)
Unread == IF HwIndex <= sif1_dmatag_index THEN sif1_dmatag_index - HwIndex
                                          ELSE sif1_dmatag_index - HwIndex + N
Ahead(i) == IF i > HwIndex THEN i - HwIndex ELSE i - HwIndex + N
Queued == {i \in Slots : Ahead(i) <= Unread}

(* The stream is intact: what is left of the tag being sent, and then the    *)
(* unread tags in ring order, cover the quadwords wire .. accepted-1 without *)
(* a gap, an overlap or a bounce buffer that was filled again too early.     *)
StreamIntact ==
  /\ qwc > 0 => Word(madr) = wire
  /\ Unread = 0 => wire + qwc = accepted
  /\ Unread > 0 => Word(sif1_dmatags[NextSlot(HwIndex)].addr) = wire + qwc
  /\ \A i \in Queued :
       LET end == Word(sif1_dmatags[i].addr) + sif1_dmatags[i].qwc IN
         /\ end <= accepted
         /\ IF i = sif1_dmatag_index
            THEN accepted = end
            ELSE Word(sif1_dmatags[NextSlot(i)].addr) = end

(* The channel can finish: outside SifSetDma it runs exactly while something *)
(* is queued, and only the tag at the end of the queue stops it.             *)
ChannelArmed ==
  /\ left = 0 => (str <=> (qwc > 0 \/ Unread > 0))
  /\ \A i \in Queued :
       sif1_dmatags[i].id = REFE <=> (left = 0 /\ i = sif1_dmatag_index)
  /\ qwc > 0 => (tagid = REFE <=> Unread = 0)

(* The call in progress keeps the room it found: the channel is stopped and  *)
(* the tag the DMAC read last is not written.                                *)
RoomKept == left > 0 => ~str /\ left + Unread <= N - 1

(* A tag refers to the caller's memory or to its own bounce buffer, and is   *)
(* never empty.                                                              *)
BuffersOwned ==
  /\ \A i \in Queued : /\ sif1_dmatags[i].addr.slot \in {MEM, i}
                       /\ sif1_dmatags[i].qwc > 0
  /\ qwc > 0 => madr.slot \in {MEM, HwIndex}
  /\ left > 0 /\ qwc > 0 => Unread > 0

(* Every quadword that was accepted is sent, or dropped by a new sbcall_sifinit. *)
EverythingSent == \A w \in 1 .. MaxWords : (accepted >= w) ~> (wire >= w)

Fifo == INSTANCE SifFifo

(* The ring and the DMAC implement the stream of SifFifo. *)
ImplementsFifo == Fifo!Spec
=============================================================================
