--------------------------- MODULE SifDma_proofs ---------------------------
(***************************************************************************)
(* Proofs about SifDma, for every size of the ring, every limit on the tags *)
(* of a call and every set of transfer sizes.                               *)
(***************************************************************************)
EXTENDS SifDma, TLAPS

(* The inductive invariant. *)
IInv == TypeOK /\ StreamIntact /\ ChannelArmed /\ RoomKept /\ BuffersOwned

(* A transfer has data, and the count SifSetDma makes in bytes agrees with   *)
(* the split sif_dma_transfer makes in quadwords.                            *)
LEMMA TransferCounts ==
  ASSUME NEW t \in Transfers
  PROVE  /\ Qwc(t) \in Nat /\ Qwc(t) >= 1
         /\ TagsNeeded(t) \in {1, 2}
         /\ TagsNeeded(t) = 1 <=> (t.attr = "dmatag" \/ Qwc(t) < Payload + 1)
<1>1. t.size \in Nat /\ t.size >= 1
  <2>1. CASE t \in [size : Sizes, attr : {"data"}]
    <3>1. t.size \in Sizes
      BY <2>1
    <3> QED
      BY <3>1, RingAssumption
  <2>2. CASE t = [size |-> 16, attr |-> "dmatag"]
    BY <2>2
  <2> QED
    BY <2>1, <2>2 DEF Transfers
<1>2. ASSUME NEW s \in Nat, s >= 1
      PROVE  /\ (s + 15) \div 16 \in Nat /\ (s + 15) \div 16 >= 1
             /\ s <= Payload * 16 <=> (s + 15) \div 16 < Payload + 1
  <2>1. (s + 15) \div 16 \in Nat /\ (s + 15) \div 16 >= 1
    BY <1>2
  <2>2. s <= Payload * 16 => (s + 15) \div 16 < Payload + 1
    BY <1>2, RingAssumption
  <2>3. (s + 15) \div 16 < Payload + 1 => s <= Payload * 16
    BY <1>2, RingAssumption
  <2> QED
    BY <2>1, <2>2, <2>3
<1>3. /\ Qwc(t) \in Nat /\ Qwc(t) >= 1
      /\ t.size <= Payload * 16 <=> Qwc(t) < Payload + 1
  BY <1>1, <1>2 DEF Qwc
<1> QED
  BY <1>3 DEF TagsNeeded

(* The tag the DMAC reads next, and the tag queued last, are queued whenever *)
(* anything is.                                                              *)
LEMMA QueueEnds ==
  ASSUME TypeOK, Unread > 0
  PROVE  /\ NextSlot(HwIndex) \in Queued
         /\ sif1_dmatag_index \in Queued
         /\ \A i \in Queued : i # sif1_dmatag_index => NextSlot(i) \in Queued
BY RingAssumption DEF TypeOK, Unread, HwIndex, NextSlot, Queued, Ahead, Slots

(* The state sbcall_sifinit leaves satisfies the invariant. *)
LEMMA InitIInv == Init => IInv
<1> SUFFICES ASSUME Init PROVE IInv
  OBVIOUS
<1> USE RingAssumption
<1>1. TypeOK
  <2>1. [slot |-> MEM, off |-> 0] \in Addr
    BY DEF Addr
  <2>2. [id |-> REFE, qwc |-> 0, addr |-> [slot |-> MEM, off |-> 0]] \in Tag
    BY <2>1 DEF Tag
  <2>3. sif1_dmatags \in [Slots -> Tag]
    BY <2>2 DEF Init
  <2>4. N - 1 \in Slots
    BY DEF Slots
  <2>5. iop_dmatags \in [Slots -> Nat]
    BY DEF Init
  <2>6. 0 \in 0 .. MaxTags /\ 0 \in 0 .. N /\ CountMod - 1 \in 0 .. CountMod - 1
    OBVIOUS
  <2> QED
    BY <2>1, <2>3, <2>4, <2>5, <2>6 DEF Init, TypeOK
<1>2. Unread = 0 /\ Queued = {}
  BY DEF Init, Unread, HwIndex, Queued, Ahead, Slots
<1> QED
  BY <1>1, <1>2 DEF Init, IInv, StreamIntact, ChannelArmed, RoomKept, BuffersOwned

(* Reading a tag takes the head of the queue. *)
LEMMA DmacFetchIInv == IInv /\ DmacFetch => IInv'
<1> SUFFICES ASSUME IInv, DmacFetch PROVE IInv'
  OBVIOUS
<1> USE RingAssumption DEF IInv
<1>1. Unread > 0 /\ left = 0
  BY DEF DmacFetch, ChannelArmed, RoomKept, TypeOK
<1>2. tadr = NextSlot(HwIndex)
  BY DEF DmacFetch, TypeOK, HwIndex, NextSlot
<1>3. tadr \in Queued
  BY <1>1, <1>2, QueueEnds
<1>4. TypeOK'
  BY DEF DmacFetch, TypeOK, Tag, ring, Slots
<1>5. Unread' = Unread - 1 /\ HwIndex' = tadr
  BY <1>1 DEF DmacFetch, TypeOK, Unread, HwIndex, ring, Slots
<1>6. Queued' = Queued \ {tadr}
  <2>1. \A i \in Slots : Ahead(i)' <= Unread' <=> Ahead(i) <= Unread /\ i # tadr
    BY <1>1 DEF DmacFetch, TypeOK, Unread, Ahead, HwIndex, ring, Slots
  <2> QED
    BY <2>1 DEF Queued
<1>7. Unread' = 0 <=> tadr = sif1_dmatag_index
  BY <1>1 DEF DmacFetch, TypeOK, Unread, HwIndex, ring, Slots
<1>8. \A a : Word(a)' = Word(a)
  BY DEF Word, DmacFetch, ring
<1>9. StreamIntact'
  BY <1>1, <1>2, <1>3, <1>5, <1>6, <1>7, <1>8
  DEF StreamIntact, DmacFetch, ring, TypeOK, BuffersOwned, Tag
<1>10. ChannelArmed'
  BY <1>1, <1>3, <1>6, <1>7 DEF ChannelArmed, DmacFetch, ring, TypeOK, BuffersOwned
<1>11. RoomKept' /\ BuffersOwned'
  BY <1>1, <1>3, <1>5, <1>6 DEF RoomKept, BuffersOwned, DmacFetch, ring, TypeOK
<1> QED
  BY <1>4, <1>9, <1>10, <1>11

(* The jump tag changes where the DMAC reads, not what is queued. *)
LEMMA DmacJumpIInv == IInv /\ DmacJump => IInv'
<1> SUFFICES ASSUME IInv, DmacJump PROVE IInv'
  OBVIOUS
<1> USE RingAssumption DEF IInv
<1>1. TypeOK'
  BY DEF DmacJump, TypeOK, ring
<1>2. HwIndex' = HwIndex
  BY DEF DmacJump, TypeOK, HwIndex
<1>3. Unread' = Unread /\ Queued' = Queued
  BY <1>2 DEF DmacJump, Unread, Queued, Ahead, ring
<1>4. \A a : Word(a)' = Word(a)
  BY DEF Word, DmacJump, ring
<1> QED
  BY <1>1, <1>2, <1>3, <1>4
  DEF StreamIntact, ChannelArmed, RoomKept, BuffersOwned, DmacJump, ring

(* The quadword sent is the next one of the stream. *)
LEMMA DmacMoveIInv == IInv /\ DmacMove => IInv' /\ wire < accepted /\ wire' = wire + 1
<1> SUFFICES ASSUME IInv, DmacMove
             PROVE  IInv' /\ wire < accepted /\ wire' = wire + 1
  OBVIOUS
<1> USE RingAssumption DEF IInv
<1>1. left = 0
  BY DEF DmacMove, RoomKept, TypeOK
<1>2. wire' = wire + 1
  BY DEF DmacMove, StreamIntact
<1>3. TypeOK'
  <2>1. madr' \in Addr
    BY DEF DmacMove, TypeOK, Addr
  <2> QED
    BY <1>2, <2>1 DEF DmacMove, TypeOK, ring
<1>4. HwIndex' = HwIndex /\ Unread' = Unread /\ Queued' = Queued
  BY DEF DmacMove, HwIndex, Unread, Queued, Ahead, ring
<1>5. \A a : Word(a)' = Word(a)
  BY DEF Word, DmacMove, ring
<1>6. qwc > 1 => Word(madr)' = wire'
  <2> SUFFICES ASSUME qwc > 1 PROVE Word(madr)' = wire'
    OBVIOUS
  <2>1. /\ madr'.slot = madr.slot /\ madr'.off = madr.off + 1
        /\ iop_dmatags' = iop_dmatags
    BY DEF DmacMove, TypeOK, Addr, ring
  <2>2. wire' = Word(madr) + 1
    BY <1>2 DEF DmacMove, StreamIntact
  <2> QED
    BY <2>1, <2>2 DEF Word, TypeOK, Addr
<1>7. StreamIntact'
  BY <1>2, <1>4, <1>5, <1>6 DEF StreamIntact, DmacMove, ring, TypeOK
<1>8. ChannelArmed'
  <2>1. str' <=> ~(qwc = 1 /\ tagid = REFE)
    BY DEF DmacMove
  <2>2. Unread \in Nat /\ (tagid = REFE <=> Unread = 0)
    <3>1. Unread \in Nat
      BY DEF TypeOK, Unread, HwIndex, Slots
    <3> QED
      BY <3>1 DEF ChannelArmed, DmacMove
  <2>3. qwc \in Nat /\ qwc > 0 /\ qwc' = qwc - 1
    BY DEF DmacMove, TypeOK
  <2>4. str' <=> (qwc' > 0 \/ Unread' > 0)
    <3>1. CASE qwc = 1 /\ tagid = REFE
      BY <3>1, <1>4, <2>1, <2>2, <2>3
    <3>2. CASE ~(qwc = 1 /\ tagid = REFE)
      BY <3>2, <1>4, <2>1, <2>2, <2>3
    <3> QED
      BY <3>1, <3>2
  <2>5. UNCHANGED <<left, sif1_dmatags, sif1_dmatag_index, tagid>>
    BY DEF DmacMove, ring
  <2> QED
    BY <1>4, <2>2, <2>3, <2>4, <2>5 DEF ChannelArmed
<1>9. RoomKept' /\ BuffersOwned'
  BY <1>1, <1>4 DEF RoomKept, BuffersOwned, DmacMove, ring, TypeOK, Addr
<1>10. wire < accepted
  <2>1. CASE Unread = 0
    BY <2>1 DEF StreamIntact, DmacMove, TypeOK
  <2>2. CASE Unread # 0
    <3>1. NextSlot(HwIndex) \in Queued
      BY <2>2, QueueEnds DEF TypeOK, Unread, HwIndex, Slots
    <3>2. wire + qwc = Word(sif1_dmatags[NextSlot(HwIndex)].addr)
      BY <2>2 DEF StreamIntact, TypeOK, Unread, HwIndex, Slots
    <3>3. sif1_dmatags[NextSlot(HwIndex)] \in Tag
      BY <3>1 DEF TypeOK, Queued
    <3> QED
      BY <3>1, <3>2, <3>3 DEF StreamIntact, BuffersOwned, TypeOK, Tag
  <2> QED
    BY <2>1, <2>2
<1> QED
  BY <1>2, <1>3, <1>7, <1>8, <1>9, <1>10

(* Stopping the channel and making the last queued tag lead on disturbs      *)
(* neither the stream nor the room the call was promised.                    *)
LEMMA SetDmaStartIInv ==
  ASSUME NEW n \in 1 .. MaxTags, IInv, SifSetDmaStart(n)
  PROVE  IInv'
<1> USE RingAssumption DEF IInv
<1> DEFINE last == sif1_dmatag_index
<1>1. /\ UNCHANGED <<sif1_dmatag_index, sif1_dma_count, iop_dmatags, madr, tagid,
                     initialized, accepted, wire>>
      /\ str' = FALSE /\ left' = n /\ left = 0
      /\ n <= FreeTags
      /\ SetupTag(FreeTags)
  BY DEF SifSetDmaStart
<1>2. /\ HwIndex \in Slots /\ last \in Slots /\ Unread \in 0 .. N - 1
      /\ Unread = 0 <=> HwIndex = last
      /\ Unread > 0 => last \in Queued
  BY QueueEnds DEF TypeOK, HwIndex, Unread, Slots
<1>3. /\ FreeTags = N <=> (Unread = 0 /\ qwc = 0)
      /\ FreeTags = N - 1 <=> (Unread = 0 /\ qwc > 0)
      /\ Unread > 0 => FreeTags = N - 1 - Unread
  BY DEF FreeTags, TypeOK, Unread, HwIndex, Slots
<1>4. \A a : Word(a)' = Word(a)
  BY <1>1 DEF Word
<1>8. str' \in BOOLEAN /\ left' \in 0 .. MaxTags
  <2>1. str' \in BOOLEAN
    BY <1>1, Zenon
  <2> QED
    BY <1>1, <2>1
<1>5. CASE FreeTags = N
  <2>1. UNCHANGED <<sif1_dmatags, tadr, qwc>>
    BY <1>1, <1>5 DEF SetupTag
  <2>2. HwIndex' = HwIndex /\ Unread' = Unread /\ Queued' = Queued
    BY <1>1, <2>1 DEF HwIndex, Unread, Queued, Ahead
  <2>3. Queued = {}
    BY <1>2, <1>3, <1>5 DEF Queued, Ahead, Slots, TypeOK
  <2>4. TypeOK'
    BY <1>1, <1>8, <2>1 DEF TypeOK
  <2>5. StreamIntact'
    BY <1>1, <1>4, <2>1, <2>2 DEF StreamIntact
  <2> QED
    BY <1>1, <1>2, <1>3, <1>5, <2>1, <2>2, <2>3, <2>4, <2>5
    DEF ChannelArmed, RoomKept, BuffersOwned
<1>6. CASE FreeTags = N - 1
  <2>1. /\ sif1_dmatags' = [sif1_dmatags EXCEPT ![last] =
                              [id |-> REF, qwc |-> qwc, addr |-> madr]]
        /\ qwc' = 0 /\ tadr' = last
    BY <1>1, <1>6 DEF SetupTag
  <2>2. Unread = 0 /\ qwc > 0 /\ HwIndex = last
    BY <1>2, <1>3, <1>6
  <2>3. Unread' = 1 /\ Queued' = {last} /\ NextSlot(HwIndex)' = last
    <3>1. Unread' = 1 /\ NextSlot(HwIndex)' = last
      BY <1>1, <1>2, <2>1 DEF Unread, HwIndex, Slots, NextSlot
    <3>2. \A i \in Slots : Ahead(i)' <= 1 <=> i = last
      BY <1>1, <1>2, <2>1 DEF Ahead, HwIndex, Slots
    <3> QED
      BY <1>2, <3>1, <3>2 DEF Queued
  <2>4. TypeOK'
    <3>1. [id |-> REF, qwc |-> qwc, addr |-> madr] \in Tag
      BY DEF TypeOK, Tag
    <3>2. sif1_dmatags' \in [Slots -> Tag]
      BY <2>1, <3>1 DEF TypeOK
    <3> QED
      BY <1>1, <1>2, <1>8, <2>1, <3>2 DEF TypeOK, Slots
  <2>5. sif1_dmatags'[last] = [id |-> REF, qwc |-> qwc, addr |-> madr]
    BY <1>2, <2>1 DEF TypeOK
  <2>6. StreamIntact'
    <3>1. Word(madr) = wire /\ wire + qwc = accepted
      BY <2>2 DEF StreamIntact
    <3>2. Word(sif1_dmatags[last].addr)' = wire /\ (sif1_dmatags[last].qwc)' = qwc
      BY <1>1, <1>4, <2>5, <3>1
    <3> QED
      BY <1>1, <1>4, <2>1, <2>3, <2>5, <3>1, <3>2 DEF StreamIntact, TypeOK
  <2>7. ChannelArmed' /\ RoomKept'
    BY <1>1, <1>6, <2>1, <2>3, <2>5 DEF ChannelArmed, RoomKept, REF, REFE
  <2>8. BuffersOwned'
    BY <1>1, <2>1, <2>2, <2>3, <2>5 DEF BuffersOwned
  <2> QED
    BY <2>4, <2>6, <2>7, <2>8
<1>7. CASE FreeTags # N /\ FreeTags # N - 1
  <2>1. /\ sif1_dmatags' = [sif1_dmatags EXCEPT ![last].id = REF]
        /\ UNCHANGED <<tadr, qwc>>
    BY <1>1, <1>7 DEF SetupTag
  <2>2. Unread > 0
    BY <1>2, <1>3, <1>7 DEF TypeOK
  <2>3. HwIndex' = HwIndex /\ Unread' = Unread /\ Queued' = Queued
    BY <1>1, <2>1 DEF HwIndex, Unread, Queued, Ahead
  <2>4. TypeOK'
    <3>1. sif1_dmatags' \in [Slots -> Tag]
      BY <1>2, <2>1 DEF TypeOK, Tag
    <3> QED
      BY <1>1, <1>8, <2>1, <3>1 DEF TypeOK
  <2>5. \A i \in Slots : /\ sif1_dmatags'[i].qwc = sif1_dmatags[i].qwc
                         /\ sif1_dmatags'[i].addr = sif1_dmatags[i].addr
                         /\ sif1_dmatags'[i].id =
                              IF i = last THEN REF ELSE sif1_dmatags[i].id
    BY <1>2, <2>1 DEF TypeOK, Tag
  <2>6. \A i \in Slots : NextSlot(i) \in Slots
    BY DEF NextSlot, Slots
  <2>7. StreamIntact'
    BY <1>1, <1>2, <1>4, <2>1, <2>3, <2>5, <2>6 DEF StreamIntact, Queued
  <2>8. ChannelArmed' /\ RoomKept'
    BY <1>1, <1>2, <1>3, <2>1, <2>2, <2>3, <2>5
    DEF ChannelArmed, RoomKept, Queued, REF, REFE
  <2>9. BuffersOwned'
    BY <1>1, <2>1, <2>2, <2>3, <2>5 DEF BuffersOwned, Queued
  <2> QED
    BY <2>4, <2>7, <2>8, <2>9
<1> QED
  BY <1>5, <1>6, <1>7

(* A refused call restarts a channel that was running. *)
LEMMA SetDmaFullIInv ==
  ASSUME NEW n \in 1 .. MaxTags, IInv, SifSetDmaFull(n)
  PROVE  IInv'
<1> USE RingAssumption DEF IInv
<1>1. UNCHANGED <<ring, tadr, qwc, madr, tagid, left, initialized, accepted, wire>>
  BY DEF SifSetDmaFull
<1>2. Unread > 0
  BY DEF SifSetDmaFull, FreeTags, TypeOK, Unread, HwIndex, Slots
<1>3. str' = TRUE /\ left = 0
  BY DEF SifSetDmaFull
<1>4. HwIndex' = HwIndex /\ Unread' = Unread /\ Queued' = Queued
  BY <1>1 DEF HwIndex, Unread, Queued, Ahead, ring
<1>5. \A a : Word(a)' = Word(a)
  BY <1>1 DEF Word, ring
<1> QED
  BY <1>1, <1>2, <1>3, <1>4, <1>5
  DEF TypeOK, StreamIntact, ChannelArmed, RoomKept, BuffersOwned, ring

(* Where the next k = 1 or 2 tags go: into slots that are neither queued nor *)
(* the one the DMAC read last.                                               *)
LEMMA PushOne ==
  ASSUME TypeOK, Unread + 1 <= N - 1,
         sif1_dmatag_index' = NextSlot(sif1_dmatag_index), tadr' = tadr
  PROVE  LET i == NextSlot(sif1_dmatag_index) IN
         /\ i \in Slots /\ i \notin Queued /\ i # HwIndex
         /\ HwIndex' = HwIndex /\ Unread' = Unread + 1
         /\ Queued' = Queued \cup {i}
         /\ Unread = 0 => NextSlot(HwIndex) = i
         /\ sif1_dmatag_index # i
<1> DEFINE i == NextSlot(sif1_dmatag_index)
<1> USE RingAssumption
<1>1. /\ i \in Slots /\ i \notin Queued /\ i # HwIndex
      /\ HwIndex' = HwIndex /\ Unread' = Unread + 1
      /\ Unread = 0 => NextSlot(HwIndex) = i
      /\ sif1_dmatag_index # i
  BY DEF TypeOK, Unread, HwIndex, NextSlot, Queued, Ahead, Slots
<1>2. \A j \in Slots : Ahead(j)' <= Unread' <=> (Ahead(j) <= Unread \/ j = i)
  BY DEF TypeOK, Unread, HwIndex, NextSlot, Ahead, Slots
<1> QED
  BY <1>1, <1>2 DEF Queued

(* The same for a transfer of two tags. *)
LEMMA PushTwo ==
  ASSUME TypeOK, Unread + 2 <= N - 1,
         sif1_dmatag_index' = NextSlot(NextSlot(sif1_dmatag_index)), tadr' = tadr
  PROVE  LET i == NextSlot(sif1_dmatag_index)
             j == NextSlot(i)
         IN
         /\ i \in Slots /\ i \notin Queued /\ i # HwIndex
         /\ j \in Slots /\ j \notin Queued /\ j # HwIndex
         /\ i # j /\ sif1_dmatag_index # i /\ sif1_dmatag_index # j
         /\ HwIndex' = HwIndex /\ Unread' = Unread + 2
         /\ Queued' = Queued \cup {i, j}
         /\ Unread = 0 => NextSlot(HwIndex) = i
<1> DEFINE i == NextSlot(sif1_dmatag_index)
           j == NextSlot(i)
<1> USE RingAssumption
<1>1. /\ i \in Slots /\ i \notin Queued /\ i # HwIndex
      /\ HwIndex' = HwIndex /\ Unread' = Unread + 2
      /\ Unread = 0 => NextSlot(HwIndex) = i
      /\ sif1_dmatag_index # i
  BY DEF TypeOK, Unread, HwIndex, NextSlot, Queued, Ahead, Slots
<1>2. /\ j \in Slots /\ j \notin Queued /\ j # HwIndex
      /\ i # j /\ sif1_dmatag_index # j
  BY DEF TypeOK, Unread, HwIndex, NextSlot, Queued, Ahead, Slots
<1>3. \A k \in Slots : Ahead(k)' <= Unread' <=> (Ahead(k) <= Unread \/ k = i \/ k = j)
  BY DEF TypeOK, Unread, HwIndex, NextSlot, Ahead, Slots
<1> QED
  BY <1>1, <1>2, <1>3 DEF Queued

(* The lap counter wraps. *)
LEMMA LapCount ==
  ASSUME NEW c \in Nat, NEW k \in Nat
  PROVE  (c + k) % CountMod \in 0 .. CountMod - 1
BY RingAssumption

(* What both forms of sif_dma_transfer leave alone, and the counters of the  *)
(* call.                                                                     *)
LEMMA TransferFrame ==
  ASSUME NEW t \in Transfers, IInv, SifSetDmaTransfer(t)
  PROVE  LET n == TagsNeeded(t) IN
         /\ UNCHANGED <<tadr, qwc, madr, tagid, initialized, wire>>
         /\ n \in {1, 2} /\ n <= left /\ left' = left - n
         /\ left' \in 0 .. MaxTags
         /\ str' <=> left' = 0
         /\ str' \in BOOLEAN
         /\ Unread + n <= N - 1
         /\ Unread \in Nat
<1> DEFINE n == TagsNeeded(t)
<1>1. n \in {1, 2}
  BY TransferCounts
<1>2. /\ UNCHANGED <<tadr, qwc, madr, tagid, initialized, wire>>
      /\ n <= left /\ left' = left - n /\ str' = (n = left)
  BY DEF SifSetDmaTransfer
<1>3. left \in Nat /\ left <= MaxTags /\ Unread \in Nat
  BY RingAssumption DEF IInv, TypeOK, Unread, HwIndex, Slots
<1>4. left + Unread <= N - 1
  BY <1>1, <1>2, <1>3 DEF IInv, RoomKept
<1>5. (n = left) <=> left' = 0
  BY <1>1, <1>2, <1>3
<1>6. str' <=> left' = 0
  BY <1>2, <1>5, Zenon
<1>7. str' \in BOOLEAN
  BY <1>2, Zenon
<1> QED
  BY <1>1, <1>2, <1>3, <1>4, <1>6, <1>7, RingAssumption

(* A transfer in one tag extends the stream at its end. *)
LEMMA QueueOneIInv ==
  ASSUME NEW t \in Transfers, IInv, SifSetDmaTransfer(t),
         QueueOne(t, IF TagsNeeded(t) = left THEN REFE ELSE REF)
  PROVE  IInv' /\ accepted' \in Nat /\ accepted' > accepted
<1> DEFINE last == sif1_dmatag_index
<1>0. PICK i \in Slots : i = NextSlot(last)
  BY RingAssumption DEF IInv, TypeOK, NextSlot, Slots
<1> DEFINE id == IF TagsNeeded(t) = left THEN REFE ELSE REF
           words == IF t.attr = "dmatag" THEN Qwc(t) ELSE Qwc(t) + 1
           new == [id |-> id, qwc |-> words, addr |-> [slot |-> i, off |-> 0]]
<1> USE RingAssumption DEF IInv
<1>1. TagsNeeded(t) = 1 /\ words \in Nat /\ words >= 1
  BY TransferCounts DEF QueueOne
<1>2. /\ sif1_dmatags' = [sif1_dmatags EXCEPT ![i] = new]
      /\ iop_dmatags' = [iop_dmatags EXCEPT ![i] = accepted]
      /\ sif1_dmatag_index' = i
      /\ sif1_dma_count' = (sif1_dma_count + Lap(last)) % CountMod
      /\ accepted' = accepted + words
  BY <1>0 DEF QueueOne
<1>3. /\ UNCHANGED <<tadr, qwc, madr, tagid, initialized, wire>>
      /\ left' = left - 1 /\ left' \in 0 .. MaxTags
      /\ str' <=> left' = 0
      /\ str' \in BOOLEAN
      /\ Unread + 1 <= N - 1
      /\ Unread \in Nat /\ left \in Nat /\ left > 0
  BY <1>1, TransferFrame DEF TypeOK
<1>4. /\ i \in Slots /\ i \notin Queued /\ i # HwIndex
      /\ HwIndex' = HwIndex /\ Unread' = Unread + 1
      /\ Queued' = Queued \cup {i}
      /\ Unread = 0 => NextSlot(HwIndex) = i
      /\ last # i
  BY <1>0, <1>2, <1>3, PushOne
<1>5. id \in {REF, REFE} /\ (id = REFE <=> left' = 0)
  BY <1>1, <1>3 DEF REF, REFE
<1>6. TypeOK'
  <2>1. new \in Tag
    BY <1>1, <1>4, <1>5 DEF Tag, Addr
  <2>2. sif1_dmatags' \in [Slots -> Tag] /\ iop_dmatags' \in [Slots -> Nat]
    BY <1>2, <1>4, <2>1 DEF TypeOK
  <2>3. sif1_dma_count' \in 0 .. CountMod - 1
    BY <1>2, LapCount DEF TypeOK, Lap
  <2> QED
    BY <1>1, <1>2, <1>3, <1>4, <2>2, <2>3 DEF TypeOK
<1>7. /\ sif1_dmatags'[i] = new
      /\ \A k \in Slots : k # i => sif1_dmatags'[k] = sif1_dmatags[k]
      /\ iop_dmatags'[i] = accepted
      /\ \A k \in Slots : k # i => iop_dmatags'[k] = iop_dmatags[k]
  BY <1>2, <1>4 DEF TypeOK
<1>8. /\ Word(sif1_dmatags[i].addr)' = accepted
      /\ \A k \in Queued : Word(sif1_dmatags[k].addr)' = Word(sif1_dmatags[k].addr)
      /\ qwc > 0 => Word(madr)' = Word(madr)
  <2>1. Word(sif1_dmatags[i].addr)' = accepted
    <3>1. i # MEM /\ accepted \in Nat
      BY DEF MEM, Slots, TypeOK
    <3>2. sif1_dmatags'[i].addr = [slot |-> i, off |-> 0] /\ iop_dmatags'[i] = accepted
      BY <1>7
    <3> QED
      BY <3>1, <3>2 DEF Word
  <2>2. ASSUME NEW k \in Queued
        PROVE  Word(sif1_dmatags[k].addr)' = Word(sif1_dmatags[k].addr)
    <3>1. k \in Slots /\ k # i /\ sif1_dmatags[k].addr.slot \in {MEM, k}
      BY <1>4 DEF Queued, BuffersOwned
    <3> QED
      BY <1>7, <3>1 DEF Word
  <2>3. ASSUME qwc > 0 PROVE Word(madr)' = Word(madr)
    <3>1. HwIndex \in Slots
      BY DEF HwIndex, TypeOK, Slots
    <3>2. madr.slot \in {MEM, HwIndex}
      BY <2>3 DEF BuffersOwned
    <3> QED
      BY <1>3, <1>4, <1>7, <3>1, <3>2 DEF Word
  <2> QED
    BY <2>1, <2>2, <2>3
<1>9. StreamIntact'
  <2>1. qwc' > 0 => Word(madr)' = wire'
    BY <1>3, <1>8 DEF StreamIntact
  <2>2. Word(sif1_dmatags[NextSlot(HwIndex)].addr)' = wire' + qwc'
    <3>1. CASE Unread = 0
      <4>1. NextSlot(HwIndex)' = i
        BY <1>4, <3>1 DEF NextSlot
      <4> QED
        BY <1>3, <1>8, <3>1, <4>1 DEF StreamIntact
    <3>2. CASE Unread > 0
      <4>1. NextSlot(HwIndex) \in Queued
        BY <3>2, QueueEnds
      <4>2. NextSlot(HwIndex)' = NextSlot(HwIndex)
        BY <1>4 DEF NextSlot
      <4> QED
        BY <1>3, <1>4, <1>7, <1>8, <3>2, <4>1, <4>2 DEF StreamIntact
    <3> QED
      BY <1>3, <3>1, <3>2
  <2>3. ASSUME NEW k \in Queued'
        PROVE  LET end == (Word(sif1_dmatags[k].addr) + sif1_dmatags[k].qwc)' IN
               /\ end <= accepted'
               /\ IF k = sif1_dmatag_index' THEN accepted' = end
                  ELSE Word(sif1_dmatags[NextSlot(k)].addr)' = end
    <3>1. CASE k = i
      <4>1. sif1_dmatags'[i].qwc = words
        BY <1>7
      <4> QED
        BY <1>1, <1>2, <1>8, <3>1, <4>1 DEF TypeOK
    <3>2. CASE k # i
      <4>1. k \in Queued /\ k \in Slots /\ NextSlot(k)' = NextSlot(k)
        BY <1>4, <3>2 DEF Queued, NextSlot
      <4>2. Unread > 0
        BY <4>1 DEF Queued, Ahead, Unread, HwIndex, TypeOK, Slots
      <4>3. (Word(sif1_dmatags[k].addr) + sif1_dmatags[k].qwc)'
              = Word(sif1_dmatags[k].addr) + sif1_dmatags[k].qwc
        BY <1>7, <1>8, <3>2, <4>1
      <4>4. Word(sif1_dmatags[k].addr) + sif1_dmatags[k].qwc <= accepted
        BY <4>1 DEF StreamIntact
      <4>5. sif1_dmatags[k] \in Tag /\ Word(sif1_dmatags[k].addr) \in Nat
        BY <4>1 DEF TypeOK, Tag, Addr, Word, BuffersOwned
      <4>6. CASE k = last
        <5>1. NextSlot(k)' = i
          BY <1>0, <4>1, <4>6
        <5>2. Word(sif1_dmatags[k].addr) + sif1_dmatags[k].qwc = accepted
          BY <4>1, <4>6 DEF StreamIntact
        <5> QED
          BY <1>1, <1>2, <1>8, <3>2, <4>3, <5>1, <5>2 DEF TypeOK
      <4>7. CASE k # last
        <5>1. NextSlot(k) \in Queued
          BY <4>1, <4>2, <4>7, QueueEnds
        <5>2. NextSlot(k) # i
          BY <5>1, <1>4
        <5>3. Word(sif1_dmatags[NextSlot(k)].addr)' =
                Word(sif1_dmatags[NextSlot(k)].addr)
          BY <1>7, <1>8, <4>1, <5>1, <5>2 DEF Queued
        <5> QED
          BY <1>1, <1>2, <3>2, <4>1, <4>3, <4>4, <4>5, <4>7, <5>3
          DEF StreamIntact, TypeOK, Tag
      <4> QED
        BY <4>6, <4>7
    <3> QED
      BY <3>1, <3>2
  <2> QED
    BY <1>3, <1>4, <2>1, <2>2, <2>3 DEF StreamIntact
<1>10. ChannelArmed'
  <2>1. \A k \in Queued : sif1_dmatags[k].id # REFE
    BY <1>3 DEF ChannelArmed
  <2>2. \A k \in Queued' : sif1_dmatags'[k].id = REFE <=> (left' = 0 /\ k = i)
    BY <1>4, <1>5, <1>7, <2>1 DEF Queued
  <2>3. qwc > 0 => Unread > 0 /\ tagid # REFE
    BY <1>3 DEF ChannelArmed, BuffersOwned
  <2>4. left' = 0 => (str' <=> (qwc' > 0 \/ Unread' > 0))
    BY <1>3, <1>4
  <2> QED
    BY <1>2, <1>3, <1>4, <2>2, <2>3, <2>4 DEF ChannelArmed
<1>11. RoomKept'
  BY <1>3, <1>4 DEF RoomKept
<1>12. BuffersOwned'
  <2>1. \A k \in Queued' : sif1_dmatags'[k].addr.slot \in {MEM, k} /\ sif1_dmatags'[k].qwc > 0
    BY <1>1, <1>4, <1>7 DEF BuffersOwned, Queued
  <2> QED
    BY <1>3, <1>4, <2>1 DEF BuffersOwned
<1> QED
  BY <1>1, <1>2, <1>6, <1>9, <1>10, <1>11, <1>12 DEF TypeOK

(* A transfer in two tags extends the stream by what was copied and by what  *)
(* stays in the caller's memory.                                             *)
LEMMA QueueTwoIInv ==
  ASSUME NEW t \in Transfers, IInv, SifSetDmaTransfer(t),
         QueueTwo(t, IF TagsNeeded(t) = left THEN REFE ELSE REF)
  PROVE  IInv' /\ accepted' \in Nat /\ accepted' > accepted
<1> DEFINE last == sif1_dmatag_index
<1>0. PICK i \in Slots, j \in Slots : i = NextSlot(last) /\ j = NextSlot(i)
  BY RingAssumption DEF IInv, TypeOK, NextSlot, Slots
<1> DEFINE id == IF TagsNeeded(t) = left THEN REFE ELSE REF
           rest == Qwc(t) - Payload
           first == [id |-> REF, qwc |-> Payload + 1, addr |-> [slot |-> i, off |-> 0]]
           second == [id |-> id, qwc |-> rest,
                      addr |-> [slot |-> MEM, off |-> accepted + Payload + 1]]
<1> USE RingAssumption DEF IInv
<1>1. TagsNeeded(t) = 2 /\ rest \in Nat /\ rest >= 1
  <2>1. t.attr # "dmatag" /\ Qwc(t) >= Payload + 1
    BY DEF QueueTwo
  <2> QED
    BY <2>1, TransferCounts
<1>2. /\ sif1_dmatags' = [sif1_dmatags EXCEPT ![i] = first, ![j] = second]
      /\ iop_dmatags' = [iop_dmatags EXCEPT ![i] = accepted]
      /\ sif1_dmatag_index' = j
      /\ sif1_dma_count' = (sif1_dma_count + Lap(last) + Lap(i)) % CountMod
      /\ accepted' = accepted + Payload + 1 + rest
  BY <1>0 DEF QueueTwo
<1>3. /\ UNCHANGED <<tadr, qwc, madr, tagid, initialized, wire>>
      /\ left' = left - 2 /\ left' \in 0 .. MaxTags
      /\ str' <=> left' = 0
      /\ str' \in BOOLEAN
      /\ Unread + 2 <= N - 1
      /\ Unread \in Nat /\ left \in Nat /\ left > 0
  BY <1>1, TransferFrame DEF TypeOK
<1>4. /\ i \notin Queued /\ i # HwIndex
      /\ j \notin Queued /\ j # HwIndex
      /\ i # j /\ last # i /\ last # j
      /\ HwIndex' = HwIndex /\ Unread' = Unread + 2
      /\ Queued' = Queued \cup {i, j}
      /\ Unread = 0 => NextSlot(HwIndex) = i
  BY <1>0, <1>2, <1>3, PushTwo
<1>5. id \in {REF, REFE} /\ (id = REFE <=> left' = 0)
  BY <1>1, <1>3 DEF REF, REFE
<1>6. TypeOK'
  <2>1. first \in Tag
    BY DEF Tag, Addr
  <2>2. [slot |-> MEM, off |-> accepted + Payload + 1] \in Addr
    BY DEF Addr, TypeOK
  <2>3. second \in Tag
    BY <1>1, <1>5, <2>2 DEF Tag
  <2>4. sif1_dmatags' \in [Slots -> Tag] /\ iop_dmatags' \in [Slots -> Nat]
    BY <1>2, <2>1, <2>3 DEF TypeOK
  <2>5. sif1_dma_count' \in 0 .. CountMod - 1
    <3>1. Lap(last) \in Nat /\ Lap(i) \in Nat /\ sif1_dma_count \in Nat
      BY DEF Lap, TypeOK
    <3>2. sif1_dma_count + Lap(last) \in Nat
      BY <3>1
    <3> QED
      BY <1>2, <3>1, <3>2, LapCount
  <2>6. accepted' \in Nat
    BY <1>1, <1>2 DEF TypeOK
  <2> QED
    BY <1>2, <1>3, <2>4, <2>5, <2>6 DEF TypeOK
<1>7. /\ sif1_dmatags'[i] = first /\ sif1_dmatags'[j] = second
      /\ \A k \in Slots : k # i /\ k # j => sif1_dmatags'[k] = sif1_dmatags[k]
      /\ iop_dmatags'[i] = accepted
      /\ \A k \in Slots : k # i => iop_dmatags'[k] = iop_dmatags[k]
  BY <1>2, <1>4 DEF TypeOK
<1>8. /\ Word(sif1_dmatags[i].addr)' = accepted
      /\ Word(sif1_dmatags[j].addr)' = accepted + Payload + 1
      /\ \A k \in Queued : Word(sif1_dmatags[k].addr)' = Word(sif1_dmatags[k].addr)
      /\ qwc > 0 => Word(madr)' = Word(madr)
  <2>1. Word(sif1_dmatags[i].addr)' = accepted
    <3>1. i # MEM /\ accepted \in Nat
      BY DEF MEM, Slots, TypeOK
    <3>2. sif1_dmatags'[i].addr = [slot |-> i, off |-> 0] /\ iop_dmatags'[i] = accepted
      BY <1>7
    <3> QED
      BY <3>1, <3>2 DEF Word
  <2>2. Word(sif1_dmatags[j].addr)' = accepted + Payload + 1
    BY <1>7 DEF Word
  <2>3. ASSUME NEW k \in Queued
        PROVE  Word(sif1_dmatags[k].addr)' = Word(sif1_dmatags[k].addr)
    <3>1. k \in Slots /\ k # i /\ k # j /\ sif1_dmatags[k].addr.slot \in {MEM, k}
      BY <1>4 DEF Queued, BuffersOwned
    <3> QED
      BY <1>7, <3>1 DEF Word
  <2>4. ASSUME qwc > 0 PROVE Word(madr)' = Word(madr)
    <3>1. HwIndex \in Slots
      BY DEF HwIndex, TypeOK, Slots
    <3>2. madr.slot \in {MEM, HwIndex}
      BY <2>4 DEF BuffersOwned
    <3> QED
      BY <1>3, <1>4, <1>7, <3>1, <3>2 DEF Word
  <2> QED
    BY <2>1, <2>2, <2>3, <2>4
<1>9. StreamIntact'
  <2>1. qwc' > 0 => Word(madr)' = wire'
    BY <1>3, <1>8 DEF StreamIntact
  <2>2. Word(sif1_dmatags[NextSlot(HwIndex)].addr)' = wire' + qwc'
    <3>1. CASE Unread = 0
      <4>1. NextSlot(HwIndex)' = i
        BY <1>4, <3>1 DEF NextSlot
      <4> QED
        BY <1>3, <1>8, <3>1, <4>1 DEF StreamIntact
    <3>2. CASE Unread > 0
      <4>1. NextSlot(HwIndex) \in Queued
        BY <3>2, QueueEnds
      <4>2. NextSlot(HwIndex)' = NextSlot(HwIndex)
        BY <1>4 DEF NextSlot
      <4>3. NextSlot(HwIndex) \in Slots /\ NextSlot(HwIndex) # i /\ NextSlot(HwIndex) # j
        BY <1>4, <4>1 DEF Queued
      <4>4. sif1_dmatags'[NextSlot(HwIndex)] = sif1_dmatags[NextSlot(HwIndex)]
        BY <1>7, <4>3
      <4> QED
        BY <1>3, <1>8, <3>2, <4>1, <4>2, <4>4 DEF StreamIntact
    <3> QED
      BY <1>3, <3>1, <3>2
  <2>3. ASSUME NEW k \in Queued'
        PROVE  LET end == (Word(sif1_dmatags[k].addr) + sif1_dmatags[k].qwc)' IN
               /\ end <= accepted'
               /\ IF k = sif1_dmatag_index' THEN accepted' = end
                  ELSE Word(sif1_dmatags[NextSlot(k)].addr)' = end
    <3>1. CASE k = j
      <4>1. sif1_dmatags'[j].qwc = rest
        BY <1>7
      <4> QED
        BY <1>1, <1>2, <1>8, <3>1, <4>1 DEF TypeOK
    <3>2. CASE k = i
      <4>1. sif1_dmatags'[i].qwc = Payload + 1
        BY <1>7
      <4>2. NextSlot(k)' = j
        BY <1>0, <3>2 DEF NextSlot
      <4> QED
        BY <1>1, <1>2, <1>4, <1>8, <3>2, <4>1, <4>2 DEF TypeOK
    <3>3. CASE k # i /\ k # j
      <4>1. k \in Queued /\ k \in Slots /\ NextSlot(k)' = NextSlot(k)
        BY <1>4, <3>3 DEF Queued, NextSlot
      <4>2. Unread > 0
        BY <4>1 DEF Queued, Ahead, Unread, HwIndex, TypeOK, Slots
      <4>3. (Word(sif1_dmatags[k].addr) + sif1_dmatags[k].qwc)'
              = Word(sif1_dmatags[k].addr) + sif1_dmatags[k].qwc
        BY <1>7, <1>8, <3>3, <4>1
      <4>4. Word(sif1_dmatags[k].addr) + sif1_dmatags[k].qwc <= accepted
        BY <4>1 DEF StreamIntact
      <4>5. sif1_dmatags[k] \in Tag /\ Word(sif1_dmatags[k].addr) \in Nat
        BY <4>1 DEF TypeOK, Tag, Addr, Word, BuffersOwned
      <4>6. CASE k = last
        <5>1. NextSlot(k)' = i
          BY <1>0, <4>1, <4>6
        <5>2. Word(sif1_dmatags[k].addr) + sif1_dmatags[k].qwc = accepted
          BY <4>1, <4>6 DEF StreamIntact
        <5> QED
          BY <1>1, <1>2, <1>8, <3>3, <4>3, <5>1, <5>2 DEF TypeOK
      <4>7. CASE k # last
        <5>1. NextSlot(k) \in Queued
          BY <4>1, <4>2, <4>7, QueueEnds
        <5>2. NextSlot(k) # i /\ NextSlot(k) # j /\ NextSlot(k) \in Slots
          BY <5>1, <1>4 DEF Queued
        <5>3. Word(sif1_dmatags[NextSlot(k)].addr)' =
                Word(sif1_dmatags[NextSlot(k)].addr)
          BY <1>7, <1>8, <4>1, <5>1, <5>2
        <5> QED
          BY <1>1, <1>2, <3>3, <4>1, <4>3, <4>4, <4>5, <4>7, <5>3
          DEF StreamIntact, TypeOK, Tag
      <4> QED
        BY <4>6, <4>7
    <3> QED
      BY <3>1, <3>2, <3>3
  <2> QED
    BY <1>3, <1>4, <2>1, <2>2, <2>3 DEF StreamIntact
<1>10. ChannelArmed'
  <2>1. \A k \in Queued : sif1_dmatags[k].id # REFE
    BY <1>3 DEF ChannelArmed
  <2>2. \A k \in Queued' : sif1_dmatags'[k].id = REFE <=> (left' = 0 /\ k = j)
    BY <1>4, <1>5, <1>7, <2>1 DEF Queued, REF, REFE
  <2>3. qwc > 0 => Unread > 0 /\ tagid # REFE
    BY <1>3 DEF ChannelArmed, BuffersOwned
  <2>4. left' = 0 => (str' <=> (qwc' > 0 \/ Unread' > 0))
    BY <1>3, <1>4
  <2>5. qwc' > 0 => (tagid' = REFE <=> Unread' = 0)
    BY <1>3, <1>4, <2>3
  <2> QED
    BY <1>2, <2>2, <2>4, <2>5 DEF ChannelArmed
<1>11. RoomKept'
  <2>1. left + Unread <= N - 1
    BY <1>3 DEF RoomKept
  <2>2. left' > 0 => ~str'
    BY <1>3
  <2> QED
    BY <1>3, <1>4, <2>1, <2>2 DEF RoomKept
<1>12. BuffersOwned'
  <2>1. \A k \in Queued' : sif1_dmatags'[k].addr.slot \in {MEM, k} /\ sif1_dmatags'[k].qwc > 0
    BY <1>1, <1>4, <1>7 DEF BuffersOwned, Queued
  <2> QED
    BY <1>3, <1>4, <2>1 DEF BuffersOwned
<1> QED
  BY <1>1, <1>2, <1>6, <1>9, <1>10, <1>11, <1>12 DEF TypeOK

(* One round of SifSetDma's loop. *)
LEMMA TransferIInv ==
  ASSUME NEW t \in Transfers, IInv, SifSetDmaTransfer(t)
  PROVE  IInv' /\ accepted' \in Nat /\ accepted' > accepted /\ wire' = wire
<1>1. \/ QueueOne(t, IF TagsNeeded(t) = left THEN REFE ELSE REF)
      \/ QueueTwo(t, IF TagsNeeded(t) = left THEN REFE ELSE REF)
  BY DEF SifSetDmaTransfer
<1> QED
  BY <1>1, QueueOneIInv, QueueTwoIInv, TransferFrame

(* Forgetting that the interface is initialised changes nothing else; the    *)
(* next sbcall_sifinit empties the ring.                                     *)
LEMMA ExitInitIInv ==
  ASSUME IInv, SifExit \/ SifInit
  PROVE  IInv'
<1> USE RingAssumption DEF IInv
<1>1. CASE SifExit
  <2>1. UNCHANGED <<ring, dmac, left, accepted, wire>> /\ initialized' = FALSE
    BY <1>1 DEF SifExit
  <2>2. HwIndex' = HwIndex /\ Unread' = Unread /\ Queued' = Queued
    BY <2>1 DEF HwIndex, Unread, Queued, Ahead, ring, dmac
  <2>3. \A a : Word(a)' = Word(a)
    BY <2>1 DEF Word, ring
  <2>4. initialized' \in BOOLEAN
    BY <2>1, Zenon
  <2>5. TypeOK'
    BY <2>1, <2>4 DEF TypeOK, ring, dmac
  <2> QED
    BY <2>1, <2>2, <2>3, <2>5
    DEF StreamIntact, ChannelArmed, RoomKept, BuffersOwned, ring, dmac
<1>2. CASE SifInit
  <2>1. Unread' = 0 /\ Queued' = {}
    BY <1>2 DEF SifInit, HwIndex, Unread, Queued, Ahead, Slots
  <2>2. initialized' \in BOOLEAN /\ str' \in BOOLEAN
    BY <1>2, Zenon DEF SifInit
  <2>3. TypeOK'
    BY <1>2, <2>2 DEF SifInit, TypeOK, Slots
  <2> QED
    BY <1>2, <2>1, <2>3
    DEF SifInit, TypeOK, StreamIntact, ChannelArmed, RoomKept, BuffersOwned
<1> QED
  BY <1>1, <1>2

-----------------------------------------------------------------------------
(* Every step keeps the invariant. *)
LEMMA NextIInv == IInv /\ [Next]_vars => IInv'
<1> SUFFICES ASSUME IInv, [Next]_vars PROVE IInv'
  OBVIOUS
<1>1. CASE Dmac
  BY <1>1, DmacFetchIInv, DmacJumpIInv, DmacMoveIInv DEF Dmac
<1>2. CASE SifSetDma
  BY <1>2, SetDmaStartIInv, SetDmaFullIInv, TransferIInv DEF SifSetDma
<1>3. CASE SifExit \/ SifInit
  BY <1>3, ExitInitIInv
<1>4. CASE UNCHANGED vars
  <2>1. HwIndex' = HwIndex /\ Unread' = Unread /\ Queued' = Queued
    BY <1>4 DEF vars, ring, dmac, HwIndex, Unread, Queued, Ahead
  <2>2. \A a : Word(a)' = Word(a)
    BY <1>4 DEF vars, ring, dmac, Word
  <2> QED
    BY <1>4, <2>1, <2>2 DEF vars, ring, dmac, IInv, TypeOK, StreamIntact,
                            ChannelArmed, RoomKept, BuffersOwned
<1> QED
  BY <1>1, <1>2, <1>3, <1>4 DEF Next

(* The invariant holds in every reachable state. *)
THEOREM Invariance == Spec => []IInv
<1> QED
  BY InitIInv, NextIInv, PTL DEF Spec

(* Types are respected. *)
THEOREM TypeCorrect == Spec => []TypeOK
<1>1. IInv => TypeOK
  BY DEF IInv
<1> QED
  BY <1>1, Invariance, PTL

(* However SifSetDma, the DMAC and re-initialisation interleave, the tags    *)
(* queued cover exactly the quadwords accepted and not yet sent, in order.   *)
THEOREM StreamSafe == Spec => []StreamIntact
<1>1. IInv => StreamIntact
  BY DEF IInv
<1> QED
  BY <1>1, Invariance, PTL

(* The channel is never left stopped with tags queued, and never runs past   *)
(* the end of the queue.                                                     *)
THEOREM ChannelSafe == Spec => []ChannelArmed
<1>1. IInv => ChannelArmed
  BY DEF IInv
<1> QED
  BY <1>1, Invariance, PTL

(* Every step of the ring and the DMAC is a step of the stream of SifFifo or *)
(* leaves it unchanged.                                                      *)
LEMMA StepRefines == IInv /\ [Next]_vars => [Fifo!Next]_(Fifo!vars)
<1> SUFFICES ASSUME IInv, [Next]_vars PROVE [Fifo!Next]_(Fifo!vars)
  OBVIOUS
<1> USE DEF Fifo!Next, Fifo!vars
<1>1. CASE DmacMove
  <2>1. wire < accepted /\ wire' = wire + 1
    BY <1>1, DmacMoveIInv
  <2> QED
    BY <1>1, <2>1 DEF DmacMove, Fifo!Deliver
<1>2. CASE \E t \in Transfers : SifSetDmaTransfer(t)
  BY <1>2, TransferIInv DEF Fifo!Accept
<1>3. CASE SifInit
  BY <1>3 DEF SifInit, Fifo!Reset
<1>4. CASE DmacFetch \/ DmacJump \/ SifExit \/ UNCHANGED vars
  BY <1>4 DEF DmacFetch, DmacJump, SifExit, vars
<1>5. CASE \E n \in 1 .. MaxTags : SifSetDmaStart(n) \/ SifSetDmaFull(n)
  BY <1>5 DEF SifSetDmaStart, SifSetDmaFull
<1> QED
  BY <1>1, <1>2, <1>3, <1>4, <1>5 DEF Next, Dmac, SifSetDma

(* The transmit path implements a stream that loses, repeats and reorders    *)
(* nothing.                                                                  *)
THEOREM Refinement == Spec => ImplementsFifo
<1>1. Init => Fifo!Init
  BY DEF Init, Fifo!Init
<1> QED
  BY <1>1, StepRefines, Invariance, PTL DEF Spec, ImplementsFifo, Fifo!Spec
=============================================================================
