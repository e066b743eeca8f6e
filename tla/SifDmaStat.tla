----------------------------- MODULE SifDmaStat -----------------------------
(***************************************************************************)
(* sif_dma_stat of TGE/sbios/sifdma.c beside the ring it asks about: the ids *)
(* SifSetDma returns, and the interrupt mask sif_dma_stat takes and gives    *)
(* back.  It reads the channel's state first and masks interrupts after, so  *)
(* the DMAC and an interrupt handler's SifSetDma may run in between.         *)
(***************************************************************************)
EXTENDS SifDma

VARIABLES
  lastId,   \* what the last successful SifSetDma returned
  stat,     \* the id sif_dma_stat is asking about, NoId if it is not running
  ie        \* COP0 Status.IE: interrupts are enabled

statVars == <<vars, lastId, stat, ie>>

NoId == [count |-> 0, start |-> 0, ntags |-> 0]

(* The id of a call for n tags: lap, first tag and number of tags. *)
TransferId(n) ==
  LET start == NextSlot(sif1_dmatag_index) IN
    [count |-> IF start > 0 THEN sif1_dma_count ELSE (sif1_dma_count + 1) % CountMod,
     start |-> start,
     ntags |-> n]

SifSetDmaId ==
  \E n \in 1 .. MaxTags :
    /\ SifSetDmaStart(n)
    /\ lastId' = TransferId(n)
    /\ UNCHANGED <<stat, ie>>

Others ==
  /\ \/ Dmac
     \/ \E n \in 1 .. MaxTags : SifSetDmaFull(n)
     \/ \E t \in Transfers : SifSetDmaTransfer(t)
  /\ UNCHANGED <<lastId, stat, ie>>

SifDmaStatStart ==
  /\ left = 0 /\ stat = NoId /\ lastId # NoId
  /\ str
  /\ stat' = lastId
  /\ UNCHANGED <<vars, lastId, ie>>

(* The tag being sent is one of the transfer's, on the lap it was queued in. *)
StatBusy(id) ==
  LET last == (id.start + id.ntags - 1) % N
      count == IF last > 0 THEN id.count ELSE id.count + 1
      lap == IF sif1_dmatag_index < HwIndex THEN sif1_dma_count - 1
                                            ELSE sif1_dma_count
  IN lap \in {id.count, count} /\ HwIndex \in id.start .. last

(* The return that reports "busy" leaves without core_restore. *)
SifDmaStatEnd ==
  /\ left = 0 /\ stat # NoId
  /\ ie' = IF StatBusy(stat) THEN FALSE ELSE ie
  /\ stat' = NoId
  /\ UNCHANGED <<vars, lastId>>

StatInit ==
  /\ Init
  /\ lastId = NoId /\ stat = NoId
  /\ ie = TRUE

StatNext == SifSetDmaId \/ Others \/ SifDmaStatStart \/ SifDmaStatEnd

StatSpec == StatInit /\ [][StatNext]_statVars

(* sif_dma_stat gives back the interrupt state it found: core.h says that    *)
(* core_restore restores the previous contents of COP0 Status.               *)
InterruptsRestored == stat = NoId => ie
=============================================================================
