------------------------------ MODULE SifFifo ------------------------------
(***************************************************************************)
(* What the SIF1 transmit path promises its callers, with the ring of DMA  *)
(* tags, the DMAC and the interrupt masking left out: the quadwords handed  *)
(* to SifSetDma go out once each and in the order they were handed over.    *)
(* Quadwords are numbered 0, 1, 2, ... in the order they are accepted.      *)
(***************************************************************************)
EXTENDS Naturals

VARIABLES
  accepted,   \* quadwords handed over so far
  wire        \* the number of the quadword to send next

vars == <<accepted, wire>>

Init ==
  /\ accepted = 0
  /\ wire = 0

(* A transfer is queued. *)
Accept ==
  /\ accepted' \in Nat
  /\ accepted' > accepted
  /\ wire' = wire

(* The next quadword in order goes to the IOP. *)
Deliver ==
  /\ wire < accepted
  /\ wire' = wire + 1
  /\ accepted' = accepted

(* The interface is initialised again: what was still queued is dropped. *)
Reset ==
  /\ wire' = accepted
  /\ accepted' = accepted

Next == Accept \/ Deliver \/ Reset

Spec == Init /\ [][Next]_vars
=============================================================================
