----------------------------- MODULE KernelDmac -----------------------------
(***************************************************************************)
(* DMA controller interrupts in the kernel stub (kernel/dmac.c, dispatched   *)
(* from kernel/irq.c).  The status register D_STAT holds, for each channel,   *)
(* a bit CIS that is set when a transfer is complete and cleared by writing   *)
(* 1, and a mask bit CIM that a write of 1 inverts; the kernel remembers the  *)
(* mask in saved_dmac_mask.  Reads and writes of the register, the DMAC and   *)
(* the handlers interleave.                                                   *)
(***************************************************************************)
EXTENDS Integers

CONSTANT CIM0       \* DMAC_CIM0: channels, and the position of the first mask bit

ASSUME DmacAssumption == CIM0 \in Nat \ {0}

VARIABLES
  cis, cim,         \* D_STAT: the channels complete, the channels enabled
  saved,            \* saved_dmac_mask, a set of bit numbers
  khandler,         \* channels with an entry in dmac_handler
  uhandler,         \* channels with an entry in dmac_useg_handler
  pc,               \* "boot", "run", or in dmac_interrupt: "scan", "call", "user"
  i,                \* the loop variable of dmac_interrupt
  pending,          \* status & mask, as read when dmac_interrupt began
  asked,            \* channels the program enabled last, rather than disabled
  owed              \* handlers not called since their channel completed

vars == <<cis, cim, saved, khandler, uhandler, pc, i, pending, asked, owed>>

regs == <<cis, cim>>
loop == <<pc, i, pending>>

Ch == 0 .. CIM0 - 1

Bits == 0 .. 2 * CIM0 - 1

(* The handlers installed. *)
Handlers ==
  [kind : {"kernel"}, ch : khandler] \cup [kind : {"user"}, ch : uhandler]

(* External: what writing a set of bits does to D_STAT. *)
Write(bits) ==
  /\ cis' = {c \in cis : c \notin bits}
  /\ cim' = {c \in Ch : (c \in cim) # (CIM0 + c \in bits)}

(* The mask bits as they were, with one more: the way INTC_MASK is written. *)
dmac_enable_irq_ReadModifyWrite(irq_nr) ==
  LET b == irq_nr + CIM0 IN
  \/ /\ b \notin saved
     /\ saved' = saved \cup {b}
     /\ Write({b} \cup cis \cup {CIM0 + c : c \in cim})
  \/ /\ b \in saved
     /\ UNCHANGED <<saved, regs>>

dmac_enable_irq(irq_nr) ==
  LET b == irq_nr + CIM0 IN
  \/ /\ b \notin saved
     /\ saved' = saved \cup {b}
     /\ Write({b})
  \/ /\ b \in saved
     /\ UNCHANGED <<saved, regs>>

dmac_disable_irq(irq_nr) ==
  LET b == irq_nr + CIM0 IN
  \/ /\ b \in saved
     /\ saved' = saved \ {b}
     /\ Write({b})
  \/ /\ b \notin saved
     /\ UNCHANGED <<saved, regs>>

(* At start-up the register is written back to itself; the second time there *)
(* is nothing left to clear.                                                 *)
dmac_init_module ==
  /\ pc = "boot"
  /\ saved' = {}
  /\ Write(cis \cup {CIM0 + c : c \in cim})
  /\ khandler' = {} /\ uhandler' = {}
  /\ pc' = "run"
  /\ asked' = {} /\ owed' = {}
  /\ UNCHANGED <<i, pending>>

(* The kernel: sif_init registers a handler and enables its channel. *)
dmac_register_handler(c) ==
  /\ pc = "run"
  /\ khandler' = khandler \cup {c}
  /\ UNCHANGED <<regs, saved, uhandler, loop, asked, owed>>

KernelEnables(c) ==
  /\ pc = "run"
  /\ dmac_enable_irq(c)
  /\ UNCHANGED <<khandler, uhandler, loop, asked, owed>>

(* System calls: made by the program and by its handlers. *)
CallsRun == pc \in {"run", "user"}

syscallAddDmacHandler(c, install) ==
  /\ CallsRun
  /\ \/ /\ install
        /\ uhandler' = uhandler \cup {c}
        /\ owed' = owed
     \/ /\ ~install
        /\ uhandler' = uhandler \ {c}
        /\ owed' = owed \ {[kind |-> "user", ch |-> c]}
  /\ UNCHANGED <<regs, saved, khandler, loop, asked>>

(* Returns 0 at once unless the bit numbered as the channel is set. *)
syscallEnableDmac(c) ==
  /\ CallsRun
  /\ IF c \in saved THEN dmac_enable_irq(c) ELSE UNCHANGED <<saved, regs>>
  /\ asked' = asked \cup {c}
  /\ UNCHANGED <<khandler, uhandler, loop, owed>>

(* Returns 0 at once if the bit numbered as the channel is set. *)
syscallDisableDmac(c) ==
  /\ CallsRun
  /\ IF c \in saved THEN UNCHANGED <<saved, regs>> ELSE dmac_disable_irq(c)
  /\ asked' = asked \ {c}
  /\ UNCHANGED <<khandler, uhandler, loop, owed>>

(* External: the DMAC completes a transfer, at any moment. *)
Complete(c) ==
  /\ pc # "boot"
  /\ cis' = cis \cup {c}
  /\ owed' = owed \cup {h \in Handlers : h.ch = c}
  /\ UNCHANGED <<cim, saved, khandler, uhandler, loop, asked>>

(* The saved mask is not shifted down to the status bits. *)
dmac_interrupt_NoShift ==
  /\ pc = "run"
  /\ cis \cap cim # {}
  /\ pending' = cis \cap saved
  /\ i' = 0
  /\ pc' = "scan"
  /\ UNCHANGED <<regs, saved, khandler, uhandler, asked, owed>>

(* The interrupt is raised while an enabled channel is complete; irq_interrupt *)
(* calls dmac_interrupt, which reads the register and the saved mask once.     *)
dmac_interrupt ==
  /\ pc = "run"
  /\ cis \cap cim # {}
  /\ pending' = {c \in cis : CIM0 + c \in saved}
  /\ i' = 0
  /\ pc' = "scan"
  /\ UNCHANGED <<regs, saved, khandler, uhandler, asked, owed>>

(* The loop acknowledges a channel ... *)
Acknowledge ==
  /\ pc = "scan"
  /\ i \in pending
  /\ Write({i})
  /\ pc' = "call"
  /\ UNCHANGED <<saved, khandler, uhandler, i, pending, asked, owed>>

Skip ==
  /\ pc = "scan"
  /\ i \in Ch \ pending
  /\ i' = i + 1
  /\ UNCHANGED <<regs, saved, khandler, uhandler, pc, pending, asked, owed>>

(* The user's handler is only called when the kernel has none. *)
CallHandlers_OnlyOne ==
  /\ pc = "call"
  /\ \/ /\ i \in uhandler \ khandler
        /\ pc' = "user" /\ i' = i
        /\ owed' = owed \ {[kind |-> "user", ch |-> i]}
     \/ /\ i \notin uhandler \ khandler
        /\ pc' = "scan" /\ i' = i + 1
        /\ owed' = owed \ {[kind |-> "kernel", ch |-> i]}
  /\ UNCHANGED <<regs, saved, khandler, uhandler, pending, asked>>

(* ... and then calls the kernel's handler, if there is one, and the user's. *)
CallHandlers ==
  /\ pc = "call"
  /\ owed' = {h \in owed : h.ch # i}
  /\ \/ i \in uhandler /\ pc' = "user" /\ i' = i
     \/ i \notin uhandler /\ pc' = "scan" /\ i' = i + 1
  /\ UNCHANGED <<regs, saved, khandler, uhandler, pending, asked>>

UserHandlerReturns ==
  /\ pc = "user"
  /\ pc' = "scan"
  /\ i' = i + 1
  /\ UNCHANGED <<regs, saved, khandler, uhandler, pending, asked, owed>>

Return ==
  /\ pc = "scan"
  /\ i = CIM0
  /\ pc' = "run"
  /\ UNCHANGED <<regs, saved, khandler, uhandler, i, pending, asked, owed>>

LoopStep == Acknowledge \/ Skip \/ CallHandlers \/ UserHandlerReturns \/ Return

(* The loader leaves the register in any state. *)
Init ==
  /\ cis \in SUBSET Ch /\ cim \in SUBSET Ch
  /\ saved = {}
  /\ khandler = {} /\ uhandler = {}
  /\ pc = "boot"
  /\ i = 0
  /\ pending = {}
  /\ asked = {} /\ owed = {}

Calls(c) ==
  \/ \E install \in BOOLEAN : syscallAddDmacHandler(c, install)
  \/ syscallEnableDmac(c)
  \/ syscallDisableDmac(c)

Next ==
  \/ dmac_init_module
  \/ \E c \in Ch :
       \/ dmac_register_handler(c)
       \/ KernelEnables(c)
       \/ Calls(c)
       \/ Complete(c)
  \/ dmac_interrupt
  \/ LoopStep

Spec == Init /\ [][Next]_vars

(* Interrupts are taken while they are on and the handlers end. *)
FairSpec == Spec /\ WF_vars(dmac_interrupt) /\ WF_vars(LoopStep)
-----------------------------------------------------------------------------
(* Types; the loop of dmac_interrupt visits the channels once each. *)
TypeOK ==
  /\ cis \subseteq Ch /\ cim \subseteq Ch
  /\ saved \subseteq Bits
  /\ khandler \subseteq Ch /\ uhandler \subseteq Ch
  /\ pc \in {"boot", "run", "scan", "call", "user"}
  /\ i \in 0 .. CIM0
  /\ pc \in {"call", "user"} => i \in Ch
  /\ pending \subseteq Ch
  /\ asked \subseteq Ch
  /\ owed \subseteq Handlers

(* saved_dmac_mask agrees with the mask bits of D_STAT, though these can only  *)
(* be inverted and the program, its handlers and the kernel enable and disable *)
(* channels in any order and more than once.                                   *)
MaskAgrees == pc # "boot" => saved = {CIM0 + c : c \in cim}

(* No completion is lost: as long as a handler has not been called since its   *)
(* channel completed, the channel's status bit is set or the loop is about to  *)
(* call it, even if the transfer completes while an earlier one is being       *)
(* acknowledged, or the mask is written meanwhile.                             *)
CompletionKept ==
  \A h \in owed : h.ch \in cis \/ (pc = "call" /\ i = h.ch)

(* A completion on an enabled channel reaches its handlers, unless the channel *)
(* is disabled first; channels with lower numbers cannot keep it waiting.      *)
CompletionHandled ==
  \A c \in Ch : \A k \in {"kernel", "user"} :
    ([kind |-> k, ch |-> c] \in owed /\ c \in cim)
      ~> ([kind |-> k, ch |-> c] \notin owed \/ c \notin cim)

(* What kernel.h says of syscallEnableDmac, "Enable DMAC interrupt.": after the *)
(* call the channel's interrupt is enabled.                                    *)
EnableEnables == asked \subseteq cim
=============================================================================
