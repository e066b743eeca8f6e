---------------------------- MODULE Kernel_proofs ----------------------------
(***************************************************************************)
(* Proofs about the interrupts of the kernel stub: KernelDmac for every       *)
(* number of channels, KernelTimer for every set of interrupts and every      *)
(* period of the counter.                                                     *)
(***************************************************************************)
EXTENDS Kernel, TLAPS

(* The inductive invariant of the DMA interrupts. *)
IInv == TypeOK /\ MaskAgrees /\ CompletionKept

(* What the writes to D_STAT do: one mask bit is inverted and no status bit   *)
(* is cleared, one status bit is cleared, or everything is.                   *)
LEMMA WriteMask ==
  ASSUME TypeOK, NEW c \in Ch, Write({c + CIM0})
  PROVE  /\ cis' = cis
         /\ cim' = IF c \in cim THEN cim \ {c} ELSE cim \cup {c}
<1> USE DmacAssumption
<1>1. \A d \in Ch : d # c + CIM0 /\ (CIM0 + d = c + CIM0 <=> d = c)
  BY DEF Ch
<1>2. cis' = cis
  BY <1>1 DEF Write, TypeOK
<1>3. \A d \in Ch : d \in cim' <=> ((d \in cim) # (d = c))
  BY <1>1 DEF Write
<1>4. cim' \subseteq Ch
  BY DEF Write
<1> QED
  BY <1>2, <1>3, <1>4 DEF TypeOK

(* Acknowledging a channel leaves the masks alone. *)
LEMMA WriteStatus ==
  ASSUME TypeOK, NEW c \in Ch, Write({c})
  PROVE  cis' = cis \ {c} /\ cim' = cim
<1> USE DmacAssumption
<1>1. \A d \in Ch : CIM0 + d # c
  BY DEF Ch
<1> QED
  BY <1>1 DEF Write, TypeOK

(* Writing the register back to itself clears it. *)
LEMMA WriteBack ==
  ASSUME TypeOK, Write(cis \cup {CIM0 + c : c \in cim})
  PROVE  cis' = {} /\ cim' = {}
<1> USE DmacAssumption
<1>1. \A d \in Ch : CIM0 + d \in cis \cup {CIM0 + c : c \in cim} <=> d \in cim
  BY DEF TypeOK, Ch
<1> QED
  BY <1>1 DEF Write, TypeOK

(* Enabling and disabling keep the agreement of the masks and the status. *)
LEMMA EnableKeeps ==
  ASSUME IInv, pc # "boot", NEW c \in Ch,
         dmac_enable_irq(c) \/ dmac_disable_irq(c)
  PROVE  /\ cis' = cis
         /\ cim' \subseteq Ch
         /\ saved' \subseteq Bits
         /\ saved' = {CIM0 + d : d \in cim'}
<1> USE DmacAssumption
<1>0. TypeOK /\ saved = {CIM0 + d : d \in cim} /\ cim \subseteq Ch
  BY DEF IInv, MaskAgrees, TypeOK
<1>1. c + CIM0 \in saved <=> c \in cim
  BY <1>0 DEF Ch
<1>2. CASE UNCHANGED <<saved, regs>>
  BY <1>0, <1>2 DEF regs, TypeOK
<1>3. CASE c + CIM0 \notin saved /\ saved' = saved \cup {c + CIM0} /\ Write({c + CIM0})
  <2>1. cis' = cis /\ cim' = cim \cup {c}
    BY <1>0, <1>1, <1>3, WriteMask
  <2> QED
    BY <1>0, <1>3, <2>1 DEF Bits, Ch, TypeOK
<1>4. CASE c + CIM0 \in saved /\ saved' = saved \ {c + CIM0} /\ Write({c + CIM0})
  <2>1. cis' = cis /\ cim' = cim \ {c}
    BY <1>0, <1>1, <1>4, WriteMask
  <2>2. saved' = {CIM0 + d : d \in cim \ {c}}
    BY <1>0, <1>4 DEF Ch
  <2> QED
    BY <1>0, <1>4, <2>1, <2>2 DEF TypeOK
<1> QED
  BY <1>2, <1>3, <1>4 DEF dmac_enable_irq, dmac_disable_irq

(* A step that only moves the mask keeps the invariant. *)
LEMMA MaskStep ==
  ASSUME IInv, pc # "boot",
         cis' = cis, cim' \subseteq Ch, saved' \subseteq Bits,
         saved' = {CIM0 + d : d \in cim'},
         asked' \subseteq Ch,
         UNCHANGED <<khandler, uhandler, loop, owed>>
  PROVE  IInv'
BY DEF IInv, TypeOK, MaskAgrees, CompletionKept, loop, Handlers

(* The DMA controller at its start. *)
LEMMA InitIInv == Init => IInv
BY DmacAssumption DEF Init, IInv, TypeOK, MaskAgrees, CompletionKept, Ch, Bits

(* Every step of the DMA interrupts keeps the invariant. *)
LEMMA NextIInv == IInv /\ [Next]_vars => IInv'
<1> SUFFICES ASSUME IInv, [Next]_vars PROVE IInv'
  OBVIOUS
<1> USE DmacAssumption
<1>1. CASE dmac_init_module
  <2>1. cis' = {} /\ cim' = {}
    BY <1>1, WriteBack DEF IInv, dmac_init_module
  <2> QED
    BY <1>1, <2>1 DEF IInv, TypeOK, MaskAgrees, CompletionKept, dmac_init_module
<1>2. ASSUME NEW c \in Ch, dmac_register_handler(c)
      PROVE  IInv'
  BY <1>2 DEF IInv, TypeOK, MaskAgrees, CompletionKept, dmac_register_handler, regs, loop, Handlers
<1>3. ASSUME NEW c \in Ch, KernelEnables(c)
      PROVE  IInv'
  <2>1. /\ pc # "boot" /\ dmac_enable_irq(c)
        /\ UNCHANGED <<khandler, uhandler, loop, asked, owed>>
    BY <1>3 DEF KernelEnables
  <2> QED
    BY <2>1, EnableKeeps, MaskStep DEF IInv, TypeOK
<1>4. ASSUME NEW c \in Ch, NEW install \in BOOLEAN, syscallAddDmacHandler(c, install)
      PROVE  IInv'
  <2>1. UNCHANGED <<regs, saved, khandler, loop, asked>> /\ owed' \subseteq owed
    BY <1>4 DEF syscallAddDmacHandler
  <2>2. uhandler' \subseteq Ch /\ owed' \subseteq Handlers'
    BY <1>4 DEF syscallAddDmacHandler, IInv, TypeOK, Handlers
  <2> QED
    BY <2>1, <2>2 DEF IInv, TypeOK, MaskAgrees, CompletionKept, regs, loop
<1>5. ASSUME NEW c \in Ch, syscallEnableDmac(c)
      PROVE  IInv'
  <2>1. /\ pc # "boot"
        /\ dmac_enable_irq(c) \/ UNCHANGED <<saved, regs>>
        /\ UNCHANGED <<khandler, uhandler, loop, owed>>
        /\ asked' = asked \cup {c}
    BY <1>5 DEF syscallEnableDmac, CallsRun
  <2>2. asked' \subseteq Ch
    BY <2>1 DEF IInv, TypeOK
  <2>3. CASE UNCHANGED <<saved, regs>>
    BY <2>1, <2>2, <2>3, MaskStep DEF IInv, TypeOK, MaskAgrees, regs
  <2> QED
    BY <2>1, <2>2, <2>3, EnableKeeps, MaskStep
<1>6. ASSUME NEW c \in Ch, syscallDisableDmac(c)
      PROVE  IInv'
  <2>1. /\ pc # "boot"
        /\ dmac_disable_irq(c) \/ UNCHANGED <<saved, regs>>
        /\ UNCHANGED <<khandler, uhandler, loop, owed>>
        /\ asked' = asked \ {c}
    BY <1>6 DEF syscallDisableDmac, CallsRun
  <2>2. asked' \subseteq Ch
    BY <2>1 DEF IInv, TypeOK
  <2>3. CASE UNCHANGED <<saved, regs>>
    BY <2>1, <2>2, <2>3, MaskStep DEF IInv, TypeOK, MaskAgrees, regs
  <2> QED
    BY <2>1, <2>2, <2>3, EnableKeeps, MaskStep
<1>7. ASSUME NEW c \in Ch, Complete(c)
      PROVE  IInv'
  BY <1>7 DEF IInv, TypeOK, MaskAgrees, CompletionKept, Complete, loop, Handlers
<1>8. CASE dmac_interrupt
  BY <1>8 DEF IInv, TypeOK, MaskAgrees, CompletionKept, dmac_interrupt, regs, Handlers
<1>9. CASE Acknowledge
  <2>1. i \in Ch /\ cis' = cis \ {i} /\ cim' = cim
    BY <1>9, WriteStatus DEF IInv, TypeOK, Acknowledge
  <2>2. \A h \in owed : h.ch \in cis
    BY <1>9 DEF IInv, CompletionKept, Acknowledge
  <2> QED
    BY <1>9, <2>1, <2>2 DEF IInv, TypeOK, MaskAgrees, CompletionKept, Acknowledge, Handlers
<1>10. CASE Skip
  BY <1>10 DEF IInv, TypeOK, MaskAgrees, CompletionKept, Skip, regs, Handlers, Ch
<1>11. CASE CallHandlers
  BY <1>11 DEF IInv, TypeOK, MaskAgrees, CompletionKept, CallHandlers, regs, Handlers, Ch
<1>12. CASE UserHandlerReturns
  BY <1>12 DEF IInv, TypeOK, MaskAgrees, CompletionKept, UserHandlerReturns, regs, Handlers, Ch
<1>13. CASE Return
  BY <1>13 DEF IInv, TypeOK, MaskAgrees, CompletionKept, Return, regs, Handlers
<1>14. CASE UNCHANGED vars
  BY <1>14 DEF IInv, TypeOK, MaskAgrees, CompletionKept, vars, Handlers
<1> QED
  BY <1>1, <1>2, <1>3, <1>4, <1>5, <1>6, <1>7, <1>8, <1>9, <1>10, <1>11, <1>12,
     <1>13, <1>14 DEF Next, Calls, LoopStep

(* The invariant holds in every reachable state. *)
THEOREM DmacInvariance == Spec => []IInv
BY InitIInv, NextIInv, PTL DEF Spec

(* For any number of channels, saved_dmac_mask agrees with the register whose  *)
(* bits can only be inverted.                                                 *)
THEOREM DmacMask == Spec => []MaskAgrees
<1>1. IInv => MaskAgrees
  BY DEF IInv
<1> QED
  BY <1>1, DmacInvariance, PTL

(* For any number of channels, no completion of a transfer is lost between    *)
(* D_STAT and the handlers.                                                   *)
THEOREM DmacCompletion == Spec => []CompletionKept
<1>1. IInv => CompletionKept
  BY DEF IInv
<1> QED
  BY <1>1, DmacInvariance, PTL

-----------------------------------------------------------------------------
(* The timer and the interrupt controller it uses *)

TimerTypeOK ==
  /\ stat \subseteq Irqs /\ mask \subseteq Irqs /\ isaved \subseteq Irqs /\ enabled \subseteq Irqs
  /\ handler \in SUBSET {TIMER0}
  /\ ipc \in {"boot", "timer", "run", "irq"}
  /\ ii \in Nat
  /\ others \in BOOLEAN /\ ovff \in BOOLEAN /\ running \in BOOLEAN
  /\ tcount \in 0 .. Period - 1
  /\ n \in Nat /\ elapsed \in Nat /\ since \in Nat
  /\ t \in -1 .. Period - 1

(* How far the kernel has started. *)
Started ==
  /\ ipc = "boot" => ~others
  /\ ipc = "timer" => mask = {} /\ isaved = {} /\ TIMER0 \notin stat /\ ~others
  /\ ipc \in {"boot", "timer"} => ~running /\ ~ovff /\ t = -1
  /\ ipc \in {"run", "irq"} => running /\ handler = {TIMER0}

(* Writing a bit to INTC_MASK together with the bits that are set leaves at   *)
(* most this bit set.                                                          *)
OneMasked == ipc # "boot" => \A p, q \in mask : p = q

(* Until the program enables another interrupt, the timer's is enabled, and it  *)
(* is pending exactly while the overflow flag is set.                           *)
TimerAlone ==
  running /\ ~others =>
    /\ mask = {TIMER0} /\ isaved = {TIMER0}
    /\ ovff <=> TIMER0 \in stat

(* The interrupt that intc_interrupt was called for stays pending until the     *)
(* loop has come to it.                                                          *)
LoopPending ==
  ipc = "irq" =>
    /\ enabled = mask
    /\ \A q \in mask : ii <= q => q \in stat

(* The counts that timer_time adds up are wrong by one overflow at most. *)
TicksRead ==
  (t # -1 /\ running /\ ~others) =>
    since - Period <= Timer!Ticks /\ Timer!Ticks <= elapsed + Period

TicksKept == Timer!TimeKept /\ TicksRead

TimerInv ==
  TimerTypeOK /\ Started /\ OneMasked /\ TimerAlone /\ LoopPending /\ TicksKept

(* The registers are arbitrary at first, and the timer does not run. *)
LEMMA TimerInitInv == Timer!Init => TimerInv
<1> SUFFICES ASSUME Timer!Init PROVE TimerInv
  OBVIOUS
<1>1. others \in BOOLEAN /\ ovff \in BOOLEAN /\ running \in BOOLEAN
  BY Zenon DEF Timer!Init
<1>2. TimerTypeOK
  BY <1>1, TimerAssumption DEF Timer!Init, TimerTypeOK
<1> QED
  BY <1>2 DEF Timer!Init, TimerInv, Started, OneMasked, TimerAlone, LoopPending, TicksKept,
    Timer!TimeKept, TicksRead

(* Enabling and disabling leave at most the bit that was written. *)
LEMMA MaskWritten ==
  ASSUME TimerTypeOK, NEW q \in Irqs,
         Timer!intc_enable_irq(q) \/ Timer!intc_disable_irq(q)
  PROVE  /\ mask' = mask \/ mask' = {q} \ mask
         /\ mask' \subseteq Irqs /\ isaved' \subseteq Irqs
<1>1. Timer!Inverted(mask \cup {q}) = {q} \ mask
  BY DEF Timer!Inverted, TimerTypeOK
<1> QED
  BY <1>1 DEF TimerTypeOK, Timer!intc_enable_irq, Timer!intc_disable_irq

(* Writing the registers back to themselves clears them. *)
LEMMA IntcInitInv == ASSUME TimerInv, Timer!intc_init_module PROVE TimerInv'
<1>1. mask' = {} /\ isaved' = {} /\ stat' = {} /\ handler' = {} /\ ipc' = "timer"
  BY DEF Timer!intc_init_module, Timer!Inverted
<1>2. /\ ipc = "boot" /\ others' = FALSE
      /\ UNCHANGED <<ii, enabled, tcount, ovff, running, n, elapsed, t, since>>
  BY DEF Timer!intc_init_module, Timer!timer, Timer!reader
<1> QED
  BY <1>1, <1>2 DEF TimerInv, TimerTypeOK, Started, OneMasked, TimerAlone,
    LoopPending, TicksKept, Timer!TimeKept, TicksRead

(* The timer's interrupt is enabled and pending with its first overflow. *)
LEMMA TimerStartInv == ASSUME TimerInv, Timer!timer_init_module PROVE TimerInv'
<1>1. /\ ipc = "timer" /\ ipc' = "run"
      /\ handler' = handler \cup {TIMER0}
      /\ tcount' = 0 /\ n' = 0 /\ elapsed' = 0 /\ running' = TRUE /\ ovff' = FALSE
      /\ UNCHANGED <<stat, others, ii, enabled, t, since>>
  BY DEF Timer!timer_init_module, Timer!reader
<1>2. mask = {} /\ isaved = {} /\ TIMER0 \notin stat /\ ~others /\ t = -1
  BY <1>1 DEF TimerInv, Started
<1>3. mask' = {TIMER0} /\ isaved' = {TIMER0}
  BY <1>2, TimerAssumption DEF Timer!timer_init_module, Timer!intc_enable_irq, Timer!Inverted
<1>4. handler' = {TIMER0}
  BY <1>1 DEF TimerInv, TimerTypeOK
<1>5. running' \in BOOLEAN /\ ovff' \in BOOLEAN /\ others' \in BOOLEAN
  BY <1>1, Zenon DEF TimerInv, TimerTypeOK
<1>6. TimerTypeOK'
  BY <1>1, <1>3, <1>4, <1>5, TimerAssumption DEF TimerInv, TimerTypeOK
<1>7. Started' /\ OneMasked' /\ TimerAlone' /\ LoopPending'
  BY <1>1, <1>2, <1>3, <1>4 DEF Started, OneMasked, TimerAlone, LoopPending
<1>8. TicksKept'
  BY <1>1, <1>2, TimerAssumption DEF TicksKept, Timer!TimeKept, TicksRead
<1> QED
  BY <1>6, <1>7, <1>8 DEF TimerInv

(* A program that enables or disables an interrupt gives up what is said of *)
(* the timer alone, and still leaves one bit of the mask at most.            *)
LEMMA UserInv ==
  ASSUME TimerInv, NEW q \in UserIrqs, Timer!UserEnables(q) \/ Timer!UserDisables(q)
  PROVE  TimerInv'
<1>1. /\ ipc = "run" /\ others' = TRUE
      /\ UNCHANGED <<stat, handler, ipc, ii, enabled, tcount, ovff, running, n, elapsed,
                     t, since>>
  BY DEF Timer!UserEnables, Timer!UserDisables, Timer!loop, Timer!timer, Timer!reader
<1>2. /\ mask' = mask \/ mask' = {q} \ mask
      /\ mask' \subseteq Irqs /\ isaved' \subseteq Irqs
  BY MaskWritten, TimerAssumption DEF TimerInv, Timer!UserEnables, Timer!UserDisables
<1> QED
  BY <1>1, <1>2 DEF TimerInv, TimerTypeOK, Started, OneMasked,
    TimerAlone, LoopPending, TicksKept, Timer!TimeKept, TicksRead

(* Other devices do not touch the timer's bit. *)
LEMMA RaiseInv ==
  ASSUME TimerInv, NEW q \in Irqs \ {TIMER0}, ipc # "boot", Timer!Raise(q)
  PROVE  TimerInv'
<1>1. /\ stat' = stat \cup {q}
      /\ UNCHANGED <<mask, isaved, handler, others, ipc, ii, enabled, tcount, ovff, running, n,
                     elapsed, t, since>>
  BY DEF Timer!Raise, Timer!loop, Timer!timer, Timer!reader
<1> QED
  BY <1>1 DEF TimerInv, TimerTypeOK, Started, OneMasked,
    TimerAlone, LoopPending, TicksKept, Timer!TimeKept, TicksRead, Timer!Ticks

(* The counter comes round only when the last overflow has been counted. *)
LEMMA TickInv == ASSUME TimerInv, Timer!Tick PROVE TimerInv'
<1>1. /\ running /\ elapsed' = elapsed + 1
      /\ UNCHANGED <<mask, isaved, handler, others, ipc, ii, enabled, running, n, t, since>>
  BY DEF Timer!Tick, Timer!loop, Timer!reader
<1>2. TimerTypeOK /\ ipc \in {"run", "irq"}
  BY <1>1 DEF TimerInv, TimerTypeOK, Started
<1>3. CASE tcount + 1 < Period /\ tcount' = tcount + 1 /\ UNCHANGED <<ovff, stat>>
  <2>1. TimerTypeOK' /\ Started' /\ OneMasked' /\ TimerAlone' /\ LoopPending'
    BY <1>1, <1>2, <1>3, TimerAssumption DEF TimerInv, TimerTypeOK, Started, OneMasked, TimerAlone, LoopPending
  <2>2. Timer!TimeKept'
    BY <1>1, <1>2, <1>3, TimerAssumption DEF TimerInv, TimerTypeOK, TicksKept, Timer!TimeKept
  <2>3. TicksRead'
    BY <1>1, <1>2, <1>3, TimerAssumption DEF TimerInv, TimerTypeOK, TicksKept, TicksRead, Timer!Ticks
  <2> QED
    BY <2>1, <2>2, <2>3 DEF TimerInv, TicksKept
<1>4. CASE /\ tcount + 1 = Period
           /\ ~ovff \/ TIMER0 \notin mask
           /\ tcount' = 0 /\ ovff' = TRUE
           /\ stat' = IF ovff THEN stat ELSE stat \cup {TIMER0}
  <2>1. ~others => ~ovff
    BY <1>1, <1>4 DEF TimerInv, TimerAlone
  <2>2. TimerTypeOK'
    BY <1>1, <1>2, <1>4, TimerAssumption DEF TimerTypeOK
  <2>3. Started' /\ OneMasked' /\ TimerAlone' /\ LoopPending'
    BY <1>1, <1>2, <1>4, <2>1, TimerAssumption DEF TimerInv, TimerTypeOK, Started, OneMasked, TimerAlone, LoopPending
  <2>4. Timer!TimeKept'
    BY <1>1, <1>2, <1>4, <2>1, TimerAssumption DEF TimerInv, TimerTypeOK, TicksKept, Timer!TimeKept
  <2>5. TicksRead'
    BY <1>1, <1>2, <1>4, TimerAssumption DEF TimerInv, TimerTypeOK, TicksKept, TicksRead, Timer!Ticks
  <2> QED
    BY <2>2, <2>3, <2>4, <2>5 DEF TimerInv, TicksKept
<1> QED
  BY <1>3, <1>4 DEF Timer!Tick

(* The interrupt that made intc_interrupt run is the one in the mask. *)
LEMMA IntcInterruptInv == ASSUME TimerInv, Timer!intc_interrupt PROVE TimerInv'
<1>1. /\ ipc = "run" /\ stat \cap mask # {} /\ enabled' = mask /\ ii' = 0 /\ ipc' = "irq"
      /\ UNCHANGED <<stat, mask, isaved, handler, others, tcount, ovff, running, n, elapsed, t, since>>
  BY DEF Timer!intc_interrupt, Timer!intc, Timer!timer, Timer!reader
<1>2. \A q \in mask : q \in stat
  BY <1>1 DEF TimerInv, OneMasked
<1> QED
  BY <1>1, <1>2 DEF TimerInv, TimerTypeOK, Started, OneMasked,
    TimerAlone, LoopPending, TicksKept, Timer!TimeKept, TicksRead, Timer!Ticks

(* An interrupt that is dispatched was pending: the mask has no other. *)
LEMMA DispatchPends == ASSUME TimerInv, Timer!Dispatch PROVE ii \in stat /\ \A q \in mask : q = ii
<1>1. ipc = "irq" /\ ii \in enabled
  BY DEF Timer!Dispatch
<1>2. ii \in mask /\ ii <= ii
  BY <1>1 DEF TimerInv, LoopPending, TimerTypeOK
<1> QED
  BY <1>1, <1>2 DEF TimerInv, LoopPending, OneMasked

(* The handler counts an overflow and clears its flag. *)
LEMMA DispatchInv == ASSUME TimerInv, Timer!Dispatch PROVE TimerInv'
<1>1. /\ ipc = "irq" /\ stat' = stat \ {ii} /\ ii' = ii + 1
      /\ IF ii \in handler THEN n' = n + 1 /\ ovff' = FALSE ELSE UNCHANGED <<n, ovff>>
      /\ UNCHANGED <<mask, isaved, handler, others, ipc, enabled, tcount, running, elapsed, t, since>>
  BY DEF Timer!Dispatch, Timer!timer_interrupt, Timer!reader
<1>2. ii \in stat /\ (\A q \in mask : q = ii) /\ running /\ handler = {TIMER0}
  BY <1>1, DispatchPends DEF TimerInv, Started
<1>3. TimerTypeOK
  BY DEF TimerInv
<1>4. TimerTypeOK'
  <2>1. n' \in Nat /\ ii' \in Nat
    BY <1>1, <1>3 DEF TimerTypeOK
  <2>2. ovff' \in BOOLEAN
    BY <1>1, <1>3, Zenon DEF TimerTypeOK
  <2> QED
    BY <1>1, <1>3, <2>1, <2>2 DEF TimerTypeOK
<1>5. ~others => ii = TIMER0 /\ ovff
  BY <1>2 DEF TimerInv, TimerAlone
<1>6. Started' /\ OneMasked'
  BY <1>1, <1>2 DEF TimerInv, Started, OneMasked
<1>7. TimerAlone'
  BY <1>1, <1>2, <1>5 DEF TimerInv, TimerAlone
<1>8. LoopPending'
  BY <1>1, <1>2, <1>3 DEF TimerInv, LoopPending, TimerTypeOK
<1>9. Timer!TimeKept'
  BY <1>1, <1>2, <1>3, <1>5, TimerAssumption DEF TimerInv, TimerTypeOK, TicksKept, Timer!TimeKept
<1>10. TicksRead'
  <2> SUFFICES ASSUME t # -1, ~others
               PROVE  since - Period <= t + Period * n' /\ t + Period * n' <= elapsed + Period
    BY <1>1 DEF TicksRead, Timer!Ticks
  <2>1. n' = n + 1 /\ elapsed = tcount + Period * (n + 1)
    BY <1>1, <1>2, <1>5 DEF TimerInv, TicksKept, Timer!TimeKept
  <2>2. since - Period <= t + Period * n
    BY <1>2 DEF TimerInv, TicksKept, TicksRead, Timer!Ticks
  <2> QED
    BY <1>3, <2>1, <2>2, TimerAssumption DEF TimerTypeOK
<1> QED
  BY <1>4, <1>6, <1>7, <1>8, <1>9, <1>10 DEF TimerInv, TicksKept

(* The other steps of the loop. *)
LEMMA LoopInv == ASSUME TimerInv, Timer!Skip \/ Timer!Return PROVE TimerInv'
<1>1. /\ ipc = "irq"
      /\ UNCHANGED <<stat, mask, isaved, handler, others, tcount, ovff, running, n, elapsed, t, since>>
  BY DEF Timer!Skip, Timer!Return, Timer!intc, Timer!timer, Timer!reader
<1>2. \/ ipc' = "irq" /\ ii' = ii + 1 /\ enabled' = enabled
      \/ ipc' = "run" /\ ii' = 0 /\ enabled' = {}
  BY <1>1 DEF Timer!Skip, Timer!Return
<1>3. TimerTypeOK'
  BY <1>1, <1>2 DEF TimerInv, TimerTypeOK
<1>4. LoopPending'
  BY <1>1, <1>2, TimerAssumption DEF TimerInv, TimerTypeOK, LoopPending
<1> QED
  BY <1>1, <1>2, <1>3, <1>4 DEF TimerInv, TimerTypeOK, Started, OneMasked,
    TimerAlone, TicksKept, Timer!TimeKept, TicksRead, Timer!Ticks

(* timer_time reads the counter between two overflows. *)
LEMMA ReadInv == ASSUME TimerInv, Timer!ReadCount \/ Timer!ReadOverflows PROVE TimerInv'
<1>1. /\ ipc = "run"
      /\ UNCHANGED <<stat, mask, isaved, handler, others, ipc, ii, enabled, tcount, ovff, running, n,
                     elapsed>>
  BY DEF Timer!ReadCount, Timer!ReadOverflows, Timer!intc, Timer!loop, Timer!timer
<1>2. \/ t' = tcount /\ since' = elapsed
      \/ t' = -1 /\ since' = since
  BY DEF Timer!ReadCount, Timer!ReadOverflows
<1>3. TimerTypeOK'
  BY <1>1, <1>2, TimerAssumption DEF TimerInv, TimerTypeOK
<1>4. Started' /\ OneMasked' /\ TimerAlone' /\ LoopPending'
  BY <1>1 DEF TimerInv, Started, OneMasked, TimerAlone, LoopPending
<1>5. Timer!TimeKept'
  BY <1>1 DEF TimerInv, TicksKept, Timer!TimeKept
<1>6. TicksRead'
  <2> SUFFICES ASSUME t' # -1, running, ~others
               PROVE  since' - Period <= t' + Period * n /\ t' + Period * n <= elapsed + Period
    BY <1>1 DEF TicksRead, Timer!Ticks
  <2>1. t' = tcount /\ since' = elapsed
    BY <1>2
  <2>2. elapsed = tcount + Period * n \/ elapsed = tcount + Period * (n + 1)
    BY DEF TimerInv, TimerTypeOK, TicksKept, Timer!TimeKept
  <2> QED
    BY <2>1, <2>2, TimerAssumption DEF TimerInv, TimerTypeOK
<1> QED
  BY <1>3, <1>4, <1>5, <1>6 DEF TimerInv, TicksKept

(* Every step keeps the invariant. *)
LEMMA TimerNextInv == TimerInv /\ [Timer!Next]_timervars => TimerInv'
<1> SUFFICES ASSUME TimerInv, [Timer!Next]_timervars PROVE TimerInv'
  OBVIOUS
<1>1. CASE UNCHANGED timervars
  BY <1>1 DEF timervars, TimerInv, TimerTypeOK, Started, OneMasked,
    TimerAlone, LoopPending, TicksKept, Timer!TimeKept, TicksRead, Timer!Ticks
<1> QED
  BY <1>1, IntcInitInv, TimerStartInv, UserInv, RaiseInv, TickInv, IntcInterruptInv, DispatchInv,
    LoopInv, ReadInv DEF Timer!Next, Timer!LoopStep

-----------------------------------------------------------------------------
(* The steps of the kernel stub are steps of its parts. *)
LEMMA KernelParts ==
  /\ KernelInit => Init /\ Timer!Init
  /\ [KernelNext]_allvars => [Next]_vars /\ [Timer!Next]_timervars
<1>1. KernelInit => Init /\ Timer!Init
  BY DEF KernelInit
<1>2. ASSUME Dmac /\ Next PROVE [Next]_vars /\ [Timer!Next]_timervars
  BY <1>2 DEF Dmac
<1>3. ASSUME Intc /\ Timer!Next PROVE [Next]_vars /\ [Timer!Next]_timervars
  BY <1>3 DEF Intc
<1>4. ASSUME Semas /\ SemaNext PROVE [Next]_vars /\ [Timer!Next]_timervars
  BY <1>4 DEF Semas
<1>5. ASSUME UNCHANGED allvars PROVE [Next]_vars /\ [Timer!Next]_timervars
  BY <1>5 DEF allvars
<1> QED
  BY <1>1, <1>2, <1>3, <1>4, <1>5 DEF KernelNext

(* For any set of interrupts and any period of the counter, timer_interrupt    *)
(* counts every overflow once until the program enables another interrupt, and  *)
(* timer_time is sixteen times the microseconds that passed, give or take one   *)
(* overflow.                                                                    *)
THEOREM TimeKeptHolds == KernelSpec => []TimeKept
<1>1. ASSUME TimerInv PROVE TimeKept
  <2> SUFFICES ASSUME t # -1, running, ~others
               PROVE  /\ 16 * Timer!RealTime(since - Period) <= Timer!timer_time
                      /\ Timer!timer_time <= 16 * Timer!RealTime(elapsed + Period) + 15
    BY <1>1, Zenon DEF TimerInv, TicksKept, TimeKept, Timer!ReadWithinPeriod
  <2>1. since - Period <= Timer!Ticks /\ Timer!Ticks <= elapsed + Period
    BY <1>1 DEF TimerInv, TicksKept, TicksRead
  <2>2. Timer!Ticks \in Int /\ since - Period \in Int /\ elapsed + Period \in Int
    BY <1>1, TimerAssumption DEF TimerInv, TimerTypeOK, Timer!Ticks
  <2> HIDE DEF Timer!Ticks
  <2>3. ASSUME NEW a \in Int, NEW b \in Int, a <= b
        PROVE  /\ 16 * ((a * 1000000) \div 9216000) <= (b * 1000000) \div 576000
               /\ (a * 1000000) \div 576000 <= 16 * ((b * 1000000) \div 9216000) + 15
    BY <2>3
  <2>4. Timer!kBUSCLKBY16 = 9216000 /\ Timer!kBUSCLKBY256 = 576000
    BY DEF Timer!kBUSCLKBY16, Timer!kBUSCLKBY256
  <2> QED
    BY <2>1, <2>2, <2>3, <2>4 DEF Timer!RealTime, Timer!timer_time
<1> QED
  BY <1>1, KernelParts, TimerInitInv, TimerNextInv, PTL DEF KernelSpec

(* intc_interrupt reads the mask only, and dispatches pending interrupts only:  *)
(* never more than one bit of INTC_MASK is set.                                 *)
THEOREM DispatchedPendingHolds == KernelSpec => Timer!DispatchedPending
<1>1. TimerInv /\ [Timer!Next]_timervars => [Timer!Dispatch => ii \in stat]_(Timer!vars)
  BY DispatchPends
<1> QED
  BY <1>1, KernelParts, TimerInitInv, TimerNextInv, PTL DEF KernelSpec, Timer!DispatchedPending
=============================================================================
