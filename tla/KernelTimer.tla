----------------------------- MODULE KernelTimer -----------------------------
(***************************************************************************)
(* The interrupt controller code of the kernel stub (kernel/intc.c) and its   *)
(* one user in the kernel, the timer (kernel/timers.c): timer 0 counts in     *)
(* hardware, its overflow raises an interrupt, the handler counts overflows   *)
(* and timer_time puts both counts together.                                  *)
(*                                                                            *)
(* A bit of INTC_MASK is inverted, and a bit of INTC_STAT cleared, by writing  *)
(* 1.  A program enables other interrupts through system calls 20 and 21.     *)
(***************************************************************************)
EXTENDS Integers

CONSTANTS
  Irqs,          \* interrupt numbers, 0 up to some number
  TIMER0,        \* INTC_TIMER0
  UserIrqs,      \* the interrupts the program enables and disables
  Period,        \* timer ticks until T0_COUNT overflows (65536)
  MaxTicks       \* bound: ticks in a behaviour

VARIABLES
  stat, mask,    \* INTC_STAT and INTC_MASK
  saved,         \* saved_intc_mask
  handler,       \* interrupts with an entry in intc_handler
  pc,            \* "boot", "timer" (before timer_init_module), "run" or "irq"
  i, enabled,    \* in intc_interrupt: the loop variable and the mask that was read
  count,         \* T0_COUNT
  ovff,          \* the overflow flag of T0_MODE
  running,       \* T0_MODE starts the counter
  n,             \* timer_interruptCount
  elapsed,       \* ticks since the timer was started
  others,        \* the program has enabled or disabled another interrupt
  t, since       \* timer_time: the count it has read (-1 if none) and when it began

intc == <<stat, mask, saved, handler, others>>
loop == <<pc, i, enabled>>
timer == <<count, ovff, running, n, elapsed>>
reader == <<t, since>>

vars == <<intc, loop, timer, reader>>

(* External: writing bits to INTC_MASK. *)
Inverted(bits) == {q \in Irqs : (q \in mask) # (q \in bits)}

(* *intc_mask |= 1 << irq_nr writes back the bits that are set, too. *)
intc_enable_irq(irq_nr) ==
  \/ /\ irq_nr \notin saved
     /\ saved' = saved \cup {irq_nr}
     /\ mask' = Inverted(mask \cup {irq_nr})
  \/ /\ irq_nr \in saved
     /\ UNCHANGED <<saved, mask>>

intc_disable_irq(irq_nr) ==
  \/ /\ irq_nr \in saved
     /\ saved' = saved \ {irq_nr}
     /\ mask' = Inverted(mask \cup {irq_nr})
  \/ /\ irq_nr \notin saved
     /\ UNCHANGED <<saved, mask>>

(* Registers are written back to themselves, which clears them. *)
intc_init_module ==
  /\ pc = "boot"
  /\ saved' = {} /\ others' = FALSE
  /\ mask' = Inverted(mask)
  /\ stat' = {}
  /\ handler' = {}
  /\ pc' = "timer"
  /\ UNCHANGED <<i, enabled, timer, reader>>

(* intc_register_handler, intc_enable_irq, then the timer is started. *)
timer_init_module ==
  /\ pc = "timer"
  /\ handler' = handler \cup {TIMER0}
  /\ intc_enable_irq(TIMER0)
  /\ count' = 0 /\ n' = 0 /\ elapsed' = 0
  /\ running' = TRUE /\ ovff' = FALSE
  /\ pc' = "run"
  /\ UNCHANGED <<stat, others, i, enabled, reader>>

(* System calls of the program. *)
UserEnables(q) ==
  /\ pc = "run"
  /\ intc_enable_irq(q)
  /\ others' = TRUE
  /\ UNCHANGED <<stat, handler, loop, timer, reader>>

UserDisables(q) ==
  /\ pc = "run"
  /\ intc_disable_irq(q)
  /\ others' = TRUE
  /\ UNCHANGED <<stat, handler, loop, timer, reader>>

(* External: another device asks for an interrupt. *)
Raise(q) ==
  /\ stat' = stat \cup {q}
  /\ UNCHANGED <<mask, saved, handler, others, loop, timer, reader>>

(* External: the counter.  A new overflow only raises the interrupt if the    *)
(* flag was clear.  Period is long: while its interrupt can be taken, the      *)
(* last overflow is handled before the next.                                   *)
Tick ==
  /\ running
  /\ elapsed < MaxTicks
  /\ elapsed' = elapsed + 1
  /\ \/ /\ count + 1 < Period
        /\ count' = count + 1
        /\ UNCHANGED <<ovff, stat>>
     \/ /\ count + 1 = Period
        /\ ~ovff \/ TIMER0 \notin mask
        /\ count' = 0
        /\ ovff' = TRUE
        /\ stat' = IF ovff THEN stat ELSE stat \cup {TIMER0}
  /\ UNCHANGED <<mask, saved, handler, others, loop, running, n, reader>>

(* Only the saved mask is looked at. *)
intc_interrupt_SavedOnly ==
  /\ pc = "run"
  /\ stat \cap mask # {}
  /\ enabled' = saved
  /\ i' = 0
  /\ pc' = "irq"
  /\ UNCHANGED <<intc, timer, reader>>

(* irq_interrupt calls intc_interrupt, which reads INTC_MASK, not INTC_STAT. *)
intc_interrupt ==
  /\ pc = "run"
  /\ stat \cap mask # {}
  /\ enabled' = mask
  /\ i' = 0
  /\ pc' = "irq"
  /\ UNCHANGED <<intc, timer, reader>>

(* The flag is left set. *)
timer_interrupt_KeepsFlag == n' = n + 1 /\ ovff' = ovff

timer_interrupt == n' = n + 1 /\ ovff' = FALSE

(* One iteration: acknowledge, and call the handler if there is one. *)
Dispatch ==
  /\ pc = "irq"
  /\ i \in enabled \cap saved
  /\ stat' = stat \ {i}
  /\ IF i \in handler THEN timer_interrupt ELSE UNCHANGED <<n, ovff>>
  /\ i' = i + 1
  /\ UNCHANGED <<mask, saved, handler, others, pc, enabled, count, running, elapsed, reader>>

Skip ==
  /\ pc = "irq"
  /\ i \in Irqs
  /\ i \notin enabled \cap saved
  /\ i' = i + 1
  /\ UNCHANGED <<intc, pc, enabled, timer, reader>>

Return ==
  /\ pc = "irq"
  /\ i \notin Irqs
  /\ pc' = "run"
  /\ i' = 0
  /\ enabled' = {}
  /\ UNCHANGED <<intc, timer, reader>>

LoopStep == Dispatch \/ Skip \/ Return

(* timer_time reads T0_COUNT, then timer_interruptCount. *)
ReadCount ==
  /\ pc = "run"
  /\ t = -1
  /\ t' = count
  /\ since' = elapsed
  /\ UNCHANGED <<intc, loop, timer>>

(* T0_MODE is given CLKS = 1: the counter runs at BUSCLK / 16. *)
kBUSCLKBY16 == 147456000 \div 16
kBUSCLKBY256 == 147456000 \div 256

(* The two counts put together. *)
Ticks == t + Period * n

(* What timer_time returns: the ticks of BUSCLK / 16 are converted as if they   *)
(* were ticks of BUSCLK / 256.                                                  *)
timer_time == (Ticks * 1000000) \div kBUSCLKBY256

(* External: the microseconds that pass during so many ticks. *)
RealTime(ticks) == (ticks * 1000000) \div kBUSCLKBY16

ReadOverflows ==
  /\ pc = "run"
  /\ t # -1
  /\ t' = -1
  /\ UNCHANGED <<intc, loop, timer, since>>

Init ==
  /\ stat \in SUBSET Irqs /\ mask \in SUBSET Irqs
  /\ saved = {} /\ handler = {} /\ others = FALSE
  /\ pc = "boot"
  /\ i = 0 /\ enabled = {}
  /\ count = 0 /\ n = 0 /\ elapsed = 0
  /\ ovff = FALSE /\ running = FALSE
  /\ t = -1 /\ since = 0

Next ==
  \/ intc_init_module
  \/ timer_init_module
  \/ \E q \in UserIrqs : UserEnables(q) \/ UserDisables(q)
  \/ \E q \in Irqs \ {TIMER0} : pc # "boot" /\ Raise(q)
  \/ Tick
  \/ intc_interrupt
  \/ LoopStep
  \/ ReadCount
  \/ ReadOverflows

Spec == Init /\ [][Next]_vars

(* Interrupts are taken while they are on, and the handlers end. *)
FairSpec == Spec /\ WF_vars(intc_interrupt) /\ WF_vars(LoopStep)
-----------------------------------------------------------------------------

(* Until the program enables another interrupt, the hardware count, the        *)
(* overflows the handler counted and the one it has still to count together    *)
(* are the time elapsed: no overflow is missed or counted twice.               *)
TimeKept ==
  (running /\ ~others) => elapsed = count + Period * (n + (IF ovff THEN 1 ELSE 0))

(* timer_time reads its two counts without masking interrupts, so they may be   *)
(* wrong by one overflow, and never by more; and it converts them with the       *)
(* clock its comment names, not the one timer_init_module sets, so that it       *)
(* returns sixteen times the microseconds that passed (rounded), not these.      *)
ReadWithinPeriod ==
  (t # -1 /\ running /\ ~others) =>
    /\ 16 * RealTime(since - Period) <= timer_time
    /\ timer_time <= 16 * RealTime(elapsed + Period) + 15

(* What timers.c says: "I use an interrupt to recognize this overflow and       *)
(* increment the <timer_interruptCount> variable": every overflow is counted.   *)
OverflowCounted == ovff ~> ~ovff

(* The same, for a program that leaves the other interrupts alone. *)
OverflowCountedAlone == (ovff /\ ~others) ~> (~ovff \/ others)

(* What intc_interrupt says it checks, "interrupt is enabled and pending",      *)
(* though it only reads the mask: an interrupt it dispatches is pending.        *)
DispatchedPending == [][Dispatch => i \in stat]_vars
=============================================================================
