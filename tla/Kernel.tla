------------------------------- MODULE Kernel -------------------------------
(***************************************************************************)
(* The kernel stub: its two interrupt controllers and its semaphores.  The   *)
(* controllers share nothing but irq_interrupt, which calls one after the    *)
(* other with interrupts masked, and handlers reach the semaphores only       *)
(* through system calls, which KernelSema lets happen at any time; so each is  *)
(* explored with the others at rest.                                           *)
(***************************************************************************)
EXTENDS KernelDmac, KernelSema

CONSTANTS Irqs, TIMER0, UserIrqs, Period, MaxTicks

VARIABLES
  part,          \* what is in use: "dmac", "intc" or "sema"
  stat, mask, isaved, handler, others, ipc, ii, enabled, tcount, ovff, running, n,
  elapsed, t, since

Timer == INSTANCE KernelTimer WITH saved <- isaved, pc <- ipc, i <- ii, count <- tcount

(* Interrupts have the numbers of the bits of INTC_STAT, and the counter of    *)
(* timer 0 takes at least one tick to come round.                              *)
ASSUME TimerAssumption ==
  Irqs \subseteq Nat /\ TIMER0 \in Irqs /\ UserIrqs \subseteq Irqs /\ Period \in Nat \ {0}

timervars == <<stat, mask, isaved, handler, others, ipc, ii, enabled, tcount, ovff,
               running, n, elapsed, t, since>>
allvars == <<part, vars, timervars, semavars>>

KernelInit ==
  /\ Init /\ Timer!Init /\ SemaInit
  /\ part \in {"dmac", "intc", "sema"}
  /\ part # "dmac" => cis = {} /\ cim = {}
  /\ part # "intc" => stat = {} /\ mask = {}

Dmac == part = "dmac" /\ UNCHANGED <<part, timervars, semavars>>
Intc == part = "intc" /\ UNCHANGED <<part, vars, semavars>>
Semas == part = "sema" /\ UNCHANGED <<part, vars, timervars>>

KernelNext ==
  \/ Dmac /\ Next
  \/ Intc /\ Timer!Next
  \/ Semas /\ SemaNext

KernelSpec ==
  /\ KernelInit /\ [][KernelNext]_allvars
  /\ WF_allvars(Dmac /\ dmac_interrupt) /\ WF_allvars(Dmac /\ LoopStep)
  /\ WF_allvars(Intc /\ Timer!intc_interrupt) /\ WF_allvars(Intc /\ Timer!LoopStep)
  /\ WF_allvars(Semas /\ iWaitSema) /\ WF_allvars(Semas /\ WindowEnds)

-----------------------------------------------------------------------------
(* See KernelTimer: no overflow is missed or counted twice by timer_interrupt, *)
(* and timer_time is sixteen times the microseconds that passed, give or take   *)
(* one overflow: the conversion takes the counter to run at BUSCLK / 256, and    *)
(* timer_init_module lets it run at BUSCLK / 16.                                 *)
TimeKept == Timer!TimeKept /\ Timer!ReadWithinPeriod

(* intc_interrupt dispatches pending interrupts only, and every overflow is     *)
(* counted for a program that leaves the other interrupts alone.                *)
IntcServes == Timer!DispatchedPending /\ Timer!OverflowCountedAlone
=============================================================================
