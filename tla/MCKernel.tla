------------------------------ MODULE MCKernel ------------------------------
(* Kernel for two DMA channels, three interrupts, of which the middle one is    *)
(* the timer's, a timer that comes round twice, and three semaphores.           *)
EXTENDS Kernel

MCInitCounts == {-1, 0, 1}      \* a negative count is refused
=============================================================================
