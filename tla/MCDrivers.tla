------------------------------ MODULE MCDrivers ------------------------------
(* Drivers for two tasks that use every device, the first of which initialises *)
(* it, and a third one that uses the heap of the IOP only.                     *)
EXTENDS Drivers

CONSTANTS t1, t2, t3

MCTasks == {t1, t2, t3}
MCCallers == {t1, t2}
MCInitTasks == {t1}
=============================================================================
