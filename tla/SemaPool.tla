------------------------------ MODULE SemaPool ------------------------------
(***************************************************************************)
(* What the kernel stub's semaphore calls promise, with the array, its free *)
(* list and the polling of WaitSema left out: a pool of semaphores that are *)
(* created with any unused number, counted up and down and deleted.  Calls   *)
(* on a number that is not in use may answer anything but change nothing.    *)
(***************************************************************************)
EXTENDS Integers

CONSTANTS
  N,                \* semaphores in the pool
  Args              \* what callers pass

VARIABLES
  value,            \* of each semaphore, UNUSED when it is not created
  last              \* the call answered last and its answer

UNUSED == -1

Ids == 0 .. N - 1

InUse == {i \in Ids : value[i] # UNUSED}

Answer(op, arg, ret) == last' = [op |-> op, arg |-> arg, ret |-> ret]

(* Only a pool with every semaphore in use refuses a valid request. *)
Create(init_count) ==
  \/ /\ init_count < 0 \/ InUse = Ids
     /\ Answer("create", init_count, -1)
     /\ value' = value
  \/ /\ init_count >= 0
     /\ \E i \in Ids \ InUse :
          /\ Answer("create", init_count, i)
          /\ value' = [value EXCEPT ![i] = init_count]

Delete(id) ==
  \/ /\ id \in InUse
     /\ Answer("delete", id, id)
     /\ value' = [value EXCEPT ![id] = UNUSED]
  \/ /\ id \notin InUse
     /\ Answer("delete", id, -1)
     /\ value' = value

Signal(id) ==
  \/ /\ id \in InUse
     /\ Answer("signal", id, 0)
     /\ value' = [value EXCEPT ![id] = @ + 1]
  \/ /\ id \notin InUse
     /\ \E ret \in {0, -1} : Answer("signal", id, ret)
     /\ value' = value

(* A wait ends when it took a signal. *)
Wait(id) ==
  \/ /\ id \in InUse
     /\ value[id] > 0
     /\ Answer("wait", id, id)
     /\ value' = [value EXCEPT ![id] = @ - 1]
  \/ /\ id \notin InUse
     /\ \E ret \in {id, -1} : Answer("wait", id, ret)
     /\ value' = value

Init ==
  /\ value = [i \in Ids |-> UNUSED]
  /\ last = [op |-> "none", arg |-> 0, ret |-> 0]

Next ==
  \E arg \in Args : Create(arg) \/ Delete(arg) \/ Signal(arg) \/ Wait(arg)

Spec == Init /\ [][Next]_<<value, last>>
=============================================================================
