----------------------------- MODULE KernelSema -----------------------------
(***************************************************************************)
(* The semaphores of the kernel stub (kernel/thread.c): an array of entries *)
(* of which the unused ones form a singly linked list.                      *)
(*                                                                          *)
(* One program runs in user space; the handlers it installs with            *)
(* AddDmacHandler run in interrupts and make the same calls, except that     *)
(* they never wait.  A system call runs with EXL set and is one step.        *)
(* WaitSema is the exception: it switches interrupts on between two          *)
(* attempts, and handlers create, delete and signal semaphores then.         *)
(***************************************************************************)
EXTENDS Integers

CONSTANTS
  N,            \* NUMBER_OF_SEMAPHORES
  InitCounts,   \* values of init_count programs pass
  MaxCount      \* bound: nobody signals a semaphore that has this count

ASSUME SemaAssumption ==
  /\ N \in Nat \ {0}
  /\ InitCounts \subseteq Int
  /\ MaxCount \in Nat

VARIABLES
  count, next, free,   \* the fields of semaphoreArray's entries
  head,                \* semaphoreListHead
  spc,                 \* the program: "user", or in WaitSema with interrupts "off" or "on"
  sid,                 \* the argument of WaitSema
  last                 \* the call answered last: its name, argument and answer

semavars == <<count, next, free, head, spc, sid, last>>

NULL == -1

Ids == 0 .. N - 1

(* What callers pass where the code checks both ends of the range.  A       *)
(* negative number becomes a large one in WaitSema's uint32_t.               *)
Numbers == -1 .. N

Answer(op, arg, ret) == last' = [op |-> op, arg |-> arg, ret |-> ret]

(* Interrupts are taken, and so handlers run, except between two attempts.   *)
SemaCallsRun == spc # "off"

(* Creation takes the first entry of the list. *)
CreateFails(init_count) ==
  /\ init_count < 0 \/ head = NULL
  /\ Answer("create", init_count, -1)
  /\ UNCHANGED <<count, next, free, head>>

(* The count left behind by the last user is kept. *)
CreateTakes_OldCount(init_count) ==
  /\ init_count >= 0
  /\ head # NULL
  /\ head' = next[head]
  /\ free' = [free EXCEPT ![head] = 0]
  /\ next' = [next EXCEPT ![head] = NULL]
  /\ Answer("create", init_count, head)
  /\ count' = count

CreateTakes(init_count) ==
  /\ init_count >= 0
  /\ head # NULL
  /\ head' = next[head]
  /\ count' = [count EXCEPT ![head] = init_count]
  /\ free' = [free EXCEPT ![head] = 0]
  /\ next' = [next EXCEPT ![head] = NULL]
  /\ Answer("create", init_count, head)

syscallCreateSema(init_count) ==
  /\ SemaCallsRun
  /\ CreateFails(init_count) \/ CreateTakes(init_count)
  /\ UNCHANGED <<spc, sid>>

Deletable_Unchecked(id) == id \in Ids

(* The check that catches a second deletion. *)
Deletable(id) == id \in Ids /\ free[id] = 0

(* The entry goes to the front of the list; nobody looks for a waiting call. *)
iDeleteSema(id) ==
  /\ SemaCallsRun
  /\ \/ /\ Deletable(id)
        /\ next' = [next EXCEPT ![id] = head]
        /\ head' = id
        /\ free' = [free EXCEPT ![id] = -1]
        /\ Answer("delete", id, id)
     \/ /\ ~Deletable(id)
        /\ Answer("delete", id, -1)
        /\ UNCHANGED <<next, head, free>>
  /\ UNCHANGED <<count, spc, sid>>

(* The check iSignalSema and iWaitSema make first. *)
Counting(id) == id \in Ids /\ count[id] >= 0

(* The range check only looks at the upper end, so callers pass no negative *)
(* number here; max_count is not looked at, nor is whether the entry is free. *)
iSignalSema(id) ==
  /\ SemaCallsRun
  /\ id >= 0
  /\ \/ /\ ~Counting(id)
        /\ Answer("signal", id, -1)
        /\ count' = count
     \/ /\ Counting(id)
        /\ count[id] < MaxCount
        /\ count' = [count EXCEPT ![id] = @ + 1]
        /\ Answer("signal", id, 0)
  /\ UNCHANGED <<next, free, head, spc, sid>>

(* WaitSema leaves exception mode and masks interrupts. *)
WaitSema(id) ==
  /\ spc = "user"
  /\ spc' = "off"
  /\ sid' = id
  /\ UNCHANGED <<count, next, free, head, last>>

(* One attempt, iWaitSema; WaitSema returns unless the answer is -2. *)
WaitRefused ==
  /\ spc = "off"
  /\ ~Counting(sid)
  /\ Answer("wait", sid, -1)
  /\ spc' = "user"
  /\ UNCHANGED <<count, next, free, head, sid>>

WaitTakes ==
  /\ spc = "off"
  /\ Counting(sid)
  /\ count[sid] > 0
  /\ count' = [count EXCEPT ![sid] = @ - 1]
  /\ Answer("wait", sid, sid)
  /\ spc' = "user"
  /\ UNCHANGED <<next, free, head, sid>>

(* enableInterrupts: pending interrupts are taken now. *)
WaitAgain ==
  /\ spc = "off"
  /\ Counting(sid)
  /\ count[sid] = 0
  /\ spc' = "on"
  /\ UNCHANGED <<count, next, free, head, sid, last>>

iWaitSema == WaitRefused \/ WaitTakes \/ WaitAgain

WindowEnds_IfSignalled ==
  /\ spc = "on"
  /\ last.op = "signal" /\ last.arg = sid
  /\ spc' = "off"
  /\ UNCHANGED <<count, next, free, head, sid, last>>

(* disableInterrupts, before the next attempt. *)
WindowEnds ==
  /\ spc = "on"
  /\ spc' = "off"
  /\ UNCHANGED <<count, next, free, head, sid, last>>

(* init_semaphores: every entry is on the list, in order. *)
SemaInit ==
  /\ count = [i \in Ids |-> 0]
  /\ next = [i \in Ids |-> IF i < N - 1 THEN i + 1 ELSE NULL]
  /\ free = [i \in Ids |-> -1]
  /\ head = 0
  /\ spc = "user"
  /\ sid = 0
  /\ last = [op |-> "none", arg |-> 0, ret |-> 0]

SemaNext ==
  \/ \E c \in InitCounts : syscallCreateSema(c)
  \/ \E id \in Numbers : iDeleteSema(id) \/ iSignalSema(id) \/ WaitSema(id)
  \/ iWaitSema
  \/ WindowEnds

SemaSpec == SemaInit /\ [][SemaNext]_semavars

(* The loop of WaitSema goes on: interrupts do not keep it from running.     *)
SemaFairSpec == SemaSpec /\ WF_semavars(iWaitSema) /\ WF_semavars(WindowEnds)
-----------------------------------------------------------------------------
(* Types: the counts of the entries never become negative, so the error     *)
(* answers for a negative count in iWaitSema and iSignalSema are never given. *)
SemaTypeOK ==
  /\ count \in [Ids -> Nat]
  /\ next \in [Ids -> Ids \cup {NULL}]
  /\ free \in [Ids -> {0, -1}]
  /\ head \in Ids \cup {NULL}
  /\ spc \in {"user", "off", "on"}
  /\ sid \in Numbers
  /\ last \in [op : {"none", "create", "delete", "signal", "wait"}, arg : Int, ret : Int]

(* s lists, without repetition, the entries met from semaphoreListHead along  *)
(* next up to NULL, and they are the entries marked free.                     *)
IsFreeList(s, n) ==
  /\ \A j, k \in 1 .. n : s[j] = s[k] => j = k
  /\ \A i \in Ids : free[i] = -1 <=> \E k \in 1 .. n : s[k] = i
  /\ head = IF n = 0 THEN NULL ELSE s[1]
  /\ \A k \in 1 .. n : next[s[k]] = IF k = n THEN NULL ELSE s[k + 1]

(* Whatever programs and handlers create and delete, twice or with any        *)
(* number, semaphoreListHead and next always form one list without a cycle of *)
(* exactly the entries marked free: none is lost and none is handed out twice. *)
FreeList == \E n \in 0 .. N : \E s \in [1 .. n -> Ids] : IsFreeList(s, n)

Value == [i \in Ids |-> IF free[i] = 0 THEN count[i] ELSE -1]

Pool == INSTANCE SemaPool WITH value <- Value, Args <- Numbers \cup InitCounts

(* The calls of thread.c, with the free list and with handlers running while  *)
(* WaitSema polls, behave as the pool of SemaPool: creation fails only when    *)
(* every semaphore is in use and never returns one in use, a wait ends only    *)
(* by taking a signal, and calls on deleted numbers disturb no semaphore.      *)
PoolImplemented == Pool!Spec

(* A waiting program goes on once its semaphore has a signal to take, unless  *)
(* a handler deletes the semaphore and creates it anew.                       *)
WaitEnds ==
  \A i \in Ids :
    (spc # "user" /\ sid = i /\ count[i] > 0)
      ~> (spc = "user" \/ (last.op = "create" /\ last.ret = i))
=============================================================================
