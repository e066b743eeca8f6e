----------------------------- MODULE RpcClient -----------------------------
(***************************************************************************)
(* What a driver sees of an RPC client descriptor of TGE/sbios/sifrpc.c.    *)
(* One request at a time: a client is free, has a request under way, or is  *)
(* lost: its request is over and yet it still counts as in use, for ever.   *)
(***************************************************************************)
EXTENDS Naturals

CONSTANT Clients

VARIABLES
  state,    \* per client: "free", "pending" or "lost"
  load      \* per client, the requests under way

vars == <<state, load>>

Init ==
  /\ state = [c \in Clients |-> "free"]
  /\ load = [c \in Clients |-> 0]

(* SifBindRpc or SifCallRpc takes a free client. *)
Start(c) ==
  /\ state[c] = "free"
  /\ state' = [state EXCEPT ![c] = "pending"]
  /\ load' = [load EXCEPT ![c] = 1]

(* The answer frees the client before the end function runs. *)
Finish(c) ==
  /\ state[c] = "pending"
  /\ state' = [state EXCEPT ![c] = "free"]
  /\ load' = [load EXCEPT ![c] = 0]

(* The request could not be sent, or asked for no answer. *)
Lose(c) ==
  /\ state[c] = "pending"
  /\ state' = [state EXCEPT ![c] = "lost"]
  /\ load' = [load EXCEPT ![c] = 0]

Next == \E c \in Clients : Start(c) \/ Finish(c) \/ Lose(c)

Spec == Init /\ [][Next]_vars
=============================================================================
