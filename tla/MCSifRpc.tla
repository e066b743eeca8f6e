------------------------------ MODULE MCSifRpc ------------------------------
(* SifRpc for three callers: two tasks share client c1, the end functions of  *)
(* either client may start the next call, and t2 makes blocking calls on a    *)
(* client of its own.                                                         *)
EXTENDS SifRpc

CONSTANTS t1, t2, c1, c2

Use(a, c, cid, nowait, end) ==
  [by |-> a, client |-> c, cid |-> cid, nowait |-> nowait, end |-> end]

MCClients == {c1, c2}
MCTasks == {t1, t2}

(* Every kind of call. *)
MCUses ==
  {Use(t1, c1, "bind", TRUE, TRUE), Use(t1, c1, "call", TRUE, TRUE),
   Use(t2, c1, "call", TRUE, TRUE), Use(t2, c2, "call", FALSE, FALSE),
   Use(t1, c2, "call", TRUE, FALSE), Use(IRQ, c1, "call", TRUE, TRUE)}

(* One task blocks on a client of its own, the other shares the table. *)
MCBlockUses ==
  {Use(t1, c1, "call", TRUE, TRUE), Use(t2, c2, "call", FALSE, FALSE),
   Use(IRQ, c1, "call", TRUE, TRUE)}
=============================================================================
