-------------------------------- MODULE MCIop --------------------------------
(* Iop for two packet buffers and a queue of one request, a file table of two   *)
(* entries with reads of two sectors, a disc of three directories and a ring of *)
(* two transfers.                                                                *)
EXTENDS Iop

(* Sending with a full queue, sending against receiving, and receiving into two *)
(* buffers of the EE, of which one begins off a DMA boundary, or none.          *)
MCEeBuffers == {<<0, 4>>, <<9, 3>>, <<2, 0>>}
MCLoads == {<<3, 0>>, <<1, 1>>, <<0, 2>>}

(* A file of two sectors and one that begins behind it. *)
MCFiles == {<<10, 3>>, <<12, 1>>}

(* Directories of one and of three sectors, where the cache holds two.  In one of  *)
(* them the second sector is full, which hides the directory in the third.         *)
Self == [name |-> "self", dir |-> TRUE, at |-> "none"]
Sub(name, at) == [name |-> name, dir |-> TRUE, at |-> at]
File(name, at) == [name |-> name, dir |-> FALSE, at |-> at]
MCDisc ==
  [root |-> << <<Self, Self, File("k", "1")>>, <<File("i", "2")>>,
               <<Sub("a", "A"), File("c", "3")>> >>,
   A |-> << <<Self, Self, File("k", "4")>>, <<Sub("b", "B")>>, <<Sub("d", "B")>> >>,
   B |-> << <<Self, Self, File("i", "5")>> >>]
MCFull == {<<"A", 2>>, <<"root", 1>>}
MCPaths == {<<>>, <<"a">>, <<"a", "b">>, <<"a", "d">>}
MCNames == {"k", "i", "a", "z"}
=============================================================================
