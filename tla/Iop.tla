--------------------------------- MODULE Iop ---------------------------------
(***************************************************************************)
(* The modules of the IOP that this repository has, and the part of the SBIOS *)
(* that takes the IOP's commands, side by side.  They have no state in common, *)
(* so one of them moves while the others rest in an initial state.             *)
(***************************************************************************)
EXTENDS Integers, Sequences

CONSTANTS NumBufs, MaxReq, TxSize, TxMax, Entries, Lens, EeBuffers, Align, Loads, Retries,
          NumFds, SectorSize, MaxRead, Files, Disc, Full, MaxCache, Paths, Names,
          RingRoom, Requests, MaxPackets

VARIABLES
  part,          \* the module in use
  pbuf, queue, ptr, idx, bd, mem, hwIdx, rxFull, smIrq, smHpc, smPc, cand, waiter, sema,
  linkValid, ee, asked, transfers, left,
  slPc, tries, flags, mode1, txMode, phy, doubt, newChip, enabled,
  fds, lastSector, lastBk, buf, udf, spoilt, out,
  cache, dirPc, op, rest, found, failed, pos, listing,
  sent, wire, pktbuf, armed, svIrq, svHpc, packet, handled, inits, handlers, server,
  taken, replies, delivered, others, lost

netvars == <<pbuf, queue, ptr, idx, bd, mem, hwIdx, rxFull, smIrq, smHpc, smPc, cand,
             waiter, sema, linkValid, ee, asked, transfers, left>>
linkvars == <<slPc, tries, flags, mode1, txMode, phy, doubt, newChip, enabled>>
readvars == <<fds, lastSector, lastBk, buf, udf, spoilt, out>>
dirvars == <<cache, dirPc, op, rest, found, failed, pos, listing>>
servervars == <<sent, wire, pktbuf, armed, svIrq, svHpc, packet, handled, inits,
                handlers, server, taken, replies, delivered, others, lost>>
allvars == <<part, netvars, linkvars, readvars, dirvars, servervars>>

N == INSTANCE Smap WITH irq <- smIrq, hpc <- smHpc, pc <- smPc
K == INSTANCE SmapLink WITH pc <- slPc
R == INSTANCE Cdfs
D == INSTANCE CdfsDir WITH pc <- dirPc
V == INSTANCE SifServer WITH irq <- svIrq, hpc <- svHpc

(* The EE gives no buffer, or one that holds the longest frame behind the first *)
(* DMA boundary: SMapLowLevelInput does not look again once it is at the start.  *)
ASSUME SmapAssumption ==
  /\ Align \in Nat \ {0} /\ Lens \subseteq Nat /\ EeBuffers \subseteq Nat \X Nat
  /\ Loads \subseteq Nat \X Nat
  /\ \A b \in EeBuffers : b[2] > 0 =>
       b[2] > N!Offset(b[1]) /\ \A len \in Lens : N!Offset(b[1]) + len <= b[2]

(* s_Buffer has room for the largest read, which is whole sectors, and one more. *)
ASSUME CdfsAssumption ==
  /\ SectorSize \in Nat \ {0} /\ MaxRead \in Nat /\ MaxRead % SectorSize = 0
  /\ Files \subseteq Nat \X Nat

(* A directory begins with itself and its parent, its other entries have names of  *)
(* their own, its subdirectories are on the disc, and a request names none of the  *)
(* first two.                                                                      *)
ASSUME DirAssumption ==
  /\ MaxCache \in Nat \ {0} /\ D!Root \in DOMAIN Disc /\ "none" \notin DOMAIN Disc
  /\ \A d \in DOMAIN Disc :
       /\ Disc[d] \in Seq(Seq([name : STRING, dir : BOOLEAN, at : STRING]))
       /\ Len(Disc[d]) > 0 /\ Len(Disc[d][1]) > 1
       /\ \A e, f \in D!All(d) : e.name = f.name /\ e.name # D!Self.name => e = f
       /\ \A e \in D!All(d) : e.dir /\ e.name # D!Self.name => e.at \in DOMAIN Disc
  /\ \A path \in Paths : path \in Seq(STRING) /\ \A n \in 1..Len(path) : path[n] # D!Self.name
  /\ D!Self.name \notin Names /\ D!NoFile \notin Names

(* A module at rest is in one of its initial states. *)
IopInit ==
  /\ part \in {"net", "link", "read", "dir", "server"}
  /\ N!Init /\ (part # "net" => ~linkValid /\ left.sent = (CHOOSE l \in Loads : TRUE)[1])
  /\ K!Init /\ (part # "link" => phy = K!Mode(10, FALSE) /\ ~newChip)
  /\ R!Init /\ D!Init /\ V!Init

IopNext ==
  /\ UNCHANGED part
  /\ \/ /\ part = "net" /\ N!Next
        /\ UNCHANGED <<linkvars, readvars, dirvars, servervars>>
     \/ /\ part = "link" /\ K!Next
        /\ UNCHANGED <<netvars, readvars, dirvars, servervars>>
     \/ /\ part = "read" /\ R!Next
        /\ UNCHANGED <<netvars, linkvars, dirvars, servervars>>
     \/ /\ part = "dir" /\ D!Next
        /\ UNCHANGED <<netvars, linkvars, readvars, servervars>>
     \/ /\ part = "server" /\ V!Next
        /\ UNCHANGED <<netvars, linkvars, readvars, dirvars>>

(* A module at rest has nothing under way, so its fairness asks for nothing. *)
IopSpec == IopInit /\ [][IopNext]_allvars /\ N!Fairness /\ V!Fairness

-----------------------------------------------------------------------------
(* See Smap: received frames go into the buffer the EE gave for them. *)
RxInBuffer == N!RxInBuffer

(* See SmapLink: the chip and the phy work in the same mode when the link is up,   *)
(* or the phy's status was not read or its forced mode not written.               *)
LinkAgrees == K!LinkAgrees

(* See Cdfs: a read returns the sectors that were asked for, or their blocks in   *)
(* the shared buffer are spoilt, by a failure or by another use of the buffer.    *)
ReadTrue == R!ReadTrue

(* See CdfsDir: files are found and directories listed through a cache that holds *)
(* only a part of one directory, where FindPath does not give up at a full sector. *)
DirTrue == D!FindTrue /\ D!ListWhole

(* See SifServer: requests of the IOP are answered once, in order, or dropped whole. *)
AnswerKept == V!AnswerKept

(* See Smap and SifServer: a send that waits for room in the queue returns, and   *)
(* every packet the IOP sends to the EE is taken in, up to one of size zero.      *)
IopServed == N!SendReturns /\ V!AllTaken

(* See Smap: what smap.c says of ComputeFreeSize, as SMap_Send relies on it. *)
TxIntact == N!TxIntact
=============================================================================
