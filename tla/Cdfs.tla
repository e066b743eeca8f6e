--------------------------------- MODULE Cdfs ---------------------------------
(***************************************************************************)
(* The files of the disc file system of the IOP (iop/SMSCDVD): the table   *)
(* of open files and the sector buffer that ISO_Read and UDF_Read keep     *)
(* between two calls, so that the sector in which one read ends is not     *)
(* read again by the next.  The buffer belongs to all files together.      *)
(* Positions are counted in units of which a sector has SectorSize.        *)
(***************************************************************************)
EXTENDS Integers, FiniteSets, FiniteSetsExt

CONSTANTS NumFds,         \* entries of s_FDTable
          SectorSize,     \* 2048
          MaxRead,        \* 16384, the most one call reads
          Files           \* files on the disc, <<first sector, size>>

VARIABLES fds,            \* s_FDTable and s_FDUsed
          lastSector,     \* s_LastSector
          lastBk,         \* s_LastBk
          buf,            \* s_Buffer: the sector each block holds
          udf,            \* Func_Read is UDF_Read
          spoilt,         \* blocks of s_Buffer without the sector the last read put there
          out             \* what the last read returned

vars == <<fds, lastSector, lastBk, buf, udf, spoilt, out>>

Fds == 0..NumFds - 1
Blocks == 0..MaxRead \div SectorSize
Other == -1               \* a block that holds descriptors or directory data
Zero == -2                \* a block that is cleared
Nothing == [start |-> 0, got |-> <<>>, spoilt |-> {}]

Init ==
  /\ fds = [i \in Fds |-> [used |-> FALSE, lba |-> 0, size |-> 0, pos |-> 0]]
  /\ lastSector = 0 /\ lastBk = 0
  /\ buf = [k \in Blocks |-> Zero]
  /\ udf = FALSE
  /\ spoilt = Blocks
  /\ out = Nothing

Unused == {i \in Fds : ~fds[i].used}

\* UDFScanDir, UDFMapICB and UDFInit read descriptors into the first two blocks
UDFScanDir ==
  /\ buf' = [buf EXCEPT ![0] = Other, ![1] = Other]
  /\ spoilt' = spoilt \cup {0, 1}

ScanDirectory == IF udf THEN UDFScanDir ELSE UNCHANGED <<buf, spoilt>>

\* ISO_Open and UDF_Open of a file that is there; _AllocFD takes the first free entry
Open(file) ==
  /\ ScanDirectory
  /\ fds' = IF Unused = {} THEN fds
            ELSE [fds EXCEPT ![Min(Unused)] = [used |-> TRUE, lba |-> file[1], size |-> file[2],
                                               pos |-> 0]]
  /\ out' = Nothing
  /\ UNCHANGED <<lastSector, lastBk, udf>>

\* UDF_DOpen, UDF_DRead, and the opening of a file that is not there
Look ==
  /\ udf /\ ScanDirectory
  /\ out' = Nothing
  /\ UNCHANGED <<fds, lastSector, lastBk, udf>>

CDVD_close(i) ==
  /\ fds[i].used
  /\ fds' = [fds EXCEPT ![i].used = FALSE]
  /\ out' = Nothing
  /\ UNCHANGED <<lastSector, lastBk, buf, udf, spoilt>>

\* the position is unsigned: one before the start of the file is beyond its end
CDVD_lseek(i, pos) ==
  /\ fds[i].used
  /\ fds' = [fds EXCEPT ![i].pos = IF pos < 0 \/ pos > fds[i].size THEN fds[i].size ELSE pos]
  /\ out' = Nothing
  /\ UNCHANGED <<lastSector, lastBk, buf, udf, spoilt>>

Sectors(n) == (n + SectorSize - 1) \div SectorSize

KeepLast_Stays(hit) == buf
\* the block a read starts with again is moved to the front
KeepLast(hit) == IF hit /\ lastBk > 0 THEN [buf EXCEPT ![0] = buf[lastBk]] ELSE buf

StillSpoilt(hit) ==
  IF hit /\ lastBk > 0 THEN {k \in spoilt : k > 0} \cup {k \in {0} : lastBk \in spoilt} ELSE spoilt

\* ISO_Read and UDF_Read ignore what ReadSect and ReadDVDVSectors return.  So many
\* sectors have arrived; the other blocks keep what they held.  ReadSect clears all of
\* them when it knows of a failure, even one that a retry made good; but it does not
\* look for an error of a read that was begun, and takes a read that was refused
\* without an error for done.  ReadDVDVSectors clears nothing.
Read(i, size, arrived, cleared) ==
  LET fd == fds[i]
      rest == fd.size - fd.pos
      len == Min({size, rest, MaxRead})
      start == fd.lba + (fd.pos \div SectorSize)
      num == Sectors((fd.pos % SectorSize) + len)
      hit == start = lastSector
      first == IF hit THEN 1 ELSE 0
      new == {k \in Blocks : first <= k /\ k < num}
      here == {k \in new : ~cleared /\ k < first + arrived}
  IN  /\ fd.used /\ len > 0
      /\ cleared => ~udf /\ first < num
      /\ lastSector' = start + num - 1
      /\ buf' = [k \in Blocks |-> IF k \in here THEN start + k
                                  ELSE IF k \in new /\ cleared THEN Zero ELSE KeepLast(hit)[k]]
      /\ spoilt' = (StillSpoilt(hit) \ here) \cup (new \ here)
      /\ lastBk' = IF first < num THEN num - 1 ELSE 0
      /\ fds' = [fds EXCEPT ![i].pos = @ + len]
      /\ out' = [start |-> start, got |-> [k \in 0..num - 1 |-> buf'[k]], spoilt |-> spoilt']
      /\ UNCHANGED udf

\* the blocks of a DVD-Video are longer: with the other file system none is where it was
CDVDRpc_SetDVDV(dvdv) ==
  /\ udf' = dvdv
  /\ buf' = IF dvdv THEN [buf EXCEPT ![0] = Other, ![1] = Other] ELSE buf
  /\ spoilt' = spoilt \cup (IF dvdv THEN {0, 1} ELSE {}) \cup (IF dvdv # udf THEN Blocks ELSE {})
  /\ out' = Nothing
  /\ UNCHANGED <<fds, lastSector, lastBk>>

Next ==
  \/ \E file \in Files : Open(file)
  \/ Look
  \/ \E i \in Fds : CDVD_close(i)
  \/ \E i \in Fds, pos \in -1..MaxRead + 1 : CDVD_lseek(i, pos)
  \/ \E i \in Fds, size \in 1..MaxRead + 1, arrived \in 0..MaxRead, cleared \in BOOLEAN :
       Read(i, size, arrived, cleared)
  \/ \E dvdv \in BOOLEAN : CDVDRpc_SetDVDV(dvdv)

Spec == Init /\ [][Next]_vars

-----------------------------------------------------------------------------
\* What a read returns are the sectors that were asked for, in whatever order the
\* files that share the sector buffer are read and moved in; except for a sector that
\* the drive did not deliver, now or when it was kept, or that was kept in a block which
\* something else was read into since.  The caller is told of none of these.
ReadTrue ==
  \A k \in DOMAIN out.got : out.got[k] = out.start + k \/ k \in out.spoilt
=============================================================================
