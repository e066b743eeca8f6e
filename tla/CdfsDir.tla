-------------------------------- MODULE CdfsDir --------------------------------
(***************************************************************************)
(* The directories of the disc file system of the IOP (iop/SMSCDVD): the   *)
(* cache that holds a part of one directory, the search for a file through *)
(* it (CDVD_findfile, CDVD_Cache_Dir, FindPath) and the listing of a       *)
(* directory, which walks the same cache.  A directory is a sequence of    *)
(* sectors, a sector a sequence of entries, which may fill it to its last  *)
(* byte; the cache holds at most MaxCache sectors.  Any read of the disc   *)
(* can fail.                                                               *)
(***************************************************************************)
EXTENDS Integers, Sequences

CONSTANTS Disc,        \* directory -> its sectors
          Full,        \* sectors <<directory, number>> with no room behind their last entry
          MaxCache,    \* MAX_DIR_CACHE_SECTORS
          Paths,       \* directories that are asked for
          Names        \* files that are asked for

VARIABLES cache,       \* CachedDirInfo
          pc,          \* where the call is
          op,          \* the call: its directory and its file, none for a listing
          rest,        \* components FindPath has still to find
          found,       \* result of the last call
          failed,      \* a read failed since the call began
          pos,         \* s_tocEntryPointer, 0 when no directory is open
          listing      \* entries ISO_DRead returned, and whether they can be trusted

vars == <<cache, pc, op, rest, found, failed, pos, listing>>

\* the first two entries of a directory are itself and its parent
Self == [name |-> "self", dir |-> TRUE, at |-> "none"]
Root == "root"
NoFile == "none"
NoOp == [path |-> <<>>, name |-> NoFile]

Init ==
  /\ cache = [path |-> <<>>, valid |-> FALSE, at |-> Root, offset |-> 0, size |-> 0]
  /\ pc = "idle" /\ op = NoOp /\ rest = <<>> /\ found = "none" /\ failed = FALSE
  /\ pos = 0
  /\ listing = [names |-> <<>>, sure |-> FALSE, ended |-> FALSE, path |-> <<>>]

SectorNum(c) == Len(Disc[c.at])

\* the entries of the first n sectors of directory d, sector after sector
Upto(d, n) ==
  LET upto[k \in 0..Len(Disc[d])] == IF k = 0 THEN <<>> ELSE upto[k - 1] \o Disc[d][k]
  IN  upto[n]

\* the entries in the cache
Cached(c) ==
  LET read == Upto(c.at, c.offset + c.size)
  IN  SubSeq(read, Len(Upto(c.at, c.offset)) + 1, Len(read))

\* as many sectors as the cache has room for
Fill(left) == IF left < MaxCache THEN left ELSE MaxCache

Chunk(c, offset) == [c EXCEPT !.offset = offset, !.size = Fill(SectorNum(c) - offset)]

\* ComparePath
MATCH(path) == cache.valid /\ path = cache.path
SUBDIR(path) ==
  /\ cache.valid /\ Len(cache.path) < Len(path)
  /\ SubSeq(path, 1, Len(cache.path)) = cache.path

\* the entries of sectors low to high of directory d
In(d, low, high) == UNION {{Disc[d][k][i] : i \in 1..Len(Disc[d][k])} : k \in low..high}

DirEntries(c) == In(c.at, c.offset + 1, c.offset + c.size)

-----------------------------------------------------------------------------
(* The parts of a call *)

keep == <<pos, listing>>

\* something else used the cache since the listing began
Untrusted == [listing EXCEPT !.sure = FALSE, !.names = <<>>]

\* a read of the cache failed
Fail(c) ==
  /\ cache' = [c EXCEPT !.valid = FALSE]
  /\ failed' = TRUE

\* CDVD_Cache_Dir with CACHE_START
Cache_Start ==
  /\ pc = "start"
  /\ \/ /\ MATCH(op.path) /\ cache.offset = 0
        /\ pc' = "cached"
        /\ UNCHANGED <<cache, rest, found, failed>>
     \/ /\ MATCH(op.path) /\ cache.offset # 0
        /\ \/ cache' = Chunk(cache, 0) /\ pc' = "cached" /\ UNCHANGED <<found, failed>>
           \/ Fail(Chunk(cache, 0)) /\ pc' = "idle" /\ found' = "no"
        /\ UNCHANGED rest
     \/ /\ SUBDIR(op.path)
        /\ rest' = SubSeq(op.path, Len(cache.path) + 1, Len(op.path))
        /\ \/ cache' = Chunk(cache, 0) /\ pc' = "find" /\ UNCHANGED <<found, failed>>
           \/ /\ cache.offset # 0
              /\ Fail(Chunk(cache, 0)) /\ pc' = "idle" /\ found' = "no"
     \/ /\ ~MATCH(op.path) /\ ~SUBDIR(op.path)
        /\ rest' = op.path
        /\ LET root == Chunk([cache EXCEPT !.path = <<>>, !.at = Root], 0) IN
           \/ cache' = root /\ pc' = "find" /\ UNCHANGED <<found, failed>>
           \/ Fail(root) /\ pc' = "idle" /\ found' = "no"
  /\ UNCHANGED <<op, keep>>

NextChunk_Overlaps == cache.offset + 1
\* CACHE_NEXT: the part after the one in the cache
NextChunk == cache.offset + cache.size

\* FindPath: one directory further, the next part of this one, or not found.  The next
\* part is read on an entry of length 0; behind a full sector there is none, and the
\* search ends.
FindPath ==
  /\ pc = "find"
  /\ \/ /\ rest = <<>>
        /\ cache' = [cache EXCEPT !.valid = TRUE]
        /\ pc' = "cached"
        /\ UNCHANGED <<rest, found, failed>>
     \/ \E e \in DirEntries(cache) :
        /\ rest # <<>> /\ e.dir /\ e.name = Head(rest)
        /\ rest' = Tail(rest)
        /\ LET sub == Chunk([cache EXCEPT !.path = Append(@, e.name), !.at = e.at], 0) IN
           \/ cache' = sub /\ UNCHANGED <<pc, found, failed>>
           \/ Fail(sub) /\ pc' = "idle" /\ found' = "no"
     \/ /\ rest # <<>> /\ \A e \in DirEntries(cache) : ~(e.dir /\ e.name = Head(rest))
        /\ IF NextChunk < SectorNum(cache) /\ <<cache.at, NextChunk>> \notin Full
             THEN \/ cache' = Chunk(cache, NextChunk) /\ UNCHANGED <<pc, found, failed>>
                  \/ Fail(Chunk(cache, NextChunk)) /\ pc' = "idle" /\ found' = "no"
             ELSE /\ cache' = [cache EXCEPT !.valid = FALSE]
                  /\ pc' = "idle" /\ found' = "no" /\ UNCHANGED failed
        /\ UNCHANGED rest
  /\ UNCHANGED <<op, keep>>

-----------------------------------------------------------------------------
(* CDVD_findfile *)

At(name) == CHOOSE e \in DirEntries(cache) : ~e.dir /\ e.name = name
InCache(name) == \E e \in DirEntries(cache) : ~e.dir /\ e.name = name

\* the part in the cache is searched first, if it is of the right directory
CDVD_findfile(path, name) ==
  /\ pc = "idle"
  /\ op' = [path |-> path, name |-> name]
  /\ failed' = FALSE
  /\ listing' = Untrusted
  /\ \/ /\ MATCH(path) /\ InCache(name)
        /\ found' = At(name).at /\ UNCHANGED pc
     \/ /\ MATCH(path) /\ ~InCache(name) /\ cache.size = SectorNum(cache)
        /\ found' = "no" /\ UNCHANGED pc
     \/ /\ MATCH(path) /\ ~InCache(name) /\ cache.size # SectorNum(cache)
        /\ found' = "none"
        /\ pc' = IF cache.offset = 0 THEN "next" ELSE "start"
     \/ /\ ~MATCH(path)
        /\ found' = "none" /\ pc' = "start"
  /\ UNCHANGED <<cache, rest, pos>>

\* the loop over the parts of the directory, which takes a directory for a file
Search ==
  /\ pc = "cached" /\ op.name # NoFile
  /\ IF cache.size > 0
       THEN IF \E e \in DirEntries(cache) : e.name = op.name
              THEN pc' = "idle" /\ \E e \in DirEntries(cache) : e.name = op.name /\ found' = e.at
              ELSE pc' = "next" /\ UNCHANGED found
       ELSE pc' = "idle" /\ found' = "no"
  /\ UNCHANGED <<cache, op, rest, failed, keep>>

\* CDVD_Cache_Dir with CACHE_NEXT.  After a failure the cache is not valid, and the
\* search goes on with whatever the directory's beginning turns out to hold
Cache_Next ==
  /\ pc = "next"
  /\ IF cache.valid
       THEN \/ cache' = Chunk(cache, NextChunk) /\ pc' = "cached" /\ UNCHANGED failed
            \/ /\ Fail(Chunk(cache, NextChunk))
               /\ pc' = IF cache'.size = 0 THEN "cached" ELSE "start"
       ELSE pc' = "start" /\ UNCHANGED <<cache, failed>>
  /\ UNCHANGED <<op, rest, found, keep>>

-----------------------------------------------------------------------------
(* Listings *)

ISO_DOpen(path) ==
  /\ pc = "idle" /\ pos = 0
  /\ op' = [path |-> path, name |-> NoFile]
  /\ pc' = "start"
  /\ failed' = FALSE /\ found' = "none"
  /\ UNCHANGED <<cache, rest, keep>>

\* the entry for the directory itself is skipped, in the root the parent too
ISO_DOpen_Done ==
  /\ pc = "cached" /\ op.name = NoFile
  /\ pos' = IF cache.path = <<>> THEN 3 ELSE 2
  /\ listing' = [names |-> <<>>, sure |-> TRUE, ended |-> FALSE, path |-> op.path]
  /\ pc' = "idle" /\ found' = "open"
  /\ UNCHANGED <<cache, op, rest, failed>>

\* after a failure the path of the cache is cleared before it is looked up: the root
DReadChunk == IF cache.valid THEN Chunk(cache, NextChunk)
              ELSE Chunk([cache EXCEPT !.path = <<>>, !.at = Root, !.valid = TRUE], 0)

Listed(name) ==
  IF listing.sure THEN [listing EXCEPT !.names = Append(@, name)] ELSE listing

ISO_DRead ==
  /\ pc = "idle" /\ pos # 0 /\ ~listing.ended
  /\ \/ /\ pos <= Len(Cached(cache))
        /\ listing' = Listed(Cached(cache)[pos].name)
        /\ pos' = pos + 1
        /\ UNCHANGED cache
     \/ /\ pos > Len(Cached(cache)) /\ NextChunk < SectorNum(cache)
        /\ \/ cache' = DReadChunk /\ pos' = 1 /\ UNCHANGED listing
           \/ /\ cache' = [DReadChunk EXCEPT !.valid = FALSE]
              /\ listing' = Untrusted
              /\ UNCHANGED pos
     \/ /\ pos > Len(Cached(cache)) /\ NextChunk >= SectorNum(cache)
        /\ listing' = [listing EXCEPT !.ended = TRUE]
        /\ UNCHANGED <<cache, pos>>
  /\ UNCHANGED <<pc, op, rest, found, failed>>

ISO_DClose ==
  /\ pc = "idle" /\ pos # 0
  /\ pos' = 0
  /\ listing' = [names |-> <<>>, sure |-> FALSE, ended |-> FALSE, path |-> <<>>]
  /\ UNCHANGED <<cache, pc, op, rest, found, failed>>

\* CDVDRpc_FlushCache, when the loader changes the disc or the file system
CdFlushCache ==
  /\ pc = "idle"
  /\ cache' = [path |-> <<>>, valid |-> FALSE, at |-> Root, offset |-> 0, size |-> 0]
  /\ listing' = Untrusted
  /\ UNCHANGED <<pc, op, rest, found, failed, pos>>

Step == Cache_Start \/ FindPath \/ Search \/ Cache_Next \/ ISO_DOpen_Done

Next ==
  \/ \E path \in Paths, name \in Names : CDVD_findfile(path, name)
  \/ \E path \in Paths : ISO_DOpen(path)
  \/ Step \/ ISO_DRead \/ ISO_DClose \/ CdFlushCache

Spec == Init /\ [][Next]_vars

-----------------------------------------------------------------------------
(* Properties *)

\* the entries of a directory, none if there is no such directory
All(d) == IF d = "none" THEN {} ELSE In(d, 1, Len(Disc[d]))

\* the parts of a directory that end with a full sector
FullParts(d) == {n \in 1..Len(Disc[d]) : n % MaxCache = 0 /\ <<d, n>> \in Full}

\* the entries FindPath can see: up to the end of the first such part
Seen(d) == {e \in All(d) : \E k \in 1..Len(Disc[d]) :
                             e \in In(d, 1, k) /\ \A n \in FullParts(d) : k <= n}

Below(d, name) ==
  IF \E e \in Seen(d) : e.dir /\ e.name = name
    THEN (CHOOSE e \in Seen(d) : e.dir /\ e.name = name).at
    ELSE "none"

\* the directories on the way along a path, and the one at its end, as far as
\* FindPath can see them
Walk(path) ==
  LET at[n \in 0..Len(path)] == IF n = 0 THEN Root ELSE Below(at[n - 1], path[n])
  IN  at
DirAt(path) == Walk(path)[Len(path)]

\* Whatever part of whatever directory the cache held, opening a file finds the file of
\* this name in this directory, and nothing if there is no entry of this name, unless
\* the disc fails.  A directory counts as there only if its entry is not hidden behind a
\* part of its parent that ends with a full sector: FindPath gives up at that place.
FindTrue ==
  pc = "idle" /\ op.name # NoFile /\ ~failed /\ found # "none" =>
    LET same == {e \in All(DirAt(op.path)) : e.name = op.name}
    IN  /\ same = {} => found = "no"
        /\ \A e \in same : ~e.dir => e.at = found

\* A listing that nothing else disturbed returns every entry of the directory once and
\* in order, however many parts the cache needed.
ListWhole ==
  listing.ended /\ listing.sure =>
    LET d == DirAt(listing.path)
        all == Upto(d, Len(Disc[d]))
        first == IF listing.path = <<>> THEN 3 ELSE 2
    IN  listing.names = [i \in 1..Len(all) - first + 1 |-> all[i + first - 1].name]
=============================================================================
