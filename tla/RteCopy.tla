------------------------------- MODULE RteCopy -------------------------------
(***************************************************************************)
(* loader/getrte.c, getelf.c and getsbios.c: copying the run time environment  *)
(* from the disc to the memory card, file by file, and cutting single modules  *)
(* and the SBIOS out of larger files.                                          *)
(***************************************************************************)
EXTENDS Integers, Sequences

CONSTANTS
  Chunks,        \* length of a module file, in reads of copybuffer
  Images         \* files searched: sequences of words, "M" starts a part

VARIABLES
  pc,            \* "menu", "open", "copy", "elf"
  i,             \* module being copied
  copied,        \* chunks written of it
  card,          \* file name -> nothing, a directory, or how much of the file is stored
  spoiled,       \* history: files the disc or the card failed while they were written
  image, part,   \* file searched and the number of the part wanted
  cut            \* history: the words written to "elf" when it was written whole, or <<>>

vars == <<pc, i, copied, card, spoiled, image, part, cut>>

(* moduleList, shortened. *)
moduleList == <<"iopintr", "dmarelay">>
Files == {"iopintr", "dmarelay", "elf", "sbios", "config"}

Entry(kind, n) == [kind |-> kind, n |-> n]
Absent == Entry("absent", 0)
Directory == Entry("dir", 0)

(* fioRemove of the ROM's driver removes the file and then makes a directory   *)
(* of that name; fioRmdir removes it (external).                               *)
fioRemove(c, f) == [c EXCEPT ![f] = Directory]
fioRmdir(c, f) == [c EXCEPT ![f] = IF @ = Directory THEN Absent ELSE @]

(* fopen for writing empties the file; it fails without a card, or for a       *)
(* directory of that name.                                                     *)
Opened(f) == card[f].kind # "dir"

Store(f, n) == card' = [card EXCEPT ![f] = Entry("file", n)]
Whole(f) == Store(f, Chunks) /\ spoiled' = spoiled \ {f}
Spoilt(f, n) == Store(f, n) /\ spoiled' = spoiled \cup {f}

(* The file f of n chunks is closed and removed.  The results of the two calls  *)
(* are ignored: from a card that was pulled neither the file nor the directory  *)
(* goes away.                                                                   *)
Remove(f, n) ==
  \/ card' = fioRmdir(fioRemove(card, f), f) /\ spoiled' = spoiled \ {f}
  \/ card' = fioRemove(card, f) /\ spoiled' = spoiled \cup {f}
  \/ Spoilt(f, n)

(* fclose writes what stdio still holds, and its result is ignored.             *)
Close(f) == Whole(f) \/ (\E n \in 0..Chunks - 1 : Spoilt(f, n))

(* A file written by a single fwrite. *)
WriteOut(f) == Opened(f) /\ (Close(f) \/ \E n \in 0..Chunks - 1 : Remove(f, n))

Finish == pc' = "menu" /\ i' = 1 /\ copied' = 0

-----------------------------------------------------------------------------
copyRTEModules ==
  /\ pc = "menu" /\ pc' = "open" /\ i' = 1 /\ copied' = 0
  /\ UNCHANGED <<card, spoiled, image, part, cut>>

(* One turn of the loop over moduleList up to the copying. *)
OpenFiles ==
  /\ pc = "open"
  /\ \/ i > Len(moduleList) /\ Finish /\ card' = card
     \/ Finish /\ card' = card     \* the file on the disc, or the card, is missing
     \/ /\ i =< Len(moduleList) /\ Opened(moduleList[i])
        /\ pc' = "copy" /\ copied' = 0 /\ i' = i
        /\ Store(moduleList[i], 0)
  /\ UNCHANGED <<spoiled, image, part, cut>>

(* A failed write closes and removes the file and leaves the inner loop only:  *)
(* both files are then closed once more and the next module is copied.         *)
WriteFailed_Kept == UNCHANGED <<card, spoiled>>

WriteFailed == Remove(moduleList[i], copied)

CopyChunk ==
  /\ pc = "copy"
  /\ \/ /\ copied < Chunks
        /\ copied' = copied + 1
        /\ Store(moduleList[i], copied + 1)
        /\ UNCHANGED <<pc, i, spoiled>>
     \/ /\ \/ copied < Chunks /\ WriteFailed
           \/ copied = Chunks /\ Close(moduleList[i])            \* feof
           \/ copied < Chunks /\ Spoilt(moduleList[i], copied)   \* fread returned nothing
        /\ pc' = "open" /\ i' = i + 1 /\ copied' = copied
  /\ UNCHANGED <<image, part, cut>>

-----------------------------------------------------------------------------
copyRTEELF ==
  /\ pc = "menu" /\ pc' = "elf"
  /\ image' \in Images /\ part' \in 1..2
  /\ UNCHANGED <<i, copied, card, spoiled, cut>>

(* The first position from "from" on where the magic number is, or the end.    *)
NextMagic(from) ==
  LET at == {k \in from..Len(image) : image[k] = "M"}
  IN IF at = {} THEN Len(image) + 1 ELSE CHOOSE k \in at : \A l \in at : k =< l

(* The search counts elfNumber down at every magic number.                     *)
FindElf == IF part = 1 THEN NextMagic(1) ELSE NextMagic(NextMagic(1) + 1)

(* The image ends where the next one begins. *)
EndOfElf(start) == NextMagic(start + 1)

(* Not found: the word behind the buffer is read all the same.  Should it be   *)
(* magic by accident, the file is emptied, the write of nothing counts as       *)
(* failed, and the file is removed.                                             *)
WriteElf ==
  /\ pc = "elf"
  /\ LET start == FindElf
         end == EndOfElf(start)
     IN \/ UNCHANGED <<card, spoiled, cut>>      \* nothing read, nothing found, no card
        \/ /\ start > Len(image) /\ Opened("elf")
           /\ Remove("elf", 0) /\ cut' = <<>>
        \/ /\ start =< Len(image) /\ WriteOut("elf")
           /\ cut' = IF card'["elf"] = Entry("file", Chunks)
                     THEN <<image, part, start, end - 1>> ELSE <<>>
  /\ Finish /\ image' = <<>> /\ part' = 1

(* The SBIOS starts one word before its magic number, -1 when there is none.   *)
FindSbios(img) ==
  LET at == {k \in DOMAIN img : img[k] = "M"}
  IN IF at = {} THEN -1 ELSE (CHOOSE k \in at : \A l \in at : k =< l) - 1

(* It is written with the length found in the code that copies it, or an       *)
(* assumed one; the card may be missing or full.                               *)
WriteSbios(start) ==
  \/ UNCHANGED <<card, spoiled>>
  \/ start >= 0 /\ WriteOut("sbios")

copyRTESBIOS ==
  /\ pc = "menu"
  /\ \E img \in Images : WriteSbios(FindSbios(img))
  /\ UNCHANGED <<pc, i, copied, image, part, cut>>

(* The configuration is saved beside the copies, see Config. *)
mcSaveConfig ==
  /\ pc = "menu" /\ Opened("config") /\ Close("config")
  /\ UNCHANGED <<pc, i, copied, image, part, cut>>

(* The user deletes the configuration, the only file with an entry for that.    *)
(* The directory is removed when fioRemove reported success.                  *)
removefile ==
  /\ pc = "menu" /\ Opened("config")
  /\ \/ card' = fioRmdir(fioRemove(card, "config"), "config") /\ spoiled' = spoiled \ {"config"}
     \/ card' = fioRemove(card, "config") /\ spoiled' = spoiled \cup {"config"}
     \/ UNCHANGED <<card, spoiled>>
  /\ UNCHANGED <<pc, i, copied, image, part, cut>>

-----------------------------------------------------------------------------
Init ==
  /\ pc = "menu" /\ i = 1 /\ copied = 0
  /\ card = [f \in Files |-> Absent] /\ spoiled = {}
  /\ image = <<>> /\ part = 1 /\ cut = <<>>

Next == copyRTEModules \/ OpenFiles \/ CopyChunk \/ copyRTEELF \/ WriteElf \/ copyRTESBIOS
        \/ mcSaveConfig \/ removefile

Spec == Init /\ [][Next]_vars

-----------------------------------------------------------------------------
(* Between two operations every name on the card is free or a complete file:   *)
(* a write that failed leaves neither half a module, which would be started at *)
(* the next boot, nor the directory the ROM's remove function creates, whatever *)
(* was copied, cut out, saved and deleted before.  The exceptions are the files *)
(* whose result the code ignores: the disc stopped delivering them, which       *)
(* getrte.c takes for their end, or the card failed in fclose or fioRemove.      *)
CardWhole ==
  pc = "menu" => \A f \in Files \ spoiled : card[f] \in {Absent, Entry("file", Chunks)}

(* The part written to the card is the one asked for, all of it and nothing of *)
(* the next: no other begins before the first one, and one before the second.  *)
PartCut ==
  cut # <<>> =>
    LET img == cut[1]
        before == {k \in DOMAIN img : img[k] = "M" /\ k < cut[3]}
    IN /\ img[cut[3]] = "M"
       /\ IF cut[2] = 1 THEN before = {} ELSE \E k \in before : before = {k}
       /\ \A k \in cut[3] + 1..cut[4] : img[k] # "M"
       /\ cut[4] = Len(img) \/ img[cut[4] + 1] = "M"
=============================================================================
