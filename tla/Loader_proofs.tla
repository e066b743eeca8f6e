---------------------------- MODULE Loader_proofs ----------------------------
(***************************************************************************)
(* Proofs about the loader: for every memory layout, ELF file and initrd, a    *)
(* boot never touches the running loader, and what it starts is whole          *)
(* (BootImage); the table found by SbiosScan, the errors and texts of Screen,  *)
(* the lists of FileMenu and the copies of RteCopy are what they should be;    *)
(* the modules of BootModules serve what Linux is told of, the file of Config  *)
(* gives back what was saved, and the ring of Bootlog holds the end of the log. *)
(***************************************************************************)
EXTENDS Loader, TLAPS, WellFoundedInduction, SequenceTheorems, FiniteSetTheorems

-----------------------------------------------------------------------------
(* BootImage *)

(* The stages of real_loader: looking at the kernel, the rest that can fail,   *)
(* and what comes after the point of no return.                                *)
Early == {"sbios", "kernel", "entry", "sections"}
Ready == {"modules", "initrd", "crc", "install"}
Final == {"copy", "verify", "bootinfo", "kernel runs", "panic"}

(* Types of the state of real_loader; what the memory holds is said below. *)
BootTypeOK ==
  /\ pc \in Early \cup Ready \cup Final \cup {"returned"}
  /\ entry \in Nat /\ highest \in Nat /\ initrd \in Nat /\ got \in Nat
  /\ base \in Int
  /\ i \in Nat \ {0}
  /\ headers \in Seq(Headers)
  /\ copiedEntry \in BOOLEAN /\ buffer \in BOOLEAN

(* What check_sections has found out about the sections. *)
Checked ==
  \A k \in 1..Len(headers) :
    Loaded(headers[k]) =>
      Last(headers[k]) <= highest /\ (pc # "returned" => Fits(headers[k]))

(* check_sections let pass only kernels with a section at the entry point. *)
EntryIn(h) == Loaded(h) /\ h.dest <= entry /\ entry < Last(h)
EntryCovered ==
  /\ copiedEntry => \E k \in 1..Len(headers) : EntryIn(headers[k])
  /\ pc \in Ready \cup Final => copiedEntry

(* The initrd is behind the kernel. *)
InitrdPlaced ==
  /\ pc \in Early => base = 0
  /\ pc \in Early \cup {"modules", "initrd"} => initrd = 0
  /\ base # 0 => highest < base /\ NormalStart <= highest
  /\ initrd # 0 => base # 0 /\ base + HdrSize + initrd < LoaderStart

(* As far as it was read; behind that is what was there before. *)
InitrdByte(n, m) == IF n < m THEN Byte("initrd", n) ELSE Byte("ps2", 0)
InitrdKept ==
  initrd # 0 /\ ~Overrun =>
    /\ \A n \in 0..(HdrSize - 1) : mem[base + n] = Byte("header", n)
    /\ \A n \in 0..(initrd - 1) : mem[base + HdrSize + n] = InitrdByte(n, got)

(* Nothing is written before the initrd is read. *)
Unwritten ==
  pc \in Early \cup {"modules", "initrd"} =>
    \A a \in Addresses : a < LoaderStart => mem[a] = Byte("ps2", 0)

(* Which other files the heap may hold. *)
KeptKnown ==
  /\ pc \in Early => kept = {}
  /\ pc \in Ready \cup Final => kept \in {{}, {"modules"}}
  /\ pc = "returned" => /\ kept = {"sbios"} => rv = -35
                        /\ kept = {"modules"} => rv \notin {-35, -1}

(* The PS2's kernel is replaced by the SBIOS in one step. *)
LowMemory ==
  /\ pc \notin Final => \A a \in 0..(KernelStart - 1) : mem[a] = Byte("ps2", 0)
  /\ pc \in Final =>
       \A a \in SbiosStart..(KernelStart - 1) : mem[a] = Byte("sbios", a - SbiosStart)

(* The sections copied so far are there, whatever they overwrote of each other. *)
Done(k) == IF pc = "copy" THEN k < i ELSE pc \in Final
SectionsKept ==
  \A k \in 1..Len(headers) :
    Loaded(headers[k]) /\ Done(k) =>
      \A a \in headers[k].dest..(Last(headers[k]) - 1) : mem[a].of \in {"kernel", "zero"}

(* Every way out of real_loader frees the kernel file. *)
BufferFreed == pc \in {"sbios", "kernel", "returned"} => ~buffer

(* The inductive invariant. *)
IInv ==
  /\ BootTypeOK /\ Checked /\ EntryCovered /\ InitrdPlaced /\ InitrdKept /\ LowMemory
  /\ SectionsKept /\ BufferFreed /\ LoaderUntouched /\ Unwritten /\ KeptKnown

-----------------------------------------------------------------------------
LEMMA Layout ==
  /\ Page \in Nat /\ HdrSize \in Nat /\ SbiosStart \in Nat /\ KernelStart \in Nat
  /\ NormalStart \in Nat /\ LoaderStart \in Nat /\ BootInfo \in Nat /\ FileSize \in Nat
  /\ SbiosStart < KernelStart /\ KernelStart <= NormalStart /\ NormalStart < LoaderStart
  /\ LoaderStart < BootInfo
  /\ Page > 0 /\ Entries \subseteq Nat /\ InitrdSizes \subseteq Nat
  /\ Wrap \in Nat /\ 2 * BootInfo < Wrap
BY LayoutAssumption DEF LayoutAssumption

(* Remainders of what is near the word's range. *)
LEMMA WrapMod ==
  ASSUME NEW a \in Int
  PROVE  /\ 0 <= a /\ a < Wrap => a % Wrap = a
         /\ Wrap <= a /\ a < 2 * Wrap => a % Wrap = a - Wrap
         /\ 0 - Wrap < a /\ a < 0 => a % Wrap = a + Wrap
<1>1. Wrap \in Nat /\ Wrap > 0
  BY Layout
<1>2. ASSUME 0 <= a, a < Wrap PROVE a % Wrap = a
  BY <1>1, <1>2
<1>3. ASSUME Wrap <= a, a < 2 * Wrap PROVE a % Wrap = a - Wrap
  <2>1. a - Wrap \in 0..(Wrap - 1) /\ a = 1 * Wrap + (a - Wrap)
    BY <1>1, <1>3
  <2> QED
    BY <1>1, <2>1
<1>4. ASSUME 0 - Wrap < a, a < 0 PROVE a % Wrap = a + Wrap
  <2>1. a + Wrap \in 0..(Wrap - 1) /\ a = (0 - 1) * Wrap + (a + Wrap)
    BY <1>1, <1>4
  <2> QED
    BY <1>1, <2>1
<1> QED
  BY <1>2, <1>3, <1>4

LEMMA HeaderFacts ==
  ASSUME NEW h \in Headers
  PROVE  /\ h.dest \in Nat /\ h.memsz \in Nat /\ h.filesz \in Nat /\ h.offset \in Nat
         /\ h.memsz < Wrap /\ h.filesz < Wrap /\ 8 * h.dest < Wrap
         /\ h.load \in BOOLEAN
         /\ Last(h) \in Nat
<1>1. /\ h.dest \in Nat /\ h.memsz \in 0..(Wrap - 1) /\ h.filesz \in 0..(Wrap - 1)
      /\ h.offset \in Nat /\ h.load \in BOOLEAN
  BY LayoutAssumption DEF LayoutAssumption
<1>2. 8 * h.dest < Wrap
  BY LayoutAssumption DEF LayoutAssumption
<1>3. Size(h) \in 0..(Wrap - 1)
  BY <1>1 DEF Size
<1>4. h.dest + Size(h) \in Nat /\ h.dest + Size(h) < 2 * Wrap
  BY <1>1, <1>2, <1>3, Layout
<1>5. Last(h) \in Nat
  BY <1>4, Layout DEF Last
<1> QED
  BY <1>1, <1>2, <1>5, Layout

(* The end of a section that does not wrap is its end, the others' is below     *)
(* where they begin.                                                            *)
LEMMA LastFacts ==
  ASSUME NEW h \in Headers, Loaded(h)
  PROVE  /\ ~Wraps(h) => /\ h.dest + h.filesz <= Last(h) /\ h.dest + h.memsz <= Last(h)
                         /\ Last(h) = h.dest + h.filesz \/ Last(h) = h.dest + h.memsz
         /\ Wraps(h) => Last(h) < h.dest
<1>1. /\ h.dest \in Nat /\ h.memsz \in Nat /\ h.filesz \in Nat
      /\ h.memsz < Wrap /\ h.filesz < Wrap /\ 8 * h.dest < Wrap
  BY HeaderFacts
<1>2. /\ Size(h) \in Nat /\ Size(h) < Wrap /\ h.filesz <= Size(h) /\ h.memsz <= Size(h)
      /\ Size(h) = h.filesz \/ Size(h) = h.memsz
  BY <1>1 DEF Size
<1>3. CASE ~Wraps(h)
  <2>1. h.dest + Size(h) < Wrap
    BY <1>1, <1>2, <1>3, Layout DEF Wraps
  <2>2. Last(h) = h.dest + Size(h)
    BY <1>1, <1>2, <2>1, WrapMod DEF Last
  <2> QED
    BY <1>1, <1>2, <1>3, <2>2
<1>4. CASE Wraps(h)
  <2>1. h.dest + Size(h) >= Wrap
    BY <1>4 DEF Wraps
  <2>2. Last(h) = h.dest + Size(h) - Wrap
    BY <1>1, <1>2, <2>1, WrapMod, Layout DEF Last
  <2> QED
    BY <1>1, <1>2, <1>4, <2>2, Layout
<1> QED
  BY <1>3, <1>4

(* How much is filled with zeros: for a section below the loader the rest of it. *)
LEMMA ZerosFacts ==
  ASSUME NEW h \in Headers
  PROVE  /\ Zeros(h) \in Nat
         /\ h.memsz <= BootInfo /\ h.filesz <= BootInfo =>
              Zeros(h) = IF h.filesz <= h.memsz THEN h.memsz - h.filesz ELSE 0
<1>1. /\ h.memsz \in Nat /\ h.filesz \in Nat /\ h.memsz < Wrap /\ h.filesz < Wrap
  BY HeaderFacts
<1> DEFINE d == h.memsz - h.filesz
           size == d % Wrap
<1>2. d \in Int
  BY <1>1
<1>3. CASE h.filesz <= h.memsz
  <2>1. 0 <= d /\ d < Wrap
    BY <1>1, <1>3, Layout
  <2>3. size = d
    BY <1>2, <2>1, WrapMod
  <2>2. Zeros(h) = IF 2 * d < Wrap THEN d ELSE 0
    BY <2>3 DEF Zeros
  <2> QED
    BY <1>1, <1>3, <2>2, Layout
<1>4. CASE ~(h.filesz <= h.memsz)
  <2>1. 0 - Wrap < d /\ d < 0
    BY <1>1, <1>4, Layout
  <2>2. size = d + Wrap
    BY <1>2, <2>1, WrapMod
  <2>3. Zeros(h) = IF 2 * (d + Wrap) < Wrap THEN d + Wrap ELSE 0
    BY <2>2 DEF Zeros
  <2> QED
    BY <1>1, <1>4, <2>1, <2>3, Layout
<1> QED
  BY <1>3, <1>4

LEMMA InSection ==
  ASSUME NEW h \in Headers, NEW a \in Nat, h.dest <= a, a < Last(h)
  PROVE  a \in h.dest..(Last(h) - 1)
BY HeaderFacts

LEMMA HeadersIn ==
  ASSUME BootTypeOK, NEW k \in 1..Len(headers)
  PROVE  headers[k] \in Headers
<1>1. headers \in Seq(Headers)
  BY DEF BootTypeOK
<1> QED
  BY <1>1

(* The addresses of the initrd and its header. *)
LEMMA InitrdBytes ==
  ASSUME BootTypeOK, InitrdPlaced, initrd # 0
  PROVE  /\ \A n \in 0..(HdrSize - 1) :
              /\ base + n \in Addresses /\ base + n < LoaderStart
              /\ base + n >= highest /\ base + n >= KernelStart
         /\ \A n \in 0..(initrd - 1) :
              /\ base + HdrSize + n \in Addresses /\ base + HdrSize + n < LoaderStart
              /\ base + HdrSize + n >= highest /\ base + HdrSize + n >= KernelStart
<1>1. /\ base \in Int /\ initrd \in Nat /\ highest \in Nat
      /\ highest < base /\ NormalStart <= highest /\ base + HdrSize + initrd < LoaderStart
  BY DEF BootTypeOK, InitrdPlaced
<1>2. \A n \in 0..(HdrSize - 1) :
        /\ base + n \in 0..BootInfo /\ base + n < LoaderStart
        /\ base + n >= highest /\ base + n >= KernelStart
  BY <1>1, Layout
<1>3. \A n \in 0..(initrd - 1) :
        /\ base + HdrSize + n \in 0..BootInfo /\ base + HdrSize + n < LoaderStart
        /\ base + HdrSize + n >= highest /\ base + HdrSize + n >= KernelStart
  BY <1>1, Layout
<1> QED
  BY <1>2, <1>3 DEF Addresses

LEMMA RoundUpInt ==
  ASSUME NEW a \in Nat
  PROVE  RoundUp(a) \in Int
<1>1. (a + Page - 1) \in Int /\ Page \in Nat /\ Page > 0
  BY Layout
<1>2. (a + Page - 1) \div Page \in Int
  BY <1>1
<1> QED
  BY <1>1, <1>2 DEF RoundUp

LEMMA Regions ==
  /\ \A a \in 0..(KernelStart - 1) : a \in Addresses /\ a < KernelStart
  /\ \A a \in SbiosStart..(KernelStart - 1) : a \in Addresses /\ a >= SbiosStart /\ a < KernelStart
  /\ \A a \in LoaderStart..BootInfo : a \in Addresses /\ a >= LoaderStart
BY Layout DEF Addresses

(* A step that writes between the PS2's kernel and the loader, if at all. *)
LEMMA WritesBetween ==
  ASSUME LowMemory, LoaderUntouched, pc \notin Final, pc' \notin Final,
         \A a \in Addresses : a < KernelStart \/ a >= LoaderStart => mem'[a] = mem[a]
  PROVE  LowMemory' /\ LoaderUntouched'
<1>1. \A a \in 0..(KernelStart - 1) : mem'[a] = Byte("ps2", 0)
  BY Regions DEF LowMemory
<1>2. \A a \in LoaderStart..BootInfo : mem'[a] = Loader
  BY Regions DEF LoaderUntouched, Final
<1>3. LowMemory'
  BY <1>1 DEF LowMemory
<1> QED
  BY <1>2, <1>3 DEF LoaderUntouched

LEMMA InitIInv == Init => IInv
<1> SUFFICES ASSUME Init PROVE IInv
  OBVIOUS
<1>1. BootTypeOK
  <2>1. /\ entry \in Nat /\ highest \in Nat /\ initrd \in Nat /\ got \in Nat /\ base \in Int
        /\ i \in Nat \ {0}
    BY Layout DEF Init
  <2>2. headers \in Seq(Headers)
    BY DEF Init
  <2>3. pc \in Early /\ copiedEntry \in BOOLEAN /\ buffer \in BOOLEAN
    BY DEF Init, Early
  <2> QED
    BY <2>1, <2>2, <2>3 DEF BootTypeOK
<1>2. \A a \in Addresses : mem[a] = IF a < LoaderStart THEN Byte("ps2", 0) ELSE Loader
  BY DEF Init
<1>3. LoaderUntouched
  <2>1. \A a \in LoaderStart..BootInfo : a \in Addresses /\ ~(a < LoaderStart)
    BY Layout DEF Addresses
  <2> QED
    BY <1>2, <2>1 DEF LoaderUntouched
<1>4. LowMemory
  BY <1>2, Layout DEF Init, LowMemory, Addresses, Final
<1>5. Len(headers) = 0
  BY DEF Init
<1>6. Checked /\ SectionsKept
  BY <1>5 DEF Checked, SectionsKept
<1>7. EntryCovered
  BY DEF Init, EntryCovered, Ready, Final
<1>8. Unwritten /\ KeptKnown
  BY <1>2 DEF Init, Unwritten, KeptKnown, Ready, Final
<1> QED
  BY <1>1, <1>3, <1>4, <1>6, <1>7, <1>8
  DEF Init, IInv, InitrdPlaced, InitrdKept, BufferFreed, Early

(* Steps that leave the memory, the sections and the initrd as they are and    *)
(* move within the first stages, or give up.                                   *)
LEMMA QuietStep ==
  ASSUME IInv,
         UNCHANGED <<entry, headers, highest, copiedEntry, base, initrd, got, mem, i>>,
         buffer' \in BOOLEAN, KeptKnown',
         \/ pc' = "returned" /\ ~buffer' /\ pc \notin Final
         \/ pc \in Early /\ pc' \in {"entry", "sections"}
         \/ pc = "sbios" /\ pc' = "kernel" /\ buffer' = buffer
         \/ pc = "modules" /\ pc' = "initrd"
         \/ pc = "initrd" /\ pc' = "crc"
         \/ pc = "crc" /\ pc' = "install"
  PROVE  IInv'
<1>1. BootTypeOK'
  BY DEF IInv, BootTypeOK, Early, Ready, Final
<1>2. Checked'
  BY DEF IInv, Checked, Loaded, Last, Size, Fits, Early, Ready
<1>0. Overrun' <=> Overrun
  BY DEF Overrun, Wraps, Loaded, Size
<1>3. EntryCovered' /\ InitrdPlaced'
  BY DEF IInv, EntryCovered, EntryIn, Loaded, Last, Size, InitrdPlaced, Early, Ready, Final
<1>7. InitrdKept'
  BY <1>0 DEF IInv, InitrdKept, InitrdByte
<1>4. LowMemory' /\ LoaderUntouched' /\ Unwritten'
  <2>1. LoaderUntouched'
    BY DEF IInv, LoaderUntouched, Early, Ready, Final
  <2>2. LowMemory' /\ Unwritten'
    BY DEF IInv, LowMemory, Unwritten, Early, Ready, Final
  <2> QED
    BY <2>1, <2>2
<1>5. SectionsKept'
  BY DEF IInv, SectionsKept, Done, Early, Ready, Final
<1>6. BufferFreed'
  BY DEF IInv, BufferFreed, Early, Ready, Final
<1> QED
  BY <1>1, <1>2, <1>3, <1>4, <1>5, <1>6, <1>7 DEF IInv

LEMMA QuietActions ==
  ASSUME IInv, load_sbios \/ load_kernel_file \/ CheckEntry \/ LoadModules \/ crc32check
  PROVE  IInv'
<1>0. /\ pc \in Early \cup Ready \cup Final \cup {"returned"} /\ buffer \in BOOLEAN
      /\ KeptKnown /\ BufferFreed
  BY DEF IInv, BootTypeOK
<1>s. {} # {"sbios"} /\ {"modules"} # {"sbios"}
  OBVIOUS
<1>1. CASE load_sbios
  <2>1. ~buffer
    BY <1>0, <1>1 DEF BufferFreed, load_sbios
  <2>2. kept = {}
    BY <1>0, <1>1 DEF KeptKnown, load_sbios, Early
  <2>3. KeptKnown'
    BY <1>1, <2>2 DEF KeptKnown, load_sbios, Goto, Return, Early, Ready, Final
  <2> QED
    BY <1>0, <1>1, <2>1, <2>3, QuietStep DEF load_sbios, Goto, Return, Final
<1>2. CASE load_kernel_file
  <2>1. buffer = FALSE
    BY <1>0, <1>2 DEF BufferFreed, load_kernel_file
  <2>2. /\ UNCHANGED <<entry, headers, highest, copiedEntry, base, initrd, got, mem, i>>
        /\ buffer' \in BOOLEAN
        /\ \/ pc' = "returned" /\ ~buffer' /\ pc \notin Final
           \/ pc \in Early /\ pc' \in {"entry", "sections"}
    BY <1>2, <2>1 DEF load_kernel_file, Goto, Return, Early, Final
  <2>3. kept = {} /\ kept' = kept
    BY <1>0, <1>2 DEF KeptKnown, load_kernel_file, Early
  <2>4. KeptKnown'
    BY <2>2, <2>3 DEF KeptKnown, Early, Ready, Final
  <2> QED
    BY <2>2, <2>4, QuietStep
<1>3. CASE CheckEntry
  <2>1. kept = {} /\ kept' = kept
    BY <1>0, <1>3 DEF KeptKnown, CheckEntry, Early
  <2>2. KeptKnown'
    BY <1>3, <2>1 DEF KeptKnown, CheckEntry, Goto, Return, Early, Ready, Final
  <2> QED
    BY <1>0, <1>3, <2>2, QuietStep DEF CheckEntry, Goto, Return, Early, Final
<1>4. CASE LoadModules
  <2>1. kept' \in {{}, {"modules"}} /\ kept' # {"sbios"}
    BY <1>4, <1>s DEF LoadModules
  <2>2. pc' = "initrd" \/ (pc' = "returned" /\ rv' \notin {-35, -1})
    BY <1>4 DEF LoadModules, Goto, Return
  <2>3. KeptKnown'
    BY <2>1, <2>2, Zenon DEF KeptKnown, Early, Ready, Final
  <2> QED
    BY <1>0, <1>4, <2>3, QuietStep DEF LoadModules, Goto, Return, Ready, Final
<1>5. CASE crc32check
  <2>1. kept' \in {{}, {"modules"}} /\ kept' # {"sbios"}
    BY <1>0, <1>5, <1>s DEF KeptKnown, crc32check, Ready
  <2>2. pc' = "install" \/ (pc' = "returned" /\ rv' \notin {-35, -1})
    BY <1>5 DEF crc32check, Goto, Return
  <2>3. KeptKnown'
    BY <2>1, <2>2, Zenon DEF KeptKnown, Early, Ready, Final
  <2> QED
    BY <1>0, <1>5, <2>3, QuietStep DEF crc32check, Goto, Return, Ready, Final
<1> QED
  BY <1>1, <1>2, <1>3, <1>4, <1>5

LEMMA CheckSectionStep ==
  ASSUME IInv, CheckSection
  PROVE  IInv'
<1>0. /\ pc = "sections" /\ UNCHANGED <<entry, base, initrd, got, kept, mem, i>>
      /\ base = 0 /\ initrd = 0 /\ kept = {}
  BY DEF CheckSection, IInv, InitrdPlaced, KeptKnown, Early
<1>1. PICK h \in Headers :
        /\ headers' = Append(headers, h)
        /\ highest' = IF Loaded(h) /\ highest < Last(h) THEN Last(h) ELSE highest
        /\ copiedEntry' = (copiedEntry \/ (Loaded(h) /\ h.dest <= entry /\ Last(h) > entry))
        /\ IF ~Loaded(h) \/ Fits(h) THEN Goto(pc) /\ buffer' = buffer
                                    ELSE Return(-2) /\ buffer' = FALSE
  BY DEF CheckSection
<1>2. /\ headers \in Seq(Headers) /\ highest \in Nat /\ entry \in Nat /\ i \in Nat \ {0}
      /\ copiedEntry \in BOOLEAN /\ buffer \in BOOLEAN
  BY DEF IInv, BootTypeOK
<1>3. Last(h) \in Nat /\ h.dest \in Nat
  BY HeaderFacts
<1>4. /\ headers' \in Seq(Headers)
      /\ Len(headers') = Len(headers) + 1 /\ Len(headers) \in Nat
      /\ \A k \in 1..Len(headers) : headers'[k] = headers[k] /\ headers[k] \in Headers
      /\ headers'[Len(headers) + 1] = h
  BY <1>1, <1>2
<1>5. highest' \in Nat /\ highest <= highest' /\ (Loaded(h) => Last(h) <= highest')
  BY <1>1, <1>2, <1>3
<1>6. \/ pc' = "sections" /\ buffer' = buffer /\ (Loaded(h) => Fits(h))
      \/ pc' = "returned" /\ ~buffer'
  BY <1>0, <1>1 DEF Goto, Return
<1>7. BootTypeOK'
  <2>1. copiedEntry' \in BOOLEAN /\ buffer' \in BOOLEAN
    BY <1>1, <1>2
  <2>2. pc' \in Early \cup {"returned"}
    BY <1>6 DEF Early
  <2> QED
    BY <1>0, <1>2, <1>4, <1>5, <2>1, <2>2 DEF BootTypeOK, IInv
<1>8. Checked'
  <2> SUFFICES ASSUME NEW k \in 1..Len(headers'), Loaded(headers'[k])
               PROVE  /\ Last(headers'[k]) <= highest'
                      /\ pc' # "returned" => Fits(headers'[k])
    BY DEF Checked, Loaded, Last, Size, Fits
  <2>1. CASE k = Len(headers) + 1
    BY <1>4, <1>5, <1>6, <2>1
  <2>2. CASE k \in 1..Len(headers)
    <3>1. Last(headers[k]) <= highest /\ Fits(headers[k]) /\ Last(headers[k]) \in Nat
      BY <1>0, <1>4, <2>2, HeaderFacts DEF IInv, Checked
    <3> QED
      BY <1>2, <1>4, <1>5, <2>2, <3>1
  <2> QED
    BY <1>4, <2>1, <2>2
<1>9. EntryCovered'
  <2> SUFFICES ASSUME copiedEntry'
               PROVE  \E k \in 1..Len(headers') : EntryIn(headers'[k])
    BY <1>0, <1>6 DEF EntryCovered, EntryIn, Loaded, Last, Size, Ready, Final
  <2>1. CASE copiedEntry
    <3>1. PICK k \in 1..Len(headers) : EntryIn(headers[k])
      BY <2>1 DEF IInv, EntryCovered
    <3> QED
      BY <1>4, <3>1
  <2>2. CASE ~copiedEntry
    <3>1. EntryIn(h)
      BY <1>1, <1>2, <1>3, <2>2 DEF EntryIn
    <3> QED
      BY <1>4, <3>1
  <2> QED
    BY <2>1, <2>2
<1>10. InitrdPlaced' /\ InitrdKept'
  BY <1>0 DEF InitrdPlaced, InitrdKept
<1>11. LowMemory' /\ LoaderUntouched' /\ Unwritten' /\ KeptKnown'
  <2>1. \A a \in LoaderStart..BootInfo : mem'[a] = Loader
    BY <1>0 DEF IInv, LoaderUntouched
  <2>2. LoaderUntouched'
    BY <2>1 DEF LoaderUntouched
  <2>3. LowMemory' /\ Unwritten'
    BY <1>0, <1>6 DEF IInv, LowMemory, Unwritten, Early, Final
  <2>4. KeptKnown'
    BY <1>0, <1>6 DEF KeptKnown, Ready, Final
  <2> QED
    BY <2>2, <2>3, <2>4
<1>12. SectionsKept' /\ BufferFreed'
  BY <1>6 DEF SectionsKept, Done, BufferFreed, Final
<1> QED
  BY <1>7, <1>8, <1>9, <1>10, <1>11, <1>12 DEF IInv

LEMMA PlaceInitrdStep ==
  ASSUME IInv, PlaceInitrd
  PROVE  IInv'
<1>0. /\ pc = "sections"
      /\ UNCHANGED <<entry, headers, highest, copiedEntry, initrd, got, kept, mem, i>>
      /\ highest \in Nat /\ initrd = 0 /\ got \in Nat /\ buffer \in BOOLEAN /\ kept = {}
  BY DEF PlaceInitrd, IInv, InitrdPlaced, BootTypeOK, KeptKnown, Early
<1>1. CASE ~copiedEntry
  <2>1. KeptKnown'
    BY <1>0, <1>1 DEF PlaceInitrd, Return, KeptKnown, Early, Ready, Final
  <2> QED
    BY <1>0, <1>1, <2>1, QuietStep DEF PlaceInitrd, Return, Final
<1>2. CASE copiedEntry
  <2>1. pc' = "modules" /\ base' = InitrdHeader /\ buffer' = buffer
    BY <1>2 DEF PlaceInitrd, Goto
  <2>2. base' \in Int /\ (base' # 0 => highest < base' /\ NormalStart <= highest)
    <3>1. RoundUp(highest) \in Int
      BY <1>0, RoundUpInt
    <3> QED
      BY <1>0, <2>1, <3>1, Layout DEF InitrdHeader
  <2>3. BootTypeOK'
    BY <1>0, <2>1, <2>2 DEF IInv, BootTypeOK, Ready
  <2>4. Checked'
    BY <1>0, <2>1 DEF IInv, Checked, Loaded, Last, Size, Fits
  <2>5. EntryCovered'
    BY <1>0, <1>2 DEF IInv, EntryCovered, EntryIn, Loaded, Last, Size
  <2>6. InitrdPlaced' /\ InitrdKept'
    BY <1>0, <2>1, <2>2 DEF InitrdPlaced, InitrdKept, Early
  <2>7. LowMemory' /\ LoaderUntouched' /\ Unwritten' /\ KeptKnown'
    <3>1. \A a \in LoaderStart..BootInfo : mem'[a] = Loader
      BY <1>0 DEF IInv, LoaderUntouched
    <3>2. LoaderUntouched'
      BY <3>1 DEF LoaderUntouched
    <3>3. LowMemory' /\ Unwritten' /\ KeptKnown'
      BY <1>0, <2>1 DEF IInv, LowMemory, Unwritten, KeptKnown, Early, Ready, Final
    <3> QED
      BY <3>2, <3>3
  <2>8. SectionsKept' /\ BufferFreed'
    BY <2>1 DEF SectionsKept, Done, BufferFreed, Final
  <2> QED
    BY <2>3, <2>4, <2>5, <2>6, <2>7, <2>8 DEF IInv
<1> QED
  BY <1>0, <1>1, <1>2 DEF IInv, BootTypeOK

(* The initrd ends below the loader and begins behind the kernel. *)
LEMMA LoadInitrdStep ==
  ASSUME IInv, LoadInitrd
  PROVE  IInv'
<1>0. /\ pc = "initrd" /\ UNCHANGED <<entry, headers, highest, copiedEntry, base, kept, i>>
      /\ initrd \in Nat /\ got \in Nat /\ buffer \in BOOLEAN /\ base \in Int /\ highest \in Nat
      /\ kept \in {{}, {"modules"}} /\ kept # {"sbios"}
  <2>1. {} # {"sbios"} /\ {"modules"} # {"sbios"}
    OBVIOUS
  <2> QED
    BY <2>1 DEF LoadInitrd, IInv, BootTypeOK, KeptKnown, Ready
<1>k. pc' = "crc" \/ (pc' = "returned" /\ rv' \in {-9, -10, -11, -12}) => KeptKnown'
  <2>1. rv' \in {-9, -10, -11, -12} => rv' \notin {-35, -1}
    OBVIOUS
  <2>2. kept' \in {{}, {"modules"}} /\ kept' # {"sbios"}
    BY <1>0
  <2> QED
    BY <2>1, <2>2, Zenon DEF KeptKnown, Early, Ready, Final
<1>1. CASE Goto("crc") /\ UNCHANGED <<initrd, got, buffer, mem>>
  BY <1>0, <1>1, <1>k, QuietStep DEF Goto, Ready
<1>2. CASE /\ pc' = "returned" /\ rv' \in {-9, -10, -11, -12} /\ buffer' = FALSE
           /\ UNCHANGED <<initrd, got, mem>>
  BY <1>0, <1>2, <1>k, QuietStep DEF Final
<1>3. ASSUME NEW size \in InitrdSizes, NEW m \in 0..size, base # 0, ~(size > InitrdRoom),
             LET read == Write(mem, base + HdrSize, m, LAMBDA k : Byte("initrd", k))
             IN IF size = 0 \/ base + HdrSize + size >= LoaderStart
                THEN /\ Return(IF size = 0 THEN -9 ELSE -11)
                     /\ mem' = read /\ buffer' = FALSE /\ UNCHANGED <<initrd, got>>
                ELSE /\ mem' = Write(read, base, HdrSize, LAMBDA k : Byte("header", k))
                     /\ Goto("crc") /\ initrd' = size /\ got' = m /\ buffer' = buffer
      PROVE  IInv'
  <2>0. /\ size \in Nat /\ m \in Nat /\ m <= size /\ base + HdrSize + size <= LoaderStart
        /\ highest < base /\ NormalStart <= highest /\ initrd = 0
    BY <1>0, <1>3, Layout DEF InitrdRoom, IInv, InitrdPlaced
  <2>1. CASE size = 0 \/ base + HdrSize + size >= LoaderStart
    <3>1. /\ pc' = "returned" /\ ~buffer' /\ buffer' \in BOOLEAN /\ initrd' = initrd /\ got' = got
          /\ rv' \in {-9, -11}
          /\ mem' = Write(mem, base + HdrSize, m, LAMBDA k : Byte("initrd", k))
      BY <1>3, <2>1 DEF Return
    <3>2. \A a \in Addresses : a < base + HdrSize \/ a >= LoaderStart => mem'[a] = mem[a]
      BY <1>0, <2>0, <3>1, Layout DEF Write, Addresses
    <3>3. BootTypeOK'
      BY <1>0, <3>1 DEF IInv, BootTypeOK
    <3>4. Checked' /\ EntryCovered'
      BY <1>0, <3>1 DEF IInv, Checked, EntryCovered, EntryIn, Loaded, Last, Size, Fits, Ready, Final
    <3>5. InitrdPlaced'
      BY <1>0, <3>1 DEF IInv, InitrdPlaced, Early
    <3>6. LowMemory' /\ LoaderUntouched'
      <4>1. \A a \in Addresses : a < KernelStart => a < base + HdrSize
        BY <1>0, <2>0, Layout DEF Addresses
      <4> QED
        BY <1>0, <3>1, <3>2, <4>1, WritesBetween DEF IInv, Final
    <3>7. SectionsKept' /\ BufferFreed'
      BY <3>1 DEF SectionsKept, Done, BufferFreed, Final
    <3>8. InitrdKept' /\ Unwritten' /\ KeptKnown'
      BY <1>k, <2>0, <3>1 DEF InitrdKept, Unwritten, Early
    <3> QED
      BY <3>3, <3>4, <3>5, <3>6, <3>7, <3>8 DEF IInv
  <2>2. CASE ~(size = 0 \/ base + HdrSize + size >= LoaderStart)
    <3> DEFINE read == Write(mem, base + HdrSize, m, LAMBDA k : Byte("initrd", k))
    <3>1. /\ pc' = "crc" /\ buffer' = buffer /\ initrd' = size /\ got' = m
          /\ mem' = Write(read, base, HdrSize, LAMBDA k : Byte("header", k))
      BY <1>3, <2>2 DEF Goto
    <3>2. \A a \in Addresses :
            mem'[a] = IF a >= base /\ a < base + HdrSize THEN Byte("header", a - base)
                      ELSE IF a >= base + HdrSize /\ a < base + HdrSize + m
                           THEN Byte("initrd", a - (base + HdrSize))
                           ELSE mem[a]
      BY <3>1 DEF Write
    <3>3. BootTypeOK'
      BY <1>0, <2>0, <3>1 DEF IInv, BootTypeOK, Ready
    <3>4. Checked' /\ EntryCovered'
      BY <1>0, <3>1 DEF IInv, Checked, EntryCovered, EntryIn, Loaded, Last, Size, Fits, Ready, Final
    <3>5. InitrdPlaced'
      BY <1>0, <1>3, <2>0, <2>2, <3>1, Layout DEF IInv, InitrdPlaced, Early
    <3>6. InitrdKept'
      <4>1. \A n \in 0..(HdrSize - 1) :
              /\ base + n \in Addresses /\ (base + n) - base = n
              /\ base + n >= base /\ base + n < base + HdrSize
        BY <1>0, <2>0, Layout DEF Addresses
      <4>2. \A n \in 0..(size - 1) :
              /\ base + HdrSize + n \in Addresses
              /\ (base + HdrSize + n) - (base + HdrSize) = n
              /\ ~(base + HdrSize + n < base + HdrSize)
              /\ base + HdrSize + n >= base + HdrSize /\ base + HdrSize + n < LoaderStart
              /\ base + HdrSize + n < base + HdrSize + m <=> n < m
        BY <1>0, <2>0, Layout DEF Addresses
      <4>3. \A n \in 0..(HdrSize - 1) : mem'[base + n] = Byte("header", n)
        BY <3>2, <4>1
      <4>5. \A a \in Addresses : a < LoaderStart => mem[a] = Byte("ps2", 0)
        BY <1>0 DEF IInv, Unwritten
      <4>4. \A n \in 0..(size - 1) : mem'[base + HdrSize + n] = InitrdByte(n, m)
        BY <3>2, <4>2, <4>5 DEF InitrdByte
      <4> QED
        BY <1>0, <3>1, <4>3, <4>4 DEF InitrdKept, InitrdByte
    <3>7. LowMemory' /\ LoaderUntouched'
      <4>1. \A a \in Addresses : a < KernelStart \/ a >= LoaderStart => mem'[a] = mem[a]
        BY <1>0, <2>0, <3>2, Layout DEF Addresses
      <4> QED
        BY <1>0, <3>1, <4>1, WritesBetween DEF IInv, Final
    <3>8. SectionsKept' /\ BufferFreed' /\ Unwritten' /\ KeptKnown'
      BY <1>k, <3>1 DEF SectionsKept, Done, BufferFreed, Final, Unwritten, Early
    <3> QED
      BY <3>3, <3>4, <3>5, <3>6, <3>7, <3>8 DEF IInv
  <2> QED
    BY <2>1, <2>2
<1>4. CASE \E size \in InitrdSizes : \E n \in 0..size :
             /\ base # 0
             /\ IF size > InitrdRoom
                THEN Return(-10) /\ buffer' = FALSE /\ UNCHANGED <<initrd, got, mem>>
                ELSE LET read == Write(mem, base + HdrSize, n, LAMBDA k : Byte("initrd", k))
                     IN IF size = 0 \/ base + HdrSize + size >= LoaderStart
                        THEN /\ Return(IF size = 0 THEN -9 ELSE -11)
                             /\ mem' = read /\ buffer' = FALSE /\ UNCHANGED <<initrd, got>>
                        ELSE /\ mem' = Write(read, base, HdrSize, LAMBDA k : Byte("header", k))
                             /\ Goto("crc") /\ initrd' = size /\ got' = n /\ buffer' = buffer
  BY <1>2, <1>3, <1>4 DEF Return
<1> QED
  BY <1>1, <1>2, <1>4 DEF LoadInitrd, Return

LEMMA InstallSbiosStep ==
  ASSUME IInv, InstallSbios
  PROVE  IInv'
<1>0. /\ pc = "install" /\ pc' = "copy" /\ i' = 1
      /\ UNCHANGED <<entry, headers, highest, copiedEntry, base, initrd, got, buffer, kept>>
      /\ base \in Int /\ initrd \in Nat /\ highest \in Nat
  BY DEF InstallSbios, Goto, IInv, BootTypeOK
<1>1. \A a \in Addresses :
        mem'[a] = IF a >= SbiosStart /\ a < KernelStart
                  THEN Byte("sbios", a - SbiosStart) ELSE mem[a]
  BY Layout DEF InstallSbios, Write, Addresses
<1>2. BootTypeOK'
  BY <1>0 DEF IInv, BootTypeOK, Final
<1>3. Checked' /\ EntryCovered' /\ InitrdPlaced'
  BY <1>0 DEF IInv, Checked, EntryCovered, EntryIn, Loaded, Last, Size, Fits, InitrdPlaced, Early,
              Ready, Final
<1>4. InitrdKept'
  <2>0. Overrun' <=> Overrun
    BY <1>0 DEF Overrun, Wraps, Loaded, Size
  <2> SUFFICES ASSUME initrd # 0, ~Overrun PROVE InitrdKept'
    BY <1>0, <2>0 DEF InitrdKept
  <2>1. \A a \in Addresses : a >= KernelStart => mem'[a] = mem[a]
    BY <1>1, Layout DEF Addresses
  <2> QED
    BY <1>0, <2>1, InitrdBytes DEF IInv, InitrdKept, InitrdByte
<1>5. LowMemory' /\ LoaderUntouched'
  <2>1. \A a \in LoaderStart..BootInfo : mem[a] = Loader
    BY <1>0 DEF IInv, LoaderUntouched
  <2>2. \A a \in LoaderStart..BootInfo : mem'[a] = Loader
    BY <1>1, <2>1, Layout DEF Addresses
  <2>3. LoaderUntouched'
    BY <2>2 DEF LoaderUntouched
  <2> QED
    BY <1>0, <1>1, <2>3, Layout DEF IInv, LowMemory, Final, Addresses
<1>6. SectionsKept' /\ BufferFreed' /\ Unwritten' /\ KeptKnown'
  BY <1>0 DEF IInv, SectionsKept, Done, BufferFreed, Unwritten, KeptKnown, Early, Ready, Final
<1> QED
  BY <1>2, <1>3, <1>4, <1>5, <1>6 DEF IInv

(* Sections go to where check_sections allowed them: above the SBIOS and, when *)
(* none wraps, below the initrd and the loader.                                *)
LEMMA CopySectionStep ==
  ASSUME IInv, CopySection
  PROVE  IInv'
<1> DEFINE h == headers[i]
<1>0. /\ pc = "copy" /\ pc' = "copy" /\ i' = i + 1
      /\ UNCHANGED <<entry, headers, highest, copiedEntry, base, initrd, got, buffer, kept>>
      /\ base \in Int /\ initrd \in Nat /\ highest \in Nat /\ i \in Nat \ {0}
      /\ headers \in Seq(Headers) /\ i \in 1..Len(headers) /\ Len(headers) \in Nat
  BY DEF CopySection, Goto, IInv, BootTypeOK
<1>1. /\ h \in Headers
      /\ h.dest \in Nat /\ h.memsz \in Nat /\ h.filesz \in Nat /\ Last(h) \in Nat
      /\ Zeros(h) \in Nat
  BY <1>0, HeaderFacts, ZerosFacts
<1>2. Loaded(h) => KernelStart <= h.dest /\ Last(h) < LoaderStart /\ Last(h) <= highest
  BY <1>0, <1>1, Layout DEF IInv, Checked, Fits
<1>3. ~Loaded(h) => mem' = mem
  BY DEF CopySection
<1>w. Overrun' <=> Overrun
  BY <1>0 DEF Overrun, Wraps, Loaded, Size
<1>v. Wraps(h) => Overrun
  BY <1>0 DEF Overrun
<1> DEFINE z == h.dest + h.filesz + Zeros(h)
<1>z. ASSUME Loaded(h), ~Wraps(h)
      PROVE  /\ z <= Last(h) /\ h.dest + h.filesz <= Last(h)
             /\ \A a \in Nat : a < Last(h) => a < h.dest + h.filesz \/ a < z
  <2>1. /\ h.dest + h.filesz <= Last(h) /\ h.dest + h.memsz <= Last(h)
        /\ Last(h) = h.dest + h.filesz \/ Last(h) = h.dest + h.memsz
    BY <1>1, <1>z, LastFacts
  <2>2. h.memsz <= BootInfo /\ h.filesz <= BootInfo
    BY <1>1, <1>2, <1>z, <2>1, Layout
  <2>3. Zeros(h) = IF h.filesz <= h.memsz THEN h.memsz - h.filesz ELSE 0
    BY <1>1, <2>2, ZerosFacts
  <2>4. z = IF h.filesz <= h.memsz THEN h.dest + h.memsz ELSE h.dest + h.filesz
    BY <1>1, <2>3
  <2> QED
    BY <1>1, <2>1, <2>4
<1>4. ASSUME Loaded(h), NEW a \in Addresses
      PROVE  mem'[a] = IF a >= h.dest + h.filesz /\ a < z THEN Zero
                       ELSE IF a >= h.dest /\ a < h.dest + h.filesz
                            THEN Byte("kernel", h.offset + (a - h.dest))
                            ELSE mem[a]
  BY <1>4 DEF CopySection, Write
<1> HIDE DEF z
<1>y. z \in Nat /\ h.dest + h.filesz <= z
  BY <1>1 DEF z
<1>5. \A a \in Addresses :
        a < KernelStart \/ (~Overrun /\ (a >= LoaderStart \/ a >= highest)) => mem'[a] = mem[a]
  <2> SUFFICES ASSUME NEW a \in Addresses,
                      a < KernelStart \/ (~Overrun /\ (a >= LoaderStart \/ a >= highest))
               PROVE  mem'[a] = mem[a]
    OBVIOUS
  <2>1. CASE ~Loaded(h)
    BY <1>3, <2>1
  <2>2. CASE Loaded(h)
    <3>1. a \in Nat
      BY Layout DEF Addresses
    <3>2. a < h.dest \/ (a >= z /\ a >= h.dest + h.filesz)
      <4>1. CASE a < KernelStart
        BY <1>1, <1>2, <2>2, <3>1, <4>1, Layout
      <4>2. CASE ~Overrun /\ (a >= LoaderStart \/ a >= highest)
        <5>1. z <= Last(h) /\ h.dest + h.filesz <= Last(h)
          BY <1>v, <1>z, <2>2, <4>2 DEF z
        <5> QED
          BY <1>0, <1>1, <1>2, <1>y, <2>2, <3>1, <4>2, <5>1, Layout
      <4> QED
        BY <4>1, <4>2
    <3>3. /\ ~(a >= h.dest + h.filesz /\ a < z)
          /\ ~(a >= h.dest /\ a < h.dest + h.filesz)
      BY <1>1, <1>y, <3>1, <3>2
    <3> QED
      BY <1>4, <2>2, <3>3
  <2> QED
    BY <2>1, <2>2
<1>6. \A a \in Addresses :
        /\ mem[a].of \in {"kernel", "zero"} => mem'[a].of \in {"kernel", "zero"}
        /\ Loaded(h) /\ h.dest <= a /\ a < Last(h) => mem'[a].of \in {"kernel", "zero"}
  <2> SUFFICES ASSUME NEW a \in Addresses
               PROVE  /\ mem[a].of \in {"kernel", "zero"} => mem'[a].of \in {"kernel", "zero"}
                      /\ Loaded(h) /\ h.dest <= a /\ a < Last(h)
                           => mem'[a].of \in {"kernel", "zero"}
    OBVIOUS
  <2>1. Zero.of = "zero" /\ \A n : Byte("kernel", n).of = "kernel"
    BY DEF Zero, Byte
  <2>2. CASE ~Loaded(h)
    BY <1>3, <2>2
  <2>3. CASE Loaded(h)
    <3>1. a \in Nat
      BY Layout DEF Addresses
    <3>2. CASE a >= h.dest + h.filesz /\ a < z
      BY <1>4, <2>1, <2>3, <3>2
    <3>3. CASE /\ ~(a >= h.dest + h.filesz /\ a < z)
               /\ a >= h.dest /\ a < h.dest + h.filesz
      BY <1>4, <2>1, <2>3, <3>3
    <3>4. CASE /\ ~(a >= h.dest + h.filesz /\ a < z)
               /\ ~(a >= h.dest /\ a < h.dest + h.filesz)
      <4>1. mem'[a] = mem[a]
        BY <1>4, <2>3, <3>4
      <4>2. ~(h.dest <= a /\ a < Last(h))
        <5>1. CASE Wraps(h)
          <6>1. Last(h) < h.dest
            BY <1>1, <2>3, <5>1, LastFacts
          <6> QED
            BY <1>1, <3>1, <6>1
        <5>2. CASE ~Wraps(h)
          <6>1. a < Last(h) => a < h.dest + h.filesz \/ a < z
            BY <1>z, <2>3, <3>1, <5>2 DEF z
          <6> QED
            BY <1>1, <1>y, <3>1, <3>4, <6>1
        <5> QED
          BY <5>1, <5>2
      <4> QED
        BY <4>1, <4>2
    <3> QED
      BY <3>2, <3>3, <3>4
  <2> QED
    BY <2>2, <2>3
<1>7. BootTypeOK'
  BY <1>0 DEF IInv, BootTypeOK
<1>8. Checked' /\ EntryCovered' /\ InitrdPlaced' /\ BufferFreed'
  BY <1>0 DEF IInv, Checked, EntryCovered, EntryIn, Loaded, Last, Size, Fits, InitrdPlaced,
              BufferFreed, Early, Ready, Final
<1>9. InitrdKept'
  <2> SUFFICES ASSUME initrd # 0, ~Overrun PROVE InitrdKept'
    BY <1>0, <1>w DEF InitrdKept
  <2> QED
    BY <1>0, <1>5, InitrdBytes DEF IInv, InitrdKept, InitrdByte
<1>10. LowMemory' /\ LoaderUntouched' /\ Unwritten' /\ KeptKnown'
  <2>1. LoaderUntouched'
    BY <1>0, <1>5, <1>w, Regions DEF IInv, LoaderUntouched
  <2>2. LowMemory'
    BY <1>0, <1>5, Regions DEF IInv, LowMemory, Final
  <2>3. Unwritten' /\ KeptKnown'
    BY <1>0 DEF IInv, Unwritten, KeptKnown, Early, Ready, Final
  <2> QED
    BY <2>1, <2>2, <2>3
<1>11. SectionsKept'
  <2> SUFFICES ASSUME NEW k \in 1..Len(headers), Loaded(headers[k]), k < i + 1,
                      NEW a \in headers[k].dest..(Last(headers[k]) - 1)
               PROVE  mem'[a].of \in {"kernel", "zero"}
    BY <1>0 DEF SectionsKept, Done, Loaded, Last, Size
  <2>1. /\ headers[k] \in Headers /\ headers[k].dest \in Nat /\ Last(headers[k]) \in Nat
    BY <1>0, HeaderFacts
  <2>2. Last(headers[k]) < LoaderStart
    BY <1>0, <2>1 DEF IInv, Checked, Fits
  <2>3. a \in Addresses /\ headers[k].dest <= a /\ a < Last(headers[k])
    BY <2>1, <2>2, Layout DEF Addresses
  <2>4. CASE k = i
    BY <1>6, <2>3, <2>4
  <2>5. CASE k # i
    <3>1. k < i
      BY <1>0, <2>5
    <3>2. mem[a].of \in {"kernel", "zero"}
      BY <1>0, <3>1 DEF IInv, SectionsKept, Done
    <3> QED
      BY <1>6, <2>3, <3>2
  <2> QED
    BY <2>4, <2>5
<1> QED
  BY <1>7, <1>8, <1>9, <1>10, <1>11 DEF IInv

(* verify_sections and the change from copying to verifying write nothing. *)
LEMMA VerifyStep ==
  ASSUME IInv, VerifySection \/ NextPass
  PROVE  IInv'
<1>0. /\ UNCHANGED <<entry, headers, highest, copiedEntry, base, initrd, got, buffer, kept, mem>>
      /\ i' \in Nat \ {0} /\ Len(headers) \in Nat
      /\ pc' \in {"verify", "panic", "bootinfo"}
      /\ pc = "verify" \/ (pc = "copy" /\ i = Len(headers) + 1)
  BY DEF VerifySection, NextPass, Goto, IInv, BootTypeOK
<1>1. BootTypeOK'
  BY <1>0 DEF IInv, BootTypeOK, Final
<1>2. Checked' /\ EntryCovered' /\ InitrdPlaced' /\ BufferFreed'
  BY <1>0 DEF IInv, Checked, EntryCovered, EntryIn, Loaded, Last, Size, Fits, InitrdPlaced,
              BufferFreed, Early, Ready, Final
<1>w. Overrun' <=> Overrun
  BY <1>0 DEF Overrun, Wraps, Loaded, Size
<1>3. LowMemory' /\ LoaderUntouched' /\ InitrdKept' /\ Unwritten' /\ KeptKnown'
  <2>1. LoaderUntouched'
    BY <1>0, <1>w DEF IInv, LoaderUntouched
  <2>2. InitrdKept'
    BY <1>0, <1>w DEF IInv, InitrdKept, InitrdByte
  <2>3. LowMemory' /\ Unwritten' /\ KeptKnown'
    BY <1>0 DEF IInv, LowMemory, Unwritten, KeptKnown, Early, Ready, Final
  <2> QED
    BY <2>1, <2>2, <2>3
<1>4. SectionsKept'
  <2>1. CASE pc = "verify"
    BY <1>0, <2>1 DEF IInv, SectionsKept, Done, Loaded, Last, Size, Final
  <2>2. CASE pc = "copy" /\ i = Len(headers) + 1
    <3>1. \A k \in 1..Len(headers) : k < i
      BY <1>0, <2>2
    <3> QED
      BY <1>0, <2>2, <3>1 DEF IInv, SectionsKept, Done, Loaded, Last, Size
  <2> QED
    BY <1>0, <2>1, <2>2
<1> QED
  BY <1>1, <1>2, <1>3, <1>4 DEF IInv

LEMMA JumpStep ==
  ASSUME IInv, JumpToKernel
  PROVE  IInv'
<1>0. /\ pc = "bootinfo" /\ pc' = "kernel runs"
      /\ UNCHANGED <<entry, headers, highest, copiedEntry, base, initrd, got, buffer, kept, i>>
      /\ base \in Int /\ initrd \in Nat /\ highest \in Nat /\ headers \in Seq(Headers)
  BY DEF JumpToKernel, Goto, IInv, BootTypeOK
<1>1. \A a \in Addresses : a < LoaderStart => mem'[a] = mem[a]
  <2>1. \A a \in Addresses : a < LoaderStart => ~(a >= BootInfo)
    BY Layout DEF Addresses
  <2> QED
    BY <2>1 DEF JumpToKernel, Write
<1>2. BootTypeOK'
  BY <1>0 DEF IInv, BootTypeOK, Final
<1>3. Checked' /\ EntryCovered' /\ InitrdPlaced' /\ BufferFreed' /\ Unwritten' /\ KeptKnown'
  BY <1>0 DEF IInv, Checked, EntryCovered, EntryIn, Loaded, Last, Size, Fits, InitrdPlaced,
              BufferFreed, Unwritten, KeptKnown, Early, Ready, Final
<1>7. LoaderUntouched'
  BY <1>0 DEF LoaderUntouched
<1>4. InitrdKept'
  <2>0. Overrun' <=> Overrun
    BY <1>0 DEF Overrun, Wraps, Loaded, Size
  <2> SUFFICES ASSUME initrd # 0, ~Overrun PROVE InitrdKept'
    BY <1>0, <2>0 DEF InitrdKept
  <2> QED
    BY <1>0, <1>1, InitrdBytes DEF IInv, InitrdKept, InitrdByte
<1>5. LowMemory'
  <2>1. \A a \in SbiosStart..(KernelStart - 1) : a \in Addresses /\ a < LoaderStart
    BY Layout DEF Addresses
  <2> QED
    BY <1>0, <1>1, <2>1 DEF IInv, LowMemory, Final
<1>6. SectionsKept'
  <2> SUFFICES ASSUME NEW k \in 1..Len(headers), Loaded(headers[k]),
                      NEW a \in headers[k].dest..(Last(headers[k]) - 1)
               PROVE  mem'[a].of \in {"kernel", "zero"}
    BY <1>0 DEF SectionsKept, Done, Loaded, Last, Size
  <2>0. headers[k] \in Headers
    BY HeadersIn DEF IInv
  <2>1. headers[k].dest \in Nat /\ Last(headers[k]) \in Nat
    BY <2>0, HeaderFacts
  <2>2. Last(headers[k]) < LoaderStart
    BY <1>0 DEF IInv, Checked, Fits
  <2>3. a \in Addresses /\ a < LoaderStart
    BY <2>1, <2>2, Layout DEF Addresses
  <2>4. mem[a].of \in {"kernel", "zero"}
    BY <1>0 DEF IInv, SectionsKept, Done, Final
  <2> QED
    BY <1>1, <2>3, <2>4
<1> QED
  BY <1>2, <1>3, <1>4, <1>5, <1>6, <1>7 DEF IInv

LEMMA NextIInv == IInv /\ [Next]_vars => IInv'
<1> SUFFICES ASSUME IInv, [Next]_vars PROVE IInv'
  OBVIOUS
<1>1. CASE load_sbios \/ load_kernel_file \/ CheckEntry \/ LoadModules \/ crc32check
  BY <1>1, QuietActions
<1>2. CASE check_sections32 \/ check_sections64
  BY <1>2, CheckSectionStep DEF check_sections32, check_sections64
<1>3. CASE PlaceInitrd
  BY <1>3, PlaceInitrdStep
<1>4. CASE LoadInitrd
  BY <1>4, LoadInitrdStep
<1>5. CASE InstallSbios
  BY <1>5, InstallSbiosStep
<1>6. CASE copy_sections32 \/ copy_sections64
  BY <1>6, CopySectionStep DEF copy_sections32, copy_sections64
<1>7. CASE verify_sections32 \/ verify_sections64 \/ NextPass
  BY <1>7, VerifyStep DEF verify_sections32, verify_sections64
<1>8. CASE JumpToKernel
  BY <1>8, JumpStep
<1>9. CASE UNCHANGED vars
  <2>1. Overrun' <=> Overrun
    BY <1>9 DEF vars, Overrun, Wraps, Loaded, Size
  <2>2. BootTypeOK' /\ Checked' /\ EntryCovered' /\ InitrdPlaced' /\ LowMemory'
    BY <1>9 DEF vars, IInv, BootTypeOK, Checked, EntryCovered, EntryIn, Loaded, Last, Size, Fits,
                InitrdPlaced, LowMemory
  <2>3. SectionsKept' /\ BufferFreed' /\ Unwritten' /\ KeptKnown'
    BY <1>9 DEF vars, IInv, SectionsKept, Done, Loaded, Last, Size, BufferFreed, Unwritten,
                KeptKnown
  <2>4. InitrdKept' /\ LoaderUntouched'
    BY <1>9, <2>1 DEF vars, IInv, InitrdKept, InitrdByte, LoaderUntouched
  <2> QED
    BY <2>2, <2>3, <2>4 DEF IInv
<1> QED
  BY <1>1, <1>2, <1>3, <1>4, <1>5, <1>6, <1>7, <1>8, <1>9 DEF Next

-----------------------------------------------------------------------------
(* The invariant behind the results: what real_loader knows and what the       *)
(* memory holds at each of its stages.                                         *)
THEOREM BootInvariance == Spec => []IInv
BY InitIInv, NextIInv, PTL DEF Spec

(* No check, copy or read of real_loader reaches the memory of the running     *)
(* loader, whatever sections and initrd the files have and wherever the        *)
(* regions of memory begin, as long as the end of no section wraps around.      *)
THEOREM LoaderSafe == Spec => []LoaderUntouched
<1>1. IInv => LoaderUntouched
  BY DEF IInv
<1> QED
  BY <1>1, BootInvariance, PTL

(* The kernel finds the whole SBIOS, a section at its entry point and, when no  *)
(* section wraps, the initrd as far as it was read; a boot that real_loader     *)
(* gives up frees the kernel file and leaves the PS2's kernel untouched, while   *)
(* the files of modules, or of an SBIOS that is too large, may stay.            *)
THEOREM BootSafe == Spec => []BootWhole
<1>1. IInv => StartsWhole
  <2> SUFFICES ASSUME IInv, pc = "kernel runs" PROVE StartsWhole
    BY DEF StartsWhole
  <2>1. PICK k \in 1..Len(headers) : EntryIn(headers[k])
    BY DEF IInv, EntryCovered, Final
  <2>0. headers[k] \in Headers /\ entry \in Nat
    BY HeadersIn DEF IInv, BootTypeOK
  <2>3. entry \in headers[k].dest..(Last(headers[k]) - 1)
    BY <2>0, <2>1, InSection DEF EntryIn
  <2>4. mem[entry].of \in {"kernel", "zero"}
    BY <2>1, <2>3 DEF IInv, SectionsKept, Done, EntryIn, Final
  <2> QED
    BY <2>4 DEF IInv, StartsWhole, LowMemory, InitrdKept, InitrdByte, Final
<1>2. IInv => GivenUpClean
  BY DEF IInv, GivenUpClean, BufferFreed, LowMemory, KeptKnown, Final
<1> QED
  BY <1>1, <1>2, BootInvariance, PTL DEF BootWhole
-----------------------------------------------------------------------------
(* SbiosScan *)

(* What a register of the processor may hold. *)
Cell == [kind : {"value", "loaded", "unknown"}, v : Int]

(* What the scan knows is what the processor holds, where the processor's value  *)
(* can be computed; nothing is found before the scan ends.                       *)
ScanInv ==
  /\ regs \in [X!Registers -> Int] /\ sbLoad \in [X!Registers -> Int]
  /\ cpu \in [X!Registers -> Cell]
  /\ \A r \in X!Registers : cpu[r].kind = "value" => cpu[r].v = regs[r]
  /\ \A r \in X!Registers : cpu[r].kind = "loaded" => cpu[r].v = sbLoad[r]
  /\ ~found => jumpBase = 0
  /\ TableFound

LEMMA WordFacts ==
  /\ \A a \in Int : a % Word \in Int
  /\ 0 % Word = 0
  /\ Word \div 4 \in Int
BY ScanAssumption

LEMMA ScanInitInv == X!Init => ScanInv
<1> SUFFICES ASSUME X!Init PROVE ScanInv
  OBVIOUS
<1>1. X!Value(0) = [kind |-> "value", v |-> 0]
  BY WordFacts DEF X!Value
<1>2. /\ regs = [r \in X!Registers |-> 0] /\ sbLoad = [r \in X!Registers |-> 0]
      /\ cpu = [r \in X!Registers |-> [kind |-> "value", v |-> 0]]
      /\ jumpBase = 0 /\ ~found
  BY <1>1 DEF X!Init
<1> QED
  BY <1>2 DEF ScanInv, TableFound, X!TableFound, Cell

(* An instruction that writes a register: the scan computes the value from the   *)
(* registers it follows as the processor does.                                   *)
LEMMA ScanWrite ==
  ASSUME ScanInv, ~found, NEW rt \in X!Registers, NEW w \in Cell,
         X!Write(rt, w), NEW r2 \in Int, NEW l2 \in Int,
         \/ regs' = [regs EXCEPT ![rt] = r2] \/ (regs' = regs /\ (rt = 0 \/ w.kind # "value")),
         \/ sbLoad' = [sbLoad EXCEPT ![rt] = l2] \/ (sbLoad' = sbLoad /\ (rt = 0 \/ w.kind # "loaded")),
         rt = 0 => regs' = regs /\ sbLoad' = sbLoad,
         w.kind = "value" => w.v = r2, w.kind = "loaded" => w.v = l2,
         UNCHANGED <<jumpBase, found, jumped>>
  PROVE  ScanInv'
<1>1. CASE rt = 0
  <2>1. cpu' = cpu /\ regs' = regs /\ sbLoad' = sbLoad
    BY <1>1 DEF X!Write
  <2> QED
    BY <2>1 DEF ScanInv, TableFound, X!TableFound
<1>2. CASE rt # 0
  <2>1. cpu' = [cpu EXCEPT ![rt] = w]
    BY <1>2 DEF X!Write
  <2>2. /\ regs' \in [X!Registers -> Int] /\ sbLoad' \in [X!Registers -> Int]
        /\ cpu' \in [X!Registers -> Cell]
    BY <2>1 DEF ScanInv
  <2>3. \A r \in X!Registers : r # rt => cpu'[r] = cpu[r] /\ regs'[r] = regs[r] /\ sbLoad'[r] = sbLoad[r]
    BY <2>1 DEF ScanInv
  <2>4. cpu'[rt] = w
    BY <2>1 DEF ScanInv
  <2>5. w.kind = "value" => regs'[rt] = r2
    BY <1>2 DEF ScanInv
  <2>6. w.kind = "loaded" => sbLoad'[rt] = l2
    BY <1>2 DEF ScanInv
  <2> QED
    BY <2>2, <2>3, <2>4, <2>5, <2>6 DEF ScanInv, TableFound, X!TableFound
<1> QED
  BY <1>1, <1>2

LEMMA RegisterTypes ==
  ASSUME ScanInv
  PROVE  /\ \A r \in X!Registers : regs[r] \in Int /\ sbLoad[r] \in Int /\ cpu[r].v \in Int
                                   /\ cpu[r] \in Cell
         /\ \A r \in X!Registers : X!Known(r) => cpu[r].v = regs[r]
         /\ X!Unknown \in Cell /\ X!Unknown.kind = "unknown"
         /\ \A a \in Int : /\ X!Value(a) \in Cell
                           /\ X!Value(a).kind = "value" /\ X!Value(a).v = a % Word
                           /\ X!Loaded(a) \in Cell
                           /\ X!Loaded(a).kind = "loaded" /\ X!Loaded(a).v = a % Word
         /\ X!Targets \subseteq X!Registers /\ 0 \notin X!Targets
<1>1. \A r \in X!Registers : regs[r] \in Int /\ sbLoad[r] \in Int /\ cpu[r].v \in Int
                               /\ cpu[r] \in Cell
  BY DEF ScanInv, Cell
<1>2. \A r \in X!Registers : X!Known(r) => cpu[r].v = regs[r]
  BY DEF ScanInv, X!Known
<1>3. X!Unknown \in Cell /\ X!Unknown.kind = "unknown"
  BY DEF X!Unknown, Cell
<1>4. \A a \in Int : /\ X!Value(a) \in Cell
                     /\ X!Value(a).kind = "value" /\ X!Value(a).v = a % Word
                     /\ X!Loaded(a) \in Cell
                     /\ X!Loaded(a).kind = "loaded" /\ X!Loaded(a).v = a % Word
  BY WordFacts DEF X!Value, X!Loaded, Cell
<1> QED
  BY <1>1, <1>2, <1>3, <1>4 DEF X!Targets

LEMMA Scan_addiu == ASSUME ScanInv, X!addiu PROVE ScanInv'
<1>1. PICK rs \in X!Registers, rt \in X!Targets, n \in Immediates :
        /\ regs' = [regs EXCEPT ![rt] = (regs[rs] + n) % Word]
        /\ X!Write(rt, IF X!Known(rs) THEN X!Value(cpu[rs].v + n) ELSE X!Unknown)
  BY DEF X!addiu
<1>2. PICK a \in Int : a = regs[rs] + n
  <2>1. n \in Int /\ regs[rs] \in Int
    BY ScanAssumption, RegisterTypes
  <2> QED
    BY <2>1
<1>3. ~found /\ UNCHANGED <<sbLoad, jumpBase, found, jumped>>
  BY DEF X!addiu, X!Step
<1>4. a % Word \in Int
  BY WordFacts
<1>5. CASE X!Known(rs)
  <2>1. X!Write(rt, X!Value(a))
    BY <1>1, <1>2, <1>5, RegisterTypes
  <2> QED
    BY <1>1, <1>2, <1>3, <1>4, <2>1, RegisterTypes, ScanWrite
<1>6. CASE ~X!Known(rs)
  <2>1. X!Write(rt, X!Unknown)
    BY <1>1, <1>6
  <2> QED
    BY <1>1, <1>2, <1>3, <1>4, <2>1, RegisterTypes, ScanWrite
<1> QED
  BY <1>5, <1>6

LEMMA Scan_lui == ASSUME ScanInv, X!lui PROVE ScanInv'
<1>1. PICK rt \in X!Targets, n \in Immediates :
        /\ regs' = [regs EXCEPT ![rt] = (n * (Word \div 4)) % Word]
        /\ X!Write(rt, X!Value(n * (Word \div 4)))
  BY DEF X!lui
<1>2. PICK a \in Int : a = n * (Word \div 4)
  BY ScanAssumption, WordFacts
<1>3. ~found /\ UNCHANGED <<sbLoad, jumpBase, found, jumped>>
  BY DEF X!lui, X!Step
<1>4. a % Word \in Int
  BY WordFacts
<1> QED
  BY <1>1, <1>2, <1>3, <1>4, RegisterTypes, ScanWrite

LEMMA Scan_addu == ASSUME ScanInv, X!addu PROVE ScanInv'
<1>1. PICK rs \in X!Registers, rt \in X!Registers, rd \in X!Targets, sign \in {1, -1} :
        /\ regs' = [regs EXCEPT ![rd] = (regs[rs] + sign * regs[rt]) % Word]
        /\ X!Write(rd, IF X!Known(rs) /\ X!Known(rt)
                       THEN X!Value(cpu[rs].v + sign * cpu[rt].v) ELSE X!Unknown)
  BY DEF X!addu
<1>2. PICK a \in Int : a = regs[rs] + sign * regs[rt]
  BY RegisterTypes
<1>3. ~found /\ UNCHANGED <<sbLoad, jumpBase, found, jumped>>
  BY DEF X!addu, X!Step
<1>4. a % Word \in Int
  BY WordFacts
<1>5. CASE X!Known(rs) /\ X!Known(rt)
  <2>1. X!Write(rd, X!Value(a))
    BY <1>1, <1>2, <1>5, RegisterTypes
  <2> QED
    BY <1>1, <1>2, <1>3, <1>4, <2>1, RegisterTypes, ScanWrite
<1>6. CASE ~(X!Known(rs) /\ X!Known(rt))
  <2>1. X!Write(rd, X!Unknown)
    BY <1>1, <1>6
  <2> QED
    BY <1>1, <1>2, <1>3, <1>4, <2>1, RegisterTypes, ScanWrite
<1> QED
  BY <1>5, <1>6

LEMMA Scan_sll == ASSUME ScanInv, X!sll PROVE ScanInv'
<1>1. PICK rt \in X!Registers, rd \in X!Registers :
        /\ regs' = IF rd # 0 THEN [regs EXCEPT ![rd] = (regs[rt] * 4) % Word] ELSE regs
        /\ X!Write(rd, IF X!Known(rt) THEN X!Value(cpu[rt].v * 4) ELSE X!Unknown)
  BY DEF X!sll
<1>2. PICK a \in Int : a = regs[rt] * 4
  BY RegisterTypes
<1>3. ~found /\ UNCHANGED <<sbLoad, jumpBase, found, jumped>>
  BY DEF X!sll, X!Step
<1>4. a % Word \in Int
  BY WordFacts
<1>5. CASE rd = 0
  BY <1>1, <1>3, <1>5 DEF X!Write, ScanInv, TableFound, X!TableFound
<1>6. CASE rd # 0 /\ X!Known(rt)
  <2>1. X!Write(rd, X!Value(a))
    BY <1>1, <1>2, <1>6, RegisterTypes
  <2> QED
    BY <1>1, <1>2, <1>3, <1>4, <1>6, <2>1, RegisterTypes, ScanWrite
<1>7. CASE rd # 0 /\ ~X!Known(rt)
  <2>1. X!Write(rd, X!Unknown)
    BY <1>1, <1>7
  <2>2. regs' = [regs EXCEPT ![rd] = a % Word]
    BY <1>1, <1>2, <1>7
  <2>3. X!Unknown \in Cell /\ X!Unknown.kind = "unknown"
    BY RegisterTypes
  <2> QED
    BY <1>3, <1>4, <1>7, <2>1, <2>2, <2>3, ScanWrite
<1> QED
  BY <1>5, <1>6, <1>7

LEMMA Scan_lw == ASSUME ScanInv, X!lw PROVE ScanInv'
<1>1. PICK rs \in X!Registers, rt \in X!Targets, n \in Immediates :
        /\ sbLoad' = [sbLoad EXCEPT ![rt] = (regs[rs] + n) % Word]
        /\ X!Write(rt, IF X!Known(rs) THEN X!Loaded(cpu[rs].v + n) ELSE X!Unknown)
  BY DEF X!lw
<1>2. PICK a \in Int : a = regs[rs] + n
  <2>1. n \in Int /\ regs[rs] \in Int
    BY ScanAssumption, RegisterTypes
  <2> QED
    BY <2>1
<1>3. ~found /\ UNCHANGED <<regs, jumpBase, found, jumped>>
  BY DEF X!lw, X!Step
<1>4. a % Word \in Int
  BY WordFacts
<1>5. CASE X!Known(rs)
  <2>1. X!Write(rt, X!Loaded(a))
    BY <1>1, <1>2, <1>5, RegisterTypes
  <2>2. sbLoad' = [sbLoad EXCEPT ![rt] = a % Word]
    BY <1>1, <1>2
  <2>3. X!Loaded(a) \in Cell /\ X!Loaded(a).kind = "loaded" /\ X!Loaded(a).v = a % Word
    BY RegisterTypes
  <2>4. rt \in X!Registers /\ rt # 0
    BY RegisterTypes
  <2> QED
    BY <1>3, <1>4, <2>1, <2>2, <2>3, <2>4, ScanWrite
<1>6. CASE ~X!Known(rs)
  <2>1. X!Write(rt, X!Unknown)
    BY <1>1, <1>6
  <2> QED
    BY <1>1, <1>2, <1>3, <1>4, <2>1, RegisterTypes, ScanWrite
<1> QED
  BY <1>5, <1>6

LEMMA Scan_Other == ASSUME ScanInv, X!OtherInstruction PROVE ScanInv'
<1>1. PICK written \in SUBSET X!Targets :
        cpu' = [r \in X!Registers |-> IF r \in written THEN X!Unknown ELSE cpu[r]]
  BY DEF X!OtherInstruction
<1>2. ~found /\ UNCHANGED <<regs, sbLoad, jumpBase, found, jumped>>
  BY DEF X!OtherInstruction, X!Step
<1>3. X!Unknown \in Cell /\ X!Unknown.kind = "unknown"
  BY RegisterTypes
<1>4. \A r \in X!Registers : cpu'[r] = X!Unknown \/ cpu'[r] = cpu[r]
  BY <1>1
<1>5. cpu' \in [X!Registers -> Cell]
  BY <1>1, <1>3 DEF ScanInv
<1> QED
  BY <1>2, <1>3, <1>4, <1>5 DEF ScanInv, TableFound, X!TableFound

LEMMA Scan_jump == ASSUME ScanInv, X!jr \/ X!jalr PROVE ScanInv'
<1>1. UNCHANGED <<regs, sbLoad, cpu>> /\ ~found /\ jumpBase = 0
  BY DEF X!jr, X!jalr, X!Step, ScanInv
<1>2. PICK rs \in X!Targets :
        \/ UNCHANGED <<jumpBase, found, jumped>>
        \/ /\ jumpBase' = IF sbLoad[rs] # 0 THEN sbLoad[rs] ELSE jumpBase
           /\ found' = TRUE /\ jumped' = cpu[rs]
  BY DEF X!jr, X!jalr
<1>3. rs \in X!Registers
  BY RegisterTypes
<1> QED
  BY <1>1, <1>2, <1>3 DEF ScanInv, TableFound, X!TableFound

LEMMA ScanNextInv == ScanInv /\ [X!Next]_scanvars => ScanInv'
<1>1. ASSUME ScanInv, UNCHANGED scanvars PROVE ScanInv'
  BY <1>1 DEF ScanInv, scanvars, TableFound, X!TableFound
<1> QED
  BY <1>1, Scan_addiu, Scan_lui, Scan_addu, Scan_sll, Scan_lw, Scan_Other, Scan_jump DEF X!Next

-----------------------------------------------------------------------------
(* Screen *)

(* The n-th position of the ring from r on. *)
Slot(r, n) == IF r + n < MaxMessages THEN r + n ELSE r + n - MaxMessages
Slots == 0..(MaxMessages - 1)

RingTypeOK ==
  /\ errorMessage \in [Slots -> Nat] /\ readMsgPos \in Slots /\ writeMsgPos \in Slots
  /\ reports \in Nat /\ pending \in Seq(Nat \ {0})

(* The messages that wait lie behind readMsgPos in order, the rest of the ring   *)
(* is free: a full ring and an empty one have equal positions and differ here.   *)
RingHolds ==
  /\ Len(pending) <= MaxMessages /\ writeMsgPos = Slot(readMsgPos, Len(pending))
  /\ \A n \in 1..Len(pending) : errorMessage[Slot(readMsgPos, n - 1)] = pending[n]
  /\ \A n \in Slots : n >= Len(pending) => errorMessage[Slot(readMsgPos, n)] = 0

RingInv == RingTypeOK /\ RingHolds

(* The cursor is inside a text that is edited, and no insertion went further     *)
(* than one byte behind the buffer.                                              *)
EditInv ==
  /\ input \in {"none", "show", "edit"} /\ len \in 0..(MaxInput - 1) /\ cursorpos \in Nat
  /\ top \in 0..MaxInput
  /\ input = "edit" => cursorpos <= len

MenuInv ==
  /\ scMenu \in W!Menus /\ selected \in [W!Menus -> Int]
  /\ \A m \in W!Menus : selected[m] \in 1..Len(W!MenuEntries[m])

ScreenInv == RingInv /\ EditInv /\ MenuInv

LEMMA SlotFacts ==
  ASSUME NEW r \in Slots, NEW n \in 0..MaxMessages
  PROVE  /\ Slot(r, n) \in Slots
         /\ n < MaxMessages => (r + n) % MaxMessages = Slot(r, n)
         /\ Slot(r, 0) = r /\ Slot(r, MaxMessages) = r
         /\ \A k \in Slots : n < MaxMessages /\ Slot(r, n) = Slot(r, k) => n = k
         /\ n < MaxMessages => Slot(Slot(r, 1), n) = Slot(r, n + 1)
<1>1. MaxMessages \in Nat /\ MaxMessages > 0 /\ r \in 0..(MaxMessages - 1)
  BY ScreenAssumption DEF Slots
<1>2. Slot(r, n) \in 0..(MaxMessages - 1) /\ Slot(r, 0) = r /\ Slot(r, MaxMessages) = r
  BY <1>1 DEF Slot
<1>3. ASSUME n < MaxMessages PROVE (r + n) % MaxMessages = Slot(r, n)
  <2>1. CASE r + n < MaxMessages
    BY <1>1, <2>1 DEF Slot
  <2>2. CASE r + n >= MaxMessages
    <3>1. r + n - MaxMessages \in 0..(MaxMessages - 1)
      BY <1>1, <1>3, <2>2
    <3>2. r + n = 1 * MaxMessages + (r + n - MaxMessages)
      BY <1>1
    <3>3. (r + n) % MaxMessages = r + n - MaxMessages
      BY <1>1, <3>1, <3>2
    <3> QED
      BY <1>1, <2>2, <3>3 DEF Slot
  <2> QED
    BY <1>1, <2>1, <2>2
<1>4. \A k \in 0..(MaxMessages - 1) : n < MaxMessages /\ Slot(r, n) = Slot(r, k) => n = k
  BY <1>1 DEF Slot
<1>5. n < MaxMessages => Slot(Slot(r, 1), n) = Slot(r, n + 1)
  BY <1>1 DEF Slot
<1> QED
  BY <1>2, <1>3, <1>4, <1>5 DEF Slots

LEMMA NextSlot ==
  ASSUME NEW r \in Slots
  PROVE  /\ (r + 1) % MaxMessages = IF r + 1 = MaxMessages THEN 0 ELSE r + 1
         /\ (r + 1) % MaxMessages \in Slots
<1>1. MaxMessages \in Nat /\ MaxMessages > 0 /\ r \in 0..(MaxMessages - 1)
  BY ScreenAssumption DEF Slots
<1>2. CASE r + 1 = MaxMessages
  <2>1. MaxMessages = 1 * MaxMessages + 0
    BY <1>1
  <2>2. MaxMessages % MaxMessages = 0
    BY <1>1, <2>1
  <2> QED
    BY <1>1, <1>2, <2>2 DEF Slots
<1>3. CASE r + 1 # MaxMessages
  BY <1>1, <1>3 DEF Slots
<1> QED
  BY <1>2, <1>3

LEMMA MenuFacts ==
  /\ W!Menus = {"main", "advanced", "sub"}
  /\ \A m \in W!Menus : Len(W!MenuEntries[m]) \in Nat /\ Len(W!MenuEntries[m]) >= 1
  /\ \A m \in W!Menus : W!Parent[m] = "none" \/ W!Parent[m] \in W!Menus
<1>1. W!Menus = {"main", "advanced", "sub"}
  BY DEF W!Menus, W!MenuEntries
<1>2. Len(W!MenuEntries["main"]) = 2 /\ Len(W!MenuEntries["advanced"]) = 3
      /\ Len(W!MenuEntries["sub"]) = 3
  BY DEF W!MenuEntries
<1>3. W!Parent["main"] = "none" /\ W!Parent["advanced"] = "main" /\ W!Parent["sub"] = "advanced"
  BY DEF W!Parent
<1> QED
  BY <1>1, <1>2, <1>3

LEMMA ScreenInitInv == W!Init => ScreenInv
<1> SUFFICES ASSUME W!Init PROVE ScreenInv
  OBVIOUS
<1>1. /\ errorMessage = [k \in Slots |-> 0] /\ readMsgPos = 0 /\ writeMsgPos = 0
      /\ reports = 0 /\ pending = <<>>
  BY DEF W!Init, W!NULL, Slots
<1>2. MaxMessages \in Nat /\ MaxMessages > 0 /\ 0 \in Slots
  BY ScreenAssumption DEF Slots
<1>3. Len(pending) = 0
  BY <1>1
<1>4. \A n \in Slots : errorMessage[Slot(readMsgPos, n)] = 0
  <2>1. \A n \in Slots : Slot(0, n) \in Slots
    BY <1>2 DEF Slots, Slot
  <2> QED
    BY <1>1, <2>1
<1>5. RingInv
  <2>1. RingTypeOK
    BY <1>1, <1>2 DEF RingTypeOK
  <2>2. writeMsgPos = Slot(readMsgPos, Len(pending)) /\ Len(pending) <= MaxMessages
    BY <1>1, <1>2, <1>3 DEF Slot
  <2> QED
    BY <1>3, <1>4, <2>1, <2>2 DEF RingInv, RingHolds
<1>6. /\ input = "none" /\ len = 1 /\ cursorpos = 0 /\ top = 1 /\ scMenu = "main"
      /\ selected = [m \in W!Menus |-> 1]
  BY DEF W!Init
<1>7. len \in 0..(MaxInput - 1) /\ top \in 0..MaxInput
  BY <1>6, ScreenAssumption
<1>8. EditInv /\ MenuInv
  BY <1>6, <1>7, MenuFacts DEF EditInv, MenuInv
<1> QED
  BY <1>5, <1>8 DEF ScreenInv

(* A message is dropped when the ring is full, and then the place at            *)
(* writeMsgPos holds the oldest one.                                            *)
LEMMA Screen_error_printf ==
  ASSUME RingInv, W!error_printf
  PROVE  RingInv'
<1>0. MaxMessages \in Nat /\ MaxMessages > 0
  BY ScreenAssumption
<1>1. CASE errorMessage[writeMsgPos] # 0
  BY <1>1 DEF W!error_printf, W!NULL, RingInv, RingTypeOK, RingHolds
<1>2. CASE errorMessage[writeMsgPos] = 0
  <2>1. /\ errorMessage' = [errorMessage EXCEPT ![writeMsgPos] = reports + 1]
        /\ writeMsgPos' = (writeMsgPos + 1) % MaxMessages
        /\ pending' = Append(pending, reports + 1)
        /\ reports' = reports + 1 /\ readMsgPos' = readMsgPos
    BY <1>2 DEF W!error_printf, W!NULL
  <2>2. PICK n \in Nat : n = Len(pending)
    BY DEF RingInv, RingTypeOK
  <2>3. /\ errorMessage \in [Slots -> Nat] /\ readMsgPos \in Slots /\ writeMsgPos \in Slots
        /\ reports \in Nat /\ pending \in Seq(Nat \ {0})
    BY DEF RingInv, RingTypeOK
  <2>4. /\ n <= MaxMessages /\ writeMsgPos = Slot(readMsgPos, n)
        /\ \A k \in 1..n : errorMessage[Slot(readMsgPos, k - 1)] = pending[k]
        /\ \A k \in Slots : k >= n => errorMessage[Slot(readMsgPos, k)] = 0
    BY <2>2 DEF RingInv, RingHolds
  <2>5. n < MaxMessages
    <3> SUFFICES ASSUME n = MaxMessages PROVE FALSE
      BY <1>0, <2>4
    <3>1. writeMsgPos = readMsgPos /\ Slot(readMsgPos, 0) = readMsgPos
      BY <1>0, <2>3, <2>4, SlotFacts
    <3>2. 1 \in 1..n /\ 1 - 1 = 0
      BY <1>0
    <3>3. errorMessage[readMsgPos] = pending[1]
      BY <2>4, <3>1, <3>2
    <3>4. pending[1] # 0
      BY <2>2, <2>3, <3>2
    <3> QED
      BY <1>2, <3>1, <3>3, <3>4
  <2>6. n \in Slots /\ n \in 0..MaxMessages /\ n + 1 \in 0..MaxMessages
    BY <1>0, <2>5 DEF Slots
  <2>7. /\ Len(pending') = n + 1 /\ pending' \in Seq(Nat \ {0}) /\ pending'[n + 1] = reports + 1
        /\ \A k \in 1..n : pending'[k] = pending[k]
    BY <2>1, <2>2, <2>3
  <2>8. writeMsgPos' = Slot(readMsgPos, n + 1)
    <3>1. writeMsgPos' = IF writeMsgPos + 1 = MaxMessages THEN 0 ELSE writeMsgPos + 1
      BY <2>1, <2>3, NextSlot
    <3> QED
      BY <1>0, <2>3, <2>4, <2>5, <3>1 DEF Slot, Slots
  <2>9. writeMsgPos' \in Slots
    BY <2>3, <2>6, <2>8, SlotFacts
  <2>10. RingTypeOK'
    BY <2>1, <2>3, <2>7, <2>9 DEF RingTypeOK
  <2>11. \A k \in Slots : k # n => errorMessage'[Slot(readMsgPos, k)] = errorMessage[Slot(readMsgPos, k)]
    <3>1. \A k \in Slots : k # n => Slot(readMsgPos, k) # writeMsgPos /\ Slot(readMsgPos, k) \in Slots
      BY <1>0, <2>3, <2>4, <2>5, <2>6 DEF Slot, Slots
    <3> QED
      BY <2>1, <2>3, <3>1
  <2>12. errorMessage'[Slot(readMsgPos, n)] = reports + 1
    BY <2>1, <2>3, <2>4
  <2>13. \A k \in 1..(n + 1) : errorMessage'[Slot(readMsgPos, k - 1)] = pending'[k]
    <3> SUFFICES ASSUME NEW k \in 1..(n + 1)
                 PROVE  errorMessage'[Slot(readMsgPos, k - 1)] = pending'[k]
      OBVIOUS
    <3>1. CASE k = n + 1
      <4>1. k - 1 = n
        BY <3>1
      <4> QED
        BY <2>7, <2>12, <3>1, <4>1
    <3>2. CASE k # n + 1
      <4>1. k \in 1..n /\ k - 1 \in Slots /\ k - 1 # n
        BY <1>0, <2>5, <3>2 DEF Slots
      <4> QED
        BY <2>4, <2>7, <2>11, <4>1
    <3> QED
      BY <3>1, <3>2
  <2>14. \A k \in Slots : k >= n + 1 => errorMessage'[Slot(readMsgPos, k)] = 0
    <3>1. \A k \in Slots : k >= n + 1 => k # n /\ k >= n
      BY <2>6 DEF Slots
    <3> QED
      BY <2>4, <2>11, <3>1
  <2>15. RingHolds'
    <3>1. n + 1 <= MaxMessages
      BY <1>0, <2>5
    <3> QED
      BY <2>1, <2>7, <2>8, <2>13, <2>14, <3>1 DEF RingHolds
  <2> QED
    BY <2>10, <2>15 DEF RingInv
<1> QED
  BY <1>1, <1>2

(* A message is shown only when one waits, and it is the oldest. *)
LEMMA OldestShown ==
  ASSUME RingInv
  PROVE  /\ pending = <<>> => W!getErrorMessage = 0
         /\ pending # <<>> => W!getErrorMessage = Head(pending) /\ Len(pending) >= 1
                              /\ W!getErrorMessage # 0
<1>0. /\ MaxMessages \in Nat /\ MaxMessages > 0 /\ readMsgPos \in Slots
      /\ pending \in Seq(Nat \ {0}) /\ Slot(readMsgPos, 0) = readMsgPos /\ 0 \in Slots
  <2>1. MaxMessages \in Nat /\ MaxMessages > 0 /\ readMsgPos \in Slots /\ pending \in Seq(Nat \ {0})
    BY ScreenAssumption DEF RingInv, RingTypeOK
  <2> QED
    BY <2>1 DEF Slots, Slot
<1>1. CASE pending = <<>>
  <2>1. Len(pending) = 0 /\ 0 >= Len(pending)
    BY <1>1
  <2>2. errorMessage[Slot(readMsgPos, 0)] = 0
    BY <1>0, <2>1 DEF RingInv, RingHolds
  <2> QED
    BY <1>0, <1>1, <2>2 DEF W!getErrorMessage
<1>2. CASE pending # <<>>
  <2>1. Len(pending) \in Nat /\ Len(pending) >= 1 /\ Head(pending) = pending[1] /\ pending[1] # 0
    BY <1>0, <1>2
  <2>2. 1 \in 1..Len(pending) /\ 1 - 1 = 0
    BY <2>1
  <2>3. errorMessage[Slot(readMsgPos, 0)] = pending[1]
    BY <2>2 DEF RingInv, RingHolds
  <2> QED
    BY <1>0, <1>2, <2>1, <2>3 DEF W!getErrorMessage
<1> QED
  BY <1>1, <1>2

LEMMA Screen_goToNextErrorMessage ==
  ASSUME RingInv, W!getErrorMessage # 0, W!goToNextErrorMessage
  PROVE  RingInv'
<1>0. MaxMessages \in Nat /\ MaxMessages > 0
  BY ScreenAssumption
<1>1. /\ errorMessage' = [errorMessage EXCEPT ![readMsgPos] = 0]
      /\ readMsgPos' = (readMsgPos + 1) % MaxMessages
      /\ pending' = Tail(pending) /\ UNCHANGED <<writeMsgPos, reports>>
  BY DEF W!goToNextErrorMessage, W!NULL
<1>2. pending # <<>>
  BY OldestShown
<1>3. /\ errorMessage \in [Slots -> Nat] /\ readMsgPos \in Slots /\ writeMsgPos \in Slots
      /\ reports \in Nat /\ pending \in Seq(Nat \ {0})
  BY DEF RingInv, RingTypeOK
<1>4. PICK n \in Nat : n = Len(pending) /\ n >= 1
  BY <1>2, <1>3
<1>5. /\ n <= MaxMessages /\ writeMsgPos = Slot(readMsgPos, n)
      /\ \A k \in 1..n : errorMessage[Slot(readMsgPos, k - 1)] = pending[k]
      /\ \A k \in Slots : k >= n => errorMessage[Slot(readMsgPos, k)] = 0
  BY <1>4 DEF RingInv, RingHolds
<1>6. readMsgPos' = Slot(readMsgPos, 1) /\ readMsgPos' \in Slots
  <2>1. readMsgPos' = IF readMsgPos + 1 = MaxMessages THEN 0 ELSE readMsgPos + 1
    BY <1>1, <1>3, NextSlot
  <2> QED
    BY <1>0, <1>3, <2>1 DEF Slot, Slots
<1>7. /\ pending' \in Seq(Nat \ {0}) /\ Len(pending') = n - 1
      /\ \A k \in 1..(n - 1) : pending'[k] = pending[k + 1]
  BY <1>1, <1>2, <1>3, <1>4
<1>8. RingTypeOK'
  BY <1>1, <1>3, <1>6, <1>7 DEF RingTypeOK
<1>9. writeMsgPos' = Slot(readMsgPos', n - 1) /\ n - 1 <= MaxMessages
  <2>1. writeMsgPos' = writeMsgPos /\ readMsgPos \in 0..(MaxMessages - 1)
    BY <1>1, <1>3 DEF Slots
  <2>2. Slot(Slot(readMsgPos, 1), n - 1) = Slot(readMsgPos, n)
    BY <1>0, <1>4, <1>5, <2>1 DEF Slot
  <2> QED
    BY <1>0, <1>4, <1>5, <1>6, <2>1, <2>2
<1>10. \A k \in Slots : k < MaxMessages - 1 =>
         /\ Slot(readMsgPos', k) = Slot(readMsgPos, k + 1) /\ k + 1 \in Slots
         /\ errorMessage'[Slot(readMsgPos, k + 1)] = errorMessage[Slot(readMsgPos, k + 1)]
  <2>1. \A k \in Slots : k < MaxMessages - 1 =>
          /\ Slot(readMsgPos', k) = Slot(readMsgPos, k + 1) /\ k + 1 \in Slots
          /\ Slot(readMsgPos, k + 1) \in Slots /\ Slot(readMsgPos, k + 1) # readMsgPos
    BY <1>0, <1>3, <1>6 DEF Slot, Slots
  <2> QED
    BY <1>1, <1>3, <2>1
<1>11. \A k \in 1..(n - 1) : errorMessage'[Slot(readMsgPos', k - 1)] = pending'[k]
  <2> SUFFICES ASSUME NEW k \in 1..(n - 1)
               PROVE  errorMessage'[Slot(readMsgPos', k - 1)] = pending'[k]
    OBVIOUS
  <2>1. k - 1 \in Slots /\ k - 1 < MaxMessages - 1 /\ (k - 1) + 1 = k /\ k + 1 \in 1..n /\ (k + 1) - 1 = k
    BY <1>0, <1>4, <1>5 DEF Slots
  <2>2. errorMessage'[Slot(readMsgPos', k - 1)] = errorMessage[Slot(readMsgPos, k)]
    BY <1>10, <2>1
  <2>3. errorMessage[Slot(readMsgPos, (k + 1) - 1)] = pending[k + 1]
    BY <1>5, <2>1
  <2> QED
    BY <1>7, <2>1, <2>2, <2>3
<1>12. \A k \in Slots : k >= n - 1 => errorMessage'[Slot(readMsgPos', k)] = 0
  <2> SUFFICES ASSUME NEW k \in Slots, k >= n - 1
               PROVE  errorMessage'[Slot(readMsgPos', k)] = 0
    OBVIOUS
  <2>1. CASE k < MaxMessages - 1
    <3>1. k + 1 >= n
      BY <1>4 DEF Slots
    <3> QED
      BY <1>5, <1>10, <2>1, <3>1
  <2>2. CASE ~(k < MaxMessages - 1)
    <3>1. Slot(readMsgPos', k) = readMsgPos
      BY <1>0, <1>3, <1>6, <2>2 DEF Slot, Slots
    <3> QED
      BY <1>1, <1>3, <3>1
  <2> QED
    BY <2>1, <2>2
<1>13. RingHolds'
  BY <1>7, <1>9, <1>11, <1>12 DEF RingHolds
<1> QED
  BY <1>8, <1>13 DEF RingInv

(* Nothing of a group of variables changes. *)
LEMMA ScreenKept ==
  /\ RingInv /\ UNCHANGED W!screen => RingInv'
  /\ EditInv /\ UNCHANGED <<input, len, cursorpos, top>> => EditInv'
  /\ MenuInv /\ UNCHANGED <<scMenu, selected>> => MenuInv'
<1>1. RingInv /\ UNCHANGED W!screen => RingInv'
  BY DEF RingInv, RingTypeOK, RingHolds, W!screen
<1>2. EditInv /\ UNCHANGED <<input, len, cursorpos, top>> => EditInv'
  BY DEF EditInv
<1>3. MenuInv /\ UNCHANGED <<scMenu, selected>> => MenuInv'
  BY DEF MenuInv
<1> QED
  BY <1>1, <1>2, <1>3

LEMMA Screen_setInputBuffer ==
  ASSUME EditInv, NEW kind \in {"none", "show", "edit"}, W!setInputBuffer(kind)
  PROVE  EditInv'
<1>1. MaxInput \in Nat
  BY ScreenAssumption
<1> QED
  BY <1>1 DEF EditInv, W!setInputBuffer

LEMMA Screen_Scroll ==
  ASSUME EditInv, NEW by, W!Scroll(by)
  PROVE  EditInv'
<1>1. UNCHANGED <<input, len, cursorpos, top>>
  BY DEF W!Scroll
<1> QED
  BY <1>1, ScreenKept

LEMMA Screen_EditKey ==
  ASSUME EditInv, W!EditKey
  PROVE  EditInv'
<1>1. /\ MaxInput \in Nat /\ input = "edit" /\ input' = input /\ len \in 0..(MaxInput - 1)
      /\ cursorpos \in Nat /\ cursorpos <= len /\ top \in 0..MaxInput
  BY ScreenAssumption DEF EditInv, W!EditKey
<1>2. CASE W!Insert
  BY <1>1, <1>2 DEF W!Insert, EditInv
<1>3. CASE W!Backspace
  BY <1>1, <1>3 DEF W!Backspace, EditInv
<1>4. CASE W!Delete
  BY <1>1, <1>4 DEF W!Delete, EditInv
<1>5. CASE W!MoveCursor
  <2>1. len' = len /\ top' = top /\ cursorpos' \in 0..len
    BY <1>1, <1>5 DEF W!MoveCursor
  <2> QED
    BY <1>1, <2>1 DEF EditInv
<1> QED
  BY <1>2, <1>3, <1>4, <1>5 DEF W!EditKey

LEMMA Screen_Select ==
  ASSUME MenuInv, NEW m \in W!Menus, NEW by \in Int, W!Select(m, by), scMenu' = scMenu
  PROVE  MenuInv'
<1>1. PICK n \in Nat : n = Len(W!MenuEntries[m]) /\ n >= 1
  BY MenuFacts
<1>2. selected[m] \in 1..n /\ selected \in [W!Menus -> Int] /\ selected[m] \in Int
  BY <1>1 DEF MenuInv
<1>3. PICK k \in Int : k \in 1..n /\ selected' = [selected EXCEPT ![m] = k]
  <2>1. PICK new \in Int : new = selected[m] + by
    BY <1>2
  <2>2. PICK one \in Int : one = IF new < 1 THEN 1 ELSE new
    OBVIOUS
  <2>3. PICK k \in Int : k = IF one > n THEN n ELSE one
    BY <1>1
  <2>4. k \in 1..n
    BY <1>1, <2>2, <2>3
  <2>5. selected' = [selected EXCEPT ![m] = k]
    BY <1>1, <2>1, <2>2, <2>3 DEF W!Select
  <2> QED
    BY <2>4, <2>5
<1> QED
  BY <1>1, <1>2, <1>3 DEF MenuInv

LEMMA Screen_Execute ==
  ASSUME ScreenInv, NEW m \in W!Menus, W!Execute(m)
  PROVE  ScreenInv'
<1>1. PICK e : e = W!MenuEntries[m][selected[m]]
  OBVIOUS
<1>2. /\ scMenu' = IF e \in W!Menus THEN e ELSE m
      /\ selected' = selected
      /\ \/ UNCHANGED <<W!screen, W!text>>
         \/ e \in {"edit", "show"} /\ W!setInputBuffer(e) /\ UNCHANGED W!screen
  BY <1>1 DEF W!Execute
<1>3. MenuInv'
  BY <1>2 DEF ScreenInv, MenuInv
<1>4. RingInv'
  BY <1>2, ScreenKept DEF ScreenInv
<1>5. EditInv'
  BY <1>2, ScreenKept, Screen_setInputBuffer DEF ScreenInv, W!text
<1> QED
  BY <1>3, <1>4, <1>5 DEF ScreenInv

LEMMA Screen_Boots ==
  ASSUME ScreenInv, W!AutoBoot \/ W!Boot
  PROVE  ScreenInv'
<1>1. CASE W!AutoBoot
  <2>1. "main" \in W!Menus
    BY MenuFacts
  <2>2. CASE W!Execute("main")
    BY <2>1, <2>2, Screen_Execute
  <2>3. CASE UNCHANGED <<W!screen, info, W!text, scMenu, selected, booting, logging>>
    BY <2>3, ScreenKept DEF ScreenInv, W!text
  <2> QED
    BY <1>1, <2>2, <2>3 DEF W!AutoBoot
<1>2. CASE W!Boot
  <2>1. UNCHANGED <<W!text, scMenu, selected>> /\ (W!error_printf \/ UNCHANGED W!screen)
    BY <1>2 DEF W!Boot
  <2> QED
    BY <2>1, ScreenKept, Screen_error_printf DEF ScreenInv, W!text
<1> QED
  BY <1>1, <1>2

LEMMA Screen_Keys ==
  ASSUME ScreenInv, W!ErrorKey \/ W!InfoKey \/ W!TextKey
  PROVE  ScreenInv'
<1>1. CASE W!ErrorKey
  <2>1. W!getErrorMessage # 0
    BY <1>1 DEF W!ErrorKey, W!Shown, W!NULL
  <2>2. W!goToNextErrorMessage /\ UNCHANGED <<W!text, scMenu, selected>>
    BY <1>1 DEF W!ErrorKey, W!menus
  <2> QED
    BY <2>1, <2>2, ScreenKept, Screen_goToNextErrorMessage DEF ScreenInv, W!text
<1>2. CASE W!InfoKey
  <2>1. UNCHANGED <<W!screen, scMenu, selected>>
    BY <1>2 DEF W!InfoKey, W!menus
  <2>2. (\E by \in {-8, -1, 1, 8} : W!Scroll(by)) \/ UNCHANGED <<input, len, cursorpos, top>>
    BY <1>2 DEF W!InfoKey
  <2>3. EditInv'
    BY <2>2, ScreenKept, Screen_Scroll DEF ScreenInv
  <2> QED
    BY <2>1, <2>3, ScreenKept DEF ScreenInv
<1>3. CASE W!TextKey
  <2>1. UNCHANGED <<W!screen, scMenu, selected>>
    BY <1>3 DEF W!TextKey, W!menus
  <2>2. (\E by \in {-8, -1, 1, 8} : W!Scroll(by)) \/ W!setInputBuffer("none") \/ W!EditKey
    BY <1>3 DEF W!TextKey
  <2>3. EditInv'
    BY <2>2, Screen_Scroll, Screen_setInputBuffer, Screen_EditKey DEF ScreenInv
  <2> QED
    BY <2>1, <2>3, ScreenKept DEF ScreenInv
<1> QED
  BY <1>1, <1>2, <1>3

LEMMA Screen_MenuKey ==
  ASSUME ScreenInv, W!MenuKey
  PROVE  ScreenInv'
<1>0. scMenu \in W!Menus /\ RingInv /\ EditInv /\ MenuInv
  BY DEF ScreenInv, MenuInv
<1>1. \/ W!Execute(scMenu)
      \/ /\ UNCHANGED <<W!screen, W!text>>
         /\ \/ \E by \in {-8, -1, 1, 8} : W!Select(scMenu, by) /\ scMenu' = scMenu
            \/ scMenu' = (IF W!Parent[scMenu] = "none" THEN scMenu ELSE W!Parent[scMenu])
               /\ selected' = selected
            \/ scMenu' = "advanced" /\ selected' = selected
  BY DEF W!MenuKey
<1>2. CASE W!Execute(scMenu)
  BY <1>0, <1>2, Screen_Execute
<1>3. CASE UNCHANGED <<W!screen, W!text>> /\ MenuInv'
  BY <1>0, <1>3, ScreenKept DEF ScreenInv, W!text
<1>4. ASSUME NEW by \in {-8, -1, 1, 8}, W!Select(scMenu, by), scMenu' = scMenu
      PROVE  MenuInv'
  <2>1. by \in Int
    OBVIOUS
  <2> QED
    BY <1>0, <1>4, <2>1, Screen_Select
<1>5. ASSUME scMenu' \in W!Menus, selected' = selected
      PROVE  MenuInv'
  BY <1>0, <1>5 DEF MenuInv
<1>6. /\ "advanced" \in W!Menus
      /\ (IF W!Parent[scMenu] = "none" THEN scMenu ELSE W!Parent[scMenu]) \in W!Menus
  BY <1>0, MenuFacts
<1> QED
  BY <1>1, <1>2, <1>3, <1>4, <1>5, <1>6

LEMMA ScreenNextInv == ScreenInv /\ [W!Next]_screenvars => ScreenInv'
<1>1. ASSUME ScreenInv, UNCHANGED screenvars PROVE ScreenInv'
  BY <1>1, ScreenKept DEF ScreenInv, screenvars, W!screen
<1> QED
  BY <1>1, Screen_Boots, Screen_Keys, Screen_MenuKey DEF W!Next

LEMMA ScreenInvTrue == ScreenInv => ScreenTrue
<1> SUFFICES ASSUME ScreenInv PROVE ScreenTrue
  OBVIOUS
<1>1. W!getErrorMessage = IF pending = <<>> THEN W!NULL ELSE Head(pending)
  BY OldestShown DEF ScreenInv, W!NULL
<1>2. \A n \in 1..Len(pending) :
        errorMessage[(readMsgPos + n - 1) % MaxMessages] = pending[n]
  <2> SUFFICES ASSUME NEW n \in 1..Len(pending)
               PROVE  errorMessage[(readMsgPos + n - 1) % MaxMessages] = pending[n]
    OBVIOUS
  <2>1. MaxMessages \in Nat /\ readMsgPos \in Slots /\ Len(pending) \in Nat
        /\ Len(pending) <= MaxMessages
    BY ScreenAssumption DEF ScreenInv, RingInv, RingTypeOK, RingHolds
  <2>2. n - 1 \in 0..MaxMessages /\ n - 1 < MaxMessages /\ readMsgPos \in Int
        /\ readMsgPos + n - 1 = readMsgPos + (n - 1)
    BY <2>1 DEF Slots
  <2>3. (readMsgPos + n - 1) % MaxMessages = Slot(readMsgPos, n - 1)
    BY <2>1, <2>2, SlotFacts
  <2> QED
    BY <2>3 DEF ScreenInv, RingInv, RingHolds
<1>3. W!CursorInText
  <2>1. (input = "edit" => cursorpos \in 0..len) /\ top <= MaxInput
    BY ScreenAssumption DEF ScreenInv, EditInv
  <2> QED
    BY <2>1 DEF ScreenInv, EditInv, MenuInv, W!CursorInText
<1> QED
  BY <1>1, <1>2, <1>3 DEF ScreenTrue, W!ErrorsInOrder

-----------------------------------------------------------------------------
(* FileMenu *)

(* The entries in fsDirParam belong to the list shown last, and the path to the  *)
(* directory unless it could not be opened.  Once a file was chosen its name is  *)
(* part of the path, so the path is right only while the list is shown.          *)
FileInv ==
  /\ DOMAIN fileName = F!Roots
  /\ fsDirParam.root = listOf
  /\ listOf.menu # "list"
  /\ fmMenu = "list" => listOf \in F!Roots
  /\ F!ListingTrue

LEMMA RootMenus ==
  /\ \A r \in F!Roots : r.menu # "list" /\ r.mainMenu # "list"
  /\ F!NoRoot.menu # "list"
<1>1. \A r \in F!Roots : r \in F!ConfigRoots \cup F!KernelRoots \cup F!InitrdRoots
  BY DEF F!Roots
<1>2. \A r \in F!ConfigRoots \cup F!KernelRoots \cup F!InitrdRoots :
        r.menu # "list" /\ r.mainMenu # "list"
  BY DEF F!ConfigRoots, F!KernelRoots, F!InitrdRoots
<1> QED
  BY <1>1, <1>2 DEF F!NoRoot

LEMMA FileInitInv == F!Init => FileInv
BY RootMenus DEF F!Init, F!NoEntries, FileInv, F!ListingTrue

(* A list is opened, or the menus stay as they are and the failure is noted. *)
LEMMA File_List ==
  ASSUME FileInv, NEW r \in F!Roots, NEW path, NEW isRoot,
         fileName' = [fileName EXCEPT ![r] = path],
         F!fsGenerateDirListMenu(r, path, isRoot)
  PROVE  FileInv'
<1>1. DOMAIN fileName' = F!Roots /\ fileName'[r] = path
  BY DEF FileInv
<1>2. CASE fmMenu' = "list" /\ listOf' = r /\ fsDirParam' = [root |-> r, dir |-> path, isRoot |-> isRoot]
  BY <1>1, <1>2, RootMenus DEF FileInv, F!ListingTrue
<1>3. CASE failed' = TRUE /\ UNCHANGED <<fmMenu, listOf, fsDirParam>>
  BY <1>1, <1>3 DEF FileInv, F!ListingTrue
<1> QED
  BY <1>2, <1>3 DEF F!fsGenerateDirListMenu

LEMMA File_fsroot == ASSUME FileInv, F!fsroot PROVE FileInv'
<1>1. PICK r \in F!Roots : /\ fileName' = [fileName EXCEPT ![r] = <<>>]
                           /\ F!fsGenerateDirListMenu(r, <<>>, TRUE)
  BY DEF F!fsroot
<1> QED
  BY <1>1, File_List

LEMMA FileKept ==
  ASSUME FileInv, UNCHANGED F!vars
  PROVE  FileInv'
BY DEF FileInv, F!vars, F!ListingTrue

LEMMA File_Entry == ASSUME FileInv, F!Entry PROVE FileInv'
<1>1. PICK r : r = fsDirParam.root
  OBVIOUS
<1>2. r \in F!Roots /\ r = listOf
  BY <1>1 DEF F!Entry, FileInv
<1>3. PICK name : F!fsDir(r, name) \/ F!fsFile(r, name)
  BY <1>1 DEF F!Entry
<1>4. CASE F!fsDir(r, name)
  <2>1. CASE UNCHANGED F!vars
    BY <2>1, FileKept
  <2>2. CASE ~UNCHANGED F!vars
    <3>1. PICK path : path = IF name # ".." THEN Append(fileName[r], name) ELSE F!Shorter(fileName[r])
      OBVIOUS
    <3>2. fileName' = [fileName EXCEPT ![r] = path] /\ F!fsGenerateDirListMenu(r, path, FALSE)
      BY <1>4, <2>2, <3>1 DEF F!fsDir
    <3> QED
      BY <1>2, <3>2, File_List
  <2> QED
    BY <2>1, <2>2
<1>5. CASE F!fsFile(r, name)
  <2>1. CASE UNCHANGED F!vars
    BY <2>1, FileKept
  <2>2. CASE ~UNCHANGED F!vars
    <3>1. /\ fileName' = [fileName EXCEPT ![r] = Append(@, name)]
          /\ fmMenu' = r.mainMenu /\ UNCHANGED <<listOf, fsDirParam, failed>>
      BY <1>5, <2>2 DEF F!fsFile
    <3>2. DOMAIN fileName' = F!Roots
      BY <3>1 DEF FileInv
    <3> QED
      BY <1>2, <3>1, <3>2, RootMenus DEF FileInv, F!ListingTrue
  <2> QED
    BY <2>1, <2>2
<1> QED
  BY <1>3, <1>4, <1>5

LEMMA File_Menus ==
  ASSUME FileInv,
         F!setCurrentMenuAndStopCDVD \/ F!setCurrentMenu \/ F!mcLoadConfig \/ F!unsetFilename
  PROVE  FileInv'
<1>1. UNCHANGED <<listOf, fileName, fsDirParam, failed>>
  BY DEF F!setCurrentMenuAndStopCDVD, F!setCurrentMenu, F!mcLoadConfig, F!unsetFilename
<1>2. "list" \notin F!Fixed
  BY DEF F!Fixed, F!Parent
<1>3. fmMenu' = fmMenu \/ fmMenu' # "list"
  BY <1>2 DEF F!setCurrentMenuAndStopCDVD, F!setCurrentMenu, F!mcLoadConfig, F!unsetFilename, FileInv
<1> QED
  BY <1>1, <1>3 DEF FileInv, F!ListingTrue

LEMMA FileNextInv == FileInv /\ [F!Next]_menuvars => FileInv'
<1>1. ASSUME FileInv, UNCHANGED menuvars PROVE FileInv'
  BY <1>1, FileKept DEF menuvars, F!vars
<1> QED
  BY <1>1, File_fsroot, File_Entry, File_Menus DEF F!Next

-----------------------------------------------------------------------------
(* RteCopy *)

(* What a name on the card may stand for. *)
CardEntry == [kind : {"absent", "dir", "file"}, n : Nat]

(* Free, a complete file, or one the disc or the card failed. *)
Complete(f) == f \in spoiled \/ card[f] \in {R!Absent, R!Entry("file", Chunks)}

RteTypeOK ==
  /\ rtePc \in {"menu", "open", "copy", "elf"} /\ rteI \in Nat \ {0} /\ copied \in Nat
  /\ card \in [R!Files -> CardEntry]
  /\ rtePc = "elf" => image \in Seq(STRING) /\ rtePart \in {1, 2}

(* Only the file being copied may be incomplete. *)
CopyInv ==
  /\ rtePc = "copy" => rteI \in {1, 2} /\ copied <= Chunks
  /\ \A f \in R!Files : Complete(f) \/ (rtePc = "copy" /\ f = R!moduleList[rteI])

RteInv == RteTypeOK /\ CopyInv /\ R!PartCut

(* A file was written or removed, or that failed. *)
Ended(f) ==
  \E e \in CardEntry :
    /\ card' = [card EXCEPT ![f] = e]
    /\ \/ spoiled' = spoiled \ {f} /\ e \in {R!Absent, R!Entry("file", Chunks)}
       \/ spoiled' = spoiled \cup {f}

LEMMA CardFacts ==
  /\ \A k \in Nat : R!Entry("file", k) \in CardEntry
  /\ R!Absent \in CardEntry /\ R!Directory \in CardEntry
  /\ R!moduleList[1] \in R!Files /\ R!moduleList[2] \in R!Files /\ Len(R!moduleList) = 2
  /\ "elf" \in R!Files /\ "sbios" \in R!Files /\ "config" \in R!Files
<1>1. \A k \in Nat : R!Entry("file", k) \in CardEntry
  BY DEF R!Entry, CardEntry
<1>2. R!Absent \in CardEntry /\ R!Directory \in CardEntry
  BY DEF R!Entry, CardEntry, R!Absent, R!Directory
<1>3. R!moduleList[1] \in R!Files /\ R!moduleList[2] \in R!Files /\ Len(R!moduleList) = 2
  BY DEF R!Files, R!moduleList
<1>4. "elf" \in R!Files /\ "sbios" \in R!Files /\ "config" \in R!Files
  BY DEF R!Files
<1> QED
  BY <1>1, <1>2, <1>3, <1>4

(* Removing a file takes the directory away that the ROM's driver leaves. *)
LEMMA Removed ==
  ASSUME card \in [R!Files -> CardEntry], NEW f \in R!Files
  PROVE  /\ R!fioRmdir(R!fioRemove(card, f), f) = [card EXCEPT ![f] = R!Absent]
         /\ R!fioRemove(card, f) = [card EXCEPT ![f] = R!Directory]
BY DEF R!fioRmdir, R!fioRemove

(* Every way to close or to remove a file ends it. *)
LEMMA FileEnded ==
  ASSUME card \in [R!Files -> CardEntry], NEW f \in R!Files, NEW n \in Nat
  PROVE  /\ R!Spoilt(f, n) => Ended(f)
         /\ R!Remove(f, n) => Ended(f)
         /\ R!Close(f) => Ended(f)
         /\ R!WriteOut(f) => Ended(f)
<1>1. \A k \in Nat : R!Spoilt(f, k) => Ended(f)
  BY CardFacts DEF R!Spoilt, R!Store, Ended
<1>2. \A k \in Nat : R!Remove(f, k) => Ended(f)
  <2>1. ASSUME card' = R!fioRmdir(R!fioRemove(card, f), f) /\ spoiled' = spoiled \ {f}
        PROVE  Ended(f)
    BY <2>1, Removed, CardFacts DEF Ended
  <2>2. ASSUME card' = R!fioRemove(card, f) /\ spoiled' = spoiled \cup {f}
        PROVE  Ended(f)
    BY <2>2, Removed, CardFacts DEF Ended
  <2> QED
    BY <1>1, <2>1, <2>2 DEF R!Remove
<1>3. R!Close(f) => Ended(f)
  <2>1. R!Whole(f) => Ended(f)
    BY CardFacts, RteAssumption DEF R!Whole, R!Store, Ended
  <2>2. \A k \in 0..Chunks - 1 : k \in Nat
    BY RteAssumption
  <2> QED
    BY <1>1, <2>1, <2>2 DEF R!Close
<1>4. R!WriteOut(f) => Ended(f)
  <2>1. \A k \in 0..Chunks - 1 : k \in Nat
    BY RteAssumption
  <2> QED
    BY <1>2, <1>3, <2>1 DEF R!WriteOut
<1> QED
  BY <1>1, <1>2, <1>3, <1>4

LEMMA EndedKeeps ==
  ASSUME card \in [R!Files -> CardEntry], NEW f \in R!Files, Ended(f),
         \A g \in R!Files : g # f => Complete(g)
  PROVE  card' \in [R!Files -> CardEntry] /\ \A g \in R!Files : Complete(g)'
<1>1. PICK e \in CardEntry :
        /\ card' = [card EXCEPT ![f] = e]
        /\ \/ spoiled' = spoiled \ {f} /\ e \in {R!Absent, R!Entry("file", Chunks)}
           \/ spoiled' = spoiled \cup {f}
  BY DEF Ended
<1>2. card' \in [R!Files -> CardEntry] /\ card'[f] = e /\ \A g \in R!Files : g # f => card'[g] = card[g]
  BY <1>1
<1>3. \A g \in R!Files : g # f => (g \in spoiled' <=> g \in spoiled)
  BY <1>1
<1>4. Complete(f)'
  BY <1>1, <1>2 DEF Complete
<1>5. \A g \in R!Files : g # f => Complete(g)'
  BY <1>2, <1>3 DEF Complete
<1> QED
  BY <1>2, <1>4, <1>5

LEMMA RteInitInv == R!Init => RteInv
<1> SUFFICES ASSUME R!Init PROVE RteInv
  OBVIOUS
<1>1. card = [f \in R!Files |-> R!Absent] /\ rtePc = "menu" /\ rteI = 1 /\ copied = 0 /\ cut = <<>>
  BY DEF R!Init
<1>2. RteTypeOK
  BY <1>1, CardFacts DEF RteTypeOK
<1>3. CopyInv
  BY <1>1 DEF CopyInv, Complete
<1> QED
  BY <1>1, <1>2, <1>3 DEF RteInv, R!PartCut

(* Between copies one file ends, or nothing changes. *)
LEMMA CardStep ==
  ASSUME RteInv, rtePc # "copy", rtePc' # "copy",
         UNCHANGED <<card, spoiled>> \/ \E f \in R!Files : Ended(f)
  PROVE  CopyInv' /\ card' \in [R!Files -> CardEntry]
<1>1. \A f \in R!Files : Complete(f)
  BY DEF RteInv, CopyInv
<1>2. card \in [R!Files -> CardEntry]
  BY DEF RteInv, RteTypeOK
<1>3. CASE UNCHANGED <<card, spoiled>>
  BY <1>1, <1>2, <1>3 DEF CopyInv, Complete
<1>4. CASE \E f \in R!Files : Ended(f)
  <2>1. card' \in [R!Files -> CardEntry] /\ \A g \in R!Files : Complete(g)'
    BY <1>1, <1>2, <1>4, EndedKeeps
  <2> QED
    BY <2>1 DEF CopyInv
<1> QED
  BY <1>3, <1>4

LEMMA Rte_copyRTEModules == ASSUME RteInv, R!copyRTEModules PROVE RteInv'
<1>1. /\ rtePc = "menu" /\ rtePc' = "open" /\ rteI' = 1 /\ copied' = 0
      /\ UNCHANGED <<card, spoiled, image, rtePart, cut>>
  BY DEF R!copyRTEModules
<1>2. CopyInv' /\ card' \in [R!Files -> CardEntry]
  BY <1>1, CardStep
<1> QED
  BY <1>1, <1>2 DEF RteInv, RteTypeOK, R!PartCut

LEMMA Rte_OpenFiles == ASSUME RteInv, R!OpenFiles PROVE RteInv'
<1>0. rtePc = "open" /\ UNCHANGED <<spoiled, image, rtePart, cut>>
      /\ rteI \in Nat \ {0} /\ copied \in Nat
  BY DEF R!OpenFiles, RteInv, RteTypeOK
<1>1. CASE R!Finish /\ card' = card
  <2>1. rtePc' = "menu" /\ rteI' = 1 /\ copied' = 0
    BY <1>1 DEF R!Finish
  <2>2. CopyInv' /\ card' \in [R!Files -> CardEntry]
    BY <1>0, <1>1, <2>1, CardStep
  <2> QED
    BY <1>0, <2>1, <2>2 DEF RteInv, RteTypeOK, R!PartCut
<1>2. CASE /\ rteI =< Len(R!moduleList) /\ rtePc' = "copy" /\ copied' = 0 /\ rteI' = rteI
           /\ card' = [card EXCEPT ![R!moduleList[rteI]] = R!Entry("file", 0)]
  <2>1. rteI \in {1, 2}
    BY <1>0, <1>2, CardFacts DEF RteInv, RteTypeOK
  <2>2. PICK f \in R!Files : f = R!moduleList[rteI]
    BY <2>1, CardFacts
  <2>3. card \in [R!Files -> CardEntry] /\ \A g \in R!Files : Complete(g)
    BY <1>0 DEF RteInv, RteTypeOK, CopyInv
  <2>4. card' \in [R!Files -> CardEntry] /\ \A g \in R!Files : g # f => card'[g] = card[g]
    BY <1>2, <2>2, <2>3, CardFacts
  <2>5. CopyInv'
    BY <1>0, <1>2, <2>1, <2>2, <2>3, <2>4, RteAssumption DEF CopyInv, Complete
  <2> QED
    BY <1>0, <1>2, <2>1, <2>4, <2>5 DEF RteInv, RteTypeOK, R!PartCut
<1> QED
  BY <1>1, <1>2 DEF R!OpenFiles, R!Store

(* The copy goes on, or the file ends. *)
LEMMA Rte_CopyChunk == ASSUME RteInv, R!CopyChunk PROVE RteInv'
<1>0. /\ rtePc = "copy" /\ UNCHANGED <<image, rtePart, cut>> /\ rteI \in {1, 2}
      /\ copied \in Nat /\ copied <= Chunks /\ Chunks \in Nat
      /\ card \in [R!Files -> CardEntry]
  BY RteAssumption DEF R!CopyChunk, RteInv, RteTypeOK, CopyInv
<1>1. PICK f \in R!Files : f = R!moduleList[rteI]
  BY <1>0, CardFacts
<1>2. \A g \in R!Files : g # f => Complete(g)
  BY <1>0, <1>1 DEF RteInv, CopyInv
<1>3. CASE /\ copied < Chunks /\ copied' = copied + 1
           /\ card' = [card EXCEPT ![f] = R!Entry("file", copied + 1)]
           /\ UNCHANGED <<rtePc, rteI, spoiled>>
  <2>1. copied' \in Nat /\ copied' <= Chunks
    BY <1>0, <1>3
  <2>2. card' \in [R!Files -> CardEntry] /\ \A g \in R!Files : g # f => card'[g] = card[g]
    BY <1>0, <1>3, <2>1, CardFacts
  <2>3. CopyInv'
    BY <1>0, <1>1, <1>2, <1>3, <2>1, <2>2 DEF CopyInv, Complete
  <2> QED
    BY <1>0, <1>3, <2>1, <2>2, <2>3 DEF RteInv, RteTypeOK, R!PartCut
<1>4. CASE Ended(f) /\ rtePc' = "open" /\ rteI' = rteI + 1 /\ copied' = copied
  <2>1. card' \in [R!Files -> CardEntry] /\ \A g \in R!Files : Complete(g)'
    BY <1>0, <1>2, <1>4, EndedKeeps
  <2>2. CopyInv'
    BY <1>4, <2>1 DEF CopyInv
  <2>3. rteI' \in Nat \ {0}
    BY <1>0, <1>4
  <2> QED
    BY <1>0, <1>4, <2>1, <2>2, <2>3 DEF RteInv, RteTypeOK, R!PartCut
<1>5. R!Remove(f, copied) \/ R!Close(f) \/ R!Spoilt(f, copied) => Ended(f)
  BY <1>0, FileEnded
<1> QED
  BY <1>1, <1>3, <1>4, <1>5 DEF R!CopyChunk, R!WriteFailed, R!Store

LEMMA Rte_copyRTEELF == ASSUME RteInv, R!copyRTEELF PROVE RteInv'
<1>1. /\ rtePc = "menu" /\ rtePc' = "elf" /\ image' \in Images /\ rtePart' \in 1..2
      /\ UNCHANGED <<rteI, copied, card, spoiled, cut>>
  BY DEF R!copyRTEELF
<1>2. CopyInv' /\ card' \in [R!Files -> CardEntry]
  BY <1>1, CardStep
<1>3. image' \in Seq(STRING) /\ rtePart' \in {1, 2}
  BY <1>1, RteAssumption
<1> QED
  BY <1>1, <1>2, <1>3 DEF RteInv, RteTypeOK, R!PartCut

(* Every set of natural numbers has a least element. *)
LEMMA Minimum ==
  ASSUME NEW T \in SUBSET Nat, T # {}
  PROVE  \E k \in T : \A l \in T : k <= l
<1>1. IsWellFoundedOn(OpToRel(<, Nat), Nat)
  BY NatLessThanWellFounded
<1>2. PICK k \in T : \A l \in T : ~(<<l, k>> \in OpToRel(<, Nat))
  BY <1>1, WFMin
<1>3. \A l \in T : ~(l < k)
  BY <1>2 DEF OpToRel
<1> QED
  BY <1>3

(* The search stops at the first magic number from its start on. *)
LEMMA NextMagicFacts ==
  ASSUME image \in Seq(STRING), NEW from \in Nat \ {0}
  PROVE  /\ R!NextMagic(from) \in Nat
         /\ \/ R!NextMagic(from) = Len(image) + 1
            \/ /\ R!NextMagic(from) \in from..Len(image) /\ image[R!NextMagic(from)] = "M"
         /\ \A k \in from..Len(image) : k < R!NextMagic(from) => image[k] # "M"
<1>1. PICK at : at = {k \in from..Len(image) : image[k] = "M"}
  OBVIOUS
<1>2. Len(image) \in Nat /\ at \in SUBSET Nat
  BY <1>1
<1>3. CASE at = {}
  <2>1. R!NextMagic(from) = Len(image) + 1
    BY <1>1, <1>3 DEF R!NextMagic
  <2> QED
    BY <1>1, <1>2, <1>3, <2>1
<1>4. CASE at # {}
  <2>1. \E k \in at : \A l \in at : k =< l
    BY <1>2, <1>4, Minimum
  <2>2. PICK n : n = CHOOSE k \in at : \A l \in at : k =< l
    OBVIOUS
  <2>3. n \in at /\ \A l \in at : n =< l
    BY <2>1, <2>2
  <2>4. R!NextMagic(from) = n
    BY <1>1, <1>4, <2>2 DEF R!NextMagic
  <2>5. n \in from..Len(image) /\ image[n] = "M"
    BY <1>1, <2>3
  <2>6. \A k \in from..Len(image) : k < n => image[k] # "M"
    BY <1>1, <1>2, <2>3, <2>5
  <2> QED
    BY <1>2, <2>4, <2>5, <2>6
<1> QED
  BY <1>3, <1>4

LEMMA RangeBelow ==
  ASSUME NEW a \in Nat, NEW e \in Nat, NEW n \in Nat, e <= n + 1
  PROVE  \A k \in a + 1..(e - 1) : k \in a + 1..n /\ k < e
OBVIOUS

(* The part found is the one asked for, up to the next one. *)
LEMMA PartFound ==
  ASSUME image \in Seq(STRING), rtePart \in {1, 2}, NEW start, NEW end,
         start = R!FindElf, end = R!EndOfElf(start), ~(start > Len(image))
  PROVE  /\ image[start] = "M"
         /\ rtePart = 1 => {k \in DOMAIN image : image[k] = "M" /\ k < start} = {}
         /\ rtePart = 2 => \E j \in {k \in DOMAIN image : image[k] = "M" /\ k < start} :
                            {k \in DOMAIN image : image[k] = "M" /\ k < start} = {j}
         /\ \A k \in start + 1..(end - 1) : image[k] # "M"
         /\ end - 1 = Len(image) \/ image[(end - 1) + 1] = "M"
<1>0. Len(image) \in Nat /\ DOMAIN image = 1..Len(image)
  OBVIOUS
<1>1. PICK one \in Nat : one = R!NextMagic(1)
  BY NextMagicFacts
<1>2. /\ one = Len(image) + 1 \/ (one \in 1..Len(image) /\ image[one] = "M")
      /\ \A k \in 1..Len(image) : k < one => image[k] # "M"
  BY <1>1, NextMagicFacts
<1>3. CASE rtePart = 1
  <2>1. start = one /\ start \in 1..Len(image) /\ image[start] = "M"
    BY <1>0, <1>1, <1>2, <1>3 DEF R!FindElf
  <2>2. {k \in DOMAIN image : image[k] = "M" /\ k < start} = {}
    BY <1>0, <1>2, <2>1
  <2>3. /\ end \in Nat /\ (end = Len(image) + 1 \/ image[end] = "M")
        /\ \A k \in start + 1..Len(image) : k < end => image[k] # "M"
        /\ end <= Len(image) + 1
    <3>1. end = R!NextMagic(start + 1) /\ start + 1 \in Nat \ {0}
      BY <1>0, <2>1 DEF R!EndOfElf
    <3> QED
      BY <1>0, <2>1, <3>1, NextMagicFacts
  <2>4. \A k \in start + 1..(end - 1) : image[k] # "M"
    <3>1. \A k \in start + 1..(end - 1) : k \in start + 1..Len(image) /\ k < end
      <4>1. start \in Nat /\ end \in Nat /\ Len(image) \in Nat /\ end <= Len(image) + 1
        BY <1>0, <2>1, <2>3
      <4> QED
        BY ONLY <4>1, RangeBelow
    <3> QED
      BY <2>3, <3>1
  <2>5. end - 1 = Len(image) \/ image[(end - 1) + 1] = "M"
    BY <1>0, <2>3
  <2> QED
    BY <1>3, <2>1, <2>2, <2>4, <2>5
<1>4. CASE rtePart = 2
  <2>1. start = R!NextMagic(one + 1) /\ one + 1 \in Nat \ {0}
    BY <1>1, <1>4 DEF R!FindElf
  <2>2. /\ start \in (one + 1)..Len(image) /\ image[start] = "M"
        /\ \A k \in (one + 1)..Len(image) : k < start => image[k] # "M"
    <3>1. start \in Nat /\ start # Len(image) + 1
      BY <1>0, <2>1, NextMagicFacts
    <3> QED
      BY <1>0, <2>1, <3>1, NextMagicFacts
  <2>3. one \in 1..Len(image) /\ image[one] = "M" /\ one < start /\ start \in 1..Len(image)
    BY <1>0, <1>2, <2>2
  <2>4. {k \in DOMAIN image : image[k] = "M" /\ k < start} = {one}
    <3>1. \A k \in 1..Len(image) : image[k] = "M" /\ k < start => k = one
      BY <1>0, <1>2, <2>2, <2>3
    <3> QED
      BY <1>0, <2>3, <3>1
  <2>5. /\ end \in Nat /\ (end = Len(image) + 1 \/ image[end] = "M")
        /\ \A k \in start + 1..Len(image) : k < end => image[k] # "M"
        /\ end <= Len(image) + 1
    <3>1. end = R!NextMagic(start + 1) /\ start + 1 \in Nat \ {0}
      BY <1>0, <2>3 DEF R!EndOfElf
    <3> QED
      BY <1>0, <2>3, <3>1, NextMagicFacts
  <2>6. \A k \in start + 1..(end - 1) : image[k] # "M"
    <3>1. \A k \in start + 1..(end - 1) : k \in start + 1..Len(image) /\ k < end
      <4>1. start \in Nat /\ end \in Nat /\ Len(image) \in Nat /\ end <= Len(image) + 1
        BY <1>0, <2>3, <2>5
      <4> QED
        BY ONLY <4>1, RangeBelow
    <3> QED
      BY <2>5, <3>1
  <2>7. end - 1 = Len(image) \/ image[(end - 1) + 1] = "M"
    BY <1>0, <2>5
  <2> QED
    BY <1>4, <2>2, <2>4, <2>6, <2>7
<1> QED
  BY <1>3, <1>4

LEMMA Rte_WriteElf == ASSUME RteInv, R!WriteElf PROVE RteInv'
<1>1. /\ rtePc = "elf" /\ rtePc' = "menu" /\ rteI' = 1 /\ copied' = 0
      /\ card \in [R!Files -> CardEntry]
      /\ image \in Seq(STRING) /\ rtePart \in {1, 2}
  BY DEF R!WriteElf, R!Finish, RteInv, RteTypeOK
<1>2. PICK start, end : start = R!FindElf /\ end = R!EndOfElf(start)
  OBVIOUS
<1>3. \/ UNCHANGED <<card, spoiled, cut>>
      \/ R!Remove("elf", 0) /\ cut' = <<>>
      \/ R!WriteOut("elf") /\ cut' = <<>>
      \/ /\ start =< Len(image) /\ R!WriteOut("elf")
         /\ cut' = <<image, rtePart, start, end - 1>>
  BY <1>2 DEF R!WriteElf
<1>4. CopyInv' /\ card' \in [R!Files -> CardEntry]
  <2>1. UNCHANGED <<card, spoiled>> \/ Ended("elf")
    BY <1>1, <1>3, FileEnded, CardFacts
  <2> QED
    BY <1>1, <2>1, CardStep, CardFacts
<1>5. R!PartCut'
  <2>1. CASE cut' = cut
    BY <2>1 DEF RteInv, R!PartCut
  <2>2. CASE cut' = <<>>
    BY <2>2 DEF R!PartCut
  <2>3. CASE start =< Len(image) /\ cut' = <<image, rtePart, start, end - 1>>
    <3>0. start \in Nat
      <4>1. R!NextMagic(1) \in Nat
        BY <1>1, NextMagicFacts
      <4>2. R!NextMagic(R!NextMagic(1) + 1) \in Nat
        BY <1>1, <4>1, NextMagicFacts
      <4> QED
        BY <1>2, <4>1, <4>2 DEF R!FindElf
    <3>1. /\ cut'[1] = image /\ cut'[2] = rtePart /\ cut'[3] = start /\ cut'[4] = end - 1
      BY <2>3
    <3>2. /\ image[start] = "M"
          /\ rtePart = 1 => {k \in DOMAIN image : image[k] = "M" /\ k < start} = {}
          /\ rtePart = 2 => \E j \in {k \in DOMAIN image : image[k] = "M" /\ k < start} :
                             {k \in DOMAIN image : image[k] = "M" /\ k < start} = {j}
          /\ \A k \in start + 1..(end - 1) : image[k] # "M"
          /\ end - 1 = Len(image) \/ image[(end - 1) + 1] = "M"
      <4>1. ~(start > Len(image))
        BY <1>1, <2>3, <3>0
      <4> QED
        BY <1>1, <1>2, <4>1, PartFound
    <3> QED
      BY <1>1, <3>1, <3>2 DEF R!PartCut
  <2> QED
    BY <1>3, <2>1, <2>2, <2>3
<1> QED
  BY <1>1, <1>4, <1>5 DEF RteInv, RteTypeOK

(* The SBIOS is written, the configuration saved or deleted. *)
LEMMA Rte_OtherFiles ==
  ASSUME RteInv, R!copyRTESBIOS \/ R!mcSaveConfig \/ R!removefile
  PROVE  RteInv'
<1>1. /\ rtePc = "menu" /\ UNCHANGED <<rtePc, rteI, copied, image, rtePart, cut>>
      /\ card \in [R!Files -> CardEntry]
  BY DEF R!copyRTESBIOS, R!mcSaveConfig, R!removefile, RteInv, RteTypeOK
<1>2. UNCHANGED <<card, spoiled>> \/ \E f \in R!Files : Ended(f)
  <2>1. ASSUME R!copyRTESBIOS PROVE UNCHANGED <<card, spoiled>> \/ Ended("sbios")
    BY <1>1, <2>1, FileEnded, CardFacts DEF R!copyRTESBIOS, R!WriteSbios
  <2>2. ASSUME R!mcSaveConfig PROVE Ended("config")
    BY <1>1, <2>2, FileEnded, CardFacts DEF R!mcSaveConfig
  <2>3. ASSUME R!removefile PROVE UNCHANGED <<card, spoiled>> \/ Ended("config")
    <3>1. R!Remove("config", 0) => Ended("config")
      BY <1>1, FileEnded, CardFacts
    <3> QED
      BY <2>3, <3>1 DEF R!removefile, R!Remove
  <2> QED
    BY <2>1, <2>2, <2>3, CardFacts
<1>3. CopyInv' /\ card' \in [R!Files -> CardEntry]
  BY <1>1, <1>2, CardStep
<1> QED
  BY <1>1, <1>3 DEF RteInv, RteTypeOK, R!PartCut

LEMMA RteNextInv == RteInv /\ [R!Next]_rtevars => RteInv'
<1>1. ASSUME RteInv, UNCHANGED rtevars PROVE RteInv'
  BY <1>1 DEF RteInv, RteTypeOK, CopyInv, Complete, R!PartCut, rtevars
<1> QED
  BY <1>1, Rte_copyRTEModules, Rte_OpenFiles, Rte_CopyChunk, Rte_copyRTEELF, Rte_WriteElf,
     Rte_OtherFiles DEF R!Next

LEMMA FilesInvTrue == FileInv /\ RteInv => FilesTrue
<1>1. RteInv => R!CardWhole
  BY DEF RteInv, CopyInv, Complete, R!CardWhole
<1> QED
  BY <1>1 DEF FileInv, RteInv, FilesTrue

-----------------------------------------------------------------------------
(* LoaderStart *)

Cards == <<"mc0", "mc1", "host">>
Stick == <<"ps2ns", "usb">>
Order == <<"mc0", "mc1", "host", "ps2ns", "usb">>
         \o (IF eromdrvSupport /\ disc THEN <<"dvd">> ELSE <<>>)

(* The settings are those of the first place of this part of the search. *)
From(place) == (lrv <=> place # "") /\ (lrv => lsCfg = place)

StartNumbers == idx \in Nat \ {0} /\ passes \in Nat /\ sms \in Nat /\ client \in Nat

StartTypeOK ==
  /\ lsPc \in {"off", "modules", "usb", "dvd", "rom", "menu"}
  /\ StartNumbers
  /\ lrv \in BOOLEAN /\ loadCfg \in BOOLEAN /\ loadNetsurf \in BOOLEAN /\ loadUsb \in BOOLEAN
  /\ loadDvd \in BOOLEAN /\ eromdrvSupport \in BOOLEAN /\ disc \in BOOLEAN

(* The server that runs is of this reset, and so is the one the clients are       *)
(* bound to until the modules are loaded again.                                   *)
ServersKnown ==
  /\ sms # 0 => sms = S!Generation
  /\ client # 0 => client = S!Generation \/ (normal /\ passes > 1)
  /\ lsPc = "off" <=> passes = 0
  /\ passes = 0 => sms = 0 /\ client = 0 /\ ~calledDead
  /\ S!DiscServed

(* What the first pass has searched so far. *)
Searched ==
  passes <= 1 =>
    /\ lsPc \in {"off", "modules", "usb"} => loadNetsurf /\ loadUsb
    /\ lsPc \in {"off", "modules", "usb", "dvd"} => loadDvd
    /\ lsPc = "off" => loadCfg /\ ~lrv
    /\ lsPc = "modules" /\ loadCfg => idx <= 7 /\ ~lrv
    /\ lsPc = "modules" /\ ~loadCfg => From(S!Search(Cards))
    /\ lsPc = "usb" => From(S!Search(Cards))
    /\ lsPc = "dvd" =>
         From(IF S!Search(Cards) # "" THEN S!Search(Cards) ELSE S!Search(Stick))
    /\ lsPc = "rom" => From(S!Search(Order))
    /\ lsPc = "menu" => lsCfg = "user" \/ lsCfg = IF S!Search(Order) = "" THEN "rom"
                                                  ELSE S!Search(Order)

StartInv == StartTypeOK /\ ServersKnown /\ Searched

Tuple(s, n) == s = [j \in 1..n |-> s[j]]

(* v is s with u behind it. *)
Chain(v, s, m, u, n) ==
  /\ Tuple(v, m + n) /\ Len(v) = m + n
  /\ \A j \in 1..(m + n) : v[j] = IF j <= m THEN s[j] ELSE u[j - m]

(* Two tuples one after the other, whatever they hold. *)
LEMMA Joined ==
  ASSUME NEW s, NEW u, NEW m \in Nat, NEW n \in Nat, Tuple(s, m), Tuple(u, n)
  PROVE  Chain(s \o u, s, m, u, n)
<1> DEFINE T == {s[j] : j \in 1..m} \cup {u[j] : j \in 1..n}
<1>1. s \in [1..m -> T] /\ u \in [1..n -> T]
  BY DEF Tuple
<1> HIDE DEF T
<1>2. s \in Seq(T) /\ u \in Seq(T)
  BY <1>1, SeqDef
<1>3. Len(s) = m /\ Len(u) = n
  BY <1>1, <1>2, LenProperties
<1>4. s \o u \in Seq(T) /\ Len(s \o u) = m + n
  BY <1>2, <1>3, ConcatProperties
<1>5. Tuple(s \o u, m + n)
  BY <1>4, LenProperties DEF Tuple
<1> QED
  BY <1>2, <1>3, <1>4, <1>5, ConcatProperties DEF Chain

LEMMA SearchFirst ==
  ASSUME NEW order, NEW n \in DOMAIN order, DOMAIN order \subseteq Nat, order[n] \in media,
         \A k \in DOMAIN order : k < n => order[k] \notin media
  PROVE  S!Search(order) = order[n]
<1>1. PICK at : at = {k \in DOMAIN order : order[k] \in media}
  OBVIOUS
<1>2. n \in at /\ \A k \in at : n <= k
  BY <1>1
<1>3. \A m \in at : (\A k \in at : m <= k) => m = n
  BY <1>1, <1>2
<1>4. (CHOOSE m \in at : \A k \in at : m <= k) = n
  BY <1>2, <1>3
<1> QED
  BY <1>1, <1>2, <1>4 DEF S!Search

LEMMA SearchNone ==
  ASSUME NEW order, \A k \in DOMAIN order : order[k] \notin media
  PROVE  S!Search(order) = ""
BY DEF S!Search

LEMMA SearchCards ==
  S!Search(Cards) = IF "mc0" \in media THEN "mc0" ELSE IF "mc1" \in media THEN "mc1"
                    ELSE IF "host" \in media THEN "host" ELSE ""
<1>1. /\ DOMAIN Cards = 1..3 /\ Cards[1] = "mc0" /\ Cards[2] = "mc1" /\ Cards[3] = "host"
  BY DEF Cards
<1>2. DOMAIN Cards \subseteq Nat /\ 1 \in DOMAIN Cards /\ 2 \in DOMAIN Cards /\ 3 \in DOMAIN Cards
      /\ \A k \in DOMAIN Cards : k = 1 \/ k = 2 \/ k = 3
  BY <1>1
<1>3. CASE "mc0" \in media
  BY <1>1, <1>2, <1>3, SearchFirst
<1>4. CASE "mc0" \notin media /\ "mc1" \in media
  <2>1. \A k \in DOMAIN Cards : k < 2 => Cards[k] \notin media
    BY <1>1, <1>2, <1>4
  <2> QED
    BY <1>1, <1>2, <1>4, <2>1, SearchFirst
<1>5. CASE "mc0" \notin media /\ "mc1" \notin media /\ "host" \in media
  <2>1. \A k \in DOMAIN Cards : k < 3 => Cards[k] \notin media
    BY <1>1, <1>2, <1>5
  <2> QED
    BY <1>1, <1>2, <1>5, <2>1, SearchFirst
<1>6. CASE "mc0" \notin media /\ "mc1" \notin media /\ "host" \notin media
  <2>1. \A k \in DOMAIN Cards : Cards[k] \notin media
    BY <1>1, <1>2, <1>6
  <2> QED
    BY <1>6, <2>1, SearchNone
<1> QED
  BY <1>3, <1>4, <1>5, <1>6

LEMMA SearchStick ==
  S!Search(Stick) = IF "ps2ns" \in media THEN "ps2ns" ELSE IF "usb" \in media THEN "usb" ELSE ""
<1>1. /\ DOMAIN Stick = 1..2 /\ Stick[1] = "ps2ns" /\ Stick[2] = "usb"
  BY DEF Stick
<1>2. DOMAIN Stick \subseteq Nat /\ 1 \in DOMAIN Stick /\ 2 \in DOMAIN Stick
      /\ \A k \in DOMAIN Stick : k = 1 \/ k = 2
  BY <1>1
<1>3. CASE "ps2ns" \in media
  BY <1>1, <1>2, <1>3, SearchFirst
<1>4. CASE "ps2ns" \notin media /\ "usb" \in media
  <2>1. \A k \in DOMAIN Stick : k < 2 => Stick[k] \notin media
    BY <1>1, <1>2, <1>4
  <2> QED
    BY <1>1, <1>2, <1>4, <2>1, SearchFirst
<1>5. CASE "ps2ns" \notin media /\ "usb" \notin media
  <2>1. \A k \in DOMAIN Stick : Stick[k] \notin media
    BY <1>1, <1>2, <1>5
  <2> QED
    BY <1>5, <2>1, SearchNone
<1> QED
  BY <1>3, <1>4, <1>5

(* The whole search goes on where the parts left off. *)
LEMMA SearchOrder ==
  S!Search(Order) = IF S!Search(Cards) # "" THEN S!Search(Cards)
                    ELSE IF S!Search(Stick) # "" THEN S!Search(Stick)
                    ELSE IF eromdrvSupport /\ disc /\ "dvd" \in media THEN "dvd" ELSE ""
<1> DEFINE n == IF eromdrvSupport /\ disc THEN 6 ELSE 5
<1>1. /\ DOMAIN Order = 1..n
      /\ Order[1] = "mc0" /\ Order[2] = "mc1" /\ Order[3] = "host" /\ Order[4] = "ps2ns"
      /\ Order[5] = "usb" /\ (eromdrvSupport /\ disc => Order[6] = "dvd")
  <2> DEFINE Places == <<"mc0", "mc1", "host", "ps2ns", "usb">>
             Disc == IF eromdrvSupport /\ disc THEN <<"dvd">> ELSE <<>>
             k == IF eromdrvSupport /\ disc THEN 1 ELSE 0
  <2>1. Tuple(Places, 5)
    BY DEF Tuple
  <2>2. Tuple(Disc, k) /\ k \in Nat
    <3>1. CASE eromdrvSupport /\ disc
      BY <3>1 DEF Tuple
    <3>2. CASE ~(eromdrvSupport /\ disc)
      <4>1. Disc = <<>> /\ k = 0
        BY <3>2
      <4> QED
        BY <4>1 DEF Tuple
    <3> QED
      BY <3>1, <3>2
  <2>3. eromdrvSupport /\ disc => Disc[1] = "dvd"
    OBVIOUS
  <2>4. /\ Places[1] = "mc0" /\ Places[2] = "mc1" /\ Places[3] = "host"
        /\ Places[4] = "ps2ns" /\ Places[5] = "usb"
    OBVIOUS
  <2> HIDE DEF Places, Disc
  <2>5. Chain(Order, Places, 5, Disc, k)
    <3>1. Order = Places \o Disc
      BY DEF Order, Places, Disc
    <3> QED
      BY <2>1, <2>2, <3>1, 5 \in Nat, Joined, Zenon
  <2>6. n = 5 + k /\ (eromdrvSupport /\ disc => n = 6)
    OBVIOUS
  <2>7. DOMAIN Order = 1..n
    BY <2>5, <2>6 DEF Tuple, Chain
  <2>8. \A j \in 1..5 : Order[j] = Places[j]
    BY <2>2, <2>5 DEF Chain
  <2>9. eromdrvSupport /\ disc => Order[6] = Disc[1]
    BY <2>5, <2>6 DEF Chain
  <2> QED
    BY <2>3, <2>4, <2>7, <2>8, <2>9
<1>2. /\ DOMAIN Order \subseteq Nat
      /\ 1 \in DOMAIN Order /\ 2 \in DOMAIN Order /\ 3 \in DOMAIN Order /\ 4 \in DOMAIN Order
      /\ 5 \in DOMAIN Order /\ (eromdrvSupport /\ disc => 6 \in DOMAIN Order)
      /\ \A k \in DOMAIN Order : k = 1 \/ k = 2 \/ k = 3 \/ k = 4 \/ k = 5
                                 \/ (k = 6 /\ eromdrvSupport /\ disc)
  BY <1>1
<1> HIDE DEF n
<1>3. CASE "mc0" \in media
  <2>0. \A k \in DOMAIN Order : k < 1 => Order[k] \notin media
    BY <1>2
  <2>1. S!Search(Order) = "mc0"
    BY <1>1, <1>2, <1>3, <2>0, SearchFirst
  <2> QED
    BY <1>3, <2>1, SearchCards
<1>4. CASE "mc0" \notin media /\ "mc1" \in media
  <2>1. \A k \in DOMAIN Order : k < 2 => Order[k] \notin media
    BY <1>1, <1>2, <1>4
  <2>2. S!Search(Order) = "mc1"
    BY <1>1, <1>2, <1>4, <2>1, SearchFirst
  <2> QED
    BY <1>4, <2>2, SearchCards
<1>5. CASE "mc0" \notin media /\ "mc1" \notin media /\ "host" \in media
  <2>1. \A k \in DOMAIN Order : k < 3 => Order[k] \notin media
    BY <1>1, <1>2, <1>5
  <2>2. S!Search(Order) = "host"
    BY <1>1, <1>2, <1>5, <2>1, SearchFirst
  <2> QED
    BY <1>5, <2>2, SearchCards
<1>6. CASE "mc0" \notin media /\ "mc1" \notin media /\ "host" \notin media
  <2>0. S!Search(Cards) = ""
    BY <1>6, SearchCards
  <2>1. CASE "ps2ns" \in media
    <3>1. \A k \in DOMAIN Order : k < 4 => Order[k] \notin media
      BY <1>1, <1>2, <1>6
    <3>2. S!Search(Order) = "ps2ns"
      BY <1>1, <1>2, <2>1, <3>1, SearchFirst
    <3> QED
      BY <2>0, <2>1, <3>2, SearchStick
  <2>2. CASE "ps2ns" \notin media /\ "usb" \in media
    <3>1. \A k \in DOMAIN Order : k < 5 => Order[k] \notin media
      BY <1>1, <1>2, <1>6, <2>2
    <3>2. S!Search(Order) = "usb"
      BY <1>1, <1>2, <2>2, <3>1, SearchFirst
    <3> QED
      BY <2>0, <2>2, <3>2, SearchStick
  <2>3. CASE "ps2ns" \notin media /\ "usb" \notin media /\ eromdrvSupport /\ disc /\ "dvd" \in media
    <3>1. \A k \in DOMAIN Order : k < 6 => Order[k] \notin media
      BY <1>1, <1>2, <1>6, <2>3
    <3>2. S!Search(Order) = "dvd"
      BY <1>1, <1>2, <2>3, <3>1, SearchFirst
    <3> QED
      BY <2>0, <2>3, <3>2, SearchStick
  <2>4. CASE "ps2ns" \notin media /\ "usb" \notin media /\ ~(eromdrvSupport /\ disc /\ "dvd" \in media)
    <3>1. \A k \in DOMAIN Order : Order[k] \notin media
      BY <1>1, <1>2, <1>6, <2>4
    <3>2. S!Search(Order) = ""
      BY <3>1, SearchNone
    <3> QED
      BY <2>0, <2>4, <3>2, SearchStick
  <2> QED
    BY <2>1, <2>2, <2>3, <2>4
<1> QED
  BY <1>3, <1>4, <1>5, <1>6

LEMMA ListFacts == Len(S!List) = 21 /\ S!List[7].cfg
<1>1. Tuple(S!moduleList, 15)
  BY DEF S!moduleList, Tuple
<1>2. Tuple(S!usbModules, 6)
  BY DEF S!usbModules, Tuple
<1>3. S!moduleList[7] = [S!Module("PADMAN") EXCEPT !.cfg = TRUE]
  BY DEF S!moduleList
<1>5. Chain(S!List, S!moduleList, 15, S!usbModules, 6)
  BY <1>1, <1>2, 15 \in Nat, 6 \in Nat, Joined, Zenon DEF S!List
<1>4. Len(S!List) = 21 /\ S!List[7] = S!moduleList[7]
  BY <1>5 DEF Chain
<1> QED
  BY <1>3, <1>4 DEF S!Module

LEMMA StickTuple == <<"ps2ns">> \o <<"usb">> = Stick
<1> DEFINE a == <<"ps2ns">>
           b == <<"usb">>
<1>1. Tuple(a, 1) /\ Tuple(b, 1) /\ a[1] = "ps2ns" /\ b[1] = "usb"
  BY DEF Tuple
<1> HIDE DEF a, b
<1>2. Chain(a \o b, a, 1, b, 1)
  BY <1>1, 1 \in Nat, Joined, Zenon
<1>3. a \o b = [j \in 1..2 |-> IF j = 1 THEN "ps2ns" ELSE "usb"]
  BY <1>1, <1>2 DEF Tuple, Chain
<1>4. Stick = [j \in 1..2 |-> IF j = 1 THEN "ps2ns" ELSE "usb"]
  BY DEF Stick
<1> QED
  BY <1>3, <1>4 DEF a, b

(* The search depends on where files and a readable disc are. *)
LEMMA SearchSame ==
  ASSUME media' = media
  PROVE  /\ S!Search(Cards)' = S!Search(Cards) /\ S!Search(Stick)' = S!Search(Stick)
         /\ UNCHANGED <<eromdrvSupport, disc>> => S!Search(Order)' = S!Search(Order)
<1>2. S!Search(Cards)' = S!Search(Cards)
  BY DEF S!Search, Cards
<1>3. S!Search(Stick)' = S!Search(Stick)
  BY DEF S!Search, Stick
<1>4. ASSUME UNCHANGED <<eromdrvSupport, disc>> PROVE S!Search(Order)' = S!Search(Order)
  BY <1>4 DEF S!Search, Order
<1> QED
  BY <1>2, <1>3, <1>4

LEMMA StartInitInv == S!Init => StartInv
<1> SUFFICES ASSUME S!Init PROVE StartInv
  OBVIOUS
<1> USE DEF S!Init
<1>1. StartNumbers
  BY DEF StartNumbers
<1>2. StartTypeOK
  BY <1>1, Zenon DEF StartTypeOK
<1>3. ServersKnown
  BY DEF ServersKnown, S!Generation, S!DiscServed
<1>4. Searched
  BY DEF Searched
<1> QED
  BY <1>2, <1>3, <1>4 DEF StartInv

LEMMA MainInv == StartInv /\ S!main => StartInv'
<1> SUFFICES ASSUME StartInv, S!main PROVE StartInv'
  OBVIOUS
<1> USE DEF S!main, S!ResetIop, S!env
<1>0. StartNumbers'
  BY DEF StartInv, StartTypeOK, StartNumbers
<1>1. StartTypeOK'
  BY <1>0, Zenon DEF StartInv, StartTypeOK
<1>2. ServersKnown'
  BY DEF StartInv, StartTypeOK, StartNumbers, ServersKnown, S!Generation, S!DiscServed
<1>3. Searched'
  BY DEF StartInv, StartTypeOK, StartNumbers, ServersKnown, Searched
<1> QED
  BY <1>1, <1>2, <1>3 DEF StartInv

LEMMA EntryInv == StartInv /\ S!loadLoaderModules => StartInv'
<1> SUFFICES ASSUME StartInv, S!loadLoaderModules PROVE StartInv'
  OBVIOUS
<1>0. /\ lsPc = "modules" /\ idx <= Len(S!List) /\ idx' = idx + 1
      /\ UNCHANGED <<S!env, lsPc, passes, loadNetsurf, loadUsb, loadDvd, network_support>>
  BY DEF S!loadLoaderModules
<1>1. /\ client' = client /\ calledDead' = calledDead
      /\ sms' \in {sms, S!Generation}
      /\ eromdrvSupport' \in BOOLEAN
  BY DEF S!loadLoaderModules, S!LoadEntry, S!KeepEntry, StartInv, StartTypeOK, StartNumbers
<1>2. \/ S!List[idx].cfg /\ loadCfg /\ S!ReadConfig
      \/ ~(S!List[idx].cfg /\ loadCfg) /\ UNCHANGED <<loadCfg, lsCfg, lrv>>
  BY DEF S!loadLoaderModules
<1>3. lrv' \in BOOLEAN /\ loadCfg' \in BOOLEAN
  BY <1>2 DEF S!ReadConfig, StartInv, StartTypeOK, StartNumbers
<1>4. S!Generation \in Nat
  BY DEF S!Generation, StartInv, StartTypeOK, StartNumbers
<1>5. StartTypeOK'
  BY <1>0, <1>1, <1>3, <1>4 DEF StartInv, StartTypeOK, StartNumbers, S!env
<1>6. ServersKnown'
  BY <1>0, <1>1 DEF StartInv, ServersKnown, S!env, S!Generation, S!DiscServed
<1>7. Searched'
  <2> SUFFICES ASSUME passes <= 1
               PROVE  /\ loadNetsurf' /\ loadUsb' /\ loadDvd'
                      /\ loadCfg' => idx' <= 7 /\ ~lrv'
                      /\ ~loadCfg' => From(S!Search(Cards))'
    BY <1>0 DEF Searched
  <2>1. loadNetsurf' /\ loadUsb' /\ loadDvd'
    BY <1>0 DEF StartInv, Searched
  <2>2. S!Search(Cards)' = S!Search(Cards)
    BY <1>0, SearchSame DEF S!env
  <2>3. CASE S!List[idx].cfg /\ loadCfg /\ S!ReadConfig
    BY <2>1, <2>2, <2>3 DEF S!ReadConfig, From, Cards
  <2>4. CASE ~(S!List[idx].cfg /\ loadCfg) /\ UNCHANGED <<loadCfg, lsCfg, lrv>>
    <3>1. loadCfg => idx # 7
      BY <2>4, ListFacts
    <3>2. loadCfg => idx <= 7 /\ ~lrv
      BY <1>0 DEF StartInv, Searched
    <3>3. loadCfg' => idx' <= 7 /\ ~lrv'
      BY <1>0, <2>4, <3>1, <3>2 DEF StartInv, StartTypeOK, StartNumbers
    <3>4. ~loadCfg' => From(S!Search(Cards))'
      BY <1>0, <2>2, <2>4 DEF StartInv, Searched, From
    <3> QED
      BY <2>1, <3>3, <3>4
  <2> QED
    BY <1>2, <2>3, <2>4
<1> QED
  BY <1>5, <1>6, <1>7 DEF StartInv

LEMMA LoadedInv == StartInv /\ S!ModulesLoaded => StartInv'
<1> SUFFICES ASSUME StartInv, S!ModulesLoaded PROVE StartInv'
  OBVIOUS
<1> USE DEF S!ModulesLoaded, S!env
<1>1. StartTypeOK'
  BY DEF StartInv, StartTypeOK, StartNumbers
<1>2. ServersKnown'
  BY DEF StartInv, ServersKnown, S!Generation, S!DiscServed
<1>3. Searched'
  <2>1. S!Search(Cards)' = S!Search(Cards)
    BY SearchSame
  <2>2. passes <= 1 => ~loadCfg
    BY ListFacts DEF StartInv, StartTypeOK, StartNumbers, Searched
  <2> QED
    BY <2>1, <2>2 DEF StartInv, Searched, From
<1> QED
  BY <1>1, <1>2, <1>3 DEF StartInv

LEMMA UsbInv == StartInv /\ S!UsbConfig => StartInv'
<1> SUFFICES ASSUME StartInv, S!UsbConfig PROVE StartInv'
  OBVIOUS
<1> USE DEF S!UsbConfig, S!env
<1>1. StartTypeOK'
  BY DEF StartInv, StartTypeOK, StartNumbers
<1>2. ServersKnown'
  BY DEF StartInv, ServersKnown, S!Generation, S!DiscServed
<1>3. Searched'
  <2> SUFFICES ASSUME passes <= 1
               PROVE  /\ loadDvd'
                      /\ From(IF S!Search(Cards) # "" THEN S!Search(Cards)
                              ELSE S!Search(Stick))'
    BY DEF Searched
  <2>1. S!Search(Cards)' = S!Search(Cards) /\ S!Search(Stick)' = S!Search(Stick)
    BY SearchSame
  <2>2. loadNetsurf /\ loadUsb /\ loadDvd /\ From(S!Search(Cards))
    BY DEF StartInv, Searched
  <2>3. IF lrv \/ S!Search(Stick) = "" THEN UNCHANGED <<lrv, lsCfg>>
        ELSE lrv' = TRUE /\ lsCfg' = S!Search(Stick)
    BY <2>2, StickTuple
  <2> QED
    BY <2>1, <2>2, <2>3 DEF From, StartInv, StartTypeOK, StartNumbers
<1> QED
  BY <1>1, <1>2, <1>3 DEF StartInv

(* The clients are bound to the server that runs, so that this pass's calls       *)
(* reach it.                                                                      *)
LEMMA DvdInv == StartInv /\ S!DvdConfig => StartInv'
<1> SUFFICES ASSUME StartInv, S!DvdConfig PROVE StartInv'
  OBVIOUS
<1> USE DEF S!DvdConfig, S!env
<1>1. StartTypeOK'
  BY DEF StartInv, StartTypeOK, StartNumbers
<1>2. ServersKnown'
  BY DEF StartInv, StartTypeOK, StartNumbers, ServersKnown, S!Generation, S!DiscServed, S!Dead
<1>3. Searched'
  <2> SUFFICES ASSUME passes <= 1
               PROVE  From(S!Search(Order))'
    BY DEF Searched
  <2>1. S!Search(Order)' = S!Search(Order)
    BY SearchSame
  <2>2. loadDvd /\ From(IF S!Search(Cards) # "" THEN S!Search(Cards) ELSE S!Search(Stick))
    BY DEF StartInv, Searched
  <2> QED
    BY <2>1, <2>2, SearchOrder DEF From, StartInv, StartTypeOK, StartNumbers
<1> QED
  BY <1>1, <1>2, <1>3 DEF StartInv

LEMMA RomInv == StartInv /\ S!RomConfig => StartInv'
<1> SUFFICES ASSUME StartInv, S!RomConfig PROVE StartInv'
  OBVIOUS
<1> USE DEF S!RomConfig, S!env
<1>1. StartTypeOK'
  BY DEF StartInv, StartTypeOK, StartNumbers
<1>2. ServersKnown'
  BY DEF StartInv, ServersKnown, S!Generation, S!DiscServed
<1>3. Searched'
  <2>1. S!Search(Order)' = S!Search(Order)
    BY SearchSame
  <2> QED
    BY <2>1 DEF StartInv, Searched, From
<1> QED
  BY <1>1, <1>2, <1>3 DEF StartInv

LEMMA MenuStartInv ==
  StartInv /\ (S!ChangeSettings \/ S!UseDisc \/ S!reloadModules) => StartInv'
<1> SUFFICES ASSUME StartInv PROVE S!ChangeSettings \/ S!UseDisc \/ S!reloadModules => StartInv'
  OBVIOUS
<1> USE DEF S!env
<1>1. ASSUME S!ChangeSettings PROVE StartInv'
  <2>1. StartTypeOK' /\ ServersKnown'
    BY <1>1 DEF S!ChangeSettings, StartInv, StartTypeOK, StartNumbers, ServersKnown, S!Generation, S!DiscServed
  <2>2. Searched'
    BY <1>1 DEF S!ChangeSettings, Searched
  <2> QED
    BY <2>1, <2>2 DEF StartInv
<1>2. ASSUME S!UseDisc PROVE StartInv'
  <2>1. StartTypeOK'
    BY <1>2 DEF S!UseDisc, StartInv, StartTypeOK, StartNumbers
  <2>2. ServersKnown'
    BY <1>2 DEF S!UseDisc, S!DiscCall, S!Dead, StartInv, ServersKnown, S!Generation, S!DiscServed
  <2>3. S!Search(Order)' = S!Search(Order)
    BY <1>2, SearchSame DEF S!UseDisc
  <2>4. Searched'
    BY <1>2, <2>3 DEF S!UseDisc, StartInv, Searched
  <2> QED
    BY <2>1, <2>2, <2>4 DEF StartInv
<1>3. ASSUME S!reloadModules PROVE StartInv'
  <2> USE <1>3 DEF S!reloadModules, S!ResetIop
  <2>1. passes # 0 /\ passes' > 1
    BY DEF StartInv, StartTypeOK, StartNumbers, ServersKnown
  <2>0. StartNumbers'
    BY DEF StartInv, StartTypeOK, StartNumbers
  <2>2. StartTypeOK'
    BY <2>0, Zenon DEF StartInv, StartTypeOK
  <2>3. ServersKnown'
    <3>1. ~normal => client = 0 \/ client = 1
      BY DEF StartInv, ServersKnown, S!Generation
    <3>2. sms' # 0 => sms' = S!Generation'
      BY DEF StartInv, ServersKnown, S!Generation
    <3>3. calledDead' => normal
      BY DEF StartInv, ServersKnown, S!DiscCall, S!Dead, S!Generation, S!DiscServed
    <3> QED
      BY <2>0, <2>1, <3>1, <3>2, <3>3 DEF ServersKnown, S!DiscServed, S!Generation, StartNumbers
  <2>4. Searched'
    BY <2>0, <2>1 DEF Searched, StartNumbers
  <2> QED
    BY <2>2, <2>3, <2>4 DEF StartInv
<1> QED
  BY <1>1, <1>2, <1>3

LEMMA StartNextInv == StartInv /\ [S!Next]_startvars => StartInv'
<1>1. ASSUME StartInv, UNCHANGED startvars PROVE StartInv'
  <2> USE <1>1 DEF startvars
  <2>1. StartTypeOK' /\ ServersKnown'
    BY DEF StartInv, StartTypeOK, StartNumbers, ServersKnown, S!Generation, S!DiscServed
  <2>2. /\ S!Search(Cards)' = S!Search(Cards) /\ S!Search(Stick)' = S!Search(Stick)
        /\ S!Search(Order)' = S!Search(Order)
    BY SearchSame
  <2>3. Searched'
    BY <2>2 DEF StartInv, Searched, From
  <2> QED
    BY <2>1, <2>3 DEF StartInv
<1> QED
  BY <1>1, MainInv, EntryInv, LoadedInv, UsbInv, DvdInv, RomInv, MenuStartInv DEF S!Next

LEMMA StartInvTrue == StartInv => S!DiscServed /\ S!FirstConfigWins
<1> SUFFICES ASSUME StartInv PROVE S!FirstConfigWins
  BY DEF StartInv, ServersKnown
<1> DEFINE place == IF S!Search(Order) = "" THEN "rom" ELSE S!Search(Order)
<1>0. passes <= 1 => (lsPc = "menu" => lsCfg = "user" \/ lsCfg = place)
  BY Zenon DEF StartInv, Searched
<1> HIDE DEF place
<1>1. lsPc = "menu" /\ passes = 1 /\ lsCfg # "user" => lsCfg = place
  BY <1>0
<1> USE DEF place
<1> QED
  BY <1>1, Zenon DEF S!FirstConfigWins, Order

-----------------------------------------------------------------------------
(* BootModules *)

(* The modules the choice of an interrupt relay is about. *)
Served == {"ps2dev9", "smaprpc", "intrelay-direct", "intrelay-direct-rpc",
           "intrelay-dev9", "intrelay-dev9-rpc"}

LEMMA SystemRows ==
  /\ Tuple(SystemModules, 11)
  /\ \A row \in 1..11 : SystemModules[row].path \notin Served
<1>1. Tuple(SystemModules, 11)
  BY DEF SystemModules, Tuple
<1>2. /\ SystemModules[1].path = "eedebug" /\ SystemModules[2].path = "init"
      /\ SystemModules[3].path = "ADDDRV" /\ SystemModules[4].path = "eromdrvloader"
      /\ SystemModules[5].path = "sio2man" /\ SystemModules[6].path = "XSIO2MAN"
      /\ SystemModules[7].path = "SIO2MAN" /\ SystemModules[8].path = "rom1:SIO2MAN"
      /\ SystemModules[9].path = "mcman" /\ SystemModules[10].path = "XMCMAN"
      /\ SystemModules[11].path = "MCMAN"
  BY DEF SystemModules, File, Host, Rom, Normal, Default
<1>3. ASSUME NEW row \in 1..11 PROVE SystemModules[row].path \notin Served
  BY <1>2 DEF Served
<1> QED
  BY <1>1, <1>3

LEMMA PortRows ==
  /\ Tuple(PortModules, 16)
  /\ \A row \in 1..16 : PortModules[row].path \notin Served
<1>1. Tuple(PortModules, 16)
  BY DEF PortModules, Tuple
<1>2. /\ PortModules[1].path = "mcserv" /\ PortModules[2].path = "XMCSERV"
      /\ PortModules[3].path = "MCSERV" /\ PortModules[4].path = "padman"
      /\ PortModules[5].path = "XPADMAN" /\ PortModules[6].path = "PADMAN"
      /\ PortModules[7].path = "rom1:PADMAN" /\ PortModules[8].path = "libsd"
      /\ PortModules[9].path = "LIBSD.IRX" /\ PortModules[10].path = "LIBSD"
      /\ PortModules[11].path = "rom1:LIBSD" /\ PortModules[12].path = "sdrdrv"
      /\ PortModules[13].path = "SDRDRV.IRX" /\ PortModules[14].path = "SDRDRV"
      /\ PortModules[15].path = "audsrv" /\ PortModules[16].path = "ioptrap"
  BY DEF PortModules, File, Host, Rom, Normal, Default, Sound
<1>3. ASSUME NEW row \in 1..16 PROVE PortModules[row].path \notin Served
  BY <1>2 DEF Served
<1> QED
  BY <1>1, <1>3

LEMMA DeviceRows ==
  /\ Tuple(DeviceModules, 6)
  /\ \A row \in 1..6 : row \notin {3, 5} => DeviceModules[row].path \notin Served
<1>1. Tuple(DeviceModules, 6)
  BY DEF DeviceModules, Tuple
<1>2. /\ DeviceModules[1].path = "iomanX" /\ DeviceModules[2].path = "poweroff"
      /\ DeviceModules[4].path = "ps2ip" /\ DeviceModules[6].path = "sharedmem"
  BY DEF DeviceModules, File, Host, Rom, Normal, Default, Dev9
<1>3. ASSUME NEW row \in 1..6, row \notin {3, 5} PROVE DeviceModules[row].path \notin Served
  BY <1>2, <1>3 DEF Served
<1> QED
  BY <1>1, <1>3

LEMMA RelayRows ==
  /\ Tuple(RelayModules, 16)
  /\ \A row \in 1..16 : row \notin {2, 3, 4, 5} => RelayModules[row].path \notin Served
<1>1. Tuple(RelayModules, 16)
  BY DEF RelayModules, Tuple
<1>2. /\ RelayModules[1].path = "iopintr" /\ RelayModules[6].path = "dmarelay"
      /\ RelayModules[7].path = "TGE/dmarelay" /\ RelayModules[8].path = "cdvdman"
      /\ RelayModules[9].path = "cdvdfsv" /\ RelayModules[10].path = "RMMAN"
      /\ RelayModules[11].path = "RMMAN2" /\ RelayModules[12].path = "module1"
      /\ RelayModules[13].path = "module2" /\ RelayModules[14].path = "module3"
      /\ RelayModules[15].path = "module4" /\ RelayModules[16].path = "module5"
  BY DEF RelayModules, File, Host, Rom, Normal, Default, Dev9
<1>3. ASSUME NEW row \in 1..16, row \notin {2, 3, 4, 5} PROVE RelayModules[row].path \notin Served
  BY <1>2, <1>3 DEF Served
<1> QED
  BY <1>1, <1>3

LEMMA TableRows ==
  /\ Len(moduleTable) = 49
  /\ \A row \in 1..49 : moduleTable[row] = IF row <= 11 THEN SystemModules[row]
                                       ELSE IF row <= 27 THEN PortModules[row - 11]
                                       ELSE IF row <= 33 THEN DeviceModules[row - 27]
                                       ELSE RelayModules[row - 33]
<1> DEFINE two == SystemModules \o PortModules
           three == two \o DeviceModules
<1>0. /\ Tuple(SystemModules, 11) /\ Tuple(PortModules, 16)
      /\ Tuple(DeviceModules, 6) /\ Tuple(RelayModules, 16)
  BY SystemRows, PortRows, DeviceRows, RelayRows
<1>1. Chain(two, SystemModules, 11, PortModules, 16)
  BY <1>0, 11 \in Nat, 16 \in Nat, Joined, Zenon
<1> HIDE DEF two
<1>2. Tuple(two, 27) /\ \A row \in 1..27 : two[row] = IF row <= 11 THEN SystemModules[row] ELSE PortModules[row - 11]
  BY <1>1 DEF Chain
<1>3. Chain(three, two, 27, DeviceModules, 6)
  BY <1>0, <1>2, 27 \in Nat, 6 \in Nat, Joined, Zenon
<1> HIDE DEF three
<1>4. Tuple(three, 33) /\ \A row \in 1..33 : three[row] = IF row <= 27 THEN two[row] ELSE DeviceModules[row - 27]
  BY <1>3 DEF Chain
<1>5. Chain(three \o RelayModules, three, 33, RelayModules, 16)
  BY <1>0, <1>4, 33 \in Nat, 16 \in Nat, Joined, Zenon
<1>6. Chain(moduleTable, three, 33, RelayModules, 16)
  BY <1>5, Zenon DEF moduleTable, three, two
<1>7. /\ Len(moduleTable) = 49
      /\ \A row \in 1..49 : moduleTable[row] = IF row <= 33 THEN three[row] ELSE RelayModules[row - 33]
  BY <1>6 DEF Chain
<1> QED
  BY <1>2, <1>4, <1>7

LEMMA OtherRows ==
  \A row \in 1..49 : row \notin {30, 32, 35, 36, 37, 38} => moduleTable[row].path \notin Served
<1> SUFFICES ASSUME NEW row \in 1..49, row \notin {30, 32, 35, 36, 37, 38}
             PROVE  moduleTable[row].path \notin Served
  OBVIOUS
<1>1. CASE row <= 11
  <2>1. row \in 1..11 /\ moduleTable[row] = SystemModules[row]
    BY <1>1, TableRows
  <2> QED
    BY <2>1, SystemRows
<1>2. CASE row > 11 /\ row <= 27
  <2>1. row - 11 \in 1..16 /\ moduleTable[row] = PortModules[row - 11]
    BY <1>2, TableRows
  <2> QED
    BY <2>1, PortRows
<1>3. CASE row > 27 /\ row <= 33
  <2>1. row - 27 \in 1..6 /\ row - 27 \notin {3, 5} /\ moduleTable[row] = DeviceModules[row - 27]
    BY <1>3, TableRows
  <2> QED
    BY <2>1, DeviceRows
<1>4. CASE row > 33
  <2>1. row - 33 \in 1..16 /\ row - 33 \notin {2, 3, 4, 5} /\ moduleTable[row] = RelayModules[row - 33]
    BY <1>4, TableRows
  <2> QED
    BY <2>1, RelayRows
<1> QED
  BY <1>1, <1>2, <1>3, <1>4

(* What a row of the table says about its default and its relay. *)
Row(row, path, slimness, dev) ==
  /\ moduleTable[row].path = path /\ moduleTable[row].slim = slimness /\ moduleTable[row].dev9 = dev
  /\ moduleTable[row].defaultmod = 2 /\ ~moduleTable[row].sound /\ ~moduleTable[row].eromdrv

LEMMA ServedRows ==
  /\ Row(30, "ps2dev9", 0, 1) /\ Row(32, "smaprpc", 1, 1)
  /\ Row(35, "intrelay-direct", -1, -1) /\ Row(36, "intrelay-direct-rpc", 1, -1)
  /\ Row(37, "intrelay-dev9", -1, 1) /\ Row(38, "intrelay-dev9-rpc", 1, 1)
  /\ ~moduleTable[30].network /\ moduleTable[32].network /\ ~moduleTable[35].network
  /\ ~moduleTable[36].network /\ ~moduleTable[37].network /\ ~moduleTable[38].network
<1>1. /\ moduleTable[30] = DeviceModules[3] /\ moduleTable[32] = DeviceModules[5]
      /\ moduleTable[35] = RelayModules[2] /\ moduleTable[36] = RelayModules[3]
      /\ moduleTable[37] = RelayModules[4] /\ moduleTable[38] = RelayModules[5]
  BY TableRows
<1> USE DEF File, Host, Normal, Default, Dev9, Row
<1>2. Row(30, "ps2dev9", 0, 1) /\ ~moduleTable[30].network
  BY <1>1 DEF DeviceModules
<1>3. Row(32, "smaprpc", 1, 1) /\ moduleTable[32].network
  BY <1>1 DEF DeviceModules
<1>4. Row(35, "intrelay-direct", -1, -1) /\ ~moduleTable[35].network
  BY <1>1 DEF RelayModules
<1>5. Row(36, "intrelay-direct-rpc", 1, -1) /\ ~moduleTable[36].network
  <2>1. moduleTable[36] = Normal(Dev9(Default(Host("intrelay-direct-rpc"), 2, 1), -1))
    <3> HIDE DEF File, Host, Normal, Default, Dev9
    <3> QED
      BY <1>1 DEF RelayModules
  <2> QED
    BY <2>1
<1>6. Row(37, "intrelay-dev9", -1, 1) /\ ~moduleTable[37].network
  <2>1. moduleTable[37] = Dev9(Default(Host("intrelay-dev9"), 2, -1), 1)
    <3> HIDE DEF File, Host, Normal, Default, Dev9
    <3> QED
      BY <1>1 DEF RelayModules
  <2> QED
    BY <2>1
<1>7. Row(38, "intrelay-dev9-rpc", 1, 1) /\ ~moduleTable[38].network
  <2>1. moduleTable[38] = Dev9(Default(Host("intrelay-dev9-rpc"), 2, 1), 1)
    <3> HIDE DEF File, Host, Normal, Default, Dev9
    <3> QED
      BY <1>1 DEF RelayModules
  <2> QED
    BY <2>1
<1> QED
  BY <1>2, <1>3, <1>4, <1>5, <1>6, <1>7

(* A name of these stands for one row. *)
LEMMA IdRow ==
  ASSUME NEW row \in 1..49, NEW p \in Served, moduleTable[row].path = p,
         \A k \in {30, 32, 35, 36, 37, 38} : moduleTable[k].path = p => k = row
  PROVE  M!Id(p) = row
<1>1. M!Ids = 1..49
  BY TableRows DEF M!Ids
<1>2. \A k \in M!Ids : moduleTable[k].path = p => k = row
  BY <1>1, OtherRows
<1> QED
  BY <1>1, <1>2 DEF M!Id

LEMMA ServedIds ==
  /\ M!Id("ps2dev9") = 30 /\ M!Id("smaprpc") = 32 /\ M!Id("intrelay-direct") = 35
  /\ M!Id("intrelay-direct-rpc") = 36 /\ M!Id("intrelay-dev9") = 37
  /\ M!Id("intrelay-dev9-rpc") = 38
<1>1. /\ moduleTable[30].path = "ps2dev9" /\ moduleTable[32].path = "smaprpc"
      /\ moduleTable[35].path = "intrelay-direct" /\ moduleTable[36].path = "intrelay-direct-rpc"
      /\ moduleTable[37].path = "intrelay-dev9" /\ moduleTable[38].path = "intrelay-dev9-rpc"
  BY ServedRows DEF Row
<1>2. "ps2dev9" \in Served /\ "smaprpc" \in Served /\ "intrelay-direct" \in Served
      /\ "intrelay-direct-rpc" \in Served /\ "intrelay-dev9" \in Served
      /\ "intrelay-dev9-rpc" \in Served
  BY DEF Served
<1>3. M!Id("ps2dev9") = 30
  BY <1>1, <1>2, IdRow
<1>4. M!Id("smaprpc") = 32
  BY <1>1, <1>2, IdRow
<1>5. M!Id("intrelay-direct") = 35
  BY <1>1, <1>2, IdRow
<1>6. M!Id("intrelay-direct-rpc") = 36
  BY <1>1, <1>2, IdRow
<1>7. M!Id("intrelay-dev9") = 37
  BY <1>1, <1>2, IdRow
<1>8. M!Id("intrelay-dev9-rpc") = 38
  BY <1>1, <1>2, IdRow
<1> QED
  BY <1>3, <1>4, <1>5, <1>6, <1>7, <1>8

-----------------------------------------------------------------------------
ModulesTypeOK ==
  /\ bmPc \in {"reset", "menu", "loaded", "started", "running"}
  /\ bmLoad \subseteq M!Ids

Defaults == {row \in M!Ids : M!DefaultLoad(moduleTable[row])}
Starting == {row \in bmLoad : M!MayStart(moduleTable[row])}

(* setDefaultConfiguration's choice stands until the user changes it. *)
DefaultKept == bmPc # "reset" /\ ~chosen => bmLoad = Defaults

(* What loadModules has read when it succeeds. *)
LoadedRead ==
  bmPc \in {"loaded", "started", "running"} =>
    \A row \in M!MustLoad : bmBuffer[row] # "none" \/ moduleTable[row].optional

StartedChosen == started = IF bmPc \in {"started", "running"} THEN Starting ELSE {}

Told == pccard = 512 => slim /\ network /\ enableDev9 /\ bmPc = "running"

ModulesInv == ModulesTypeOK /\ DefaultKept /\ LoadedRead /\ StartedChosen /\ Told

LEMMA ModulesInitInv == M!Init => ModulesInv
<1> SUFFICES ASSUME M!Init PROVE ModulesInv
  OBVIOUS
<1>1. bmPc = "reset" /\ bmLoad = {} /\ started = {} /\ pccard = 0
  BY DEF M!Init
<1> QED
  BY <1>1 DEF ModulesInv, ModulesTypeOK, DefaultKept, LoadedRead, StartedChosen, Told

(* The console does not change, nor do the settings once the files are read. *)
LEMMA ConsoleSame ==
  ASSUME UNCHANGED <<slim, debug, network, dvdv, oldLibsd, adapter, embedded>>
  PROVE  /\ Defaults' = Defaults
         /\ UNCHANGED <<enableDev9, bmLoad>> => Starting' = Starting
         /\ UNCHANGED bmLoad => M!MustLoad' = M!MustLoad
<1>1. Defaults' = Defaults
  BY Zenon DEF Defaults, M!DefaultLoad, M!Ids
<1>2. ASSUME UNCHANGED <<enableDev9, bmLoad>> PROVE Starting' = Starting
  BY <1>2, Zenon DEF Starting, M!MayStart, M!dev9Matches
<1>3. ASSUME UNCHANGED bmLoad PROVE M!MustLoad' = M!MustLoad
  BY <1>3, Zenon DEF M!MustLoad
<1> QED
  BY <1>1, <1>2, <1>3

LEMMA SelectionInv ==
  ModulesInv /\ (M!setDefaultConfiguration \/ M!SetOptions \/ M!ChooseModule) => ModulesInv'
<1> SUFFICES ASSUME ModulesInv PROVE
      M!setDefaultConfiguration \/ M!SetOptions \/ M!ChooseModule => ModulesInv'
  OBVIOUS
<1> USE DEF M!console
<1>1. ASSUME M!setDefaultConfiguration PROVE ModulesInv'
  <2>1. bmPc = "reset" /\ bmPc' = "menu" /\ UNCHANGED <<M!console, started, pccard>> /\ bmLoad' = Defaults
    BY <1>1 DEF M!setDefaultConfiguration, Defaults
  <2>2. Defaults' = Defaults /\ Defaults \subseteq M!Ids
    BY <2>1, ConsoleSame DEF Defaults
  <2>3. started = {} /\ pccard # 512
    BY <2>1 DEF ModulesInv, StartedChosen, Told
  <2> QED
    BY <2>1, <2>2, <2>3 DEF ModulesInv, ModulesTypeOK, DefaultKept, LoadedRead, StartedChosen, Told
<1>2. ASSUME M!SetOptions PROVE ModulesInv'
  <2>1. /\ bmPc = "menu" /\ bmPc' = "menu"
        /\ UNCHANGED <<M!console, started, pccard, bmLoad, chosen>>
    BY <1>2 DEF M!SetOptions
  <2>2. Defaults' = Defaults
    BY <2>1, ConsoleSame
  <2>3. started = {} /\ pccard # 512
    BY <2>1 DEF ModulesInv, StartedChosen, Told
  <2> QED
    BY <2>1, <2>2, <2>3 DEF ModulesInv, ModulesTypeOK, DefaultKept, LoadedRead, StartedChosen, Told
<1>3. ASSUME M!ChooseModule PROVE ModulesInv'
  <2>1. /\ bmPc = "menu" /\ bmPc' = "menu" /\ chosen'
        /\ UNCHANGED <<M!console, started, pccard>>
    BY <1>3 DEF M!ChooseModule
  <2>2. PICK p \in ModuleChoices :
          bmLoad' = IF M!Id(p) \in bmLoad THEN bmLoad \ {M!Id(p)} ELSE bmLoad \cup {M!Id(p)}
    BY <1>3 DEF M!ChooseModule
  <2>3. M!Id(p) \in M!Ids
    BY ChoicesAssumption DEF M!Id, M!Ids
  <2>4. bmLoad' \subseteq M!Ids
    BY <2>2, <2>3 DEF ModulesInv, ModulesTypeOK
  <2>5. started = {} /\ pccard # 512
    BY <2>1 DEF ModulesInv, StartedChosen, Told
  <2> QED
    BY <2>1, <2>4, <2>5 DEF ModulesInv, ModulesTypeOK, DefaultKept, LoadedRead, StartedChosen, Told
<1> QED
  BY <1>1, <1>2, <1>3

(* loadModules succeeds only when the files that are missing may be. *)
LEMMA LoadInv == ModulesInv /\ M!loadModules => ModulesInv'
<1> SUFFICES ASSUME ModulesInv, M!loadModules PROVE ModulesInv'
  OBVIOUS
<1> USE DEF M!console
<1>1. /\ bmPc = "menu" /\ bmPc' \in {"menu", "loaded"}
      /\ UNCHANGED <<M!console, enableDev9, bmLoad, chosen, started, pccard>>
  BY DEF M!loadModules
<1>2. Defaults' = Defaults /\ M!MustLoad' = M!MustLoad
  BY <1>1, ConsoleSame
<1>3. started = {} /\ pccard # 512
  BY <1>1 DEF ModulesInv, StartedChosen, Told
<1>4. ASSUME bmPc' = "loaded", NEW row \in M!MustLoad
      PROVE  bmBuffer'[row] # "none" \/ moduleTable[row].optional
  <2> DEFINE Fails(missing) == \E k \in missing : ~moduleTable[k].optional
             Got(missing) == IF Fails(missing)
                             THEN {j \in M!MustLoad : \A k \in missing : j < k}
                             ELSE M!MustLoad \ missing
  <2>1. PICK missing \in {{}} \cup {{j} : j \in {k \in M!MustLoad : M!Source(k) = "heap"}} :
          /\ bmBuffer' = [j \in M!Ids |->
                            IF j \in Got(missing) THEN M!Source(j)
                            ELSE IF Fails(missing) /\ \A k \in missing : j > k THEN bmBuffer[j]
                            ELSE "none"]
          /\ bmPc' = IF Fails(missing) THEN "menu" ELSE "loaded"
    BY Zenon DEF M!loadModules
  <2>2. ~Fails(missing)
    BY <1>4, <2>1
  <2>3. row \in M!Ids
    BY <1>4 DEF M!MustLoad, ModulesInv, ModulesTypeOK
  <2>4. CASE row \in missing
    BY <2>2, <2>4
  <2>5. CASE row \notin missing
    <3>1. row \in Got(missing)
      BY <1>4, <2>2, <2>5
    <3> HIDE DEF Got, Fails
    <3>2. bmBuffer'[row] = M!Source(row)
      BY <2>1, <2>3, <3>1
    <3> QED
      BY <3>2 DEF M!Source
  <2> QED
    BY <2>4, <2>5
<1> QED
  BY <1>1, <1>2, <1>3, <1>4
  DEF ModulesInv, ModulesTypeOK, DefaultKept, LoadedRead, StartedChosen, Told

LEMMA BootStepsInv == ModulesInv /\ (M!GiveUp \/ M!startModules \/ M!TellLinux) => ModulesInv'
<1> SUFFICES ASSUME ModulesInv PROVE M!GiveUp \/ M!startModules \/ M!TellLinux => ModulesInv'
  OBVIOUS
<1> USE DEF M!console
<1>1. ASSUME M!GiveUp \/ M!startModules \/ M!TellLinux
      PROVE  /\ UNCHANGED <<M!console, enableDev9, bmLoad, chosen, bmBuffer>>
             /\ Defaults' = Defaults /\ Starting' = Starting /\ M!MustLoad' = M!MustLoad
  <2>1. UNCHANGED <<M!console, enableDev9, bmLoad, chosen, bmBuffer>>
    BY <1>1 DEF M!GiveUp, M!startModules, M!TellLinux
  <2> QED
    BY <2>1, ConsoleSame
<1>2. ASSUME M!GiveUp PROVE ModulesInv'
  <2>1. bmPc = "loaded" /\ bmPc' = "menu" /\ UNCHANGED <<started, pccard>>
    BY <1>2 DEF M!GiveUp
  <2> QED
    BY <1>1, <1>2, <2>1 DEF ModulesInv, ModulesTypeOK, DefaultKept, LoadedRead, StartedChosen, Told
<1>3. ASSUME M!startModules PROVE ModulesInv'
  <2>1. bmPc = "loaded" /\ bmPc' = "started" /\ UNCHANGED pccard /\ started' = Starting
    BY <1>3 DEF M!startModules, Starting
  <2> QED
    BY <1>1, <1>3, <2>1 DEF ModulesInv, ModulesTypeOK, DefaultKept, LoadedRead, StartedChosen, Told
<1>4. ASSUME M!TellLinux PROVE ModulesInv'
  <2>1. bmPc = "started" /\ bmPc' = "running" /\ UNCHANGED started
    BY <1>4 DEF M!TellLinux
  <2>2. pccard' = 512 => slim /\ network /\ enableDev9
    BY <1>4 DEF M!TellLinux
  <2> QED
    BY <1>1, <1>4, <2>1, <2>2
    DEF ModulesInv, ModulesTypeOK, DefaultKept, LoadedRead, StartedChosen, Told
<1> QED
  BY <1>2, <1>3, <1>4

LEMMA ModulesNextInv == ModulesInv /\ [M!Next]_modulevars => ModulesInv'
<1>1. ASSUME ModulesInv, UNCHANGED modulevars PROVE ModulesInv'
  <2>1. /\ UNCHANGED <<slim, debug, network, dvdv, oldLibsd, adapter, embedded>>
        /\ UNCHANGED <<bmPc, enableDev9, bmLoad, chosen, bmBuffer, started, pccard>>
    BY <1>1 DEF modulevars
  <2>2. Defaults' = Defaults /\ Starting' = Starting /\ M!MustLoad' = M!MustLoad
    BY <2>1, ConsoleSame
  <2> QED
    BY <1>1, <2>1, <2>2
    DEF ModulesInv, ModulesTypeOK, DefaultKept, LoadedRead, StartedChosen, Told
<1> QED
  BY <1>1, SelectionInv, LoadInv, BootStepsInv DEF M!Next

LEMMA StartedLoadedTrue == ModulesInv => M!StartedLoaded
<1> SUFFICES ASSUME ModulesInv, NEW row \in started, moduleTable[row].buffered
             PROVE  bmBuffer[row] # "none" \/ moduleTable[row].optional
  BY DEF M!StartedLoaded
<1>1. bmPc \in {"started", "running"} /\ row \in Starting
  BY DEF ModulesInv, StartedChosen
<1>2. row \in M!MustLoad
  BY <1>1 DEF Starting, M!MayStart, M!MustLoad
<1> QED
  BY <1>1, <1>2 DEF ModulesInv, LoadedRead

(* Which of the modules in question a console without ps2link starts. *)
LEMMA ServedStarted ==
  ASSUME ModulesInv, bmPc \in {"started", "running"}, ~debug, ~chosen
  PROVE  /\ 30 \in started <=> slim /\ enableDev9
         /\ 32 \in started <=> slim /\ enableDev9 /\ network
         /\ 35 \in started <=> ~slim
         /\ 36 \in started <=> slim /\ ~enableDev9
         /\ 37 \notin started
         /\ 38 \in started <=> slim /\ enableDev9
<1>1. started = {row \in M!Ids : M!DefaultLoad(moduleTable[row]) /\ M!MayStart(moduleTable[row])}
  BY DEF ModulesInv, StartedChosen, DefaultKept, Starting, Defaults
<1>2. M!Ids = 1..49
  BY TableRows DEF M!Ids
<1>3. ASSUME NEW row, NEW path, NEW sl \in {-1, 0, 1}, NEW d \in {-1, 1}, Row(row, path, sl, d)
      PROVE  /\ M!DefaultLoad(moduleTable[row]) <=> (sl = 0 \/ (sl = 1 /\ slim) \/ (sl = -1 /\ ~slim))
             /\ M!MayStart(moduleTable[row]) <=>
                  /\ moduleTable[row].network => network
                  /\ d = 1 <=> slim /\ enableDev9
  <2>1. M!DefaultLoad(moduleTable[row]) <=> sl \in {0, IF slim THEN 1 ELSE -1}
    BY <1>3 DEF M!DefaultLoad, Row
  <2>2. M!MayStart(moduleTable[row]) <=>
          (moduleTable[row].network => network) /\ (d = IF slim /\ enableDev9 THEN 1 ELSE -1)
    BY <1>3 DEF M!MayStart, M!dev9Matches, Row
  <2> QED
    BY <1>3, <2>1, <2>2
<1>4. 30 \in started <=> slim /\ enableDev9
  BY <1>1, <1>2, <1>3, ServedRows
<1>5. 32 \in started <=> slim /\ enableDev9 /\ network
  BY <1>1, <1>2, <1>3, ServedRows
<1>6. 35 \in started <=> ~slim
  BY <1>1, <1>2, <1>3, ServedRows
<1>7. 36 \in started <=> slim /\ ~enableDev9
  BY <1>1, <1>2, <1>3, ServedRows
<1>8. 37 \notin started
  BY <1>1, <1>2, <1>3, ServedRows
<1>9. 38 \in started <=> slim /\ enableDev9
  BY <1>1, <1>2, <1>3, ServedRows
<1> QED
  BY <1>4, <1>5, <1>6, <1>7, <1>8, <1>9

LEMMA DevicesServedTrue == ModulesInv => M!DevicesServed
<1> SUFFICES ASSUME ModulesInv, bmPc \in {"started", "running"}, ~debug, ~chosen
             PROVE  /\ \E r \in M!Relays : M!Relays \cap started = {r}
                    /\ \A r \in M!Relays \cap started :
                         moduleTable[r].dev9 = 1 => M!Before(M!Id("ps2dev9"), r)
                    /\ pccard = 512 => M!Before(M!Id("smaprpc"), M!Id("intrelay-dev9-rpc"))
  BY DEF M!DevicesServed
<1>1. M!Relays = {35, 36, 37, 38}
  BY ServedIds DEF M!Relays
<1>2. \E r \in M!Relays : M!Relays \cap started = {r}
  <2>1. CASE ~slim
    <3>1. M!Relays \cap started = {35}
      BY <1>1, <2>1, ServedStarted
    <3> QED
      BY <1>1, <3>1
  <2>2. CASE slim /\ ~enableDev9
    <3>1. M!Relays \cap started = {36}
      BY <1>1, <2>2, ServedStarted
    <3> QED
      BY <1>1, <3>1
  <2>3. CASE slim /\ enableDev9
    <3>1. M!Relays \cap started = {38}
      BY <1>1, <2>3, ServedStarted
    <3> QED
      BY <1>1, <3>1
  <2> QED
    BY <2>1, <2>2, <2>3
<1>3. ASSUME NEW r \in M!Relays \cap started, moduleTable[r].dev9 = 1
      PROVE  M!Before(M!Id("ps2dev9"), r)
  <2>1. moduleTable[35].dev9 = -1 /\ moduleTable[36].dev9 = -1
    BY ServedRows DEF Row
  <2>2. r = 38
    BY <1>1, <1>3, <2>1, ServedStarted
  <2>3. 30 \in started /\ 38 \in started
    BY <1>3, <2>2, ServedStarted
  <2> QED
    BY <2>2, <2>3, ServedIds DEF M!Before
<1>4. ASSUME pccard = 512 PROVE M!Before(M!Id("smaprpc"), M!Id("intrelay-dev9-rpc"))
  <2>1. slim /\ enableDev9 /\ network
    BY <1>4 DEF ModulesInv, Told
  <2>2. 32 \in started /\ 38 \in started
    BY <2>1, ServedStarted
  <2> QED
    BY <2>2, ServedIds DEF M!Before
<1> QED
  BY <1>2, <1>3, <1>4

-----------------------------------------------------------------------------
(* Config *)

LEMMA TupleLen ==
  ASSUME NEW s, NEW n \in Nat, Tuple(s, n)
  PROVE  Len(s) = n
<1> DEFINE T == {s[j] : j \in 1..n}
<1>1. s \in [1..n -> T]
  BY DEF Tuple
<1> HIDE DEF T
<1>2. s \in Seq(T)
  BY <1>1, SeqDef
<1> QED
  BY <1>1, <1>2, LenProperties

(* The items in the order of their registration. *)
LEMMA ItemRows ==
  /\ Len(G!Items) = 7 /\ Tuple(G!Items, 7)
  /\ G!Items[1].name = "videomode" /\ G!Items[1].var = "currentMode"
  /\ G!Items[1].kind = "video"
  /\ G!Items[2].name = "KernelParameter" /\ G!Items[2].var = "kernelParameter"
  /\ G!Items[2].kind = "text"
  /\ G!Items[3].name = "VideoParameter" /\ G!Items[3].var = "videoParameter"
  /\ G!Items[3].kind = "text"
  /\ G!Items[4].name = "AutoBootTime" /\ G!Items[4].var = "autoBootTime"
  /\ G!Items[4].kind = "check"
  /\ G!Items[5].name = "EnableDev9" /\ G!Items[5].var = "enableDev9"
  /\ G!Items[5].kind = "check"
  /\ G!Items[6].name = "Enable hard disc and network" /\ G!Items[6].var = "enableDev9"
  /\ G!Items[6].kind = "check"
  /\ G!Items[7].name = "Auto Boot" /\ G!Items[7].var = "autoBootTime"
  /\ G!Items[7].kind = "check"
<1> DEFINE V == <<G!VideoItem>>
<1>1. Tuple(V, 1) /\ V[1] = G!VideoItem
  BY DEF Tuple
<1>2. Tuple(G!MenuItems, 6)
  BY DEF Tuple, G!MenuItems
<1> HIDE DEF V
<1>3. Chain(G!Items, V, 1, G!MenuItems, 6)
  BY <1>1, <1>2, 1 \in Nat, 6 \in Nat, Joined, Zenon DEF G!Items, V
<1>4. /\ Len(G!Items) = 7 /\ Tuple(G!Items, 7) /\ G!Items[1] = G!VideoItem
      /\ \A j \in 2..7 : G!Items[j] = G!MenuItems[j - 1]
  BY <1>1, <1>3 DEF Chain
<1>5. /\ G!Items[2] = G!MenuItems[1] /\ G!Items[3] = G!MenuItems[2]
      /\ G!Items[4] = G!MenuItems[3] /\ G!Items[5] = G!MenuItems[4]
      /\ G!Items[6] = G!MenuItems[5] /\ G!Items[7] = G!MenuItems[6]
  BY <1>4
<1>6. /\ G!VideoItem.name = "videomode" /\ G!VideoItem.var = "currentMode"
      /\ G!VideoItem.kind = "video"
  BY DEF G!VideoItem, G!Item
<1>7. /\ G!MenuItems[1].name = "KernelParameter" /\ G!MenuItems[1].var = "kernelParameter"
      /\ G!MenuItems[1].kind = "text"
  BY DEF G!MenuItems, G!Item
<1>8. /\ G!MenuItems[2].name = "VideoParameter" /\ G!MenuItems[2].var = "videoParameter"
      /\ G!MenuItems[2].kind = "text"
  BY DEF G!MenuItems, G!Item
<1>9. /\ G!MenuItems[3].name = "AutoBootTime" /\ G!MenuItems[3].var = "autoBootTime"
      /\ G!MenuItems[3].kind = "check"
  BY DEF G!MenuItems, G!Item
<1>10. /\ G!MenuItems[4].name = "EnableDev9" /\ G!MenuItems[4].var = "enableDev9"
      /\ G!MenuItems[4].kind = "check"
  BY DEF G!MenuItems, G!Item
<1>11. /\ G!MenuItems[5].name = "Enable hard disc and network" /\ G!MenuItems[5].var = "enableDev9"
      /\ G!MenuItems[5].kind = "check"
  BY DEF G!MenuItems, G!Item
<1>12. /\ G!MenuItems[6].name = "Auto Boot" /\ G!MenuItems[6].var = "autoBootTime"
      /\ G!MenuItems[6].kind = "check"
  BY DEF G!MenuItems, G!Item
<1> QED
  BY <1>4, <1>5, <1>6, <1>7, <1>8, <1>9, <1>10, <1>11, <1>12

LEMMA NamesDiffer ==
  \A j, k \in 1..7 : G!Items[j].name = G!Items[k].name => j = k
<1> SUFFICES ASSUME NEW j \in 1..7, NEW k \in 1..7, G!Items[j].name = G!Items[k].name
             PROVE  j = k
  OBVIOUS
<1>0. k = 1 \/ k = 2 \/ k = 3 \/ k = 4 \/ k = 5 \/ k = 6 \/ k = 7
  OBVIOUS
<1>1. CASE j = 1
  BY <1>0, <1>1, ItemRows
<1>2. CASE j = 2
  BY <1>0, <1>2, ItemRows
<1>3. CASE j = 3
  BY <1>0, <1>3, ItemRows
<1>4. CASE j = 4
  BY <1>0, <1>4, ItemRows
<1>5. CASE j = 5
  BY <1>0, <1>5, ItemRows
<1>6. CASE j = 6
  BY <1>0, <1>6, ItemRows
<1>7. CASE j = 7
  BY <1>0, <1>7, ItemRows
<1> QED
  BY <1>1, <1>2, <1>3, <1>4, <1>5, <1>6, <1>7

(* A line reaches the one item of its name. *)
LEMMA LineApplied ==
  ASSUME NEW c, NEW line, NEW k \in 1..7, line[1] = G!Items[k].name
  PROVE  G!applyConfigLine(c, line) = G!readData(c, G!Items[k], line[2])
<1> DEFINE d == G!readData(c, G!Items[k], line[2])
           Turn(after) == [n \in 0..Len(G!Items) |->
                          IF n = 0 THEN c
                          ELSE IF G!Items[n].name = line[1]
                               THEN G!readData(after[n - 1], G!Items[n], line[2])
                          ELSE after[n - 1]]
           g == [n \in 0..7 |-> IF n < k THEN c ELSE d]
<1>0. Len(G!Items) = 7 /\ \A n \in 1..7 : G!Items[n].name = line[1] <=> n = k
  BY ItemRows, NamesDiffer
<1>1. PICK h : h = CHOOSE after : after = Turn(after)
  OBVIOUS
<1>2. G!applyConfigLine(c, line) = h[Len(G!Items)]
  BY <1>1, Zenon DEF G!applyConfigLine
<1>3. ASSUME NEW n \in 1..7 PROVE Turn(g)[n] = g[n]
  <2>1. CASE n = k
    <3>1. g[n - 1] = c /\ g[n] = d
      BY <2>1
    <3> HIDE DEF g
    <3> QED
      BY <1>0, <2>1, <3>1
  <2>2. CASE n # k
    <3>1. g[n - 1] = g[n]
      BY <2>2
    <3> HIDE DEF g
    <3> QED
      BY <1>0, <2>2, <3>1
  <2> QED
    BY <2>1, <2>2
<1>4. g = Turn(g)
  <2>1. Turn(g)[0] = g[0]
    BY <1>0
  <2>2. Turn(g) = [n \in 0..7 |-> Turn(g)[n]] /\ g = [n \in 0..7 |-> g[n]]
    BY <1>0
  <2> HIDE DEF Turn, g
  <2>3. \A n \in 0..7 : Turn(g)[n] = g[n]
    BY <1>3, <2>1
  <2> QED
    BY <2>2, <2>3
<1>5. h = Turn(h)
  <2> HIDE DEF Turn, g
  <2> QED
    BY <1>1, <1>4
<1>6. /\ h[0] = c
      /\ \A n \in 1..7 : h[n] = IF n = k THEN G!readData(h[n - 1], G!Items[n], line[2])
                                ELSE h[n - 1]
  BY <1>0, <1>5
<1> HIDE DEF Turn, g, d
<1>7. ASSUME NEW n \in 1..7, h[n - 1] = IF n - 1 < k THEN c ELSE d
      PROVE  h[n] = IF n < k THEN c ELSE d
  BY <1>6, <1>7 DEF d
<1>8. /\ h[1] = IF 1 < k THEN c ELSE d
  BY <1>6, <1>7
<1>9. h[2] = IF 2 < k THEN c ELSE d
  BY <1>7, <1>8
<1>10. h[3] = IF 3 < k THEN c ELSE d
  BY <1>7, <1>9
<1>11. h[4] = IF 4 < k THEN c ELSE d
  BY <1>7, <1>10
<1>12. h[5] = IF 5 < k THEN c ELSE d
  BY <1>7, <1>11
<1>13. h[6] = IF 6 < k THEN c ELSE d
  BY <1>7, <1>12
<1>14. h[7] = d
  BY <1>7, <1>13
<1> QED
  BY <1>0, <1>2, <1>14 DEF d

(* A line the card did not take reaches no item. *)
LEMMA NoLineApplied ==
  ASSUME NEW c, NEW line, line[1] = "none"
  PROVE  G!applyConfigLine(c, line) = c
<1> DEFINE Turn(after) == [n \in 0..Len(G!Items) |->
                          IF n = 0 THEN c
                          ELSE IF G!Items[n].name = line[1]
                               THEN G!readData(after[n - 1], G!Items[n], line[2])
                          ELSE after[n - 1]]
           g == [n \in 0..7 |-> c]
<1>0. Len(G!Items) = 7 /\ \A n \in 1..7 : G!Items[n].name # line[1]
  <2> SUFFICES ASSUME NEW n \in 1..7 PROVE G!Items[n].name # "none"
    BY ItemRows
  <2>1. n = 1 \/ n = 2 \/ n = 3 \/ n = 4 \/ n = 5 \/ n = 6 \/ n = 7
    OBVIOUS
  <2> QED
    BY <2>1, ItemRows
<1>1. PICK h : h = CHOOSE after : after = Turn(after)
  OBVIOUS
<1>2. G!applyConfigLine(c, line) = h[Len(G!Items)]
  BY <1>1, Zenon DEF G!applyConfigLine
<1>3. g = Turn(g)
  <2>1. \A n \in 0..7 : Turn(g)[n] = c
    BY <1>0
  <2>2. Turn(g) = [n \in 0..7 |-> Turn(g)[n]]
    BY <1>0
  <2> HIDE DEF Turn
  <2> QED
    BY <2>1, <2>2
<1>4. h = Turn(h)
  <2> HIDE DEF Turn, g
  <2> QED
    BY <1>1, <1>3
<1>5. h[0] = c /\ \A n \in 1..7 : h[n] = h[n - 1]
  BY <1>0, <1>4
<1> HIDE DEF Turn, g
<1>6. h[7] = c
  <2>1. /\ h[1] = h[0] /\ h[2] = h[1] /\ h[3] = h[2] /\ h[4] = h[3] /\ h[5] = h[4]
        /\ h[6] = h[5] /\ h[7] = h[6]
    BY <1>5
  <2> QED
    BY ONLY <1>5, <2>1
<1> QED
  BY <1>0, <1>2, <1>6

(* Seven lines are applied one after the other. *)
LEMMA LinesApplied ==
  ASSUME NEW f, Len(f) = 7, NEW c0, NEW c1, NEW c2, NEW c3, NEW c4, NEW c5, NEW c6, NEW c7,
         c1 = G!applyConfigLine(c0, f[1]), c2 = G!applyConfigLine(c1, f[2]),
         c3 = G!applyConfigLine(c2, f[3]), c4 = G!applyConfigLine(c3, f[4]),
         c5 = G!applyConfigLine(c4, f[5]), c6 = G!applyConfigLine(c5, f[6]),
         c7 = G!applyConfigLine(c6, f[7])
  PROVE  G!applyLines(c0, f) = c7
<1> DEFINE Turn(after) == [n \in 0..Len(f) |->
                          IF n = 0 THEN c0 ELSE G!applyConfigLine(after[n - 1], f[n])]
           g == [n \in 0..7 |-> IF n = 0 THEN c0 ELSE IF n = 1 THEN c1 ELSE IF n = 2 THEN c2
                                ELSE IF n = 3 THEN c3 ELSE IF n = 4 THEN c4
                                ELSE IF n = 5 THEN c5 ELSE IF n = 6 THEN c6 ELSE c7]
<1>1. PICK h : h = CHOOSE after : after = Turn(after)
  OBVIOUS
<1>2. G!applyLines(c0, f) = h[Len(f)]
  BY <1>1, Zenon DEF G!applyLines
<1>3. /\ g[0] = c0 /\ g[1] = c1 /\ g[2] = c2 /\ g[3] = c3 /\ g[4] = c4 /\ g[5] = c5
      /\ g[6] = c6 /\ g[7] = c7 /\ g = [n \in 0..7 |-> g[n]]
  OBVIOUS
<1> HIDE DEF g
<1>4. \A n \in 1..7 : g[n] = G!applyConfigLine(g[n - 1], f[n])
  <2> SUFFICES ASSUME NEW n \in 1..7 PROVE g[n] = G!applyConfigLine(g[n - 1], f[n])
    OBVIOUS
  <2>1. n = 1 \/ n = 2 \/ n = 3 \/ n = 4 \/ n = 5 \/ n = 6 \/ n = 7
    OBVIOUS
  <2> QED
    BY <1>3, <2>1
<1>5. g = Turn(g)
  BY <1>3, <1>4
<1>6. h = Turn(h)
  <2> HIDE DEF Turn
  <2> QED
    BY <1>1, <1>5
<1>7. h[0] = c0 /\ \A n \in 1..7 : h[n] = G!applyConfigLine(h[n - 1], f[n])
  BY <1>6
<1>8. h[1] = G!applyConfigLine(h[0], f[1]) /\ h[2] = G!applyConfigLine(h[1], f[2])
      /\ h[3] = G!applyConfigLine(h[2], f[3]) /\ h[4] = G!applyConfigLine(h[3], f[4])
      /\ h[5] = G!applyConfigLine(h[4], f[5]) /\ h[6] = G!applyConfigLine(h[5], f[6])
      /\ h[7] = G!applyConfigLine(h[6], f[7])
  BY <1>7
<1> HIDE DEF Turn
<1> QED
  BY <1>2, <1>7, <1>8

-----------------------------------------------------------------------------
Names == {"kernelParameter", "videoParameter", "currentMode", "enableDev9", "autoBootTime"}
Settings(c) == c = [x \in Names |-> c[x]]

(* A file with a line for every item, in their order, or none. *)
Named(f) == Tuple(f, 7) /\ \A j \in 1..7 : f[j][1] \in {G!Items[j].name, "none"}
Has(f, j) == f[j][1] # "none"

(* What a file says: for a variable with two items the later line. *)
Says(f, c) ==
  /\ Has(f, 1) => c["currentMode"] = f[1][2]
  /\ Has(f, 2) => c["kernelParameter"] = f[2][2]
  /\ Has(f, 3) => c["videoParameter"] = f[3][2]
  /\ Has(f, 4) /\ ~Has(f, 7) => c["autoBootTime"] = f[4][2]
  /\ Has(f, 5) /\ ~Has(f, 6) => c["enableDev9"] = f[5][2]
  /\ Has(f, 6) => c["enableDev9"] = f[6][2]
  /\ Has(f, 7) => c["autoBootTime"] = f[7][2]

Put(b, var, value) == [x \in Names |-> IF x = var THEN value ELSE b[x]]

LEMMA ReadPlain ==
  ASSUME NEW c, Settings(c), NEW item, item.var \in Names, item.kind # "video", NEW value
  PROVE  G!readData(c, item, value) = Put(c, item.var, value)
BY DEF G!readData, Settings, Put

LEMMA ReadVideo ==
  ASSUME NEW c, Settings(c), NEW item, item.var = "currentMode", item.kind = "video", NEW value
  PROVE  G!readData(c, item, value) =
           Put(Put(c, "currentMode", value), "videoParameter", G!setDefaultVideoParameter(value))
BY DEF G!readData, Settings, Names, Put

LEMMA PutSettings == \A b, var, value : Settings(Put(b, var, value))
BY DEF Settings, Put

(* The parameter of the user is read after the mode that sets a default. *)
LEMMA FileRead ==
  ASSUME NEW c, Settings(c), NEW f, Named(f)
  PROVE  Settings(G!applyLines(c, f)) /\ Says(f, G!applyLines(c, f))
<1> DEFINE To(b, k, var) == IF Has(f, k) THEN Put(b, var, f[k][2]) ELSE b
           v1 == Put(Put(c, "currentMode", f[1][2]), "videoParameter",
                     G!setDefaultVideoParameter(f[1][2]))
           c1 == IF Has(f, 1) THEN v1 ELSE c
           c2 == To(c1, 2, "kernelParameter")
           c3 == To(c2, 3, "videoParameter")
           c4 == To(c3, 4, "autoBootTime")
           c5 == To(c4, 5, "enableDev9")
           c6 == To(c5, 6, "enableDev9")
           c7 == To(c6, 7, "autoBootTime")
<1>t. ASSUME NEW b, Settings(b), NEW k, NEW var, var \in Names
      PROVE  /\ Settings(To(b, k, var))
             /\ Has(f, k) => To(b, k, var)[var] = f[k][2]
             /\ ~Has(f, k) => To(b, k, var)[var] = b[var]
             /\ \A x \in Names : x # var => To(b, k, var)[x] = b[x]
  <2>1. CASE Has(f, k)
    BY <1>t, <2>1, PutSettings DEF Put
  <2>2. CASE ~Has(f, k)
    BY <1>t, <2>2
  <2> QED
    BY <2>1, <2>2
<1>v. /\ "kernelParameter" \in Names /\ "videoParameter" \in Names /\ "autoBootTime" \in Names
      /\ "enableDev9" \in Names /\ "currentMode" \in Names
  BY DEF Names
<1>1. Settings(c1) /\ (Has(f, 1) => c1["currentMode"] = f[1][2])
  <2>1. Settings(v1) /\ v1["currentMode"] = f[1][2]
    BY PutSettings, <1>v DEF Put
  <2> HIDE DEF v1
  <2> QED
    BY <2>1
<1>4. ASSUME NEW b, NEW k \in 1..7
      PROVE  G!applyConfigLine(b, f[k]) =
               IF Has(f, k) THEN G!readData(b, G!Items[k], f[k][2]) ELSE b
  <2>1. CASE Has(f, k)
    <3>1. f[k][1] = G!Items[k].name
      BY <2>1 DEF Named, Has
    <3> QED
      BY <2>1, <3>1, LineApplied
  <2>2. CASE ~Has(f, k)
    BY <2>2, NoLineApplied DEF Has
  <2> QED
    BY <2>1, <2>2
<1>5. ASSUME NEW b, Settings(b), NEW k \in 1..7, G!Items[k].var \in Names,
             G!Items[k].kind # "video"
      PROVE  G!applyConfigLine(b, f[k]) = To(b, k, G!Items[k].var)
  BY <1>4, <1>5, ReadPlain
<1>6. c1 = G!applyConfigLine(c, f[1])
  <2>1. G!Items[1].var = "currentMode" /\ G!Items[1].kind = "video"
    BY ItemRows
  <2>2. v1 = G!readData(c, G!Items[1], f[1][2])
    BY <2>1, ReadVideo, Zenon
  <2>3. 1 \in 1..7
    OBVIOUS
  <2> HIDE DEF v1
  <2> QED
    BY <1>4, <2>2, <2>3
<1>i. /\ G!Items[2].var = "kernelParameter" /\ G!Items[2].kind # "video"
      /\ G!Items[3].var = "videoParameter" /\ G!Items[3].kind # "video"
      /\ G!Items[4].var = "autoBootTime" /\ G!Items[4].kind # "video"
      /\ G!Items[5].var = "enableDev9" /\ G!Items[5].kind # "video"
      /\ G!Items[6].var = "enableDev9" /\ G!Items[6].kind # "video"
      /\ G!Items[7].var = "autoBootTime" /\ G!Items[7].kind # "video"
  BY ItemRows
<1>k. 2 \in 1..7 /\ 3 \in 1..7 /\ 4 \in 1..7 /\ 5 \in 1..7 /\ 6 \in 1..7 /\ 7 \in 1..7
  OBVIOUS
<1> HIDE DEF To, c1, c2, c3, c4, c5, c6, c7
<1>s2. Settings(c2)
  BY <1>1, <1>t, <1>v, Zenon DEF c2
<1>s3. Settings(c3)
  BY <1>s2, <1>t, <1>v, Zenon DEF c3
<1>s4. Settings(c4)
  BY <1>s3, <1>t, <1>v, Zenon DEF c4
<1>s5. Settings(c5)
  BY <1>s4, <1>t, <1>v, Zenon DEF c5
<1>s6. Settings(c6)
  BY <1>s5, <1>t, <1>v, Zenon DEF c6
<1>s7. Settings(c7)
  BY <1>s6, <1>t, <1>v, Zenon DEF c7
<1>7. /\ c2 = G!applyConfigLine(c1, f[2]) /\ c3 = G!applyConfigLine(c2, f[3])
      /\ c4 = G!applyConfigLine(c3, f[4]) /\ c5 = G!applyConfigLine(c4, f[5])
      /\ c6 = G!applyConfigLine(c5, f[6]) /\ c7 = G!applyConfigLine(c6, f[7])
  <2>2. c2 = G!applyConfigLine(c1, f[2])
    BY <1>1, <1>5, <1>i, <1>k, <1>v DEF c2
  <2>3. c3 = G!applyConfigLine(c2, f[3])
    BY <1>s2, <1>5, <1>i, <1>k, <1>v DEF c3
  <2>4. c4 = G!applyConfigLine(c3, f[4])
    BY <1>s3, <1>5, <1>i, <1>k, <1>v DEF c4
  <2>5. c5 = G!applyConfigLine(c4, f[5])
    BY <1>s4, <1>5, <1>i, <1>k, <1>v DEF c5
  <2>6. c6 = G!applyConfigLine(c5, f[6])
    BY <1>s5, <1>5, <1>i, <1>k, <1>v DEF c6
  <2>7. c7 = G!applyConfigLine(c6, f[7])
    BY <1>s6, <1>5, <1>i, <1>k, <1>v DEF c7
  <2> QED
    BY <2>2, <2>3, <2>4, <2>5, <2>6, <2>7
<1>8. G!applyLines(c, f) = c7
  <2>1. Len(f) = 7
    BY TupleLen, 7 \in Nat DEF Named
  <2> QED
    BY <1>6, <1>7, <2>1, LinesApplied
<1>9. Says(f, c7)
  <2>2. /\ Has(f, 2) => c2["kernelParameter"] = f[2][2]
        /\ \A x \in Names : x # "kernelParameter" => c2[x] = c1[x]
    BY <1>1, <1>t, <1>v DEF c2
  <2>3. /\ Has(f, 3) => c3["videoParameter"] = f[3][2]
        /\ \A x \in Names : x # "videoParameter" => c3[x] = c2[x]
    BY <1>s2, <1>t, <1>v DEF c3
  <2>4. /\ Has(f, 4) => c4["autoBootTime"] = f[4][2]
        /\ \A x \in Names : x # "autoBootTime" => c4[x] = c3[x]
    BY <1>s3, <1>t, <1>v DEF c4
  <2>5. /\ Has(f, 5) => c5["enableDev9"] = f[5][2]
        /\ \A x \in Names : x # "enableDev9" => c5[x] = c4[x]
    BY <1>s4, <1>t, <1>v DEF c5
  <2>6. /\ Has(f, 6) => c6["enableDev9"] = f[6][2]
        /\ ~Has(f, 6) => c6["enableDev9"] = c5["enableDev9"]
        /\ \A x \in Names : x # "enableDev9" => c6[x] = c5[x]
    BY <1>s5, <1>t, <1>v DEF c6
  <2>7. /\ Has(f, 7) => c7["autoBootTime"] = f[7][2]
        /\ ~Has(f, 7) => c7["autoBootTime"] = c6["autoBootTime"]
        /\ \A x \in Names : x # "autoBootTime" => c7[x] = c6[x]
    BY <1>s6, <1>t, <1>v DEF c7
  <2>8. /\ c7["currentMode"] = c1["currentMode"] /\ c7["kernelParameter"] = c2["kernelParameter"]
        /\ c7["videoParameter"] = c3["videoParameter"] /\ c6["autoBootTime"] = c4["autoBootTime"]
        /\ c7["enableDev9"] = c6["enableDev9"]
    BY <1>v, <2>2, <2>3, <2>4, <2>5, <2>6, <2>7
  <2> QED
    BY <1>1, <2>2, <2>3, <2>4, <2>5, <2>6, <2>7, <2>8 DEF Says
<1> QED
  BY <1>8, <1>9, <1>s7

-----------------------------------------------------------------------------
(* The file is the one saved as far as the card took it, unless a line of it     *)
(* was edited.                                                                   *)
FileSays ==
  file # <<>> =>
    /\ Named(file)
    /\ edited = <<>> =>
         /\ \A j \in 1..whole : file[j] = G!Line(G!Items[j], saved)
         /\ \A j \in 1..7 : j > whole /\ Has(file, j) => cutVar = G!Items[j].var

ConfigInv == Settings(cfCfg) /\ Settings(saved) /\ whole \in 0..7 /\ FileSays /\ G!RoundTrip

LEMMA ConfigInitInv == G!Init => ConfigInv
<1> SUFFICES ASSUME G!Init PROVE ConfigInv
  OBVIOUS
<1>1. PICK mode \in G!Modes :
        cfCfg = [kernelParameter |-> "ramdisk_size=16384", currentMode |-> mode, enableDev9 |-> 1,
                 videoParameter |-> G!setDefaultVideoParameter(mode), autoBootTime |-> 0]
  BY DEF G!Init
<1>2. Settings(cfCfg)
  BY <1>1 DEF Settings, Names
<1>3. file = <<>> /\ saved = cfCfg /\ whole = 0 /\ loaded = FALSE
  BY DEF G!Init
<1> QED
  BY <1>2, <1>3 DEF ConfigInv, FileSays, G!RoundTrip

LEMMA SettingsChanged ==
  ASSUME ConfigInv, G!Change \/ G!setDefaultConfiguration
  PROVE  ConfigInv'
<1>1. Settings(cfCfg')
  <2>1. CASE G!Change
    <3>1. PICK v \in DOMAIN cfCfg : \E x \in G!Values[v] : cfCfg' = [cfCfg EXCEPT ![v] = x]
      BY <2>1 DEF G!Change
    <3>2. PICK x : cfCfg' = [cfCfg EXCEPT ![v] = x]
      BY <3>1
    <3> QED
      BY <3>2 DEF ConfigInv, Settings
  <2>2. CASE G!setDefaultConfiguration
    BY <2>2 DEF G!setDefaultConfiguration, ConfigInv, Settings
  <2> QED
    BY <2>1, <2>2
<1>2. loaded' = FALSE /\ UNCHANGED <<file, saved, whole, cutVar, edited>>
  BY DEF G!Change, G!setDefaultConfiguration
<1> QED
  BY <1>1, <1>2 DEF ConfigInv, FileSays, G!RoundTrip, Settings, Named, Tuple, Has

LEMMA FileSaved == ASSUME ConfigInv, G!saveConfiguration PROVE ConfigInv'
<1>0. DOMAIN G!Items = 1..7 /\ Len(G!Items) = 7
  BY ItemRows DEF Tuple
<1>1. /\ saved' = cfCfg /\ cfCfg' = cfCfg /\ loaded' = FALSE
  BY DEF G!saveConfiguration
<1>2. PICK n \in 0..7 :
        /\ whole' = n
        /\ \/ file' = G!Written(n, cfCfg)
           \/ /\ n < 7 /\ cutVar' = G!Items[n + 1].var
              /\ \E x \in G!CutValues(G!Items[n + 1]) :
                   file' = [G!Written(n, cfCfg) EXCEPT ![n + 1] = <<G!Items[n + 1].name, x>>]
  BY <1>0 DEF G!saveConfiguration
<1>3. PICK w : w = G!Written(n, cfCfg)
  OBVIOUS
<1>4. /\ Tuple(w, 7)
      /\ \A j \in 1..7 : w[j] = IF j <= n THEN G!Line(G!Items[j], cfCfg) ELSE <<"none", "none">>
  BY <1>0, <1>3 DEF G!Written, G!NoLine, Tuple
<1>5. /\ Named(w) /\ \A j \in 1..n : w[j] = G!Line(G!Items[j], cfCfg)
      /\ \A j \in 1..7 : j > n => ~Has(w, j)
  <2>1. \A j \in 1..7 : w[j][1] \in {G!Items[j].name, "none"}
    BY <1>4 DEF G!Line
  <2>2. \A j \in 1..n : w[j] = G!Line(G!Items[j], cfCfg)
    BY <1>4
  <2>3. \A j \in 1..7 : j > n => ~Has(w, j)
    BY <1>4 DEF Has
  <2> QED
    BY <1>4, <2>1, <2>2, <2>3 DEF Named
<1>6. CASE file' = w
  <2>1. Named(file') /\ (\A j \in 1..n : file'[j] = G!Line(G!Items[j], saved'))
        /\ \A j \in 1..7 : j > n => ~Has(file', j)
    BY <1>1, <1>5, <1>6
  <2>2. FileSays'
    BY <1>2, <2>1 DEF FileSays, Named, Has, Tuple, G!Line
  <2> QED
    BY <1>1, <1>2, <2>2 DEF ConfigInv, G!RoundTrip, Settings
<1>7. CASE /\ n < 7 /\ cutVar' = G!Items[n + 1].var
           /\ \E x \in G!CutValues(G!Items[n + 1]) :
                file' = [w EXCEPT ![n + 1] = <<G!Items[n + 1].name, x>>]
  <2>1. PICK x : file' = [w EXCEPT ![n + 1] = <<G!Items[n + 1].name, x>>]
    BY <1>7
  <2>2. n + 1 \in 1..7
    BY <1>7
  <2>3. Tuple(file', 7) /\ file'[n + 1] = <<G!Items[n + 1].name, x>>
        /\ \A j \in 1..7 : j # n + 1 => file'[j] = w[j]
    BY <1>4, <2>1, <2>2 DEF Tuple
  <2>4. file'[n + 1][1] = G!Items[n + 1].name
    BY <2>3
  <2>5. Named(file')
    BY <1>5, <2>3, <2>4 DEF Named
  <2>6. \A j \in 1..n : file'[j] = G!Line(G!Items[j], saved')
    <3>1. \A j \in 1..n : j \in 1..7 /\ j # n + 1
      OBVIOUS
    <3> QED
      BY <1>1, <1>5, <2>3, <3>1
  <2>7. \A j \in 1..7 : j > n /\ Has(file', j) => cutVar' = G!Items[j].var
    <3>1. \A j \in 1..7 : j > n /\ j # n + 1 => ~Has(file', j)
      BY <1>5, <2>3 DEF Has
    <3> QED
      BY <1>7, <3>1
  <2>8. FileSays'
    BY <1>2, <2>5, <2>6, <2>7 DEF FileSays, Named, Has, Tuple, G!Line
  <2> QED
    BY <1>1, <1>2, <2>8 DEF ConfigInv, G!RoundTrip, Settings
<1> QED
  BY <1>2, <1>3, <1>6, <1>7

LEMMA FileEdited == ASSUME ConfigInv, G!HandEdit PROVE ConfigInv'
<1>1. /\ file # <<>> /\ cfCfg' = cfCfg /\ saved' = saved /\ whole' = whole /\ loaded' = FALSE
  BY DEF G!HandEdit
<1>2. Named(file) /\ DOMAIN file = 1..7
  BY <1>1 DEF ConfigInv, FileSays, Named, Tuple
<1>3. PICK j \in 1..7 : \E x : /\ file' = [file EXCEPT ![j] = <<file[j][1], x>>]
                               /\ edited' = file'[j]
  BY <1>2 DEF G!HandEdit
<1>4. PICK x : file' = [file EXCEPT ![j] = <<file[j][1], x>>] /\ edited' = file'[j]
  BY <1>3
<1>5. Named(file)'
  BY <1>2, <1>4 DEF Named, Tuple
<1>6. edited' # <<>>
  BY <1>2, <1>4
<1> QED
  BY <1>1, <1>5, <1>6 DEF ConfigInv, FileSays, G!RoundTrip, Settings

LEMMA FileLoaded == ASSUME ConfigInv, G!loadConfiguration PROVE ConfigInv'
<1>1. /\ file # <<>> /\ cfCfg' = G!applyLines(cfCfg, file)
      /\ UNCHANGED <<file, saved, whole, cutVar, edited>>
  BY DEF G!loadConfiguration
<1>2. Settings(cfCfg') /\ Says(file, cfCfg')
  BY <1>1, FileRead DEF ConfigInv, FileSays
<1>3. ASSUME edited = <<>>, NEW n \in 1..whole, G!Items[n].var # cutVar
      PROVE  cfCfg'[G!Items[n].var] = saved[G!Items[n].var]
  <2>1. whole \in 0..7 /\ n \in 1..7
    BY DEF ConfigInv
  <2>2. \A j \in 1..whole : file[j] = G!Line(G!Items[j], saved)
    BY <1>1, <1>3 DEF ConfigInv, FileSays
  <2>3. \A j \in 1..7 : j > whole /\ Has(file, j) => cutVar = G!Items[j].var
    BY <1>1, <1>3 DEF ConfigInv, FileSays
  <2>4. \A j \in 1..7 : G!Items[j].name # "none"
    <3> SUFFICES ASSUME NEW j \in 1..7 PROVE G!Items[j].name # "none"
      OBVIOUS
    <3>1. j = 1 \/ j = 2 \/ j = 3 \/ j = 4 \/ j = 5 \/ j = 6 \/ j = 7
      OBVIOUS
    <3> QED
      BY <3>1, ItemRows
  <2>5. \A j \in 1..whole : Has(file, j) /\ file[j][2] = saved[G!Items[j].var]
    <3>1. \A j \in 1..whole : j \in 1..7
      BY <2>1
    <3> QED
      BY <2>2, <2>4, <3>1 DEF Has, G!Line
  <2>6. \A j \in 1..7 : Has(file, j) /\ cutVar # G!Items[j].var => file[j][2] = saved[G!Items[j].var]
    BY <2>1, <2>3, <2>5
  <2>7. Has(file, n) /\ file[n][2] = saved[G!Items[n].var]
    BY <2>5
  <2>8. G!Items[1].var = "currentMode" /\ G!Items[2].var = "kernelParameter"
        /\ G!Items[3].var = "videoParameter" /\ G!Items[4].var = "autoBootTime"
        /\ G!Items[5].var = "enableDev9" /\ G!Items[6].var = "enableDev9"
        /\ G!Items[7].var = "autoBootTime"
    BY ItemRows
  <2>9. CASE n = 1
    BY <1>2, <2>7, <2>8, <2>9 DEF Says
  <2>10. CASE n = 2
    BY <1>2, <2>7, <2>8, <2>10 DEF Says
  <2>11. CASE n = 3
    BY <1>2, <2>7, <2>8, <2>11 DEF Says
  <2>12. CASE n = 4
    <3>1. cutVar # G!Items[7].var
      BY <1>3, <2>8, <2>12
    <3>2. CASE Has(file, 7)
      <4>1. file[7][2] = saved[G!Items[7].var]
        BY <2>6, <3>1, <3>2
      <4> QED
        BY <1>2, <2>8, <2>12, <3>2, <4>1 DEF Says
    <3>3. CASE ~Has(file, 7)
      BY <1>2, <2>7, <2>8, <2>12, <3>3 DEF Says
    <3> QED
      BY <3>2, <3>3
  <2>13. CASE n = 5
    <3>1. cutVar # G!Items[6].var
      BY <1>3, <2>8, <2>13
    <3>2. CASE Has(file, 6)
      <4>1. file[6][2] = saved[G!Items[6].var]
        BY <2>6, <3>1, <3>2
      <4> QED
        BY <1>2, <2>8, <2>13, <3>2, <4>1 DEF Says
    <3>3. CASE ~Has(file, 6)
      BY <1>2, <2>7, <2>8, <2>13, <3>3 DEF Says
    <3> QED
      BY <3>2, <3>3
  <2>14. CASE n = 6
    BY <1>2, <2>7, <2>8, <2>14 DEF Says
  <2>15. CASE n = 7
    BY <1>2, <2>7, <2>8, <2>15 DEF Says
  <2>16. n = 1 \/ n = 2 \/ n = 3 \/ n = 4 \/ n = 5 \/ n = 6 \/ n = 7
    BY <2>1
  <2> QED
    BY <2>9, <2>10, <2>11, <2>12, <2>13, <2>14, <2>15, <2>16
<1>4. G!RoundTrip'
  BY <1>1, <1>3 DEF G!RoundTrip
<1>5. FileSays'
  BY <1>1 DEF ConfigInv, FileSays, Named, Tuple, Has, G!Line
<1> QED
  BY <1>1, <1>2, <1>4, <1>5 DEF ConfigInv, Settings

LEMMA ConfigNextInv == ConfigInv /\ [G!Next]_configvars => ConfigInv'
<1>1. ASSUME ConfigInv, UNCHANGED configvars PROVE ConfigInv'
  BY <1>1 DEF configvars, ConfigInv, FileSays, G!RoundTrip, Settings, Named, Tuple, Has, G!Line
<1> QED
  BY <1>1, SettingsChanged, FileSaved, FileEdited, FileLoaded DEF G!Next

-----------------------------------------------------------------------------
(* Bootlog *)

Rings == [lines : [0..(BootlogLines - 1) -> Seq(STRING)], first : 0..(BootlogLines - 1),
          count : 0..BootlogLines, partial : 0..BootlogCols]

(* The line that has n - 1 newer ones. *)
Newest(r, n) == r.lines[L!Slot(r.first + (r.count - n))]

LEMMA RingSlot ==
  ASSUME NEW a \in Nat, a < BootlogLines + BootlogLines
  PROVE  L!Slot(a) = IF a < BootlogLines THEN a ELSE a - BootlogLines
<1>1. BootlogLines \in Nat /\ BootlogLines > 0
  BY LogAssumption
<1>2. CASE a < BootlogLines
  BY <1>1, <1>2 DEF L!Slot
<1>3. CASE a >= BootlogLines
  <2>1. a - BootlogLines \in 0..(BootlogLines - 1)
    BY <1>1, <1>3
  <2>2. a = 1 * BootlogLines + (a - BootlogLines)
    BY <1>1
  <2>3. a % BootlogLines = a - BootlogLines
    BY <1>1, <2>1, <2>2
  <2> QED
    BY <1>1, <1>3, <2>3 DEF L!Slot
<1> QED
  BY <1>1, <1>2, <1>3

(* Where the line with n - 1 newer ones is. *)
Place(f, k, n) == IF f + k - n < BootlogLines THEN f + k - n ELSE f + k - n - BootlogLines

LEMMA Places7 ==
  ASSUME NEW f \in 0..(BootlogLines - 1), NEW k \in 0..BootlogLines, NEW n \in 0..k,
         f + k - n < BootlogLines + BootlogLines
  PROVE  /\ L!Slot(f + (k - n)) = Place(f, k, n)
         /\ Place(f, k, n) \in 0..(BootlogLines - 1)
<1>1. f + (k - n) \in Nat /\ f + (k - n) = f + k - n /\ BootlogLines \in Nat
  BY LogAssumption
<1>2. L!Slot(f + (k - n)) = IF f + (k - n) < BootlogLines THEN f + (k - n) ELSE f + (k - n) - BootlogLines
  BY <1>1, RingSlot
<1>3. L!Slot(f + (k - n)) = Place(f, k, n)
  BY <1>1, <1>2 DEF Place
<1> QED
  BY <1>1, <1>3 DEF Place

LEMMA RingField ==
  ASSUME NEW r \in Rings
  PROVE  /\ r.lines \in [0..(BootlogLines - 1) -> Seq(STRING)] /\ r.first \in 0..(BootlogLines - 1)
         /\ r.count \in 0..BootlogLines /\ r.partial \in 0..BootlogCols
         /\ r = [lines |-> r.lines, first |-> r.first, count |-> r.count, partial |-> r.partial]
BY DEF Rings

(* The fields of a ring, named. *)
Ring(ls, f, k, p) == [lines |-> ls, first |-> f, count |-> k, partial |-> p]

LEMMA RingFields ==
  ASSUME NEW ls, NEW f, NEW k, NEW p
  PROVE  /\ Ring(ls, f, k, p).lines = ls /\ Ring(ls, f, k, p).first = f
         /\ Ring(ls, f, k, p).count = k /\ Ring(ls, f, k, p).partial = p
         /\ ls \in [0..(BootlogLines - 1) -> Seq(STRING)] /\ f \in 0..(BootlogLines - 1)
              /\ k \in 0..BootlogLines /\ p \in 0..BootlogCols
            => Ring(ls, f, k, p) \in Rings
BY DEF Ring, Rings

LEMMA StartPlain ==
  ASSUME NEW ls \in [0..(BootlogLines - 1) -> Seq(STRING)], NEW f, NEW k, NEW p
  PROVE  /\ k < BootlogLines =>
              L!startLine(Ring(ls, f, k, p)) = Ring([ls EXCEPT ![L!Slot(f + k)] = <<>>], f, k + 1, 0)
         /\ ~(k < BootlogLines) =>
              L!startLine(Ring(ls, f, k, p)) = Ring([ls EXCEPT ![f] = <<>>], L!Slot(f + 1), k, 0)
BY DEF L!startLine, Ring

LEMMA NewestPlain ==
  ASSUME NEW ls, NEW f \in 0..(BootlogLines - 1), NEW k \in 0..BootlogLines, NEW p, NEW n \in 1..k
  PROVE  /\ Newest(Ring(ls, f, k, p), n) = ls[Place(f, k, n)]
         /\ Place(f, k, n) \in 0..(BootlogLines - 1)
<1>1. n \in 0..k /\ f + k - n < BootlogLines + BootlogLines
  BY LogAssumption
<1>2. L!Slot(f + (k - n)) = Place(f, k, n) /\ Place(f, k, n) \in 0..(BootlogLines - 1)
  BY <1>1, Places7
<1>3. Newest(Ring(ls, f, k, p), n) = ls[L!Slot(f + (k - n))]
  BY DEF Newest, Ring
<1> QED
  BY <1>2, <1>3, Zenon

(* A new line is empty, and every line but the oldest of a full ring stays. *)
LEMMA LineStarted ==
  ASSUME NEW r \in Rings
  PROVE  LET q == L!startLine(r)
         IN /\ q \in Rings /\ q.partial = 0
            /\ q.count = IF r.count < BootlogLines THEN r.count + 1 ELSE BootlogLines
            /\ Newest(q, 1) = <<>>
            /\ \A n \in 1..r.count : n + 1 <= BootlogLines => Newest(q, n + 1) = Newest(r, n)
<1>0. BootlogLines \in Nat /\ BootlogLines > 0 /\ BootlogCols \in Nat
  BY LogAssumption
<1>t. PICK ls, f, k, p :
        /\ ls \in [0..(BootlogLines - 1) -> Seq(STRING)] /\ f \in 0..(BootlogLines - 1)
        /\ k \in 0..BootlogLines /\ p \in 0..BootlogCols /\ r = Ring(ls, f, k, p)
  BY DEF Rings, Ring
<1>1. r = Ring(ls, f, k, p)
  BY <1>t
<1>s. f \in 0..(BootlogLines - 1) /\ k \in 0..BootlogLines
  BY <1>t
<1> USE <1>t
<1>e. <<>> \in Seq(STRING) /\ 0 \in 0..BootlogCols
  BY <1>0
<1>k. r.count = k
  BY <1>1, RingFields
<1>2. CASE k < BootlogLines
  <2>1. PICK a : a = Place(f, k, 0)
    OBVIOUS
  <2>2. L!Slot(f + k) = a /\ a \in 0..(BootlogLines - 1)
    <3>1. f + (k - 0) = f + k /\ 0 \in 0..k /\ f + k - 0 < BootlogLines + BootlogLines
      BY <1>0, <1>2
    <3>2. L!Slot(f + (k - 0)) = Place(f, k, 0) /\ Place(f, k, 0) \in 0..(BootlogLines - 1)
      BY <3>1, Places7
    <3> QED
      BY <2>1, <3>1, <3>2, Zenon
  <2>3. PICK es : es = [ls EXCEPT ![a] = <<>>]
    OBVIOUS
  <2>4. L!startLine(r) = Ring(es, f, k + 1, 0)
    <3>1. L!startLine(Ring(ls, f, k, p)) = Ring([ls EXCEPT ![L!Slot(f + k)] = <<>>], f, k + 1, 0)
      BY <1>2, StartPlain
    <3> QED
      BY <1>1, <2>2, <2>3, <3>1, Zenon
  <2>5. es \in [0..(BootlogLines - 1) -> Seq(STRING)] /\ k + 1 \in 1..BootlogLines
    BY <1>0, <1>2, <1>e, <2>2, <2>3
  <2>6. /\ Ring(es, f, k + 1, 0) \in Rings
        /\ Ring(es, f, k + 1, 0).count = k + 1 /\ Ring(es, f, k + 1, 0).partial = 0
    <3>1. k + 1 \in 0..BootlogLines
      BY <2>5
    <3> QED
      BY <1>e, <2>5, <3>1, RingFields
  <2>7. Newest(Ring(es, f, k + 1, 0), 1) = <<>>
    <3>1. Newest(Ring(es, f, k + 1, 0), 1) = es[Place(f, k + 1, 1)]
      <4>1. k + 1 \in 0..BootlogLines /\ 1 \in 1..(k + 1)
        BY <2>5
      <4> QED
        BY <4>1, NewestPlain
    <3>2. Place(f, k + 1, 1) = a
      BY <1>0, <2>1 DEF Place
    <3> QED
      BY <2>2, <2>3, <3>1, <3>2
  <2>8. ASSUME NEW n \in 1..k
        PROVE  Newest(Ring(es, f, k + 1, 0), n + 1) = Newest(r, n)
    <3>1. Newest(Ring(es, f, k + 1, 0), n + 1) = es[Place(f, k + 1, n + 1)]
      <4>1. k + 1 \in 0..BootlogLines /\ n + 1 \in 1..(k + 1)
        BY <2>5
      <4> QED
        BY <4>1, NewestPlain
    <3>2. Newest(r, n) = ls[Place(f, k, n)] /\ Place(f, k, n) \in 0..(BootlogLines - 1)
      <4>n. n \in 1..k
        OBVIOUS
      <4>1. Newest(Ring(ls, f, k, p), n) = ls[Place(f, k, n)]
        BY ONLY <1>s, <4>n, NewestPlain
      <4>2. Place(f, k, n) \in 0..(BootlogLines - 1)
        BY <1>0 DEF Place
      <4> QED
        BY <1>1, <4>1, <4>2, Zenon
    <3>3. Place(f, k + 1, n + 1) = Place(f, k, n) /\ Place(f, k, n) # a
      BY <1>0, <1>2, <2>1 DEF Place
    <3> QED
      BY <2>2, <2>3, <3>1, <3>2, <3>3
  <2> QED
    BY <1>2, <1>k, <2>4, <2>6, <2>7, <2>8
<1>3. CASE ~(k < BootlogLines)
  <2>0. k = BootlogLines
    BY <1>0, <1>3
  <2>1. PICK g : g = IF f + 1 < BootlogLines THEN f + 1 ELSE 0
    OBVIOUS
  <2>2. L!Slot(f + 1) = g /\ g \in 0..(BootlogLines - 1)
    <3>1. PICK h \in Nat : h = f + 1
      OBVIOUS
    <3>2. h < BootlogLines + BootlogLines
      BY <1>0, <3>1
    <3>3. L!Slot(h) = IF h < BootlogLines THEN h ELSE h - BootlogLines
      BY <3>2, RingSlot
    <3>4. (h < BootlogLines => g = h) /\ (~(h < BootlogLines) => g = h - BootlogLines)
      BY <1>0, <2>1, <3>1
    <3>5. g \in 0..(BootlogLines - 1)
      BY <1>0, <2>1
    <3>6. L!Slot(h) = g
      BY <3>3, <3>4
    <3> QED
      BY <3>1, <3>5, <3>6, Zenon
  <2>3. PICK es : es = [ls EXCEPT ![f] = <<>>]
    OBVIOUS
  <2>4. L!startLine(r) = Ring(es, g, k, 0)
    <3>1. L!startLine(Ring(ls, f, k, p)) = Ring([ls EXCEPT ![f] = <<>>], L!Slot(f + 1), k, 0)
      BY <1>3, StartPlain
    <3> QED
      BY <1>1, <2>2, <2>3, <3>1, Zenon
  <2>5. es \in [0..(BootlogLines - 1) -> Seq(STRING)]
    BY <1>e, <2>3
  <2>6. /\ Ring(es, g, k, 0) \in Rings
        /\ Ring(es, g, k, 0).count = k /\ Ring(es, g, k, 0).partial = 0
    BY <1>e, <2>2, <2>5, RingFields
  <2>7. Newest(Ring(es, g, k, 0), 1) = <<>>
    <3>1. Newest(Ring(es, g, k, 0), 1) = es[Place(g, k, 1)]
      <4>1. 1 \in 1..k
        BY <1>0, <2>0
      <4> QED
        BY <2>2, <4>1, NewestPlain
    <3>2. Place(g, k, 1) = f
      BY <1>0, <2>0, <2>1 DEF Place
    <3> QED
      BY <2>3, <3>1, <3>2
  <2>8. ASSUME NEW n \in 1..k, n + 1 <= BootlogLines
        PROVE  Newest(Ring(es, g, k, 0), n + 1) = Newest(r, n)
    <3>1. Newest(Ring(es, g, k, 0), n + 1) = es[Place(g, k, n + 1)]
      <4>1. n + 1 \in 1..k
        BY <1>0, <2>0, <2>8
      <4> QED
        BY <2>2, <4>1, NewestPlain
    <3>2. Newest(r, n) = ls[Place(f, k, n)] /\ Place(f, k, n) \in 0..(BootlogLines - 1)
      <4>n. n \in 1..k
        OBVIOUS
      <4>1. Newest(Ring(ls, f, k, p), n) = ls[Place(f, k, n)]
        BY ONLY <1>s, <4>n, NewestPlain
      <4>2. Place(f, k, n) \in 0..(BootlogLines - 1)
        BY <1>0 DEF Place
      <4> QED
        BY <1>1, <4>1, <4>2, Zenon
    <3>3. Place(g, k, n + 1) = Place(f, k, n) /\ Place(f, k, n) # f
      BY <1>0, <2>0, <2>1, <2>8 DEF Place
    <3> QED
      BY <2>3, <3>1, <3>2, <3>3
  <2> QED
    BY <1>3, <1>k, <2>0, <2>4, <2>6, <2>7, <2>8
<1> QED
  BY <1>2, <1>3

(* A character goes to the end of the newest line while there is room for it. *)
LEMMA CharAppended ==
  ASSUME NEW r \in Rings, r.count # 0, NEW c \in STRING
  PROVE  LET q == L!appendChar(r, c)
         IN /\ q \in Rings /\ q.count = r.count
            /\ \A n \in 2..r.count : Newest(q, n) = Newest(r, n)
            /\ r.partial < BootlogCols - 1 =>
                 q.partial = r.partial + 1 /\ Newest(q, 1) = Append(Newest(r, 1), c)
            /\ ~(r.partial < BootlogCols - 1) => q = r
<1>0. BootlogLines \in Nat /\ BootlogLines > 0 /\ BootlogCols \in Nat
  BY LogAssumption
<1>t. PICK ls, f, k, p :
        /\ ls \in [0..(BootlogLines - 1) -> Seq(STRING)] /\ f \in 0..(BootlogLines - 1)
        /\ k \in 0..BootlogLines /\ p \in 0..BootlogCols /\ r = Ring(ls, f, k, p)
  BY DEF Rings, Ring
<1>1. r = Ring(ls, f, k, p)
  BY <1>t
<1>s. f \in 0..(BootlogLines - 1) /\ k \in 0..BootlogLines
  BY <1>t
<1> USE <1>t
<1>k. r.count = k /\ r.partial = p /\ k # 0 /\ k >= 1
  BY <1>1, RingFields
<1>2. CASE p < BootlogCols - 1
  <2>1. PICK a : a = Place(f, k, 1)
    OBVIOUS
  <2>2. L!Slot(f + k - 1) = a /\ a \in 0..(BootlogLines - 1)
    <3>1. f + (k - 1) = f + k - 1 /\ 1 \in 0..k /\ f + k - 1 < BootlogLines + BootlogLines
      BY <1>0, <1>k
    <3>2. L!Slot(f + (k - 1)) = Place(f, k, 1) /\ Place(f, k, 1) \in 0..(BootlogLines - 1)
      BY <3>1, Places7
    <3> QED
      BY <2>1, <3>1, <3>2, Zenon
  <2>3. PICK es : es = [ls EXCEPT ![a] = Append(ls[a], c)]
    OBVIOUS
  <2>4. L!appendChar(r, c) = Ring(es, f, k, p + 1)
    <3>1. L!appendChar(Ring(ls, f, k, p), c) = Ring([ls EXCEPT ![L!Slot(f + k - 1)] = Append(@, c)], f, k, p + 1)
      BY <1>k, <1>2 DEF L!appendChar, Ring
    <3> QED
      BY <1>1, <2>2, <2>3, <3>1
  <2>5. es \in [0..(BootlogLines - 1) -> Seq(STRING)] /\ p + 1 \in 0..BootlogCols
    <3>1. Append(ls[a], c) \in Seq(STRING)
      BY <2>2
    <3> QED
      BY <1>0, <1>2, <2>2, <2>3, <3>1
  <2>6. /\ Ring(es, f, k, p + 1) \in Rings
        /\ Ring(es, f, k, p + 1).count = k /\ Ring(es, f, k, p + 1).partial = p + 1
    BY <2>5, RingFields
  <2>7. Newest(Ring(es, f, k, p + 1), 1) = Append(Newest(r, 1), c)
    <3>1. 1 \in 1..k
      BY <1>k
    <3>2. Newest(Ring(es, f, k, p + 1), 1) = es[Place(f, k, 1)] /\ Newest(r, 1) = ls[Place(f, k, 1)]
      <4>1. Newest(Ring(es, f, k, p + 1), 1) = es[Place(f, k, 1)]
        BY <3>1, NewestPlain
      <4>2. Newest(Ring(ls, f, k, p), 1) = ls[Place(f, k, 1)]
        BY ONLY <1>s, <3>1, NewestPlain
      <4> QED
        BY <1>1, <4>1, <4>2, Zenon
    <3> QED
      BY <2>1, <2>2, <2>3, <3>2
  <2>8. ASSUME NEW n \in 2..k
        PROVE  Newest(Ring(es, f, k, p + 1), n) = Newest(r, n)
    <3>1. n \in 1..k
      OBVIOUS
    <3>2. /\ Newest(Ring(es, f, k, p + 1), n) = es[Place(f, k, n)] /\ Newest(r, n) = ls[Place(f, k, n)]
          /\ Place(f, k, n) \in 0..(BootlogLines - 1)
      <4>1. Newest(Ring(es, f, k, p + 1), n) = es[Place(f, k, n)]
        BY <3>1, NewestPlain
      <4>2. Newest(Ring(ls, f, k, p), n) = ls[Place(f, k, n)]
        BY ONLY <1>s, <3>1, NewestPlain
      <4>3. Place(f, k, n) \in 0..(BootlogLines - 1)
        BY <1>0 DEF Place
      <4> QED
        BY <1>1, <4>1, <4>2, <4>3, Zenon
    <3>3. Place(f, k, n) # a
      BY <1>0, <1>k, <2>1 DEF Place
    <3> QED
      BY <2>3, <3>2, <3>3
  <2> QED
    BY <1>2, <1>k, <2>4, <2>6, <2>7, <2>8
<1>3. CASE ~(p < BootlogCols - 1)
  <2>1. L!appendChar(r, c) = r
    BY <1>3, <1>k DEF L!appendChar
  <2> QED
    BY <1>3, <1>k, <2>1
<1> QED
  BY <1>2, <1>3
-----------------------------------------------------------------------------
(* Where the lines begin, after one more character. *)

LEMMA OneMore ==
  ASSUME NEW x \in Seq(STRING), NEW c \in STRING
  PROVE  /\ Append(x, c) \in Seq(STRING) /\ Len(Append(x, c)) = Len(x) + 1 /\ Len(x) \in Nat
         /\ Append(x, c)[Len(x) + 1] = c /\ \A k \in 1..Len(x) : Append(x, c)[k] = x[k]
<1>1. Append(x, c) \in Seq(STRING) /\ Append(x, c)[Len(x) + 1] = c
  BY AppendProperties
<1>2. Len(Append(x, c)) = Len(x) + 1 /\ Len(x) \in Nat
  OBVIOUS
<1>3. ASSUME NEW k \in 1..Len(x) PROVE Append(x, c)[k] = x[k]
  OBVIOUS
<1> QED
  BY <1>1, <1>2, <1>3

LEMMA StartsSame ==
  ASSUME NEW x \in Seq(STRING), NEW c \in STRING, c = "n" \/ (Len(x) > 0 /\ x[Len(x)] # "n")
  PROVE  L!LineStarts(Append(x, c)) = L!LineStarts(x)
<1>1. PICK y : y = Append(x, c)
  OBVIOUS
<1>2. PICK m : m = Len(x)
  OBVIOUS
<1>3. m \in Nat /\ Len(y) = m + 1 /\ y[m + 1] = c /\ \A k \in 1..m : y[k] = x[k]
  BY <1>1, <1>2, OneMore
<1>4. c = "n" \/ (m > 0 /\ y[m] # "n")
  BY <1>2, <1>3
<1>5. ASSUME NEW k \in 1..(m + 1)
      PROVE  (y[k] # "n" /\ (k = 1 \/ y[k - 1] = "n")) <=>
               (k \in 1..m /\ x[k] # "n" /\ (k = 1 \/ x[k - 1] = "n"))
  <2>1. CASE k = m + 1
    BY <1>3, <1>4, <2>1
  <2>2. CASE k # m + 1
    <3>1. k \in 1..m /\ y[k] = x[k] /\ (k # 1 => y[k - 1] = x[k - 1])
      BY <1>3, <2>2
    <3> QED
      BY <3>1
  <2> QED
    BY <2>1, <2>2
<1>6. /\ L!LineStarts(y) = {k \in 1..(m + 1) : y[k] # "n" /\ (k = 1 \/ y[k - 1] = "n")}
      /\ L!LineStarts(x) = {k \in 1..m : x[k] # "n" /\ (k = 1 \/ x[k - 1] = "n")}
  BY <1>2, <1>3 DEF L!LineStarts
<1>7. 1..m \subseteq 1..(m + 1)
  BY <1>3
<1>8. L!LineStarts(y) = L!LineStarts(x)
  BY <1>5, <1>6, <1>7, Zenon
<1> QED
  BY <1>1, <1>8

LEMMA StartsMore ==
  ASSUME NEW x \in Seq(STRING), NEW c \in STRING, c # "n", Len(x) = 0 \/ x[Len(x)] = "n"
  PROVE  L!LineStarts(Append(x, c)) = L!LineStarts(x) \cup {Len(x) + 1}
<1>1. PICK y : y = Append(x, c)
  OBVIOUS
<1>2. PICK m : m = Len(x)
  OBVIOUS
<1>3. m \in Nat /\ Len(y) = m + 1 /\ y[m + 1] = c /\ \A k \in 1..m : y[k] = x[k]
  BY <1>1, <1>2, OneMore
<1>4. m + 1 = 1 \/ y[m] = "n"
  BY <1>2, <1>3
<1>5. ASSUME NEW k \in 1..(m + 1)
      PROVE  (y[k] # "n" /\ (k = 1 \/ y[k - 1] = "n")) <=>
               ((k \in 1..m /\ x[k] # "n" /\ (k = 1 \/ x[k - 1] = "n")) \/ k = m + 1)
  <2>1. CASE k = m + 1
    BY <1>3, <1>4, <2>1
  <2>2. CASE k # m + 1
    <3>1. k \in 1..m /\ y[k] = x[k] /\ (k # 1 => y[k - 1] = x[k - 1])
      BY <1>3, <2>2
    <3> QED
      BY <2>2, <3>1
  <2> QED
    BY <2>1, <2>2
<1>6. /\ L!LineStarts(y) = {k \in 1..(m + 1) : y[k] # "n" /\ (k = 1 \/ y[k - 1] = "n")}
      /\ L!LineStarts(x) = {k \in 1..m : x[k] # "n" /\ (k = 1 \/ x[k - 1] = "n")}
  BY <1>2, <1>3 DEF L!LineStarts
<1>7. 1..m \subseteq 1..(m + 1) /\ m + 1 \in 1..(m + 1)
  BY <1>3
<1>8. L!LineStarts(y) = L!LineStarts(x) \cup {m + 1}
  BY <1>5, <1>6, <1>7, Zenon
<1> QED
  BY <1>1, <1>2, <1>8

(* Bootlog counts with the same operator. *)
LEMMA SameCount == \A D : L!Cardinality(D) = Cardinality(D)
BY DEF L!Cardinality, Cardinality

(* The starts from s on. *)
StartsFrom(x, s) == {u \in L!LineStarts(x) : u >= s}

LEMMA StartsCounted ==
  ASSUME NEW x \in Seq(STRING)
  PROVE  /\ L!LineStarts(x) \subseteq 1..Len(x) /\ IsFiniteSet(L!LineStarts(x))
         /\ Cardinality(L!LineStarts(x)) \in Nat
         /\ \A s : /\ IsFiniteSet(StartsFrom(x, s)) /\ L!LinesFrom(x, s) = Cardinality(StartsFrom(x, s))
                   /\ L!LinesFrom(x, s) \in Nat
                   /\ L!LinesFrom(x, s) <= Cardinality(L!LineStarts(x))
<1>1. L!LineStarts(x) \subseteq 1..Len(x)
  BY DEF L!LineStarts
<1>2. IsFiniteSet(1..Len(x))
  <2>1. Len(x) \in Int /\ 1 \in Int
    OBVIOUS
  <2> QED
    BY <2>1, FS_Interval
<1>3. IsFiniteSet(L!LineStarts(x))
  BY <1>1, <1>2, FS_Subset
<1>4. ASSUME NEW s
      PROVE  /\ IsFiniteSet(StartsFrom(x, s)) /\ L!LinesFrom(x, s) = Cardinality(StartsFrom(x, s))
             /\ L!LinesFrom(x, s) \in Nat
             /\ L!LinesFrom(x, s) <= Cardinality(L!LineStarts(x))
  <2>1. StartsFrom(x, s) \subseteq L!LineStarts(x)
    BY DEF StartsFrom
  <2>2. L!LinesFrom(x, s) = Cardinality(StartsFrom(x, s))
    BY SameCount DEF L!LinesFrom, StartsFrom
  <2>3. IsFiniteSet(StartsFrom(x, s)) /\ Cardinality(StartsFrom(x, s)) <= Cardinality(L!LineStarts(x))
    BY <1>3, <2>1, FS_Subset
  <2>4. Cardinality(StartsFrom(x, s)) \in Nat
    BY <2>3, FS_CardinalityType
  <2> QED
    BY <2>2, <2>3, <2>4
<1>5. Cardinality(L!LineStarts(x)) \in Nat
  BY <1>3, FS_CardinalityType
<1> QED
  BY <1>1, <1>3, <1>4, <1>5

(* The last line counts one, an earlier one more. *)
LEMMA LastCountsOne ==
  ASSUME NEW x \in Seq(STRING), NEW s \in L!LineStarts(x), \A u \in L!LineStarts(x) : u <= s
  PROVE  /\ L!LinesFrom(x, s) = 1
         /\ \A u \in L!LineStarts(x) : u # s => L!LinesFrom(x, u) >= 2
<1>1. L!LineStarts(x) \subseteq Int /\ s \in Int
  BY StartsCounted
<1>2. StartsFrom(x, s) = {s}
  BY <1>1 DEF StartsFrom
<1>3. L!LinesFrom(x, s) = 1
  <2>1. L!LinesFrom(x, s) = Cardinality(StartsFrom(x, s))
    BY StartsCounted
  <2>2. Cardinality({s}) = 1
    BY FS_Singleton
  <2> QED
    BY <1>2, <2>1, <2>2
<1>4. ASSUME NEW u \in L!LineStarts(x), u # s PROVE L!LinesFrom(x, u) >= 2
  <2>1. StartsFrom(x, s) \subseteq StartsFrom(x, u) /\ StartsFrom(x, s) # StartsFrom(x, u)
    BY <1>1, <1>2, <1>4 DEF StartsFrom
  <2>2. IsFiniteSet(StartsFrom(x, u)) /\ Cardinality(StartsFrom(x, s)) = 1 /\ Cardinality(StartsFrom(x, u)) \in Nat
    BY <1>3, StartsCounted
  <2>3. /\ Cardinality(StartsFrom(x, s)) <= Cardinality(StartsFrom(x, u))
        /\ Cardinality(StartsFrom(x, s)) # Cardinality(StartsFrom(x, u))
    BY <2>1, <2>2, FS_Subset
  <2> QED
    BY <2>2, <2>3, StartsCounted
<1> QED
  BY <1>3, <1>4

LEMMA CountsGrow ==
  ASSUME NEW x \in Seq(STRING), NEW y \in Seq(STRING), NEW a, a = Len(x) + 1,
         L!LineStarts(y) = L!LineStarts(x) \cup {a}
  PROVE  /\ Cardinality(L!LineStarts(y)) = Cardinality(L!LineStarts(x)) + 1
         /\ \A u \in L!LineStarts(x) : L!LinesFrom(y, u) = L!LinesFrom(x, u) + 1
         /\ L!LinesFrom(y, a) = 1 /\ a \notin L!LineStarts(x)
<1>1. /\ L!LineStarts(x) \subseteq Int /\ a \in Int /\ a \notin L!LineStarts(x)
      /\ \A u \in L!LineStarts(x) : u <= a
  BY StartsCounted
<1>2. Cardinality(L!LineStarts(y)) = Cardinality(L!LineStarts(x)) + 1
  BY <1>1, StartsCounted, FS_AddElement
<1>3. ASSUME NEW u \in L!LineStarts(x) PROVE L!LinesFrom(y, u) = L!LinesFrom(x, u) + 1
  <2>1. StartsFrom(y, u) = StartsFrom(x, u) \cup {a} /\ a \notin StartsFrom(x, u)
    BY <1>1 DEF StartsFrom
  <2>2. Cardinality(StartsFrom(y, u)) = Cardinality(StartsFrom(x, u)) + 1
    <3>1. IsFiniteSet(StartsFrom(x, u))
      BY StartsCounted
    <3>2. Cardinality(StartsFrom(x, u) \cup {a}) = Cardinality(StartsFrom(x, u)) + 1
      BY <2>1, <3>1, FS_AddElement
    <3> QED
      BY <2>1, <3>2
  <2> QED
    BY <2>2, StartsCounted
<1>4. L!LinesFrom(y, a) = 1
  BY <1>1, LastCountsOne
<1> QED
  BY <1>1, <1>2, <1>3, <1>4
-----------------------------------------------------------------------------
(* What the panel shows of a line, after one more character. *)

(* A line that has ended stays as it is. *)
LEMMA ShowsKept ==
  ASSUME NEW x \in Seq(STRING), NEW c \in STRING, NEW line \in Seq(STRING), NEW s \in 1..Len(x),
         L!Shows(line, x, s), c = "n" \/ \E w \in s..Len(x) : x[w] = "n"
  PROVE  L!Shows(line, Append(x, c), s)
<1>1. PICK y : y = Append(x, c)
  OBVIOUS
<1>2. PICK m : m = Len(x)
  OBVIOUS
<1>3. m \in Nat /\ Len(y) = m + 1 /\ y[m + 1] = c /\ \A k \in 1..m : y[k] = x[k]
  BY <1>1, <1>2, OneMore
<1>4. PICK l : l = Len(line)
  OBVIOUS
<1>5. /\ l \in Nat /\ l < BootlogCols /\ s + l <= m + 1 /\ s \in 1..m
      /\ \A k \in 1..l : line[k] = x[s + k - 1] /\ x[s + k - 1] # "n"
      /\ l = BootlogCols - 1 \/ s + l = m + 1 \/ x[s + l] = "n"
  BY <1>2, <1>4 DEF L!Shows
<1>6. ASSUME NEW k \in 1..l PROVE line[k] = y[s + k - 1] /\ y[s + k - 1] # "n"
  <2>1. s + k - 1 \in 1..m
    BY <1>3, <1>5
  <2> QED
    BY <1>3, <1>5, <2>1
<1>7. l = BootlogCols - 1 \/ y[s + l] = "n"
  <2>1. CASE s + l = m + 1
    <3>1. CASE c = "n"
      BY <1>3, <2>1, <3>1
    <3>2. CASE \E w \in s..Len(x) : x[w] = "n"
      <4>1. PICK w \in s..m : x[w] = "n"
        BY <1>2, <3>2
      <4>2. PICK k : k = w - s + 1
        OBVIOUS
      <4>3. k \in 1..l /\ s + k - 1 = w
        BY <1>3, <1>5, <2>1, <4>1, <4>2
      <4> QED
        BY <1>5, <4>1, <4>3
    <3> QED
      BY <3>1, <3>2
  <2>2. CASE s + l # m + 1
    <3>1. s + l \in 1..m
      BY <1>3, <1>5, <2>2
    <3> QED
      BY <1>3, <1>5, <2>2, <3>1
  <2> QED
    BY <2>1, <2>2
<1>8. L!Shows(line, y, s)
  BY <1>3, <1>4, <1>5, <1>6, <1>7 DEF L!Shows
<1> QED
  BY <1>1, <1>8

(* The newest line takes the character, or is full and does not. *)
LEMMA ShowsLonger ==
  ASSUME NEW x \in Seq(STRING), NEW c \in STRING, c # "n", NEW line \in Seq(STRING),
         NEW s \in 1..Len(x), L!Shows(line, x, s), \A w \in s..Len(x) : x[w] # "n"
  PROVE  /\ Len(line) < BootlogCols - 1 => L!Shows(Append(line, c), Append(x, c), s)
         /\ ~(Len(line) < BootlogCols - 1) => L!Shows(line, Append(x, c), s)
<1>0. BootlogCols \in Nat
  BY LogAssumption
<1>1. PICK y : y = Append(x, c)
  OBVIOUS
<1>2. PICK m : m = Len(x)
  OBVIOUS
<1>3. m \in Nat /\ Len(y) = m + 1 /\ y[m + 1] = c /\ \A k \in 1..m : y[k] = x[k]
  BY <1>1, <1>2, OneMore
<1>4. PICK l : l = Len(line)
  OBVIOUS
<1>5. /\ l \in Nat /\ l < BootlogCols /\ s + l <= m + 1 /\ s \in 1..m
      /\ \A k \in 1..l : line[k] = x[s + k - 1] /\ x[s + k - 1] # "n"
      /\ l = BootlogCols - 1 \/ s + l = m + 1 \/ x[s + l] = "n"
      /\ \A w \in s..m : x[w] # "n"
  BY <1>2, <1>4 DEF L!Shows
<1>6. ASSUME NEW k \in 1..l PROVE line[k] = y[s + k - 1] /\ y[s + k - 1] # "n"
  <2>1. s + k - 1 \in 1..m
    BY <1>3, <1>5
  <2> QED
    BY <1>3, <1>5, <2>1
<1>7. ASSUME ~(l < BootlogCols - 1) PROVE L!Shows(line, y, s)
  <2>1. l = BootlogCols - 1
    BY <1>0, <1>5, <1>7
  <2> QED
    BY <1>3, <1>4, <1>5, <1>6, <2>1 DEF L!Shows
<1>8. ASSUME l < BootlogCols - 1 PROVE L!Shows(Append(line, c), y, s)
  <2>1. s + l = m + 1
    <3>1. ASSUME s + l # m + 1 PROVE FALSE
      <4>1. s + l \in s..m /\ x[s + l] = "n"
        BY <1>0, <1>3, <1>5, <1>8, <3>1
      <4> QED
        BY <1>5, <4>1
    <3> QED
      BY <3>1
  <2>2. PICK z : z = Append(line, c)
    OBVIOUS
  <2>3. Len(z) = l + 1 /\ z[l + 1] = c /\ \A k \in 1..l : z[k] = line[k]
    BY <1>4, <2>2, OneMore
  <2>4. ASSUME NEW k \in 1..(l + 1) PROVE z[k] = y[s + k - 1] /\ y[s + k - 1] # "n"
    <3>1. CASE k = l + 1
      <4>1. s + k - 1 = m + 1
        BY <1>3, <1>5, <2>1, <3>1
      <4> QED
        BY <1>3, <2>3, <3>1, <4>1
    <3>2. CASE k # l + 1
      <4>1. k \in 1..l
        BY <1>5, <3>2
      <4> QED
        BY <1>6, <2>3, <4>1
    <3> QED
      BY <3>1, <3>2
  <2>5. l + 1 < BootlogCols /\ s + (l + 1) = (m + 1) + 1 /\ s + (l + 1) <= (m + 1) + 1
    BY <1>0, <1>3, <1>5, <1>8, <2>1
  <2>6. L!Shows(z, y, s)
    BY <1>3, <2>3, <2>4, <2>5 DEF L!Shows
  <2> QED
    BY <2>2, <2>6
<1> QED
  BY <1>1, <1>4, <1>7, <1>8

(* The first character of a line, if the panel has room for one. *)
LEMMA ShowsFirst ==
  ASSUME NEW x \in Seq(STRING), NEW c \in STRING, c # "n"
  PROVE  /\ 0 < BootlogCols - 1 => L!Shows(Append(<<>>, c), Append(x, c), Len(x) + 1)
         /\ ~(0 < BootlogCols - 1) => L!Shows(<<>>, Append(x, c), Len(x) + 1)
<1>0. BootlogCols \in Nat /\ BootlogCols > 0
  BY LogAssumption
<1>1. PICK y : y = Append(x, c)
  OBVIOUS
<1>2. PICK m : m = Len(x)
  OBVIOUS
<1>3. m \in Nat /\ Len(y) = m + 1 /\ y[m + 1] = c
  BY <1>1, <1>2, OneMore
<1>4. ASSUME 0 < BootlogCols - 1 PROVE L!Shows(Append(<<>>, c), y, m + 1)
  <2>1. PICK z : z = Append(<<>>, c)
    OBVIOUS
  <2>2. Len(z) = 1 /\ z[1] = c
    BY <2>1
  <2>3. ASSUME NEW k \in 1..1 PROVE z[k] = y[(m + 1) + k - 1] /\ y[(m + 1) + k - 1] # "n"
    <3>1. k = 1 /\ (m + 1) + k - 1 = m + 1
      BY <1>3
    <3> QED
      BY <1>3, <2>2, <3>1
  <2>4. /\ 1 < BootlogCols /\ (m + 1) + 1 <= (m + 1) + 1
    BY <1>0, <1>3, <1>4
  <2>5. L!Shows(z, y, m + 1)
    BY <1>3, <2>2, <2>3, <2>4 DEF L!Shows
  <2> QED
    BY <2>1, <2>5
<1>5. ASSUME ~(0 < BootlogCols - 1) PROVE L!Shows(<<>>, y, m + 1)
  <2>1. Len(<<>>) = 0 /\ 0 = BootlogCols - 1 /\ (m + 1) + 0 <= (m + 1) + 1 /\ 0 < BootlogCols /\ 1..0 = {}
    BY <1>0, <1>3, <1>5
  <2> QED
    BY <1>3, <2>1 DEF L!Shows
<1> QED
  BY <1>1, <1>2, <1>4, <1>5
-----------------------------------------------------------------------------
(* The ring holds the end of x: its lines, and in partial how the last one ends. *)
HoldsEnd(r, x) ==
  /\ r \in Rings
  /\ r.count = IF Cardinality(L!LineStarts(x)) < BootlogLines
               THEN Cardinality(L!LineStarts(x)) ELSE BootlogLines
  /\ \A s \in L!LineStarts(x) :
       L!LinesFrom(x, s) <= BootlogLines => L!Shows(Newest(r, L!LinesFrom(x, s)), x, s)

(* The last line is open from s on. *)
OpenFrom(x, s) == s \in L!LineStarts(x) /\ \A w \in s..Len(x) : x[w] # "n"

Ends(r, x) ==
  /\ Len(x) = 0 => r.count = 0
  /\ Len(x) # 0 /\ x[Len(x)] = "n" => r.partial = BootlogCols
  /\ Len(x) # 0 /\ x[Len(x)] # "n" =>
       /\ r.count # 0 /\ r.partial < BootlogCols /\ r.partial = Len(Newest(r, 1))
       /\ \E s : OpenFrom(x, s)

LEMMA NewestType ==
  ASSUME NEW r \in Rings, NEW n \in 1..r.count
  PROVE  Newest(r, n) \in Seq(STRING)
<1>0. BootlogLines \in Nat /\ BootlogLines > 0 /\ BootlogCols \in Nat
  BY LogAssumption
<1>1. PICK ls, f, k, p :
        /\ ls \in [0..(BootlogLines - 1) -> Seq(STRING)] /\ f \in 0..(BootlogLines - 1)
        /\ k \in 0..BootlogLines /\ p \in 0..BootlogCols /\ r = Ring(ls, f, k, p)
  BY DEF Rings, Ring
<1>2. r.count = k
  BY <1>1, RingFields
<1>3. f \in 0..(BootlogLines - 1) /\ k \in 0..BootlogLines /\ n \in 1..k
  BY <1>1, <1>2
<1>4. Newest(Ring(ls, f, k, p), n) = ls[Place(f, k, n)]
  BY ONLY <1>3, NewestPlain
<1>5. Place(f, k, n) \in 0..(BootlogLines - 1)
  BY <1>0, <1>3 DEF Place
<1>6. ls[Place(f, k, n)] \in Seq(STRING)
  BY <1>1, <1>5
<1> QED
  BY <1>1, <1>4, <1>6, Zenon

(* The places of the lines that are shown. *)
LEMMA ShownPlace ==
  ASSUME NEW r, NEW x \in Seq(STRING), HoldsEnd(r, x), NEW s \in L!LineStarts(x),
         L!LinesFrom(x, s) <= BootlogLines
  PROVE  L!LinesFrom(x, s) \in 1..r.count /\ r.count \in 1..BootlogLines
<1>1. BootlogLines \in Nat /\ BootlogLines > 0
  BY LogAssumption
<1>2. /\ Cardinality(L!LineStarts(x)) \in Nat /\ L!LinesFrom(x, s) \in Nat
      /\ L!LinesFrom(x, s) <= Cardinality(L!LineStarts(x))
      /\ L!LinesFrom(x, s) = Cardinality(StartsFrom(x, s)) /\ IsFiniteSet(StartsFrom(x, s))
  BY StartsCounted
<1>3. s \in StartsFrom(x, s)
  <2>1. s \in Int
    BY StartsCounted
  <2> QED
    BY <2>1 DEF StartsFrom
<1>4. L!LinesFrom(x, s) # 0
  BY <1>2, <1>3, FS_EmptySet
<1>5. r.count = IF Cardinality(L!LineStarts(x)) < BootlogLines
               THEN Cardinality(L!LineStarts(x)) ELSE BootlogLines
  BY DEF HoldsEnd
<1> QED
  BY <1>1, <1>2, <1>4, <1>5

LEMMA LineEnded ==
  ASSUME NEW r, NEW x \in Seq(STRING), HoldsEnd(r, x), NEW c \in STRING, c = "n"
  PROVE  HoldsEnd(L!Put(r, c), Append(x, c)) /\ Ends(L!Put(r, c), Append(x, c))
<1>1. PICK y : y = Append(x, c)
  OBVIOUS
<1>2. y \in Seq(STRING) /\ Len(y) = Len(x) + 1 /\ Len(x) \in Nat /\ y[Len(y)] = "n"
  BY <1>1, OneMore
<1>3. L!LineStarts(y) = L!LineStarts(x)
  BY <1>1, StartsSame
<1>4. PICK q : q = L!Put(r, c)
  OBVIOUS
<1>5. r \in Rings
  BY DEF HoldsEnd
<1>6. /\ q = [r EXCEPT !.partial = BootlogCols]
  BY <1>4 DEF L!Put
<1>7. q \in Rings /\ q.count = r.count /\ q.partial = BootlogCols
  <2>1. BootlogCols \in 0..BootlogCols
    BY LogAssumption
  <2> QED
    BY <1>5, <1>6, <2>1 DEF Rings
<1>8. q.lines = r.lines /\ q.first = r.first
  BY <1>5, <1>6 DEF Rings
<1>9. \A n : Newest(q, n) = Newest(r, n)
  BY <1>7, <1>8, Zenon DEF Newest
<1>10. ASSUME NEW s \in L!LineStarts(y), L!LinesFrom(y, s) <= BootlogLines
       PROVE  L!Shows(Newest(q, L!LinesFrom(y, s)), y, s)
  <2>1. L!LinesFrom(y, s) = L!LinesFrom(x, s)
    BY <1>3 DEF L!LinesFrom
  <2>2. PICK n : n = L!LinesFrom(x, s)
    OBVIOUS
  <2>3. n \in 1..r.count
    BY <1>3, <1>10, <2>1, <2>2, ShownPlace
  <2>4. Newest(r, n) \in Seq(STRING) /\ s \in 1..Len(x)
    BY <1>3, <1>5, <2>3, NewestType, StartsCounted
  <2>5. L!Shows(Newest(r, n), x, s)
    BY <1>3, <1>10, <2>1, <2>2 DEF HoldsEnd
  <2>6. L!Shows(Newest(r, n), y, s)
    BY <1>1, <2>4, <2>5, ShowsKept
  <2> QED
    BY <1>9, <2>1, <2>2, <2>6
<1>11. HoldsEnd(q, y)
  BY <1>3, <1>7, <1>10 DEF HoldsEnd
<1>12. Ends(q, y)
  BY <1>2, <1>7 DEF Ends
<1> QED
  BY <1>1, <1>4, <1>11, <1>12

LEMMA LineGrown ==
  ASSUME NEW r, NEW x \in Seq(STRING), HoldsEnd(r, x), Ends(r, x), NEW c \in STRING, c # "n",
         Len(x) # 0, x[Len(x)] # "n"
  PROVE  HoldsEnd(L!Put(r, c), Append(x, c)) /\ Ends(L!Put(r, c), Append(x, c))
<1>0. BootlogLines \in Nat /\ BootlogLines > 0 /\ BootlogCols \in Nat /\ BootlogCols > 0
  BY LogAssumption
<1>1. PICK y : y = Append(x, c)
  OBVIOUS
<1>2. /\ y \in Seq(STRING) /\ Len(y) = Len(x) + 1 /\ Len(x) \in Nat /\ y[Len(y)] = c
      /\ \A k \in 1..Len(x) : y[k] = x[k]
  BY <1>1, OneMore
<1>3. L!LineStarts(y) = L!LineStarts(x)
  BY <1>1, <1>2, StartsSame
<1>4. PICK q : q = L!Put(r, c)
  OBVIOUS
<1>5. r \in Rings /\ r.count # 0 /\ r.partial < BootlogCols /\ r.partial = Len(Newest(r, 1))
  BY DEF HoldsEnd, Ends
<1>6. q = L!appendChar(r, c)
  <2>1. r.partial \in Nat
    BY <1>0, <1>5, RingField
  <2>2. ~(r.partial >= BootlogCols)
    BY <1>0, <1>5, <2>1
  <2> QED
    BY <1>4, <2>2 DEF L!Put
<1>7. /\ q \in Rings /\ q.count = r.count
      /\ \A n \in 2..r.count : Newest(q, n) = Newest(r, n)
      /\ r.partial < BootlogCols - 1 =>
           q.partial = r.partial + 1 /\ Newest(q, 1) = Append(Newest(r, 1), c)
      /\ ~(r.partial < BootlogCols - 1) => q = r
  BY <1>5, <1>6, CharAppended
<1>8. PICK e : OpenFrom(x, e)
  BY DEF Ends
<1>9. e \in L!LineStarts(x) /\ e \in 1..Len(x) /\ \A w \in e..Len(x) : x[w] # "n"
  BY <1>8, StartsCounted DEF OpenFrom
<1>10. ASSUME NEW u \in L!LineStarts(x) PROVE u <= e
  <2>1. u \in 1..Len(x) /\ (u = 1 \/ x[u - 1] = "n")
    BY DEF L!LineStarts
  <2>2. ASSUME ~(u <= e) PROVE FALSE
    <3>1. u # 1 /\ u - 1 \in e..Len(x)
      BY <1>2, <1>9, <2>1, <2>2
    <3> QED
      BY <1>9, <2>1, <3>1
  <2> QED
    BY <2>2
<1>11. /\ L!LinesFrom(x, e) = 1
       /\ \A u \in L!LineStarts(x) : u # e => L!LinesFrom(x, u) >= 2
  BY <1>9, <1>10, LastCountsOne
<1>12. 1 \in 1..r.count /\ Newest(r, 1) \in Seq(STRING) /\ L!Shows(Newest(r, 1), x, e)
  <2>1. L!LinesFrom(x, e) <= BootlogLines
    BY <1>0, <1>11
  <2>2. 1 \in 1..r.count
    BY <1>9, <1>11, <2>1, ShownPlace
  <2>3. L!Shows(Newest(r, 1), x, e)
    BY <1>9, <1>11, <2>1 DEF HoldsEnd
  <2> QED
    BY <1>5, <2>2, <2>3, NewestType
<1>13. L!Shows(Newest(q, 1), y, e)
  <2>1. PICK line : line = Newest(r, 1)
    OBVIOUS
  <2>2. /\ Len(line) < BootlogCols - 1 => L!Shows(Append(line, c), y, e)
        /\ ~(Len(line) < BootlogCols - 1) => L!Shows(line, y, e)
    BY <1>1, <1>9, <1>12, <2>1, ShowsLonger
  <2> QED
    BY <1>5, <1>7, <2>1, <2>2
<1>14. ASSUME NEW s \in L!LineStarts(y), L!LinesFrom(y, s) <= BootlogLines
       PROVE  L!Shows(Newest(q, L!LinesFrom(y, s)), y, s)
  <2>1. L!LinesFrom(y, s) = L!LinesFrom(x, s) /\ s \in L!LineStarts(x)
    BY <1>3 DEF L!LinesFrom
  <2>2. CASE s = e
    BY <1>11, <1>13, <2>1, <2>2
  <2>3. CASE s # e
    <3>1. PICK n : n = L!LinesFrom(x, s)
      OBVIOUS
    <3>2. n \in 1..r.count /\ r.count \in 1..BootlogLines
      BY <1>14, <2>1, <3>1, ShownPlace
    <3>3. n \in 2..r.count
      BY <1>11, <2>1, <2>3, <3>1, <3>2
    <3>4. Newest(r, n) \in Seq(STRING) /\ s \in 1..Len(x)
      BY <1>5, <2>1, <3>2, NewestType, StartsCounted
    <3>5. L!Shows(Newest(r, n), x, s)
      BY <1>14, <2>1, <3>1 DEF HoldsEnd
    <3>6. e - 1 \in s..Len(x) /\ x[e - 1] = "n"
      <4>1. s < e /\ e # 1
        BY <1>9, <1>10, <2>1, <2>3, <3>4
      <4>2. x[e - 1] = "n"
        BY <1>9, <4>1 DEF L!LineStarts
      <4> QED
        BY <1>2, <1>9, <3>4, <4>1, <4>2
    <3>7. L!Shows(Newest(r, n), y, s)
      BY <1>1, <3>4, <3>5, <3>6, ShowsKept
    <3>8. Newest(q, n) = Newest(r, n)
      BY <1>7, <3>3
    <3> QED
      BY <2>1, <3>1, <3>7, <3>8
  <2> QED
    BY <2>2, <2>3
<1>15. HoldsEnd(q, y)
  <2>1. r.count = IF Cardinality(L!LineStarts(x)) < BootlogLines
                  THEN Cardinality(L!LineStarts(x)) ELSE BootlogLines
    BY DEF HoldsEnd
  <2> QED
    BY <1>3, <1>7, <1>14, <2>1 DEF HoldsEnd
<1>16. Ends(q, y)
  <2>1. Len(y) # 0 /\ y[Len(y)] # "n"
    BY <1>2
  <2>2. q.count # 0
    BY <1>5, <1>7
  <2>3. q.partial < BootlogCols /\ q.partial = Len(Newest(q, 1))
    <3>1. CASE r.partial < BootlogCols - 1
      <4>1. Len(Append(Newest(r, 1), c)) = Len(Newest(r, 1)) + 1 /\ Len(Newest(r, 1)) \in Nat
        BY <1>12, OneMore
      <4> QED
        BY <1>0, <1>5, <1>7, <3>1, <4>1
    <3>2. CASE ~(r.partial < BootlogCols - 1)
      BY <1>5, <1>7, <3>2
    <3> QED
      BY <3>1, <3>2
  <2>4. OpenFrom(y, e)
    <3>1. ASSUME NEW w \in e..Len(y) PROVE y[w] # "n"
      <4>1. CASE w = Len(y)
        BY <1>2, <4>1
      <4>2. CASE w # Len(y)
        <5>1. w \in e..Len(x) /\ w \in 1..Len(x)
          BY <1>2, <1>9, <4>2
        <5> QED
          BY <1>2, <1>9, <5>1
      <4> QED
        BY <4>1, <4>2
    <3> QED
      BY <1>3, <1>9, <3>1 DEF OpenFrom
  <2> QED
    BY <2>1, <2>2, <2>3, <2>4 DEF Ends
<1> QED
  BY <1>1, <1>4, <1>15, <1>16

LEMMA LineBegun ==
  ASSUME NEW r, NEW x \in Seq(STRING), HoldsEnd(r, x), Ends(r, x), NEW c \in STRING, c # "n",
         Len(x) = 0 \/ x[Len(x)] = "n"
  PROVE  HoldsEnd(L!Put(r, c), Append(x, c)) /\ Ends(L!Put(r, c), Append(x, c))
<1>0. BootlogLines \in Nat /\ BootlogLines > 0 /\ BootlogCols \in Nat /\ BootlogCols > 0
  BY LogAssumption
<1>1. PICK y : y = Append(x, c)
  OBVIOUS
<1>2. /\ y \in Seq(STRING) /\ Len(y) = Len(x) + 1 /\ Len(x) \in Nat /\ y[Len(y)] = c
      /\ \A k \in 1..Len(x) : y[k] = x[k]
  BY <1>1, OneMore
<1>a. PICK a : a = Len(x) + 1
  OBVIOUS
<1>3. L!LineStarts(y) = L!LineStarts(x) \cup {a}
  BY <1>1, <1>a, StartsMore
<1>4. /\ Cardinality(L!LineStarts(y)) = Cardinality(L!LineStarts(x)) + 1
      /\ \A u \in L!LineStarts(x) : L!LinesFrom(y, u) = L!LinesFrom(x, u) + 1
      /\ L!LinesFrom(y, a) = 1 /\ a \notin L!LineStarts(x)
  BY <1>2, <1>3, <1>a, CountsGrow
<1>5. r \in Rings
  BY DEF HoldsEnd
<1>6. PICK b : b = L!startLine(r)
  OBVIOUS
<1>7. /\ b \in Rings /\ b.partial = 0 /\ Newest(b, 1) = <<>>
      /\ b.count = IF r.count < BootlogLines THEN r.count + 1 ELSE BootlogLines
      /\ \A n \in 1..r.count : n + 1 <= BootlogLines => Newest(b, n + 1) = Newest(r, n)
  BY <1>5, <1>6, LineStarted
<1>8. b.count # 0 /\ r.count \in Nat /\ b.count \in Nat
  BY <1>0, <1>5, <1>7, RingField
<1>9. PICK q : q = L!Put(r, c)
  OBVIOUS
<1>10. q = L!appendChar(b, c)
  <2>1. CASE r.partial >= BootlogCols
    BY <1>6, <1>9, <2>1 DEF L!Put
  <2>2. CASE ~(r.partial >= BootlogCols)
    <3>1. r.count = 0
      <4>1. ASSUME Len(x) # 0 PROVE FALSE
        <5>1. r.partial = BootlogCols
          BY <4>1 DEF Ends
        <5> QED
          BY <1>0, <2>2, <5>1
      <4> QED
        BY <4>1 DEF Ends
    <3>2. L!appendChar(r, c) = L!appendChar(b, c)
      BY <1>6, <1>8, <3>1, Zenon DEF L!appendChar
    <3> QED
      BY <1>9, <2>2, <3>2 DEF L!Put
  <2> QED
    BY <2>1, <2>2
<1>11. /\ q \in Rings /\ q.count = b.count
       /\ \A n \in 2..b.count : Newest(q, n) = Newest(b, n)
       /\ 0 < BootlogCols - 1 => q.partial = 0 + 1 /\ Newest(q, 1) = Append(<<>>, c)
       /\ ~(0 < BootlogCols - 1) => q = b
  BY <1>7, <1>8, <1>10, CharAppended
<1>12. L!Shows(Newest(q, 1), y, a)
  BY <1>1, <1>7, <1>11, <1>a, ShowsFirst
<1>13. ASSUME NEW s \in L!LineStarts(x), L!LinesFrom(y, s) <= BootlogLines
       PROVE  L!Shows(Newest(q, L!LinesFrom(y, s)), y, s)
  <2>1. PICK n : n = L!LinesFrom(x, s)
    OBVIOUS
  <2>2. n \in Nat /\ L!LinesFrom(y, s) = n + 1 /\ n + 1 <= BootlogLines
    BY <1>4, <1>13, <2>1, StartsCounted
  <2>3. L!LinesFrom(x, s) <= BootlogLines
    BY <1>0, <2>1, <2>2
  <2>4. n \in 1..r.count /\ r.count \in 1..BootlogLines
    BY <2>1, <2>3, ShownPlace
  <2>5. Newest(r, n) \in Seq(STRING) /\ s \in 1..Len(x)
    BY <1>5, <2>4, NewestType, StartsCounted
  <2>6. L!Shows(Newest(r, n), x, s)
    BY <2>1, <2>3 DEF HoldsEnd
  <2>7. Len(x) \in s..Len(x) /\ x[Len(x)] = "n"
    BY <1>2, <2>5
  <2>8. L!Shows(Newest(r, n), y, s)
    BY <1>1, <2>5, <2>6, <2>7, ShowsKept
  <2>9. n + 1 \in 2..b.count
    BY <1>0, <1>7, <2>2, <2>4
  <2>10. Newest(q, n + 1) = Newest(r, n)
    BY <1>7, <1>11, <2>2, <2>4, <2>9
  <2> QED
    BY <2>2, <2>8, <2>10
<1>14. HoldsEnd(q, y)
  <2>1. r.count = IF Cardinality(L!LineStarts(x)) < BootlogLines
                  THEN Cardinality(L!LineStarts(x)) ELSE BootlogLines
    BY DEF HoldsEnd
  <2>2. Cardinality(L!LineStarts(x)) \in Nat
    BY StartsCounted
  <2>3. q.count = IF Cardinality(L!LineStarts(y)) < BootlogLines
                  THEN Cardinality(L!LineStarts(y)) ELSE BootlogLines
    BY <1>0, <1>4, <1>7, <1>11, <2>1, <2>2
  <2>4. ASSUME NEW s \in L!LineStarts(y), L!LinesFrom(y, s) <= BootlogLines
        PROVE  L!Shows(Newest(q, L!LinesFrom(y, s)), y, s)
    <3>1. CASE s = a
      BY <1>4, <1>12, <3>1
    <3>2. CASE s # a
      BY <1>3, <1>13, <2>4, <3>2
    <3> QED
      BY <3>1, <3>2
  <2> QED
    BY <1>11, <2>3, <2>4 DEF HoldsEnd
<1>15. Ends(q, y)
  <2>1. Len(y) # 0 /\ y[Len(y)] # "n" /\ q.count # 0
    BY <1>2, <1>8, <1>11
  <2>2. q.partial < BootlogCols /\ q.partial = Len(Newest(q, 1))
    <3>1. CASE 0 < BootlogCols - 1
      <4>1. Len(Append(<<>>, c)) = 1
        OBVIOUS
      <4> QED
        <5>1. q.partial = 0 + 1 /\ Newest(q, 1) = Append(<<>>, c)
          BY <1>11, <3>1
        <5>2. Len(Newest(q, 1)) = 1
          BY <4>1, <5>1, Zenon
        <5> QED
          BY <1>0, <3>1, <5>1, <5>2
    <3>2. CASE ~(0 < BootlogCols - 1)
      <4>1. Len(<<>>) = 0
        OBVIOUS
      <4> QED
        <5>1. q = b
          BY <1>11, <3>2
        <5>2. q.partial = 0 /\ Newest(q, 1) = <<>>
          BY <1>7, <5>1, Zenon
        <5>3. Len(Newest(q, 1)) = 0
          BY <4>1, <5>2, Zenon
        <5> QED
          BY <1>0, <5>2, <5>3
    <3> QED
      BY <3>1, <3>2
  <2>3. OpenFrom(y, a)
    <3>1. a..Len(y) = {Len(y)}
      BY <1>2, <1>a
    <3> QED
      BY <1>3, <2>1, <3>1 DEF OpenFrom
  <2> QED
    BY <2>1, <2>2, <2>3 DEF Ends
<1> QED
  BY <1>1, <1>9, <1>14, <1>15

(* One more character of the text. *)
LEMMA CharacterPut ==
  ASSUME NEW r, NEW x \in Seq(STRING), HoldsEnd(r, x), Ends(r, x), NEW c \in STRING
  PROVE  HoldsEnd(L!Put(r, c), Append(x, c)) /\ Ends(L!Put(r, c), Append(x, c))
BY LineEnded, LineGrown, LineBegun

-----------------------------------------------------------------------------
(* The whole of a text. *)

LEMMA OneLonger ==
  ASSUME NEW z \in Seq(STRING), NEW m \in Nat, m < Len(z)
  PROVE  /\ SubSeq(z, 1, m) \in Seq(STRING) /\ z[m + 1] \in STRING
         /\ SubSeq(z, 1, m + 1) = Append(SubSeq(z, 1, m), z[m + 1])
<1>1. SubSeq(z, 1, m) \in Seq(STRING) /\ Len(SubSeq(z, 1, m)) = m /\ z[m + 1] \in STRING
  OBVIOUS
<1>2. SubSeq(z, 1, m + 1) \in Seq(STRING) /\ Len(SubSeq(z, 1, m + 1)) = m + 1
  OBVIOUS
<1>3. PICK p, q : p = SubSeq(z, 1, m + 1) /\ q = Append(SubSeq(z, 1, m), z[m + 1])
  OBVIOUS
<1>4. p \in Seq(STRING) /\ q \in Seq(STRING) /\ Len(p) = m + 1 /\ Len(q) = m + 1
  BY <1>1, <1>2, <1>3, AppendProperties
<1>5. ASSUME NEW k \in 1..(m + 1) PROVE p[k] = q[k]
  <2>1. p[k] = z[k]
    BY <1>3
  <2>2. q[k] = z[k]
    BY <1>1, <1>3
  <2> QED
    BY <2>1, <2>2
<1>6. p = q
  BY <1>4, <1>5, SeqEqual
<1> QED
  BY <1>1, <1>3, <1>6

(* What the loop of bootlogAppend has made of the ring after n characters. *)
Turns(r, t, g, m) == g = [n \in 0..m |-> IF n = 0 THEN r ELSE L!Put(g[n - 1], t[n])]

LEMMA TurnsExist ==
  ASSUME NEW r, NEW t, NEW m \in Nat
  PROVE  \E g : Turns(r, t, g, m)
<1> DEFINE T == {k \in Nat : ~\E g : Turns(r, t, g, k)}
<1> SUFFICES ASSUME T # {} PROVE FALSE
  OBVIOUS
<1>1. PICK k \in T : \A l \in T : k <= l
  BY Minimum
<1>2. k \in Nat /\ ~\E g : Turns(r, t, g, k)
  BY <1>1
<1>3. k # 0
  <2>1. Turns(r, t, [n \in 0..0 |-> r], 0)
    BY DEF Turns
  <2> QED
    BY <1>2, <2>1
<1>4. k - 1 \in Nat /\ k - 1 \notin T
  BY <1>1, <1>2, <1>3
<1>5. PICK g : Turns(r, t, g, k - 1)
  BY <1>4
<1>6. PICK h : h = [n \in 0..k |-> IF n = k THEN L!Put(g[k - 1], t[k]) ELSE g[n]]
  OBVIOUS
<1>7. ASSUME NEW n \in 0..k
      PROVE  h[n] = IF n = 0 THEN r ELSE L!Put(h[n - 1], t[n])
  <2>1. CASE n = k
    <3>1. h[n] = L!Put(g[k - 1], t[k])
      BY <1>6, <2>1
    <3>2. h[k - 1] = g[k - 1]
      BY <1>3, <1>4, <1>6
    <3> QED
      BY <1>3, <2>1, <3>1, <3>2
  <2>2. CASE n # k
    <3>1. n \in 0..(k - 1) /\ h[n] = g[n]
      BY <1>2, <1>6, <2>2
    <3>2. g[n] = IF n = 0 THEN r ELSE L!Put(g[n - 1], t[n])
      BY <1>5, <3>1 DEF Turns
    <3>3. n # 0 => h[n - 1] = g[n - 1]
      BY <1>2, <1>6, <3>1
    <3> QED
      BY <3>1, <3>2, <3>3
  <2> QED
    BY <2>1, <2>2
<1>8. Turns(r, t, h, k)
  <2>1. h = [n \in 0..k |-> h[n]]
    BY <1>6
  <2> QED
    BY <1>7, <2>1 DEF Turns
<1> QED
  BY <1>2, <1>8

LEMMA TextWritten ==
  ASSUME NEW r, NEW x \in Seq(STRING), HoldsEnd(r, x), Ends(r, x), NEW t \in Seq(STRING)
  PROVE  HoldsEnd(L!Write(r, t), x \o t) /\ Ends(L!Write(r, t), x \o t)
<1>1. PICK h : h = CHOOSE after : after = [n \in 0..Len(t) |->
                                             IF n = 0 THEN r ELSE L!Put(after[n - 1], t[n])]
  OBVIOUS
<1>2. L!Write(r, t) = h[Len(t)]
  BY <1>1, Zenon DEF L!Write
<1>3. \E g : g = [n \in 0..Len(t) |-> IF n = 0 THEN r ELSE L!Put(g[n - 1], t[n])]
  <2>1. Len(t) \in Nat
    OBVIOUS
  <2>2. PICK g : Turns(r, t, g, Len(t))
    BY <2>1, TurnsExist
  <2> QED
    BY <2>2, Zenon DEF Turns
<1>4. h = [n \in 0..Len(t) |-> IF n = 0 THEN r ELSE L!Put(h[n - 1], t[n])]
  BY <1>1, <1>3, Zenon
<1>5. PICK z, l, m : z = x \o t /\ l = Len(x) /\ m = Len(t)
  OBVIOUS
<1>6. z \in Seq(STRING) /\ l \in Nat /\ m \in Nat /\ Len(z) = l + m
  BY <1>5
<1>7. \A n \in 1..m : z[l + n] = t[n]
  BY <1>5
<1>8. SubSeq(z, 1, l) = x
  BY <1>5
<1>9. SubSeq(z, 1, l + m) = z
  BY <1>6
<1> DEFINE Good(n) == HoldsEnd(h[n], SubSeq(z, 1, l + n)) /\ Ends(h[n], SubSeq(z, 1, l + n))
<1>10. Good(0)
  <2>1. h[0] = r /\ l + 0 = l
    BY <1>4, <1>6
  <2> QED
    BY <1>8, <2>1
<1>11. ASSUME NEW n \in Nat, n < m, Good(n) PROVE Good(n + 1)
  <2>1. h[n + 1] = L!Put(h[n], t[n + 1])
    <3>1. n + 1 \in 0..Len(t) /\ n + 1 # 0 /\ (n + 1) - 1 = n
      BY <1>5, <1>6, <1>11
    <3> QED
      BY <1>4, <3>1
  <2>2. t[n + 1] = z[(l + n) + 1] /\ l + n \in Nat /\ l + n < Len(z) /\ l + (n + 1) = (l + n) + 1
    <3>1. n + 1 \in 1..m /\ l + (n + 1) = (l + n) + 1 /\ l + n \in Nat /\ l + n < Len(z)
      BY <1>6, <1>11
    <3> QED
      BY <1>7, <3>1
  <2>3. PICK y : y = SubSeq(z, 1, l + n)
    OBVIOUS
  <2>4. /\ y \in Seq(STRING) /\ t[n + 1] \in STRING
        /\ SubSeq(z, 1, l + (n + 1)) = Append(y, t[n + 1])
    BY <1>6, <2>2, <2>3, OneLonger
  <2>5. HoldsEnd(h[n], y) /\ Ends(h[n], y)
    BY <1>11, <2>3
  <2>6. /\ HoldsEnd(L!Put(h[n], t[n + 1]), Append(y, t[n + 1]))
        /\ Ends(L!Put(h[n], t[n + 1]), Append(y, t[n + 1]))
    BY <2>4, <2>5, CharacterPut
  <2> QED
    BY <2>1, <2>4, <2>6
<1> HIDE DEF Good
<1>12. Good(m)
  <2> DEFINE T == {k \in 0..m : ~Good(k)}
  <2>1. ASSUME T # {} PROVE FALSE
    <3>1. PICK k \in T : \A b \in T : k <= b
      <4>1. T \in SUBSET Nat
        BY <1>6
      <4> QED
        BY <2>1, <4>1, Minimum
    <3>2. k \in 0..m /\ ~Good(k) /\ k # 0
      BY <1>10, <3>1
    <3>3. k - 1 \in Nat /\ k - 1 < m /\ k - 1 \notin T /\ (k - 1) + 1 = k
      BY <1>6, <3>1, <3>2
    <3>4. Good(k - 1)
      BY <1>6, <3>2, <3>3
    <3>5. Good((k - 1) + 1)
      BY <1>11, <3>3, <3>4
    <3> QED
      BY <3>2, <3>3, <3>5
  <2> QED
    BY <1>6, <2>1
<1> USE DEF Good
<1> QED
  BY <1>2, <1>5, <1>9, <1>12

-----------------------------------------------------------------------------
(* The log is a ring that holds the end of the text. *)
LogInv == text \in Seq(STRING) /\ HoldsEnd(L!ring, text) /\ Ends(L!ring, text)

LEMMA LogInvTrue == LogInv => L!LogIsTail
<1> SUFFICES ASSUME LogInv PROVE L!LogIsTail
  OBVIOUS
<1>1. L!Cardinality(L!LineStarts(text)) = Cardinality(L!LineStarts(text))
  BY SameCount
<1>2. L!ring.count = count
  BY DEF L!ring
<1>3. count = IF Cardinality(L!LineStarts(text)) < BootlogLines
              THEN Cardinality(L!LineStarts(text)) ELSE BootlogLines
  BY <1>2 DEF LogInv, HoldsEnd
<1>4. ASSUME NEW s \in L!LineStarts(text), L!LinesFrom(text, s) <= BootlogLines
      PROVE  L!Shows(L!bootlogLine(count - L!LinesFrom(text, s)), text, s)
  <2>1. PICK n : n = L!LinesFrom(text, s)
    OBVIOUS
  <2>2. L!Shows(Newest(L!ring, n), text, s)
    BY <1>4, <2>1 DEF LogInv, HoldsEnd
  <2>3. Newest(L!ring, n) = L!bootlogLine(count - n)
    BY DEF Newest, L!ring, L!bootlogLine
  <2> QED
    BY <2>1, <2>2, <2>3
<1> QED
  BY <1>1, <1>3, <1>4 DEF L!LogIsTail

LEMMA LogInitInv == L!Init => LogInv
<1> SUFFICES ASSUME L!Init PROVE LogInv
  OBVIOUS
<1>0. BootlogLines \in Nat /\ BootlogLines > 0 /\ BootlogCols \in Nat /\ BootlogCols > 0
  BY LogAssumption
<1>1. /\ lines = [k \in 0..(BootlogLines - 1) |-> <<>>]
      /\ first = 0 /\ count = 0 /\ partial = 0 /\ text = <<>>
  BY DEF L!Init
<1>2. text \in Seq(STRING) /\ Len(text) = 0
  BY <1>1
<1>3. lines \in [0..(BootlogLines - 1) -> Seq(STRING)]
  BY <1>1
<1>4. L!ring \in Rings /\ L!ring.count = 0
  BY <1>0, <1>1, <1>3 DEF L!ring, Rings
<1>5. L!LineStarts(text) = {}
  <2>1. L!LineStarts(text) \subseteq 1..Len(text)
    BY <1>2, StartsCounted
  <2>2. 1..Len(text) = {}
    BY <1>2
  <2> QED
    BY <2>1, <2>2
<1>6. Cardinality(L!LineStarts(text)) = 0
  BY <1>5, FS_EmptySet
<1>7. HoldsEnd(L!ring, text)
  BY <1>0, <1>4, <1>5, <1>6 DEF HoldsEnd
<1>8. Ends(L!ring, text)
  BY <1>2, <1>4 DEF Ends
<1> QED
  BY <1>2, <1>7, <1>8 DEF LogInv

LEMMA LogNextInv == LogInv /\ [L!Next]_logvars => LogInv'
<1> SUFFICES ASSUME LogInv, [L!Next]_logvars PROVE LogInv'
  OBVIOUS
<1>1. CASE L!bootlogAppend
  <2>1. PICK t \in Texts :
          LET q == L!Write(L!ring, t)
          IN /\ lines' = q.lines /\ first' = q.first /\ count' = q.count /\ partial' = q.partial
             /\ text' = text \o t
    BY <1>1 DEF L!bootlogAppend
  <2>2. PICK q : q = L!Write(L!ring, t)
    OBVIOUS
  <2>3. t \in Seq(STRING) /\ text' = text \o t
    BY <2>1, LogAssumption
  <2>4. HoldsEnd(q, text') /\ Ends(q, text')
    BY <2>2, <2>3, TextWritten DEF LogInv
  <2>5. q \in Rings
    BY <2>4 DEF HoldsEnd
  <2>6. L!ring' = q
    <3>1. lines' = q.lines /\ first' = q.first /\ count' = q.count /\ partial' = q.partial
      BY <2>1, <2>2
    <3>2. L!ring' = [lines |-> lines', first |-> first', count |-> count', partial |-> partial']
      BY DEF L!ring
    <3> QED
      BY <2>5, <3>1, <3>2, RingField
  <2>7. text' \in Seq(STRING)
    BY <2>3 DEF LogInv
  <2>8. HoldsEnd(L!ring', text') /\ Ends(L!ring', text')
    BY <2>4, <2>6
  <2> QED
    BY <2>7, <2>8 DEF LogInv
<1>2. CASE UNCHANGED <<lines, first, count, partial, text>>
  <2>1. L!ring' = L!ring /\ text' = text
    BY <1>2 DEF L!ring
  <2> QED
    BY <2>1 DEF LogInv
<1>3. L!bootlogAppend \/ UNCHANGED <<lines, first, count, partial, text>>
  BY DEF L!Next, L!repaint, L!bootlogBegin, logvars
<1> QED
  BY <1>1, <1>2, <1>3

-----------------------------------------------------------------------------
(* The parts side by side *)

LoaderInv ==
  /\ ModulesInv /\ StartInv /\ ScreenInv /\ FileInv /\ ConfigInv /\ LogInv /\ ScanInv /\ RteInv

LEMMA LoaderInitInv == LoaderInit => LoaderInv
BY ModulesInitInv, StartInitInv, ScreenInitInv, FileInitInv, ConfigInitInv, LogInitInv,
   ScanInitInv, RteInitInv
DEF LoaderInit, LoaderInv

(* A step of one part leaves the others alone. *)
LEMMA LoaderParts ==
  [LoaderNext]_allvars =>
    /\ [M!Next]_modulevars /\ [S!Next]_startvars /\ [W!Next]_screenvars
    /\ [F!Next]_menuvars /\ [G!Next]_configvars /\ [L!Next]_logvars
    /\ [X!Next]_scanvars /\ [R!Next]_rtevars
<1>1. ASSUME UNCHANGED allvars
      PROVE  /\ UNCHANGED modulevars /\ UNCHANGED startvars /\ UNCHANGED screenvars
             /\ UNCHANGED menuvars /\ UNCHANGED configvars /\ UNCHANGED logvars
             /\ UNCHANGED scanvars /\ UNCHANGED rtevars
  BY <1>1 DEF allvars
<1> QED
  BY <1>1 DEF LoaderNext

LEMMA LoaderNextInv == LoaderInv /\ [LoaderNext]_allvars => LoaderInv'
BY LoaderParts, ModulesNextInv, StartNextInv, ScreenNextInv, FileNextInv, ConfigNextInv,
   LogNextInv, ScanNextInv, RteNextInv
DEF LoaderInv

(* The inductive invariant of the parts of the loader. *)
THEOREM LoaderInvariance == LoaderSpec => []LoaderInv
BY LoaderInitInv, LoaderNextInv, PTL DEF LoaderSpec

(* For every choice in the menu, set of media and number of boots and passes, the *)
(* modules started serve the devices Linux is told of, in the right order; none   *)
(* is started from a buffer that was never filled, and the loader's disc calls    *)
(* reach a server that runs.                                                      *)
THEOREM ModulesServeHolds == LoaderSpec => []ModulesServe
<1>1. LoaderInv => ModulesServe
  BY StartedLoadedTrue, DevicesServedTrue, StartInvTrue DEF LoaderInv, ModulesServe
<1> QED
  BY <1>1, LoaderInvariance, PTL

(* For every set of media and number of passes, the settings come from the first  *)
(* place that has a file, and for every sequence of changes, saves and loads an   *)
(* unedited file gives back the settings it was written from.                     *)
THEOREM ConfigTrueHolds == LoaderSpec => []ConfigTrue
<1>1. LoaderInv => ConfigTrue
  BY StartInvTrue DEF LoaderInv, ConfigInv, ConfigTrue
<1> QED
  BY <1>1, LoaderInvariance, PTL

(* For every size of the panel and all texts, however kprintf's calls split them, *)
(* the ring of bootlog.c holds the last lines written, in order, each from its    *)
(* first character on as far as the panel has room.                               *)
THEOREM LogIsTailHolds == LoaderSpec => []LogIsTail
<1>1. LoaderInv => LogIsTail
  BY LogInvTrue DEF LoaderInv, LogIsTail
<1> QED
  BY <1>1, LoaderInvariance, PTL

(* For every range of the registers and any code, the table getSBIOSCallTable     *)
(* finds is the one the code jumps through.                                       *)
THEOREM TableFoundHolds == LoaderSpec => []TableFound
<1>1. LoaderInv => TableFound
  BY DEF LoaderInv, ScanInv
<1> QED
  BY <1>1, LoaderInvariance, PTL

(* For every size of the ring of messages and of inputBuffer, errors are shown    *)
(* in the order of their reports, none that was accepted is skipped, and the      *)
(* cursor stays in the text.                                                      *)
THEOREM ScreenTrueHolds == LoaderSpec => []ScreenTrue
<1>1. LoaderInv => ScreenTrue
  BY ScreenInvTrue DEF LoaderInv
<1> QED
  BY <1>1, LoaderInvariance, PTL

(* For every set of devices, length of paths, length of files and image, the path *)
(* is that of the directory shown, a copy leaves a complete file or none, and a   *)
(* part cut out of a larger file is the one asked for.                            *)
THEOREM FilesTrueHolds == LoaderSpec => []FilesTrue
<1>1. LoaderInv => FilesTrue
  BY FilesInvTrue DEF LoaderInv
<1> QED
  BY <1>1, LoaderInvariance, PTL
=============================================================================
