------------------------------ MODULE BootImage ------------------------------
(***************************************************************************)
(* loader/loader.c: the memory of a boot.  The loader sits in the upper half   *)
(* of the RAM.  The kernel's ELF file is read into a buffer of the heap behind *)
(* the loader, its sections are checked against the RAM below, the initial RAM *)
(* disk is read straight to its final place behind the kernel, and only when   *)
(* nothing can fail any more the SBIOS and the sections are copied over the     *)
(* PS2's own kernel, verified, and started.                                    *)
(***************************************************************************)
EXTENDS Integers, Sequences

CONSTANTS
  Wrap,          \* 2^32, where addresses and sizes wrap around
  Page,          \* 4096
  HdrSize,       \* the two words in front of an initrd
  SbiosStart,    \* 0x1000, the SBIOS reaches up to KernelStart
  KernelStart,   \* 0x10000
  NormalStart,   \* NORMAL_MEMORY_START
  LoaderStart,   \* _ftext; the heap and its buffers are above
  BootInfo,      \* PS2_BOOTINFO_OLDADDR, the last address of the model
  Headers,       \* program headers of the kernels tried
  Entries,       \* their entry points
  FileSize,      \* their file size
  MaxHeaders,    \* at most so many program headers
  InitrdSizes    \* sizes of the RAM discs tried

ASSUME LayoutAssumption ==
  /\ Wrap \in Nat /\ 2 * BootInfo < Wrap
  /\ {Page, HdrSize, SbiosStart, KernelStart, NormalStart, LoaderStart, BootInfo} \subseteq Nat
  /\ Page > 0
  /\ SbiosStart < KernelStart /\ KernelStart <= NormalStart
  /\ NormalStart < LoaderStart /\ LoaderStart < BootInfo
  /\ Headers \subseteq [load : BOOLEAN, area : BOOLEAN, dest : Nat, memsz : 0..(Wrap - 1),
                        filesz : 0..(Wrap - 1), offset : Nat]
  /\ \A h \in Headers : 8 * h.dest < Wrap          \* dest after PHYSADDR
  /\ Entries \subseteq Nat /\ InitrdSizes \subseteq Nat
  /\ FileSize \in Nat /\ MaxHeaders \in Nat

VARIABLES
  pc,        \* where real_loader is
  wide,      \* the kernel is a 64 bit ELF file
  entry,     \* its entry point
  headers,   \* its program headers, as far as they were looked at
  highest, copiedEntry,
  base,      \* address of the initrd header, 0 for initrd_header = NULL
  initrd,    \* size of the initrd loaded, 0 for none
  got,       \* how much of it was read
  buffer,    \* the kernel file is in the heap
  kept,      \* the other files in the heap: "sbios", "modules"
  mem,       \* what each address holds
  i,         \* next program header to copy or verify
  rv         \* what real_loader returned

vars == <<pc, wide, entry, headers, highest, copiedEntry, base, initrd, got, buffer, kept, mem,
          i, rv>>

Addresses == 0..BootInfo
Byte(of, at) == [of |-> of, at |-> at]
Loader == Byte("loader", 0)
Zero == Byte("zero", 0)

Write(m, first, size, content(_)) ==
  [a \in Addresses |-> IF a >= first /\ a < first + size THEN content(a - first) ELSE m[a]]

Size(h) == IF h.memsz < h.filesz THEN h.filesz ELSE h.memsz
Last(h) == (h.dest + Size(h)) % Wrap
Loaded(h) == h.load /\ h.memsz # 0

-----------------------------------------------------------------------------
Goto(label) == pc' = label /\ rv' = rv
Return(code) == pc' = "returned" /\ rv' = code

(* load_sbios: every way out frees the file, except the one for a binary file   *)
(* that is too large.                                                           *)
load_sbios ==
  /\ pc = "sbios"
  /\ \/ Goto("kernel") /\ kept' = kept
     \/ Return(-35) /\ kept' \in {kept, {"sbios"}}
  /\ UNCHANGED <<wide, entry, headers, highest, copiedEntry, base, initrd, got, buffer, mem, i>>

(* load_kernel_file: the file is read, or cannot be opened or is too big. *)
load_kernel_file ==
  /\ pc = "kernel"
  /\ \/ Goto("entry") /\ buffer' = TRUE
     \/ Return(-1) /\ buffer' = buffer
  /\ UNCHANGED <<wide, entry, headers, highest, copiedEntry, base, initrd, got, kept, mem, i>>

(* check_sections, first half: the magic number and the entry point. *)
CheckEntry ==
  /\ pc = "entry"
  /\ \/ entry \in KernelStart..(LoaderStart - 1) /\ Goto("sections") /\ buffer' = buffer
     \/ Return(-2) /\ buffer' = FALSE              \* not an ELF file, or no room for it
  /\ UNCHANGED <<wide, entry, headers, highest, copiedEntry, base, initrd, got, kept, mem, i>>

(* One program header.  Only the file's own part must be in the file, only a    *)
(* section with a size needs a place.                                          *)
Fits_NoEnd(h) ==
  /\ h.filesz # 0 => h.offset + h.filesz < FileSize
  /\ h.area /\ h.dest >= KernelStart
  /\ Last(h) <= LoaderStart + 1

Fits(h) ==
  /\ h.filesz # 0 => h.offset + h.filesz < FileSize
  /\ h.area /\ h.dest >= KernelStart
  /\ Last(h) < LoaderStart

CheckSection ==
  /\ pc = "sections" /\ Len(headers) < MaxHeaders
  /\ \E h \in Headers :
       /\ headers' = Append(headers, h)
       /\ highest' = IF Loaded(h) /\ highest < Last(h) THEN Last(h) ELSE highest
       /\ copiedEntry' = (copiedEntry \/ (Loaded(h) /\ h.dest <= entry /\ Last(h) > entry))
       /\ IF ~Loaded(h) \/ Fits(h) THEN Goto(pc) /\ buffer' = buffer
                                   ELSE Return(-2) /\ buffer' = FALSE
  /\ UNCHANGED <<wide, entry, base, initrd, got, kept, mem, i>>

check_sections32 == ~wide /\ CheckSection
check_sections64 == wide /\ CheckSection

(* The last header: the entry point must have been in a section.  Then the     *)
(* header of the initrd goes to the end of the kernel's last page, if there    *)
(* is room for it.                                                             *)
RoundUp(a) == ((a + Page - 1) \div Page) * Page

InitrdHeader_Unchecked ==
  LET b == RoundUp(highest) - HdrSize
  IN IF highest < LoaderStart /\ highest >= NormalStart THEN b ELSE 0

InitrdHeader ==
  LET b == RoundUp(highest) - HdrSize
  IN IF highest < LoaderStart /\ highest >= NormalStart /\ b > highest THEN b ELSE 0

PlaceInitrd ==
  /\ pc = "sections"
  /\ IF copiedEntry THEN Goto("modules") /\ base' = InitrdHeader /\ buffer' = buffer
                    ELSE Return(-2) /\ base' = base /\ buffer' = FALSE
  /\ UNCHANGED <<wide, entry, headers, highest, copiedEntry, initrd, got, kept, mem, i>>

(* The files of the modules stay in the heap, also when loadModules fails and    *)
(* frees the wrong buffer; what becomes of them is in BootModules.               *)
LoadModules ==
  /\ pc = "modules"
  /\ \/ Goto("initrd") /\ buffer' = buffer
     \/ Return(-2) /\ buffer' = FALSE
  /\ kept' \in {{}, {"modules"}}
  /\ UNCHANGED <<wide, entry, headers, highest, copiedEntry, base, initrd, got, mem, i>>

(* The initrd, read by load_file to the address behind its header, which also  *)
(* limits its size.  Reading stops with the first fread that gives nothing, and *)
(* the size is that of the file all the same.  No initrd may be configured.     *)
InitrdRoom == LoaderStart - (base + HdrSize)

LoadInitrd ==
  /\ pc = "initrd"
  /\ \/ Goto("crc") /\ UNCHANGED <<initrd, got, buffer, mem>>                \* none configured
     \/ base = 0 /\ Return(-12) /\ buffer' = FALSE /\ UNCHANGED <<initrd, got, mem>>
     \/ /\ base # 0 /\ Return(-10) /\ buffer' = FALSE                   \* cannot be opened
        /\ UNCHANGED <<initrd, got, mem>>
     \/ \E size \in InitrdSizes : \E n \in 0..size :
          /\ base # 0
          /\ IF size > InitrdRoom
             THEN Return(-10) /\ buffer' = FALSE /\ UNCHANGED <<initrd, got, mem>>
             ELSE LET read == Write(mem, base + HdrSize, n, LAMBDA k : Byte("initrd", k))
                  IN IF size = 0 \/ base + HdrSize + size >= LoaderStart
                     THEN /\ Return(IF size = 0 THEN -9 ELSE -11)
                          /\ mem' = read /\ buffer' = FALSE /\ UNCHANGED <<initrd, got>>
                     ELSE /\ mem' = Write(read, base, HdrSize, LAMBDA k : Byte("header", k))
                          /\ Goto("crc") /\ initrd' = size /\ got' = n /\ buffer' = buffer
  /\ UNCHANGED <<wide, entry, headers, highest, copiedEntry, base, kept, i>>

(* crc32check: nothing may have touched the loader's own text. *)
crc32check ==
  /\ pc = "crc"
  /\ IF \A a \in LoaderStart..BootInfo : mem[a] = Loader
     THEN Goto("install") /\ buffer' = buffer ELSE Return(-13) /\ buffer' = FALSE
  /\ UNCHANGED <<wide, entry, headers, highest, copiedEntry, base, initrd, got, kept, mem, i>>

-----------------------------------------------------------------------------
(* No way back: the IOP was reset and interrupts are off. *)
InstallSbios ==
  /\ pc = "install" /\ Goto("copy")
  /\ mem' = Write(mem, SbiosStart, KernelStart - SbiosStart, LAMBDA n : Byte("sbios", n))
  /\ i' = 1
  /\ UNCHANGED <<wide, entry, headers, highest, copiedEntry, base, initrd, got, buffer, kept>>

(* What is filled with zeros behind the file's part: memsz - filesz as an int, *)
(* when it is positive.                                                        *)
Zeros(h) ==
  LET size == (h.memsz - h.filesz) % Wrap
  IN IF 2 * size < Wrap THEN size ELSE 0

CopySection ==
  /\ pc = "copy" /\ i <= Len(headers)
  /\ LET h == headers[i]
         file == Write(mem, h.dest, h.filesz, LAMBDA n : Byte("kernel", h.offset + n))
     IN mem' = IF ~Loaded(h) THEN mem
               ELSE Write(file, h.dest + h.filesz, Zeros(h), LAMBDA n : Zero)
  /\ i' = i + 1 /\ Goto(pc)
  /\ UNCHANGED <<wide, entry, headers, highest, copiedEntry, base, initrd, got, buffer, kept>>

copy_sections32 == ~wide /\ CopySection
copy_sections64 == wide /\ CopySection

(* verify_sections: the file's part of a section is compared, of the part      *)
(* filled with zeros only the first byte.  What is above the model's memory    *)
(* may compare as it likes.                                                    *)
VerifySection ==
  /\ pc = "verify" /\ i <= Len(headers)
  /\ LET h == headers[i]
         Holds(a, b) == a \in Addresses => mem[a] = b
         same == /\ \A n \in 0..(h.filesz - 1) : Holds(h.dest + n, Byte("kernel", h.offset + n))
                 /\ h.memsz # h.filesz => Holds(h.dest + h.filesz, Zero)
     IN \/ (~Loaded(h) \/ same) /\ pc' = pc
        \/ Loaded(h) /\ (~same \/ h.dest + h.filesz \notin Addresses) /\ pc' = "panic"
  /\ i' = i + 1
  /\ UNCHANGED <<wide, entry, headers, highest, copiedEntry, base, initrd, got, buffer, kept, mem,
                 rv>>

verify_sections32 == ~wide /\ VerifySection
verify_sections64 == wide /\ VerifySection

NextPass ==
  /\ pc \in {"copy", "verify"} /\ i = Len(headers) + 1
  /\ Goto(IF pc = "copy" THEN "verify" ELSE "bootinfo") /\ i' = 1
  /\ UNCHANGED <<wide, entry, headers, highest, copiedEntry, base, initrd, got, buffer, kept, mem>>

JumpToKernel ==
  /\ pc = "bootinfo" /\ Goto("kernel runs")
  /\ mem' = Write(mem, BootInfo, 1, LAMBDA n : Byte("bootinfo", 0))
  /\ UNCHANGED <<wide, entry, headers, highest, copiedEntry, base, initrd, got, buffer, kept, i>>

-----------------------------------------------------------------------------
Init ==
  /\ pc = "sbios" /\ rv = 0
  /\ wide \in BOOLEAN /\ entry \in Entries
  /\ headers = <<>> /\ highest = 0 /\ copiedEntry = FALSE
  /\ base = 0 /\ initrd = 0 /\ got = 0 /\ buffer = FALSE /\ kept = {} /\ i = 1
  /\ mem = [a \in Addresses |-> IF a < LoaderStart THEN Byte("ps2", 0) ELSE Loader]

Next ==
  \/ load_sbios \/ load_kernel_file \/ CheckEntry
  \/ check_sections32 \/ check_sections64 \/ PlaceInitrd
  \/ LoadModules \/ LoadInitrd \/ crc32check
  \/ InstallSbios \/ copy_sections32 \/ copy_sections64
  \/ verify_sections32 \/ verify_sections64 \/ NextPass \/ JumpToKernel

Spec == Init /\ [][Next]_vars

-----------------------------------------------------------------------------
(* A section whose end wraps around.  check_sections compares the wrapped end,   *)
(* so that a file with a memsz near 2^32 passes wherever its section begins.     *)
Wraps(h) == Loaded(h) /\ h.dest + Size(h) >= Wrap
Overrun == \E k \in 1..Len(headers) : Wraps(headers[k])

(* The loader runs from its own memory until it jumps: no check of an ELF      *)
(* file, copy of a section, SBIOS or initrd ever reaches it, but for the copy   *)
(* of a section that wraps.                                                     *)
LoaderUntouched ==
  pc # "kernel runs" /\ ~(Overrun /\ pc \in {"copy", "verify", "panic", "bootinfo"}) =>
    \A a \in LoaderStart..BootInfo : mem[a] = Loader

(* What the kernel finds when it starts: the SBIOS, a section at the entry      *)
(* point and, unless a section wrapped, the initrd behind its header, although   *)
(* the sections were copied after it was read.  The initrd is whole when no read *)
(* failed; else the kernel is told of bytes that nobody wrote.                   *)
StartsWhole ==
  pc = "kernel runs" =>
    /\ \A a \in SbiosStart..(KernelStart - 1) : mem[a] = Byte("sbios", a - SbiosStart)
    /\ initrd # 0 /\ ~Overrun =>
         /\ \A n \in 0..(HdrSize - 1) : mem[base + n] = Byte("header", n)
         /\ \A n \in 0..(initrd - 1) :
              mem[base + HdrSize + n] = IF n < got THEN Byte("initrd", n) ELSE Byte("ps2", 0)
    /\ mem[entry].of \in {"kernel", "zero"}

(* A boot that is given up frees the kernel file and leaves the PS2's kernel   *)
(* usable: the menu goes on with both.  Files of modules stay in the heap, and  *)
(* the file of an SBIOS that was too large.                                     *)
GivenUpClean ==
  pc = "returned" =>
    /\ ~buffer /\ \A a \in 0..(KernelStart - 1) : mem[a] = Byte("ps2", 0)
    /\ kept = {"sbios"} => rv = -35
    /\ kept = {"modules"} => rv \notin {-35, -1}

(* What the kernel finds when it starts is what was loaded, and a boot that     *)
(* real_loader gives up leaves no kernel file and the PS2's kernel as it was.   *)
BootWhole == StartsWhole /\ GivenUpClean
=============================================================================
