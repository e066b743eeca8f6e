# A TLA+ verification of kernelreloaded

kernelreloaded boots Linux on a PlayStation 2. It contains the loader the user
starts, a small kernel stub for the Emotion Engine (EE), modules for the I/O
processor (IOP), and the SBIOS (`TGE/sbios`), the firmware Linux keeps calling
after it has booted. The SBIOS and the kernel stub are where several actors
share state: Linux threads, interrupt handlers, the DMA controller and the IOP.
The loader is sequential, but has many exits, searches and devices that may or
may not be there; the IOP modules share buffers between calls and interrupts.

## Inventory

| Component | State it keeps | Operations | What makes it hard |
|---|---|---|---|
| SIF DMA ring, `sifdma.c` | ring of 31 tags, lap counter, bounce buffers, DMAC registers | `SifSetDma`, `sif_dma_stat`, `sbcall_sifinit`, `sbcall_sifexit` | the DMAC reads the ring while software extends it; full and empty look alike; the tag under way is rebuilt |
| SIF commands, `sifcmd.c` | handler tables, receive buffer | send, SIF0 interrupt, add/delete handler | reception is rearmed in the interrupt |
| SIF RPC, `sifrpc.c` | packet table, client and server descriptors, answer table | bind, call, check, `_request_end`, server side | steps separately masked; end functions call again; failed sends |
| IOP heap, `iopheap.c` | bound flag, mutex, one packet | init, alloc, free, two end functions | flag tested outside the mutex; one buffer for argument and answer |
| Memory cards, `mc.c` | init stage, `lastCmd`, command buffers | init, 15 commands, end functions | no mutex; DMA reads the command after the call returned |
| CD/DVD, `cdvd.c`, `ncmd.c`, `scmd.c` | init stage, two mutexes, bind flags, buffers | staged init, reset, 15 commands | the stage chooses the mutex to unlock; shared receive buffers |
| Mutex, `mutex.c` | one word | try-lock, unlock | unlock by an interrupt |
| Pads, `pad.c` | init stage, one request buffer, data area per port | staged init, ports, 8 commands, reads | buffer written before the busy check; the IOP writes while a read copies |
| Sound, `sound.c` | init stage, shared buffers, callbacks | staged init and end, 5 commands | no mutex; stages repeated after a failure |
| File I/O, `fileio.c`; console, `iopmemdebug.c` | semaphore; mailbox | debug builds | - |
| SBIOS calls, `sbios.c`, `misc.c` | none | dispatch | - |
| Interrupt relay, `TGE/iop/intrelay` | command buffers | IOP interrupt handlers | - |
| Kernel stub, `kernel/` | handler tables, interrupt masks, 32 semaphores, timers | system calls, interrupt dispatch | mask registers toggle; handlers and tasks share the pool |
| Loader: boot, `loader.c` | kernel file, sections, initrd, module table | check, load, copy, verify, start | many exits before and none after the point of no return; the loader must not overwrite itself |
| Loader: start and settings, `modules.c`, `configuration.cpp` | module list, search state, settings | IOP reset, module passes, search, save, reload | order of searches; servers die with a reset |
| Loader: screen, `loadermenu.cpp`, `main.cpp`, `menu*`, `graphic.cpp`, `bootlog.c` | menus, error queue, text, path, ring of lines | one key per turn, file menus, log | shared path; errors reported while others are shown |
| Loader: RTE copies, `getrte.c`, `getelf.c`, `getsbios.c` | files on the card | copy, cut, remove | the card may be full at any chunk |
| Ethernet, `iop/smaprpc` | packet pool, request queue, transmit memory, link state | RPC thread, interrupt, timer | queue full, ring memory, buffer exchanged during reception; link timeouts |
| Disc files, `iop/SMSCDVD` | open files, one sector, one part of a directory | open, read, seek, find, list | caches shared by all users; reads fail |
| RTE, tools, docs | none | run once over a file | - |

How they interact: Linux calls the SBIOS through a table (`sbios.c`). The
drivers (heap, memory card, CD/DVD, pad, sound) each own RPC clients and call
`SifBindRpc` and `SifCallRpc` with `SIF_RPC_M_NOWAIT` and an end function. SIF
RPC sends packets as SIF commands, those go out through the DMA ring. The IOP
answers with a SIF command; its interrupt calls `_request_end`, which calls the
driver's end function, which tells Linux. Nothing blocks: a busy driver returns
an error and Linux tries again.

What must hold: the ring is a FIFO; a packet or client never belongs to two
requests and is never lost; a driver's mutex or busy flag has one owner and is
given back on every path; an answer reaches the caller whose arguments it
answers; no request goes to a server that was not bound. The loader works in one
thread: `modules.c` brings up the IOP and finds the settings, the menus change
them, `loader.c` checks and loads kernel, initrd and modules, resets the IOP,
starts the modules and jumps. It must not overwrite itself, start something
incomplete, or tell Linux of a device without its module.

## Modules

`SifFifo` is the abstract stream and `SifDma` the ring that implements it;
`SifDmaStat` adds the status call. `RpcClient` is what a driver may assume of an
RPC client and `SifRpc` implements it. `SifServer` is the other direction.
`IopHeap`, `Mc`, `Cdvd`, `Pad` with `PadData`, and `Sound` are the drivers, each
above the client `RpcClient` describes (free, pending or lost).
`SemaPool` is what the kernel stub's semaphores promise and `KernelSema` the
array with its free list; `KernelDmac` and `KernelTimer` are the two interrupt
controllers of the stub with their users. Every driver module has the same shape: variables are the driver's globals plus,
per task, how far its call has come; an action is a stretch of code other
actors cannot interrupt; the IOP and the interrupt are actions of their own.

**SifDma** (`sifdma.c`). `sif1_dmatags`, `sif1_dmatag_index`, `sif1_dma_count`
and `iop_dmatags` are the globals of that name; `tadr`, `qwc`, `madr`, `tagid`,
`str` are the DMAC's registers. `SifSetDmaStart` is the head of `SifSetDma` up to
the free-tag check, `SifSetDmaTransfer` one iteration of its loop,
`SifSetDmaFull` the refused call. `DmacFetch`, `DmacMove` and `DmacJump` are the
hardware (external). Data are the positions of quadwords in the stream of
everything accepted, so a lost, repeated or overwritten quadword is visible.

**SifRpc** (`sifrpc.c`, EE as client). `GetPacket`, `Register`, `Send`,
`SendFailed`, `Wake` are the separately masked parts of `SifBindRpc` and
`SifCallRpc`; `RequestEnd`, `EndFunctionReturns`, `FreeAnswered` those of
`_request_end`, between which the end function may call again. `Uses` lists the
calls that are made. The ring below is a queue that may be full.

**IopHeap** (`iopheap.c`, `mutex.c`). The test of `_ih_caps`, `sbios_tryLock`,
filling the packet and sending it are separate steps. A write through
`iopheap_pkt` while it is NULL leaves the task at `"fault"`, which `TypeOK`
excludes.

**Mc** (`mc.c`). All commands are one table of records (`Op`): command, buffer,
end function. `DmacRead` reads the part of a command that was not copied, after
`SifCallRpc` returned. `InitCallback` and `Callback` are the end functions.

**Cdvd** (`cdvd.c`, `ncmd.c`, `scmd.c`, `mutex.c`). A call is its client, mutex
and receive buffer. `TryLock`, `CheckStat`, `Prepare`, `Send` are the steps of
`cdvdLockN`/`cdvdLockS`, `cdCheckNCmd`/`cdCheckSCmd` and of the call. A woken call
gives its mutex back and returns in one step, except `cdPowerOff`, which reads its
result from the shared buffer after the unlock (`Return`; `late` marks the calls for
which another command took S in between). `cdvdreset` takes no mutex and does not look
whether its client is bound; its request may go to no server (`Unserved`).

**KernelSema** (`kernel/thread.c`). `count`, `next`, `free` are the fields of
`semaphoreArray`, `head` is `semaphoreListHead`. System calls run with EXL set and
are one step each; `WaitSema` alone is several, since it opens a window for
interrupts between two attempts (`WaitAgain`, `WindowEnds`), where handlers make
the same calls. Numbers passed may be stale or out of range; a negative one only
where the code checks for it.

**KernelDmac** (`kernel/dmac.c`, entry from `irq.c`). `cis` and `cim` are the two
halves of D_STAT, `saved` the bits of `saved_dmac_mask`. `Write` is the hardware:
status bits are cleared and mask bits inverted by writing 1 (external; the code
relies on it when it writes the same value to enable and to disable).
`dmac_interrupt` reads status and mask once, then the loop acknowledges
(`Acknowledge`) and calls (`CallHandlers`, `UserHandlerReturns`) while transfers
complete. `owed` records which handlers were not called since their channel
completed, `asked` what the program asked for last.

**KernelTimer** (`kernel/intc.c`, `timers.c`). The same for INTC_MASK and INTC_STAT,
with timer 0 counting (`Tick`, external), its overflow handler and `timer_time` as
two reads and the conversion to microseconds. The conversion divides by BUSCLK/256,
as the comment at `timers.c:79` has it, while line 123 sets the mode for BUSCLK/16, so
`TimeKept` says that the result is sixteen times the microseconds that passed, give or
take one overflow. `others` records that the program has switched another interrupt.

**Pad, PadData** (`pad.c`). `Pad` has the staged initialisation of both builds
(`rom` for ROM_PADMAN) and the commands that share `buffer`. The code checks nothing
before it sends, so any command may come before `padinit` is done, for a port that is
not open, or while `padend` is under way. Since there is no mutex, `disturbed` marks
calls whose buffer another one overwrote, and the properties say what holds for the
others. The blocking calls of the old build poll `sema_id` of the client all calls
share (`Poll`); a later call resets it (`SemaReset`), and a task whose wake-up was lost
that way is `Stranded`. `padportopen` stores the data area after its request was sent
(`Store`), possibly after its end function has reported the port. `PadData` is one
port's double-buffered data area: `padman` sends halves quadword by quadword (`sif0`,
`Deliver`), in the order `Layout` gives for either build, and `padread` copies part by
part. In neither build is the frame number, which decides the half that is read, the
last field to come; `Late` is the moment in between, which `PadTrue` excepts.

**Sound** (`sound.c`). The stages of initialisation and of `soundend`, including
stages that fail and are repeated; `sdr` is what the IOP's driver really is in.

**SifServer** (`sifcmd.c`, server half of `sifrpc.c`). `Sif0` delivers a packet,
`sif_cmd_interrupt` copies it, `sifsetdchain` re-arms, `Dispatch` calls a handler.
Answers go through `SetDma`, which copies all parts of one into the ring of `RingRoom`
transfers or refuses it: `Request` and `RequestCall` then drop the answer
(`SendCmd_Fails`), while the last transfer of a call is repeated in the interrupt until
it is accepted (`Spin`). The other users of the ring are `OtherCall`. Handlers may be
deleted, layers left and entered again; behind a packet of size zero the code does not
arm the channel, so `AllTaken` ends there.

**BootImage** (`loader.c`, `crc32check.c`). `mem` maps every address of a small
memory to what it holds, a byte of the kernel file, the initrd, the SBIOS, the
loader or the PS2's own kernel. One action per stage of `real_loader` with all its
error exits; 32 and 64 bit ELF files differ in the header they read. Addresses are
numbers below `Wrap`: the end of a section is a sum of 32 bits in `check_sections`, so
a `memsz` near 2^32 wraps below the limit, passes the check, and the clearing of its
rest runs over the loader (`Overrun`, which `LoaderUntouched` excepts). `load_file`
stops at a short read and returns the whole size (`got` is what was read), so that a
kernel may start with a part of its initrd. `kept` are the files of modules and of an
SBIOS that an exit leaves in the heap.

**BootModules** (`loader.c`, `loadermenu.cpp`). The default selection of IOP
modules, later changes by menu and file, `loadModules` and `startModules` (`started`
is the set of rows started, since the loop follows the table), and what Linux is
told. The table itself, with the conditions of each row, is `moduleTable` in `Loader`.

**LoaderStart** (`modules.c`, `SMS_CDDA.c`, `SMS_CDVD.c`, `main.cpp`). The passes
over the loader's own modules, the search for `config.txt` in the order of the
code, the disc driver, and the reload from the menu.

**Config** (`configuration.cpp`). Registered items, the lines of the file, reading
and writing; an item may name the variable of another. The results of the writes are
ignored, so a file may end behind any line (`whole`) or within one (`cutVar`).

**Screen** (`main.cpp`, `menu.*`, `graphic.cpp`): one turn of the main loop, the ring of
error messages, text input, auto boot, in a menu tree of the shapes that occur in
`initMenu`. `top` is the highest byte of the input buffer that was written: the loop
that makes room for a character writes one byte behind the buffer at the last length
the check allows. Once a boot has begun (`logging`) the boot log covers messages and
texts, and nothing switches it off again; keys go where they would go without it.

**FileMenu** (`loadermenu.cpp`): the menus that choose a file, with their shared path.
**Bootlog** (`bootlog.c`): the ring of the last lines, against the text that was
written. **SbiosScan**: `getSBIOSCallTable` beside a processor. What instructions the
scan does not know (`ori`, `daddu`), calls and branches leave in a register is anything
(`OtherInstruction`), and the property is about addresses computed without them: a
register such an instruction recomputes is a limit of the scan, not covered here.

**RteCopy** (`getrte.c`, `getelf.c`, `getsbios.c`): copies to a card that may become
full or be pulled. A failed `fwrite` removes the file, but neither the removal nor the
flush in `fclose` is looked at; `spoiled` are the files such a failure, or a disc that
stopped delivering, left on the card. The menu deletes only the configuration, which is
saved beside the copies.

**Smap** (`smaprpc/main.c`, `smap.c`, `smap_rpc.c`). The RPC thread, the interrupt
handler on top of it, the timer, the chip and the DMA are actors. The transmit
memory is `TxSize` words. **SmapLink** is the search for a link, with a phy that
answers as the cable allows. Its registers are read and written with a timeout whose
result the code ignores when it forces a mode (`WritePhy`); `doubt` records why the mode
of the phy may differ from the chip's, and `LinkAgrees` lists those cases.

**Cdfs, CdfsDir** (`SMSCDVD.c`, `SMSCDVD_UDFS.c`). Open files over one kept sector.
`Read` has a drive that delivers a part of the sectors, with or without saying so: the
ISO reader clears the blocks of a failure it noticed, the UDF reader keeps what was in
them, and neither tells the caller. `spoilt` are the blocks that do not hold the sector
they stand for, and `ReadTrue` is about all others. `CdfsDir` is search and listing over
one cached part of one directory, where reads may fail, and where `FindPath` goes on to
the next part of a directory only when the last sector of this one has room at its end
(`Full` are the sectors that have none): a directory behind such a place is not found.
A failed read there is one `ReadSect` reports; a sector it wrongly reports as read is
modelled in `Cdfs` only.

`Kernel`, `Drivers`, `Iop` and `Loader` put modules that share no state side by
side: `part` says which of them moves, the others rest in an initial state, so a
run has the sum of their state spaces and not the product. Their theorems are about
the same specification the runs check; the `MC` modules only give the constants
their values.

## Runs

| Run | Bounds | Shows |
|---|---|---|
| `sifdma` | 5 tags, calls of up to 3 tags, one- and two-tag transfers, 5 quadwords, lap counter mod 2 | ring wraps, is full and empty, is re-initialised; it implements `SifFifo`, everything accepted is sent |
| `sifrpc` | 2 clients, 2 tasks and the interrupt, 2 packets, ring of 1, ids mod 4 | packets accounted for, answers fit, end functions once, `RpcClient` implemented |
| `sifrpc_live` | blocking task on its own client | blocking calls return, requests end |
| `kernel` | 2 channels; 3 interrupts, period 3, 7 ticks; 3 semaphores, counts up to 2, initial counts -1, 0, 1 | masks agree, completions kept and handled; time kept, only pending interrupts dispatched; free list exact, pool implemented, waits end |
| `drivers` | heap 3 tasks; memory card, CD/DVD, pad, sound 2 tasks each, one of which initialises; all commands, both builds of `pad.c`; 4 pad frames | locks have one owner, answers reach their callers, the counters tell the truth about the servers, pad data are whole, calls end, with the exceptions the properties state |
| `loader` | 19 addresses in pages of 4, addresses and sizes modulo 256, kernels of up to 2 sections of 44 shapes, initrds of 0 to 9; 6 sets of media, 2 passes, 2 boots; 2 lines of errors and log, texts of 4 and 9 characters; code of 5 instructions; copies of 2 chunks | see below |
| `iop` | 2 packets, queue of 1, 3 words of transmit memory, frames of 1 and 2, buffers of the EE that fit exactly, one of them absent; 3 timeouts; 2 open files, reads of up to 2 units in sectors of 2, cache of 2 sectors; 2 packets of 4 kinds, ring of 2 | see below |
| `sifdma_stat`, `sifrpc_retry`, `kernel_dmac_enable`, `kernel_timer_mask`, `smap_tx` | as above | violations: see findings |

`loader`: the loader is not overwritten unless the end of a section wraps around
(`LoaderUntouched`); what starts has its sections, its SBIOS and as much of its initrd
as was read, and what is given up has freed the kernel file and left the PS2's kernel
(`BootWhole`); with the default selection the modules fit what Linux is told, none is
started that was not loaded, and up to the first reload disc calls reach a server that
runs (`ModulesServe`); at the first start the first place with a file gives the
settings, and the lines a card took read back (`ConfigTrue`); errors are shown in order
and once, and inserting writes at most one byte behind the input buffer (`ScreenTrue`);
the path is that of the list shown unless the directory could not be opened, copies are
whole or absent unless a read, a flush or a removal failed unseen (`FilesTrue`); the log
is the tail of what was written (`LogIsTail`); the call table found is the one the code
uses if its address is computed with instructions the scan knows (`TableFound`).

`iop`: frames stay in the EE's buffer (`RxInBuffer`); chip and phy agree
(`LinkAgrees`); reads return what was asked for (`ReadTrue`); files are found and
listings complete (`DirTrue`); the IOP's requests are answered in order or dropped whole (`AnswerKept`); senders
and packets do not wait for ever (`IopServed`).

The bounds are small because the rings, tables and tasks are symmetric: the ring
of 5 already has a wrap, a full state and a call that spans the wrap; two packets
are enough for one to be in use by each of two tasks and none to be left; two
tasks suffice for a pairwise race and the third of the heap allows a rebind
during a race. Three semaphores give a list with a first, a middle and a last
entry; two channels let one complete while the other is served; seven ticks
are two overflows. The memory of `loader` has room for sections that touch,
overlap and miss the SBIOS, each other, the initrd and the loader; a directory of
the `iop` run has more sectors than its cache, a read can span three sectors, and
the transmit memory wraps after two frames. Commands that differ only in what they
send are one element. `MaxWords`, `MaxPackets`, `MaxFrames`, `MaxReports`,
`MaxBoots`, `MaxPasses` and `MaxText` bound how long a run goes on. Values of
`sif1_dma_count` and packet ids wrap in the models as in C, with a smaller
modulus. `loader` and `iop` do not check for deadlock: a boot ends in the kernel and
the bounded counters end the other parts.

Every property was also checked against a mutated definition that imitates a
plausible mistake (a dropped guard, a forgotten unlock, a wrong limit); the
operators with a suffix such as `_KeepsLock` are these mutations.

### Fairness

Weak fairness of a call that was begun (Linux does not abandon a system call),
of the IOP answering, of the DMAC while its channel runs and of the interrupt
being taken. In `SifRpc` tasks need strong fairness, since interrupts that keep
arriving disable the task's step again and again; for the same reason `Smap` has
strong fairness for its thread and interrupt, which the IOP's scheduler gives.
Nobody is obliged to make a call. In the kernel stub the polling loop of `WaitSema`
and the dispatch loops go on, and an interrupt that is on and raised is taken.
`Tick` assumes that an overflow whose interrupt can be taken is served within the
next 65536 ticks. `Fairness` or `FairSpec` states it in each module; safety holds
without it. The loader's properties are all safety.

### Findings

* `sifdma_stat`: `sif_dma_stat` returns "busy" with interrupts still masked.
* `sifrpc_retry`: after a send that found no tag the client still counts as in
  use, so the retry the return code asks for cannot succeed.
* `kernel_dmac_enable`: `syscallEnableDmac` tests a bit that is never set and so
  never enables a channel.
* `kernel_timer_mask`: INTC_MASK is written back with `|=` although writing 1
  inverts, so enabling another interrupt switches the timer's off. `kernel`
  shows a side effect: at most one bit is ever set, which is why the dispatch loop
  calls only pending interrupts although it never reads INTC_STAT.
* `smap_tx`: `ComputeFreeSize` is not the number of free bytes when the transmit
  memory has wrapped or is exactly full, so a frame can overwrite one not yet sent.

What the models assume, or show and no property speaks of:

* A NOWAIT call without an end function gets no answer and keeps its client for
  ever, so it is among the calls of `sifrpc` and not of `sifrpc_live`.
* `sbcall_cdvdinit`, `padinit` and `soundinit` read their stage before anything is
  locked; Linux initialises a device once, so each has one initialising task.
* `pad.c` and `sound.c` write their shared buffer before SIF RPC refuses a second
  call; `AnswersOwn` is claimed for calls whose buffer was not overwritten.
* An RPC answer to the IOP is lost when the DMA ring is full. `SifExitCmd` followed
  by `SifInitCmd` clears the handlers of the RPC layer.
* `reloadModules` resets the IOP, and `load_dvd_config` makes `modules.c` bind CDDA
  and CDVD only once, unlike what the comment at `loadermenu.cpp:1037` expects; a
  reload without a file on any device also replaces the settings by the built-in
  ones. `ModulesServe` and `ConfigTrue` speak of the start before a reload.
* UDF lookups overwrite the sector kept for reads, and a sector that cannot be
  read is not always reported. `StoreLast` counts a
  reference so that a queued packet is not freed before it is sent
  (`smaprpc/main.c:77`), but `pbuf_free` sets the count to 0 whatever it was.

## Proofs

`SifDma_proofs` proves, for every ring size N >= 3, payload, set of transfer sizes
and tag limit up to N-2 (`RingAssumption`): type correctness (`TypeCorrect`),
the intact stream (`StreamSafe`), the armed channel (`ChannelSafe`) and that the
ring implements `SifFifo` (`Refinement`, safety part). `StreamIntact` alone is not
inductive: that a new tag overwrites no queued one needs `RoomKept` (the call in
progress still has the room it counted while the channel is stopped), that a
rebuilt tag continues where the DMAC stopped needs `BuffersOwned` (a queued tag
uses no other tag's bounce buffer), and that nothing is left behind needs
`ChannelArmed`. `IInv` is their conjunction. The limit N-2 is the code's: a call
of N-1 tags would make a full ring look empty; the SBIOS's own calls need at most
three tags.

`IopHeap_proofs` proves for every set of tasks that the mutex has exactly one
owner (`HeapMutexOwned`), that answers reach their callers (`HeapOwnAnswer`) and
that calls go only to a bound server (`HeapBound`). The strengthening says that the
request under way is that of the waiting task (`CallUnderWay`), that the packet
holds the caller's argument between filling and sending (`ArgumentKept`), and
`ServerKept`: once bound, the client has its server unless a late caller is just
binding it again, and such a caller holds the mutex; the server, once registered,
stays. The only assumption is that NULL is neither a task nor a packet.

`KernelSema_proofs` proves for every number of semaphores that the free list is
exact (`SemaFreeList`) and that the calls implement `SemaPool` (`SemaRefinement`,
safety). `FreeList` says that some sequence without repetition lists the free
entries along `next`; creation drops its first element, deletion puts one in
front, so the argument needs no induction over the list. That deletion of an entry
already free is refused is what keeps the sequence free of repetition, and that
an empty list means no free entry is what makes "creation fails only when all are
in use" true.

`SifRpc_proofs` proves for every number of packets, clients, tasks and ring slots
(`RpcAssumption`: there is a packet, ids have room for the three reserved values
and NULL is nothing else) that packets are accounted for, answers fit the client
they are for, an end function is owed exactly once, and that `RpcClient` is
implemented (`ClientsImplemented`, safety part). `PacketsAccounted` alone says nothing of
who holds a packet; the invariant gives every packet at most one holder, a task's
call, the wire, or the answer queue (`OneHolder`), makes `alloc` say exactly that
there is one (`AllocIsHeld`), ties the packet in flight to its client's `pkt_addr`
and id (`Sending`, `Flying`), and counts the end functions owed (`OwedExact`). With
these the refinement maps every step to one step of one client or a stutter.

`Kernel_proofs` proves for every number of channels that the saved mask agrees with
the register (`DmacMask`) and that completions are kept (`DmacCompletion`); for every
period and set of interrupts (`TimerAssumption`) that time is kept while the timer's
interrupt alone is on (`TimeKeptHolds`) and that only pending interrupts are
dispatched (`DispatchedPendingHolds`). The second is surprising, since the loop
never reads INTC_STAT; what makes it inductive is `OneMasked`: after the start at
most one bit of the mask is ever set, so the interrupt that was taken is the one
the loop finds.

`Drivers_proofs` proves for every set of tasks, ports and commands that the locks
and busy flags have one owner (`LocksOwnedHolds`), that answers reach the caller
whose arguments they answer (`AnswersOwnHolds`), that the stage counters tell the truth
about the servers (`ServersBoundHolds`) and that pad data are whole and current
(`PadTrueHolds`), each with the exceptions its property states.
`DriversAssumption` says that each driver has one initialising task, which the code
needs and Linux grants, and that NULL is no port, command or end function.
`DriversInv` joins one invariant per driver. Each says what a call that has come so
far has established, who the request under way belongs to, whose argument the
shared buffer holds and up to which stage the server is bound; without the mutex
(memory card, sound, pad) the argument is only kept for calls that no other one
disturbed (`McArguments`, `SoundArguments`, `PadAsked`). For `PadTrue` the invariant
orders the frames in the two halves of the area and the parts still on the way, so
that the half a read chooses is complete, or `Late`, and not the one being written
(`DataFrames`, `DataReads`), and ties the busy state to the request (`DataBusy`).

`Iop_proofs` proves `RxInBufferHolds`, `LinkAgreesHolds`, `ReadTrueHolds`,
`AnswerKeptHolds` and `DirTrueHolds`. Frames stay inside the EE's buffer although it may be exchanged
during a reception, given that the EE passes no buffer or one with room for the
longest frame behind the first DMA boundary (`SmapAssumption`); the invariant says
that a transfer uses the buffer that was valid when it was set up (`BufferChanges`).
Chip and phy agree for every duration of the timeouts; the search for a link has
saved the mode it forced (`LinkForced`, `LinkSaved`). Reads return what was asked for,
whatever the sector size, if the largest read is whole sectors (`CdfsAssumption`),
because the kept sector is at `lastBk` unless that block is spoilt (`SectorKept`).
Answers of the RPC server are in order because packets are: each one on the wire, in the
DMA buffer and in the handler has the number that follows the packets handled so far
(`PacketsInOrder`), and what was answered or dropped are requests up to that number
(`AnswersUpTo`).

`DirTrueHolds` is for every disc of nested directories and every size of the cache
but 0. `DirAssumption` says what an ISO 9660 disc guarantees: each directory begins
with itself and its parent, in its first sector, the other names in it are
different, and its subdirectories are on the disc; requests name neither of the
first two entries. `CacheIs` says that the cache, valid or not, is of the directory
its path leads to and that its part was read from its offset on. `Finding` is for
FindPath: the path asked for is the cache's path and the components that are still
to be found, and no sector before the cache has a directory of the next name.
`Searching` is for CDVD_findfile: no sector before the cache has the file, which is
why the search may begin with whatever part is cached only if it goes back to the
start when that part is not the first. `Lists` says that the
listing has every entry before the one it stands at, over all parts read so far.
`WalkIsWay` and `UptoIs` give the recursive definitions of the way along a path and of
the entries in the first sectors their equations, and `Minimum` replaces induction.

`Loader_proofs` proves for every layout of memory (`LayoutAssumption`: the
regions do not overlap, a page is not empty, and main memory is a small part of the
address space), every set of program headers and every initrd that the loader is
untouched unless a section wraps (`LoaderSafe`) and that what starts is as whole as it
was read and what is given up is clean (`BootSafe`). Neither is inductive. The
invariant adds what `check_sections` has established for the headers seen so far
(`Checked`: they fit and end, as computed, not above `highest`; `EntryCovered`), where the initrd is
(`InitrdPlaced`: behind `highest` and in front of the loader, which is why copying
the sections later cannot destroy it, unless one wraps), and what memory holds at each stage
(`LowMemory`, `InitrdKept`, `SectionsKept`: each section copied so far is still
kernel or zero whatever later ones overwrote).

It also proves `TableFoundHolds` for every sequence of instructions, where the invariant
`ScanInv` says that the registers the scan keeps equal the processor's wherever
the scan can compute them; `ScreenTrueHolds` for every size of the error ring and
of the text (`RingHolds`: the slots from the read position on hold the pending
messages in order and the others are free, which tells a full ring from an empty
one); and `FilesTrueHolds` for every chunk count and image (`CopyInv`: beside the
spoiled files only the file being copied may be incomplete; that the parts of an SBIOS image are cut at the next
magic word rests on `Minimum`, that a set of numbers that is not empty has a least
element, from the well-foundedness of the natural numbers).

`ModulesServeHolds` and `ConfigTrueHolds` join two parts each. `ModulesInv` is about
the table of 49 modules: the defaults stand until the user chooses (`DefaultKept`),
once `loadModules` has succeeded every module that needs a buffer has one unless it
is optional (`LoadedRead`), those started are the chosen ones that may be started
(`StartedChosen`), and Linux is told of the adapter only on the consoles whose
defaults start its drivers (`Told`); rows are looked up in the concrete table, and the menu offers only its rows
(`ChoicesAssumption`). `StartInv` says which places the search for a settings file
has covered at each program point, and which servers run when a disc call is made.
`ConfigInv` says that the file holds the lines of the first `whole` of the seven items,
with the saved values unless it was edited, and behind them at most one that was cut
(`FileSays`), and `FileRead` that reading such a file gives exactly its values although the line of the video mode also sets the video
parameter: the user's line comes after it.

`LogIsTailHolds` is for every panel (`LogAssumption`: at least one line and one
column) and all texts. `LogInv` relates the ring to the history of everything
written: the line with `n - 1` newer ones is the one that begins at the n-th last
start (`HoldsEnd`), and `partial` tells whether the last line has ended and how full
it is (`Ends`). `CharacterPut` shows that each of the three cases of the loop (line
end, character of an open line, first character of a line) keeps this, and
`TextWritten` carries it over a whole text by induction with `Minimum`.

Only model-checked: the liveness properties (`EverythingSent`, `RequestEnds`,
`BlockingCallReturns`, `CallsEnd`, `WaitEnds`, `CompletionHandled`, the second half of
`IntcServes`, `IopServed`), since the prover does not handle fairness.

## Not modelled

`PROJECT.json` lists every component with its status. Formatting and console
output, drawing, caches and address translation, code under `#if 0`, `#ifdef`s no
build defines (most of `fileio.c`) and debug builds (the shared-memory console)
are left out. Set-up that runs once and in one order (kernel stub start and MMU,
`dev9init`, `eromdrvloader`, `ps2dev9.c`), the interrupt relay, whose shared state
is inside the IOP's own kernel, vendored headers and tables of registers
(`gs.h`), fonts and textures, and the host tools are left to reading and testing.

## Plan

1. Done: ring, RPC in both directions, all SBIOS drivers; semaphores, interrupts
   and timer of the kernel stub; the loader from start to boot; Ethernet and disc
   modules of the IOP.
2. Proofs: done for every safety property of the runs; what is left is liveness,
   which stays with TLC. Worth proving next: refinements of the specifications of 3.
3. Abstract specifications worth stating: one driver specification (lock, send,
   answer, unlock) that heap, CD/DVD and memory card implement; a byte ring for
   the transmit memory of `Smap`.
4. Models worth adding: the one-character mailbox of the debug console, the loading
   of the user program by the kernel stub, what a reload of the modules should
   leave behind.
