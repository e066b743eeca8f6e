--------------------------------- MODULE Smap ---------------------------------
(***************************************************************************)
(* The Ethernet module of the IOP (iop/smaprpc): the thread that serves    *)
(* the EE's remote calls, the interrupt handler and the timer share the    *)
(* pool of packet buffers, the queue of requests and the transmit memory   *)
(* of the chip.  The handler runs on top of the thread, which only moves   *)
(* while no handler is active; the chip and the DMA move at any time.      *)
(* Lengths and addresses are counted in words of the transmit memory.      *)
(***************************************************************************)
EXTENDS Integers, Sequences, FiniteSets, SequencesExt, FiniteSetsExt

CONSTANTS NumBufs,    \* NUMBER_OF_BUFFERS
          MaxReq,     \* MAX_REQ_CNT
          TxSize,     \* SMAP_TXBUFSIZE
          TxMax,      \* SMAP_TXMAXSIZE, longest frame that can be sent
          Entries,    \* SMAP_BD_MAX_ENTRY
          Lens,       \* lengths of the frames of this instance
          EeBuffers,  \* receive buffers of the EE, <<address, size>>
          Align,      \* DMA_TRANSFER_SIZE
          Loads       \* bounds on the frames sent and received, <<sent, received>>

VARIABLES pbuf,       \* buffers[]: reference count, transfer and content
          queue,      \* apReqQueue from iReqNR, iReqCNT entries long
          ptr,        \* u16PTRStart and u16PTREnd
          idx,        \* u8IndexStart and u8IndexEnd
          bd,         \* transmit descriptors
          mem,        \* transmit memory: the frame each word belongs to
          hwIdx,      \* descriptor the chip looks at
          rxFull,     \* received frames the handler has not seen
          irq,        \* SMAP_INTR_STAT
          hpc,        \* where the interrupt handler is
          pc, cand,   \* where the thread is, and its packet buffer
          waiter,     \* iSendReq is set
          sema,       \* count of iSendReqMutex
          linkValid,  \* SMAP_F_LINKVALID
          ee,         \* ee_buffer, ee_buffer_pos and ee_buffer_size
          asked,      \* the buffer the thread is being told of
          transfers,  \* DMA transfers to the EE that are under way
          left        \* frames still to be sent and to be received

tx == <<ptr, idx, bd, mem>>
rx == <<rxFull, ee, transfers>>
thread == <<pc, cand, asked>>
vars == <<pbuf, queue, tx, hwIdx, rx, irq, hpc, thread, waiter, sema, linkValid, left>>

Bufs == 1..NumBufs
None == 0

Init ==
  /\ pbuf = [b \in Bufs |-> [ref |-> 0, id |-> None, frame |-> None, len |-> 0]]
  /\ queue = <<>>
  /\ ptr = [start |-> 0, end |-> 0]
  /\ idx = [start |-> 0, end |-> 0]
  /\ bd = [i \in 0..Entries - 1 |-> [ready |-> FALSE, at |-> 0, len |-> 0, frame |-> None]]
  /\ mem = [w \in 0..TxSize - 1 |-> None]
  /\ hwIdx = 0
  /\ rxFull = <<>>
  /\ irq = {}
  /\ hpc = "none"
  /\ pc = "idle" /\ cand = None /\ asked = <<0, 0>>
  /\ waiter = FALSE
  /\ sema = 1                        \* IOP_MUTEX_UNLOCKED
  /\ linkValid \in BOOLEAN
  /\ ee = [base |-> 0, pos |-> 0, size |-> 0, given |-> <<0, 0>>]
  /\ transfers = {}
  /\ left \in {[sent |-> load[1], received |-> load[2]] : load \in Loads}

-----------------------------------------------------------------------------
(* smap_rpc.c: the pool of packet buffers *)

pbuf_free(pool, b) == [pool EXCEPT ![b].id = None, ![b].ref = 0]

pbuf_check_transfers ==
  LET done == {b \in Bufs : /\ pbuf[b].ref # 0 /\ pbuf[b].id # None
                            /\ \A t \in transfers : t.id # pbuf[b].id}
  IN  [b \in Bufs |-> IF b \in done THEN pbuf_free(pbuf, b)[b] ELSE pbuf[b]]

Free(pool) == {b \in Bufs : pool[b].ref = 0}

\* the reference count is incremented, whatever it has become since it was read
Take(pool, b, frame, len) ==
  [pool EXCEPT ![b] = [ref |-> pool[b].ref + 1, id |-> None, frame |-> frame, len |-> len]]

-----------------------------------------------------------------------------
(* smap.c: the transmit memory and its descriptors *)

ComputeFreeSize ==
  IF ptr.start > ptr.end THEN TxSize + ptr.end - ptr.start
                         ELSE TxSize - (ptr.end - ptr.start)

Next_BD(i) == IF i < Entries - 1 THEN i + 1 ELSE 0

CopyToFIFO(b) ==
  LET words == {(ptr.end + k) % TxSize : k \in 0..pbuf[b].len - 1}
  IN  mem' = [w \in DOMAIN mem |-> IF w \in words THEN pbuf[b].frame ELSE mem[w]]

\* the frame is copied, its descriptor made ready and the active range extended
SMap_Send_OK(b) ==
  /\ linkValid
  /\ pbuf[b].len <= TxMax
  /\ pbuf[b].len <= ComputeFreeSize
  /\ CopyToFIFO(b)
  /\ bd' = [bd EXCEPT ![idx.end] = [ready |-> TRUE, at |-> ptr.end, len |-> pbuf[b].len,
                                    frame |-> pbuf[b].frame]]
  /\ ptr' = [ptr EXCEPT !.end = (ptr.end + pbuf[b].len) % TxSize]
  /\ idx' = [idx EXCEPT !.end = Next_BD(idx.end)]

\* there is not enough memory
SMap_Send_TX(b) ==
  /\ linkValid
  /\ pbuf[b].len <= TxMax
  /\ pbuf[b].len > ComputeFreeSize
  /\ UNCHANGED tx

\* no link, a frame too long, or a chip that did not become ready
SMap_Send_Fails(b) ==
  /\ ~linkValid \/ pbuf[b].len > TxMax \/ pbuf[b].len <= ComputeFreeSize
  /\ UNCHANGED tx

-----------------------------------------------------------------------------
(* The thread: smap_send and SMAP_CMD_SET_BUFFER *)

ThreadRuns == hpc = "none"

\* pbuf_alloc has looked for a buffer but not taken it yet
smap_send(len) ==
  /\ ThreadRuns /\ pc = "idle" /\ left.sent > 0
  /\ pbuf' = pbuf_check_transfers
  /\ left' = [left EXCEPT !.sent = @ - 1]
  /\ IF Free(pbuf') = {} THEN UNCHANGED thread
                         ELSE /\ pc' = "take" /\ cand' = Min(Free(pbuf'))
                              /\ asked' = <<left.sent, len>>
  /\ UNCHANGED <<queue, tx, hwIdx, rx, irq, hpc, waiter, sema, linkValid>>

pbuf_alloc_Take ==
  /\ ThreadRuns /\ pc = "take"
  /\ pbuf' = Take(pbuf, cand, asked[1], asked[2])
  /\ pc' = "add" /\ asked' = <<0, 0>>
  /\ UNCHANGED <<queue, tx, hwIdx, rx, irq, hpc, cand, waiter, sema, linkValid, left>>

StoreLast == queue' = Append(queue, cand)

\* interrupts are off.  A frame that found no memory is stored and then freed
AddToQueue ==
  /\ ThreadRuns /\ pc = "add"
  /\ \/ /\ queue = <<>>
        /\ \/ SMap_Send_OK(cand) /\ UNCHANGED queue
           \/ SMap_Send_TX(cand) /\ StoreLast
        /\ pbuf' = pbuf_free(pbuf, cand)
        /\ pc' = "idle"
     \/ /\ queue = <<>>
        /\ SMap_Send_Fails(cand)
        /\ pc' = "idle"
        /\ UNCHANGED <<queue, pbuf>>
     \/ /\ queue # <<>> /\ Len(queue) < MaxReq
        /\ StoreLast
        /\ pbuf' = [pbuf EXCEPT ![cand].ref = @ + 1]
        /\ pc' = "idle"
        /\ UNCHANGED tx
     \/ /\ Len(queue) = MaxReq
        /\ pc' = "full"
        /\ UNCHANGED <<queue, pbuf, tx>>
  /\ cand' = IF pc' = "idle" THEN None ELSE cand
  /\ UNCHANGED <<hwIdx, rx, irq, hpc, asked, waiter, sema, linkValid, left>>

\* the queue was full: look again with interrupts off before waiting for room
Send_Check ==
  /\ ThreadRuns /\ pc = "full"
  /\ IF Len(queue) = MaxReq THEN waiter' = TRUE /\ pc' = "wait"
                            ELSE pc' = "add" /\ UNCHANGED waiter
  /\ UNCHANGED <<pbuf, queue, tx, hwIdx, rx, irq, hpc, cand, asked, sema, linkValid, left>>

Send_Wait ==
  /\ ThreadRuns /\ pc = "wait" /\ sema > 0
  /\ sema' = sema - 1
  /\ pc' = "add"
  /\ UNCHANGED <<pbuf, queue, tx, hwIdx, rx, irq, hpc, cand, asked, waiter, linkValid, left>>

SetBuffer_KeepsSize(buffer) ==
  /\ ThreadRuns /\ pc = "idle"
  /\ pc' = "base" /\ asked' = buffer
  /\ UNCHANGED <<pbuf, queue, tx, hwIdx, rx, irq, hpc, cand, waiter, sema, linkValid, left>>

\* SMAP_CMD_SET_BUFFER, in the three steps an interrupt can fall between
SetBuffer(buffer) ==
  /\ ThreadRuns /\ pc = "idle"
  /\ ee' = [ee EXCEPT !.size = 0]
  /\ pc' = "base" /\ asked' = buffer
  /\ UNCHANGED <<pbuf, queue, tx, hwIdx, rxFull, transfers, irq, hpc, cand, waiter, sema,
                 linkValid, left>>

Offset(address) == (Align - (address % Align)) % Align

SetBuffer_Base ==
  /\ ThreadRuns /\ pc = "base"
  /\ \/ /\ asked[2] > 0
        /\ ee' = [ee EXCEPT !.base = asked[1] + Offset(asked[1]), !.given = asked]
        /\ pc' = "size" /\ UNCHANGED asked
     \/ /\ asked[2] = 0               \* the EE takes its buffer back
        /\ ee' = [ee EXCEPT !.base = asked[1], !.given = asked]
        /\ pc' = "idle" /\ asked' = <<0, 0>>
  /\ UNCHANGED <<pbuf, queue, tx, hwIdx, rxFull, transfers, irq, hpc, cand, waiter,
                 sema, linkValid, left>>

SetBuffer_Size ==
  /\ ThreadRuns /\ pc = "size"
  /\ ee' = [ee EXCEPT !.pos = 0, !.size = asked[2] - Offset(asked[1])]
  /\ pc' = "idle" /\ asked' = <<0, 0>>
  /\ UNCHANGED <<pbuf, queue, tx, hwIdx, rxFull, transfers, irq, hpc, cand, waiter,
                 sema, linkValid, left>>

-----------------------------------------------------------------------------
(* The interrupt handler and the timer *)

handler == <<hwIdx, thread, linkValid, left>>

\* flags are read and the ones served are cleared
SMapInterrupt ==
  /\ hpc = "none" /\ irq # {}
  /\ IF "tx" \in irq THEN hpc' = "tx" /\ irq' = irq \ {"tx"}
                     ELSE hpc' = "rx" /\ irq' = irq \ {"rx"}
  /\ UNCHANGED <<pbuf, queue, tx, rx, waiter, sema, handler>>

\* HandleTXInt frees descriptors up to the first that is still to be sent
HandleTXInt ==
  /\ hpc = "tx"
  /\ \/ /\ idx.start # idx.end /\ ~bd[idx.start].ready
        /\ ptr' = [ptr EXCEPT !.start = (@ + bd[idx.start].len) % TxSize]
        /\ bd' = [bd EXCEPT ![idx.start] = [@ EXCEPT !.len = 0, !.at = 0]]
        /\ idx' = [idx EXCEPT !.start = Next_BD(@)]
        /\ UNCHANGED <<hpc, mem>>
     \/ /\ idx.start # idx.end /\ bd[idx.start].ready
        /\ hpc' = "queue"
        /\ UNCHANGED tx
     \/ /\ idx.start = idx.end
        /\ ptr' = [ptr EXCEPT !.start = ptr.end]
        /\ hpc' = "queue"
        /\ UNCHANGED <<idx, bd, mem>>
  /\ UNCHANGED <<pbuf, queue, rx, irq, waiter, sema, handler>>

\* no TX interrupt for a while: the timer serves the queue
Timer ==
  /\ hpc = "none" /\ queue # <<>>
  /\ hpc' = "queue"
  /\ UNCHANGED <<pbuf, queue, tx, rx, irq, waiter, sema, handler>>

\* one round of SendRequests: a frame is sent or dropped and its buffer freed
SendRequest ==
  /\ hpc = "queue" /\ queue # <<>>
  /\ \/ /\ SMap_Send_OK(Head(queue)) \/ SMap_Send_Fails(Head(queue))
        /\ pbuf' = pbuf_free(pbuf, Head(queue))
        /\ queue' = Tail(queue)
        /\ UNCHANGED hpc
     \/ /\ SMap_Send_TX(Head(queue))
        /\ hpc' = "signal"
        /\ UNCHANGED <<pbuf, queue>>
  /\ UNCHANGED <<rx, irq, waiter, sema, handler>>

SendRequests_Done ==
  /\ hpc = "queue" /\ queue = <<>>
  /\ hpc' = "signal"
  /\ UNCHANGED <<pbuf, queue, tx, rx, irq, waiter, sema, handler>>

QueueHandler_Forgets ==
  /\ hpc = "signal"
  /\ waiter' = FALSE
  /\ hpc' = "flags"
  /\ UNCHANGED <<pbuf, queue, tx, rx, irq, sema, handler>>

\* a thread that waits for room is told
QueueHandler ==
  /\ hpc = "signal"
  /\ sema' = IF waiter THEN sema + 1 ELSE sema
  /\ waiter' = FALSE
  /\ hpc' = "flags"
  /\ UNCHANGED <<pbuf, queue, tx, rx, irq, handler>>

\* the flags are read again
GetIRQ ==
  /\ hpc = "flags"
  /\ IF "rx" \in irq THEN hpc' = "rx" /\ irq' = irq \ {"rx"}
                     ELSE hpc' = "none" /\ UNCHANGED irq
  /\ UNCHANGED <<pbuf, queue, tx, rx, waiter, sema, handler>>

RoundUp(n) == ((n + Align - 1) \div Align) * Align

\* where the next frame of this length goes in the buffer of the EE
RxPos(len) == IF ee.pos + len > ee.size THEN 0 ELSE ee.pos

\* SMapLowLevelInput: the frame goes to the EE, or is lost and its buffer kept
SMapLowLevelInput(b, n, len) ==
  LET filled == Take(pbuf_check_transfers, b, n, len) IN
  IF ee.size = 0
    THEN UNCHANGED <<ee, transfers>> /\ pbuf' = filled
    ELSE /\ ee' = [ee EXCEPT !.pos = RoundUp(RxPos(len) + len)]
         /\ \/ /\ transfers' = transfers \cup {[id |-> n, to |-> ee.base + RxPos(len),
                                                len |-> len, given |-> ee.given]}
               /\ pbuf' = [filled EXCEPT ![b].id = n]
            \/ pbuf' = filled /\ UNCHANGED transfers   \* sceSifSendCmd failed

\* one round of HandleRXInt: bad frames, and frames no buffer is free for, are dropped
HandleRXInt ==
  /\ hpc = "rx"
  /\ \/ /\ rxFull = <<>>
        /\ hpc' = "none"
        /\ UNCHANGED <<pbuf, rx, left>>
     \/ /\ rxFull # <<>>
        /\ rxFull' = Tail(rxFull)
        /\ LET free == Free(pbuf_check_transfers) IN
           IF Head(rxFull).ok /\ free # {}
             THEN SMapLowLevelInput(Min(free), Head(rxFull).n, Head(rxFull).len)
             ELSE pbuf' = (IF Head(rxFull).ok THEN pbuf_check_transfers ELSE pbuf)
                  /\ UNCHANGED <<ee, transfers>>
        /\ UNCHANGED <<hpc, left>>
  /\ UNCHANGED <<queue, tx, hwIdx, irq, thread, waiter, sema, linkValid>>

-----------------------------------------------------------------------------
(* External: the chip and the DMA controller *)

others == <<queue, hpc, thread, waiter, sema, linkValid>>

\* a frame that was sent is forgotten in the transmit memory
Transmit ==
  /\ bd[hwIdx].ready
  /\ bd' = [bd EXCEPT ![hwIdx].ready = FALSE, ![hwIdx].frame = None]
  /\ mem' = [w \in DOMAIN mem |-> IF mem[w] = bd[hwIdx].frame THEN None ELSE mem[w]]
  /\ hwIdx' = Next_BD(hwIdx)
  /\ irq' = irq \cup {"tx"}
  /\ UNCHANGED <<pbuf, ptr, idx, rx, others, left>>

Receive(len, ok) ==
  /\ Len(rxFull) < Entries /\ left.received > 0
  /\ left' = [left EXCEPT !.received = @ - 1]
  /\ rxFull' = Append(rxFull, [n |-> -left.received, len |-> len, ok |-> ok])
  /\ irq' = irq \cup {"rx"}
  /\ UNCHANGED <<pbuf, tx, hwIdx, ee, transfers, others>>

TransferDone ==
  \E t \in transfers :
    /\ transfers' = transfers \ {t}
    /\ UNCHANGED <<pbuf, tx, hwIdx, rxFull, ee, irq, others, left>>

Handler == \/ SMapInterrupt \/ HandleTXInt \/ SendRequest \/ SendRequests_Done
           \/ QueueHandler \/ GetIRQ \/ HandleRXInt
Thread == pbuf_alloc_Take \/ AddToQueue \/ Send_Check \/ Send_Wait \/ SetBuffer_Base
          \/ SetBuffer_Size

Next ==
  \/ \E len \in Lens : smap_send(len)
  \/ \E buffer \in EeBuffers : SetBuffer(buffer)
  \/ Thread \/ Handler \/ Timer
  \/ \E len \in Lens, ok \in BOOLEAN : Receive(len, ok)
  \/ Transmit \/ TransferDone

\* The handlers end and the timer leaves 100 ms between two calls, so that a pending
\* interrupt and the thread both get the processor again.
Fairness == /\ WF_vars(Handler) /\ WF_vars(Transmit)
            /\ SF_vars(SMapInterrupt) /\ SF_vars(Thread)

Spec == Init /\ [][Next]_vars /\ Fairness

-----------------------------------------------------------------------------
(* Properties *)

\* A received frame is written inside the buffer of the EE it was meant for, also
\* when the interrupt falls into SMAP_CMD_SET_BUFFER between two buffers.
RxInBuffer ==
  \A t \in transfers : /\ t.given[1] <= t.to
                       /\ t.to + t.len <= t.given[1] + t.given[2]

\* smap_send comes back: the handler wakes the thread that waits for room in the
\* request queue, whatever else the interrupt serves.
SendReturns == (pc = "wait") ~> (pc = "idle")

\* A frame handed to the chip is not overwritten in the transmit memory before it is
\* sent: SMap_Send copies only what ComputeFreeSize says is free.
TxIntact ==
  \A i \in DOMAIN bd : bd[i].ready =>
    \A k \in 0..bd[i].len - 1 : mem[(bd[i].at + k) % TxSize] = bd[i].frame

=============================================================================
