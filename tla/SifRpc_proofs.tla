---------------------------- MODULE SifRpc_proofs ----------------------------
(***************************************************************************)
(* Proofs about SifRpc, for every number of packets, clients and tasks:     *)
(* each allocated packet has exactly one holder, an answer finds the packet *)
(* its client points to, end functions are owed exactly while a request is  *)
(* under way, and the clients implement RpcClient.                          *)
(***************************************************************************)
EXTENDS SifRpc, FiniteSetTheorems, WellFoundedInduction, TLAPS

Distinct(q) == \A i, j \in 1 .. Len(q) : q[i] = q[j] => i = j

(* Typing, with what a caller has in its hands at each step of a call. *)
PacketRec ==
  [alloc : BOOLEAN, rpc_id : Int, client : Clients \cup {NULL}, rmode : BOOLEAN]
ClientRec ==
  [pkt_addr : Pkts \cup {NULL}, rpc_id : Int, sema_id : Int, end : BOOLEAN]
CallRec ==
  [at : {"idle", "register", "send", "wait"}, use : Uses \cup {NULL},
   pkt : Pkts \cup {NULL}]

RpcTypeOK ==
  /\ pid \in Int
  /\ packet \in [Pkts -> PacketRec]
  /\ client \in [Clients -> ClientRec]
  /\ call \in [Callers -> CallRec]
  /\ sif1 \in Seq(Pkts) /\ iop \subseteq Pkts /\ rend \in Seq(Pkts)
  /\ irq \in [client : Clients \cup {NULL}, pkt : Pkts \cup {NULL}, run : BOOLEAN]
  /\ irq # NoIrq => irq.pkt \in Pkts
  /\ owed \in [Clients -> Int]

CallsTyped ==
  \A a \in Callers :
    /\ call[a].at = "idle" => call[a] = Idle
    /\ call[a].at # "idle" => call[a].use \in Uses /\ call[a].use.by = a
    /\ call[a].at \in {"register", "send"} <=> call[a].pkt \in Pkts

(* The places a packet can be in exclude each other. *)
OneHolder ==
  /\ \A a, b \in Callers : call[a].pkt \in Pkts /\ call[a].pkt = call[b].pkt => a = b
  /\ \A a \in Callers : call[a].pkt \in Pkts =>
       call[a].pkt \notin InFlight /\ call[a].pkt # irq.pkt
  /\ Distinct(sif1) /\ Distinct(rend)
  /\ Range(sif1) \cap iop = {} /\ Range(sif1) \cap Range(rend) = {}
  /\ iop \cap Range(rend) = {}
  /\ irq.pkt \notin InFlight

Held(p) == p \in InFlight \/ irq.pkt = p \/ \E a \in Callers : call[a].pkt = p

AllocIsHeld == \A p \in Pkts : packet[p].alloc <=> Held(p)

(* Packet p is client c's request: the client points to it, under its number. *)
Bound(p, c) ==
  /\ c \in Clients
  /\ packet[p].client = c
  /\ client[c].pkt_addr = p
  /\ client[c].rpc_id = packet[p].rpc_id
  /\ client[c].end => packet[p].rmode

Sending ==
  \A a \in Callers :
    call[a].at = "send" =>
      /\ Bound(call[a].pkt, call[a].use.client)
      /\ client[call[a].use.client].end = call[a].use.end

Flying == \A p \in InFlight : Bound(p, packet[p].client)

Answered == \A p \in Range(rend) : packet[p].rmode

(* An end function is owed for a client whose request is on its way. *)
Owing(c) == \E p \in InFlight : packet[p].client = c /\ client[c].end
OwedExact == \A c \in Clients : owed[c] = IF Owing(c) THEN 1 ELSE 0

IInv ==
  /\ RpcTypeOK /\ CallsTyped /\ OneHolder /\ AllocIsHeld
  /\ Sending /\ Flying /\ Answered /\ OwedExact
-----------------------------------------------------------------------------
(* Sequences without repetition, as sets. *)

(* A packet queued at the end of a ring. *)
LEMMA AppendDistinct ==
  ASSUME NEW S, NEW q \in Seq(S), NEW p \in S, Distinct(q), p \notin Range(q)
  PROVE  /\ Append(q, p) \in Seq(S)
         /\ Range(Append(q, p)) = Range(q) \cup {p}
         /\ Distinct(Append(q, p))
<1> DEFINE r == Append(q, p)
<1>1. /\ r \in Seq(S) /\ Len(r) = Len(q) + 1 /\ Len(q) \in Nat
      /\ r[Len(q) + 1] = p /\ \A i \in 1 .. Len(q) : r[i] = q[i]
  OBVIOUS
<1>2. DOMAIN q = 1 .. Len(q) /\ DOMAIN r = 1 .. Len(r)
  OBVIOUS
<1> HIDE DEF r
<1>3. Range(r) = Range(q) \cup {p}
  BY <1>1, <1>2 DEF Range
<1>4. \A i \in 1 .. Len(q) : q[i] # p
  BY <1>2 DEF Range
<1>5. ASSUME NEW i \in 1 .. Len(r), NEW j \in 1 .. Len(r), r[i] = r[j]
      PROVE  i = j
  <2>1. CASE i \in 1 .. Len(q) /\ j \in 1 .. Len(q)
    BY <2>1, <1>1, <1>5 DEF Distinct
  <2>2. CASE i = Len(q) + 1
    BY <2>2, <1>1, <1>4, <1>5
  <2>3. CASE j = Len(q) + 1
    BY <2>3, <1>1, <1>4, <1>5
  <2> QED
    BY <2>1, <2>2, <2>3, <1>1
<1>6. Distinct(r)
  BY <1>5 DEF Distinct
<1> QED
  BY <1>1, <1>3, <1>6 DEF r

(* The first command of a ring is taken. *)
LEMMA TailDistinct ==
  ASSUME NEW S, NEW q \in Seq(S), q # <<>>, Distinct(q)
  PROVE  /\ Tail(q) \in Seq(S) /\ Head(q) \in S
         /\ Head(q) \in Range(q)
         /\ Range(Tail(q)) = Range(q) \ {Head(q)}
         /\ Distinct(Tail(q))
<1> DEFINE r == Tail(q)
<1>1. /\ r \in Seq(S) /\ Len(q) \in Nat /\ Len(q) # 0 /\ Len(r) = Len(q) - 1
      /\ \A i \in 1 .. Len(r) : r[i] = q[i + 1]
      /\ Head(q) = q[1]
  OBVIOUS
<1>2. DOMAIN q = 1 .. Len(q) /\ DOMAIN r = 1 .. Len(r)
  OBVIOUS
<1>3. q[1] \in S /\ q[1] \in Range(q)
  BY <1>1, <1>2 DEF Range
<1> HIDE DEF r
<1>4. ASSUME NEW x \in Range(r) PROVE x \in Range(q) /\ x # q[1]
  <2>1. PICK i \in 1 .. Len(r) : x = r[i]
    BY <1>2 DEF Range
  <2>2. i + 1 \in 1 .. Len(q) /\ 1 \in 1 .. Len(q) /\ x = q[i + 1] /\ i + 1 # 1
    BY <1>1, <2>1
  <2> QED
    BY <2>2, <1>2 DEF Range, Distinct
<1>5. ASSUME NEW x \in Range(q), x # q[1] PROVE x \in Range(r)
  <2>1. PICK i \in 1 .. Len(q) : x = q[i]
    BY <1>2 DEF Range
  <2>2. i - 1 \in 1 .. Len(r) /\ r[i - 1] = q[(i - 1) + 1] /\ (i - 1) + 1 = i
    BY <1>1, <2>1, <1>5
  <2> QED
    BY <2>1, <2>2, <1>2 DEF Range
<1>6. ASSUME NEW i \in 1 .. Len(r), NEW j \in 1 .. Len(r), r[i] = r[j]
      PROVE  i = j
  <2>1. i + 1 \in 1 .. Len(q) /\ j + 1 \in 1 .. Len(q) /\ q[i + 1] = q[j + 1]
    BY <1>1, <1>6
  <2>2. i + 1 = j + 1
    BY <2>1 DEF Distinct
  <2> QED
    BY <2>2
<1>7. Distinct(r)
  BY <1>6 DEF Distinct
<1>8. Range(r) = Range(q) \ {q[1]}
  BY <1>4, <1>5
<1> QED
  BY <1>1, <1>3, <1>7, <1>8 DEF r

(* How often a packet stands in a ring without repetition. *)
LEMMA PlacesDistinct ==
  ASSUME NEW S, NEW q \in Seq(S), Distinct(q), NEW p
  PROVE  Places(q, p) = IF p \in Range(q) THEN 1 ELSE 0
<1> DEFINE I == {i \in 1 .. Len(q) : q[i] = p}
<1>1. DOMAIN q = 1 .. Len(q)
  OBVIOUS
<1>2. CASE p \in Range(q)
  <2>1. PICK k \in 1 .. Len(q) : q[k] = p
    BY <1>1, <1>2 DEF Range
  <2>2. I = {k}
    BY <2>1 DEF Distinct
  <2> QED
    BY <2>2, <1>2, FS_Singleton DEF Places
<1>3. CASE p \notin Range(q)
  <2>1. I = {}
    BY <1>1, <1>3 DEF Range
  <2> QED
    BY <2>1, <1>3, FS_EmptySet DEF Places
<1> QED
  BY <1>2, <1>3

(* The first free packet is a free packet. *)
LEMMA MinFree ==
  ASSUME FreePkts # {}
  PROVE  Min(FreePkts) \in FreePkts
<1>1. FreePkts \subseteq Nat
  BY RpcAssumption DEF FreePkts, Pkts
<1>2. \E x \in FreePkts : \A y \in FreePkts : ~(<<y, x>> \in OpToRel(<, Nat))
  BY <1>1, WFMin, NatLessThanWellFounded
<1>3. PICK x \in FreePkts : \A y \in FreePkts : ~(<<y, x>> \in OpToRel(<, Nat))
  BY <1>2
<1>4. ASSUME NEW y \in FreePkts PROVE x =< y
  <2>1. x \in Nat /\ y \in Nat
    BY <1>1
  <2>2. y < x => <<y, x>> \in OpToRel(<, Nat)
    BY <2>1 DEF OpToRel
  <2>3. ~(y < x)
    BY <1>3, <2>2, Zenon
  <2> QED
    BY <2>1, <2>3
<1> QED
  BY <1>4 DEF Min
-----------------------------------------------------------------------------
(* What the assignments to a packet and to a client change. *)

AllocSet(f, p, x, y) == [f EXCEPT ![p].alloc = x, ![p].rpc_id = y]
FilledIn(f, p, c, r) == [f EXCEPT ![p].client = c, ![p].rmode = r]
Released(f, c) == [f EXCEPT ![c].sema_id = @ + 1, ![c].pkt_addr = NULL]

LEMMA PacketAlloc ==
  ASSUME NEW f \in [Pkts -> PacketRec], NEW p \in Pkts, NEW y \in Int
  PROVE  LET g == AllocSet(f, p, TRUE, y) IN
         /\ g \in [Pkts -> PacketRec]
         /\ g[p].alloc = TRUE /\ g[p].rpc_id = y
         /\ g[p].client = f[p].client /\ g[p].rmode = f[p].rmode
         /\ \A q \in Pkts : q # p => g[q] = f[q]
<1> DEFINE g == [f EXCEPT ![p].alloc = TRUE, ![p].rpc_id = y]
           h == [f EXCEPT ![p].alloc = TRUE]
<1>1. h \in [Pkts -> PacketRec]
  BY DEF PacketRec
<1>2. g = [h EXCEPT ![p].rpc_id = y]
  OBVIOUS
<1>3. g \in [Pkts -> PacketRec]
  <2> HIDE DEF g, h
  <2> QED
    BY <1>1, <1>2 DEF PacketRec
<1>4. /\ g[p].alloc = TRUE /\ g[p].rpc_id = y
      /\ g[p].client = f[p].client /\ g[p].rmode = f[p].rmode
  BY DEF PacketRec
<1>5. \A q \in Pkts : q # p => g[q] = f[q]
  OBVIOUS
<1> QED
  BY <1>3, <1>4, <1>5 DEF AllocSet

LEMMA PacketFree ==
  ASSUME NEW f \in [Pkts -> PacketRec], NEW p \in Pkts, NEW y \in Int
  PROVE  LET g == AllocSet(f, p, FALSE, y) IN
         /\ g \in [Pkts -> PacketRec]
         /\ g[p].alloc = FALSE /\ g[p].rpc_id = y
         /\ g[p].client = f[p].client /\ g[p].rmode = f[p].rmode
         /\ \A q \in Pkts : q # p => g[q] = f[q]
<1> DEFINE g == [f EXCEPT ![p].alloc = FALSE, ![p].rpc_id = y]
           h == [f EXCEPT ![p].alloc = FALSE]
<1>1. h \in [Pkts -> PacketRec]
  BY DEF PacketRec
<1>2. g = [h EXCEPT ![p].rpc_id = y]
  OBVIOUS
<1>3. g \in [Pkts -> PacketRec]
  <2> HIDE DEF g, h
  <2> QED
    BY <1>1, <1>2 DEF PacketRec
<1>4. /\ g[p].alloc = FALSE /\ g[p].rpc_id = y
      /\ g[p].client = f[p].client /\ g[p].rmode = f[p].rmode
  BY DEF PacketRec
<1>5. \A q \in Pkts : q # p => g[q] = f[q]
  OBVIOUS
<1> QED
  BY <1>3, <1>4, <1>5 DEF AllocSet

LEMMA PacketFill ==
  ASSUME NEW f \in [Pkts -> PacketRec], NEW p \in Pkts, NEW c \in Clients,
         NEW r \in BOOLEAN
  PROVE  LET g == FilledIn(f, p, c, r) IN
         /\ g \in [Pkts -> PacketRec]
         /\ g[p].alloc = f[p].alloc /\ g[p].rpc_id = f[p].rpc_id
         /\ g[p].client = c /\ g[p].rmode = r
         /\ \A q \in Pkts : q # p => g[q] = f[q]
<1> DEFINE g == [f EXCEPT ![p].client = c, ![p].rmode = r]
           h == [f EXCEPT ![p].client = c]
<1>1. h \in [Pkts -> PacketRec]
  BY DEF PacketRec
<1>2. g = [h EXCEPT ![p].rmode = r]
  OBVIOUS
<1>3. g \in [Pkts -> PacketRec]
  <2> HIDE DEF g, h
  <2> QED
    BY <1>1, <1>2 DEF PacketRec
<1>4. /\ g[p].alloc = f[p].alloc /\ g[p].rpc_id = f[p].rpc_id
      /\ g[p].client = c /\ g[p].rmode = r
  BY DEF PacketRec
<1>5. \A q \in Pkts : q # p => g[q] = f[q]
  OBVIOUS
<1> QED
  BY <1>3, <1>4, <1>5 DEF FilledIn

LEMMA ClientRelease ==
  ASSUME NEW f \in [Clients -> ClientRec], NEW c \in Clients
  PROVE  LET g == Released(f, c) IN
         /\ g \in [Clients -> ClientRec]
         /\ g[c].pkt_addr = NULL /\ g[c].rpc_id = f[c].rpc_id
         /\ g[c].end = f[c].end
         /\ \A d \in Clients : d # c => g[d] = f[d]
<1> DEFINE g == [f EXCEPT ![c].sema_id = @ + 1, ![c].pkt_addr = NULL]
           h == [f EXCEPT ![c].sema_id = @ + 1]
<1>1. h \in [Clients -> ClientRec]
  BY DEF ClientRec
<1>2. g = [h EXCEPT ![c].pkt_addr = NULL]
  OBVIOUS
<1>3. g \in [Clients -> ClientRec]
  <2> HIDE DEF g, h
  <2> QED
    BY <1>1, <1>2 DEF ClientRec
<1>4. /\ g[c].pkt_addr = NULL /\ g[c].rpc_id = f[c].rpc_id
      /\ g[c].end = f[c].end
  BY DEF ClientRec
<1>5. \A d \in Clients : d # c => g[d] = f[d]
  OBVIOUS
<1> QED
  BY <1>3, <1>4, <1>5 DEF Released

(* rpc_packet_free *)
LEMMA FreedFacts ==
  ASSUME RpcTypeOK, NEW p \in Pkts
  PROVE  /\ Freed(p) \in [Pkts -> PacketRec]
         /\ Freed(p)[p].alloc = FALSE
         /\ \A q \in Pkts : q # p => Freed(p)[q] = packet[q]
<1>1. packet \in [Pkts -> PacketRec] /\ 0 \in Int
  BY DEF RpcTypeOK
<1>2. Freed(p) = AllocSet(packet, p, FALSE, 0)
  BY DEF Freed, AllocSet
<1>3. Freed(p)[p].alloc = FALSE
  BY <1>1 DEF Freed, PacketRec
<1>4. AllocSet(packet, p, FALSE, 0) \in [Pkts -> PacketRec]
  BY <1>1, PacketFree
<1>5. \A q \in Pkts : q # p => AllocSet(packet, p, FALSE, 0)[q] = packet[q]
  BY <1>1, PacketFree
<1> QED
  BY <1>2, <1>3, <1>4, <1>5, Zenon

LEMMA InFlightType ==
  ASSUME RpcTypeOK
  PROVE  InFlight \subseteq Pkts /\ Range(sif1) \subseteq Pkts /\ Range(rend) \subseteq Pkts
BY DEF RpcTypeOK, InFlight, Range

-----------------------------------------------------------------------------
(* The inductive invariant holds at the start and after every step. *)

LEMMA InitIInv == Init => IInv
<1> SUFFICES ASSUME Init PROVE IInv
  OBVIOUS
<1> USE RpcAssumption
<1>1. Range(sif1) = {} /\ Range(rend) = {} /\ InFlight = {}
  BY DEF Init, Range, InFlight
<1>2. \A a \in Callers : call[a] = Idle /\ call[a].pkt = NULL /\ call[a].at = "idle"
  BY DEF Init, Idle
<1>3. RpcTypeOK
  BY DEF Init, RpcTypeOK, PacketRec, ClientRec, CallRec, Idle, NoIrq
<1>4. CallsTyped
  BY <1>2 DEF CallsTyped
<1>5. Distinct(sif1) /\ Distinct(rend)
  BY DEF Init, Distinct
<1>6. irq.pkt = NULL
  BY DEF Init, NoIrq
<1>7. OneHolder
  BY <1>1, <1>2, <1>5, <1>6 DEF OneHolder, Init
<1>8. AllocIsHeld
  BY <1>1, <1>2, <1>6 DEF AllocIsHeld, Held, Init
<1>9. Sending /\ Flying /\ Answered /\ OwedExact
  BY <1>1, <1>2 DEF Sending, Flying, Answered, OwedExact, Owing, Init
<1> QED
  BY <1>3, <1>4, <1>7, <1>8, <1>9 DEF IInv

(* _rpc_get_packet hands out a packet nobody holds. *)
LEMMA GetPacketInv ==
  ASSUME IInv, NEW u \in Uses, GetPacket(u)
  PROVE  IInv'
<1> USE RpcAssumption
<1> DEFINE p == Min(FreePkts)
           b == u.by
<1>1. p \in Pkts /\ ~packet[p].alloc
  BY MinFree DEF GetPacket, FreePkts
<1>2. ~Held(p)
  BY <1>1 DEF IInv, AllocIsHeld
<1>3. b \in Callers /\ call[b] = Idle /\ u \in AllUses
  BY DEF GetPacket, AllUses
<1>4. PidUsed \in Int /\ PidKept \in Int
  BY DEF IInv, RpcTypeOK, PidUsed, PidKept
<1>5. /\ packet' = [packet EXCEPT ![p].alloc = TRUE, ![p].rpc_id = PidUsed]
      /\ pid' = PidKept
      /\ call' = [call EXCEPT ![b] = [at |-> "register", use |-> u, pkt |-> p]]
      /\ UNCHANGED <<client, sif1, iop, rend, irq, owed>>
  BY DEF GetPacket
<1> HIDE DEF p, b
<1>6. RpcTypeOK'
  <2>0. packet \in [Pkts -> PacketRec]
    BY DEF IInv, RpcTypeOK
  <2>1. packet' \in [Pkts -> PacketRec]
    BY <1>1, <1>4, <1>5, <2>0, PacketAlloc DEF AllocSet
  <2>2. [at |-> "register", use |-> u, pkt |-> p] \in CallRec
    BY <1>1 DEF CallRec
  <2> QED
    BY <1>3, <1>4, <1>5, <2>1, <2>2 DEF IInv, RpcTypeOK
<1>7. /\ call'[b].at = "register" /\ call'[b].use = u /\ call'[b].pkt = p
      /\ \A a \in Callers : a # b => call'[a] = call[a]
  BY <1>3, <1>5 DEF IInv, RpcTypeOK
<1>8. InFlight' = InFlight /\ irq' = irq
  BY <1>5 DEF InFlight
<1>9. /\ packet'[p].alloc = TRUE
      /\ \A q \in Pkts : q # p => packet'[q] = packet[q]
  BY <1>1, <1>5 DEF IInv, RpcTypeOK
<1>10. CallsTyped'
  BY <1>1, <1>3, <1>7, b = u.by DEF IInv, CallsTyped, b
<1>11. call[b].pkt = NULL
  BY <1>3 DEF Idle
<1>12. OneHolder'
  BY <1>1, <1>2, <1>3, <1>5, <1>7, <1>8 DEF IInv, OneHolder, Held
<1>13. AllocIsHeld'
  <2> SUFFICES ASSUME NEW q \in Pkts PROVE packet'[q].alloc <=> Held(q)'
    BY DEF AllocIsHeld
  <2>1. CASE q = p
    BY <2>1, <1>3, <1>7, <1>9 DEF Held
  <2>2. CASE q # p
    BY <2>2, <1>3, <1>7, <1>8, <1>9, <1>11 DEF Held, IInv, AllocIsHeld
  <2> QED
    BY <2>1, <2>2
<1>14. \A q \in Pkts, c \in Clients : q # p /\ Bound(q, c) => Bound(q, c)'
  BY <1>5, <1>9 DEF Bound
<1>15. \A a \in Callers : call[a].pkt # p
  BY <1>2 DEF Held
<1>16. InFlight \subseteq Pkts /\ p \notin InFlight
  BY <1>2 DEF IInv, RpcTypeOK, InFlight, Range, Held
<1>17. Sending'
  <2> SUFFICES ASSUME NEW a \in Callers, call'[a].at = "send"
               PROVE  /\ Bound(call[a].pkt, call[a].use.client)'
                      /\ (client[call[a].use.client].end = call[a].use.end)'
    BY DEF Sending
  <2>1. a # b /\ call'[a] = call[a] /\ call[a].pkt \in Pkts
    BY <1>7 DEF IInv, CallsTyped
  <2>2. call[a].use.client \in Clients
    BY <2>1 DEF IInv, Sending, Bound
  <2> QED
    BY <2>1, <2>2, <1>5, <1>14, <1>15 DEF IInv, Sending
<1>18. Flying'
  BY <1>8, <1>9, <1>14, <1>16 DEF IInv, Flying, Bound
<1>19. Answered'
  BY <1>5, <1>8, <1>9, <1>16 DEF IInv, Answered, InFlight
<1>20. \A c \in Clients : Owing(c)' <=> Owing(c)
  BY <1>5, <1>8, <1>9, <1>16 DEF Owing
<1>21. OwedExact'
  BY <1>5, <1>20 DEF IInv, OwedExact
<1> QED
  BY <1>6, <1>10, <1>12, <1>13, <1>17, <1>18, <1>19, <1>21 DEF IInv
(* A call gives up before its packet is sent. *)
LEMMA DropPacketInv ==
  ASSUME IInv, NEW a \in Callers, call[a].at \in {"register", "send"},
         packet' = Freed(call[a].pkt), call' = [call EXCEPT ![a] = Idle],
         UNCHANGED <<pid, client, sif1, iop, rend, irq, owed>>
  PROVE  IInv'
<1> USE RpcAssumption
<1> DEFINE p == call[a].pkt
<1>1. p \in Pkts
  BY DEF IInv, CallsTyped
<1>2. /\ packet' \in [Pkts -> PacketRec] /\ packet'[p].alloc = FALSE
      /\ \A q \in Pkts : q # p => packet'[q] = packet[q]
  BY <1>1, FreedFacts DEF IInv
<1>3. p \notin InFlight /\ p # irq.pkt
      /\ \A b \in Callers : b # a => call[b].pkt # p
  BY <1>1 DEF IInv, OneHolder
<1>4. Idle \in CallRec
  BY DEF Idle, CallRec
<1>5. RpcTypeOK'
  BY <1>2, <1>4 DEF IInv, RpcTypeOK
<1>6. /\ call'[a] = Idle /\ call'[a].at = "idle" /\ call'[a].pkt = NULL
      /\ \A b \in Callers : b # a => call'[b] = call[b]
  BY DEF IInv, RpcTypeOK, Idle
<1>7. InFlight' = InFlight /\ irq' = irq /\ InFlight \subseteq Pkts
  BY InFlightType DEF InFlight, IInv
<1> HIDE DEF p
<1>8. CallsTyped'
  BY <1>6 DEF IInv, CallsTyped
<1>9. OneHolder'
  BY <1>6, <1>7 DEF IInv, OneHolder
<1>10. AllocIsHeld'
  <2> SUFFICES ASSUME NEW q \in Pkts PROVE packet'[q].alloc <=> Held(q)'
    BY DEF AllocIsHeld
  <2>1. CASE q = p
    BY <2>1, <1>1, <1>2, <1>3, <1>6, <1>7 DEF Held
  <2>2. CASE q # p
    BY <2>2, <1>2, <1>6, <1>7 DEF Held, IInv, AllocIsHeld, p
  <2> QED
    BY <2>1, <2>2
<1>11. \A q \in Pkts, c \in Clients : q # p /\ Bound(q, c) => Bound(q, c)'
  BY <1>2 DEF Bound
<1>12. Sending'
  <2> SUFFICES ASSUME NEW b \in Callers, call'[b].at = "send"
               PROVE  /\ Bound(call[b].pkt, call[b].use.client)'
                      /\ (client[call[b].use.client].end = call[b].use.end)'
    BY DEF Sending
  <2>1. b # a /\ call'[b] = call[b] /\ call[b].pkt \in Pkts /\ call[b].pkt # p
    BY <1>3, <1>6 DEF IInv, CallsTyped
  <2>2. call[b].use.client \in Clients
    BY <2>1 DEF IInv, Sending, Bound
  <2> QED
    BY <2>1, <2>2, <1>11 DEF IInv, Sending
<1>13. Flying'
  BY <1>2, <1>3, <1>7, <1>11 DEF IInv, Flying, Bound
<1>14. Answered'
  BY <1>2, <1>3, <1>7 DEF IInv, Answered, InFlight
<1>15. \A c \in Clients : Owing(c)' <=> Owing(c)
  BY <1>2, <1>3, <1>7 DEF Owing
<1>16. OwedExact'
  BY <1>15 DEF IInv, OwedExact
<1> QED
  BY <1>5, <1>8, <1>9, <1>10, <1>12, <1>13, <1>14, <1>16 DEF IInv

(* A client without a request takes the packet: no other packet is bound to it. *)
LEMMA RegisterInv ==
  ASSUME IInv, NEW a \in Callers, Register(a)
  PROVE  IInv'
<1> USE RpcAssumption
<1> DEFINE p == call[a].pkt
           u == call[a].use
           c == u.client
           m == ~(u.cid = "call" /\ u.nowait /\ ~u.end)
<1>1. p \in Pkts /\ u \in Uses
  BY DEF IInv, CallsTyped, Register
<1>2. c \in Clients /\ u.end \in BOOLEAN /\ m \in BOOLEAN
  BY <1>1 DEF AllUses
<1>3. /\ call[a].at = "register" /\ client[c].pkt_addr = NULL
      /\ client' = [client EXCEPT ![c] = [pkt_addr |-> p, rpc_id |-> packet[p].rpc_id,
                                          sema_id |-> 0, end |-> u.end]]
      /\ packet' = [packet EXCEPT ![p].client = c, ![p].rmode = m]
      /\ call' = [call EXCEPT ![a].at = "send"]
      /\ UNCHANGED <<pid, sif1, iop, rend, irq, owed>>
  BY DEF Register
<1>4. p \notin InFlight /\ p # irq.pkt
      /\ \A b \in Callers : b # a => call[b].pkt # p
  BY <1>1 DEF IInv, OneHolder
<1>5. u.end => m
  OBVIOUS
<1>6. /\ packet \in [Pkts -> PacketRec] /\ packet[p].rpc_id \in Int
      /\ call[a] \in CallRec
  BY <1>1 DEF IInv, RpcTypeOK, PacketRec
<1>7. [call[a] EXCEPT !.at = "send"] \in CallRec
  BY <1>6 DEF CallRec
<1>8. [pkt_addr |-> p, rpc_id |-> packet[p].rpc_id, sema_id |-> 0, end |-> u.end]
        \in ClientRec
  BY <1>1, <1>2, <1>6 DEF ClientRec
<1> HIDE DEF p, u, c, m
<1>9. /\ packet' \in [Pkts -> PacketRec]
      /\ packet'[p].alloc = packet[p].alloc /\ packet'[p].rpc_id = packet[p].rpc_id
      /\ packet'[p].client = c /\ packet'[p].rmode = m
      /\ \A q \in Pkts : q # p => packet'[q] = packet[q]
  <2>1. packet' = FilledIn(packet, p, c, m)
    BY <1>3 DEF FilledIn
  <2> QED
    BY <1>1, <1>2, <1>6, <2>1, PacketFill
<1>10. call' = [call EXCEPT ![a] = [call[a] EXCEPT !.at = "send"]]
  BY <1>3 DEF IInv, RpcTypeOK
<1>11. RpcTypeOK'
  BY <1>2, <1>3, <1>7, <1>8, <1>9, <1>10 DEF IInv, RpcTypeOK
<1>12. /\ call'[a].at = "send" /\ call'[a].pkt = p /\ call'[a].use = u
       /\ \A b \in Callers : b # a => call'[b] = call[b]
       /\ \A b \in Callers : call'[b].pkt = call[b].pkt
  BY <1>6, <1>10 DEF IInv, RpcTypeOK, CallRec, p, u
<1>13. /\ client'[c].pkt_addr = p /\ client'[c].rpc_id = packet[p].rpc_id
       /\ client'[c].end = u.end
       /\ \A d \in Clients : d # c => client'[d] = client[d]
  BY <1>2, <1>3 DEF IInv, RpcTypeOK
<1>14. InFlight' = InFlight /\ irq' = irq /\ InFlight \subseteq Pkts
  BY <1>3, InFlightType DEF InFlight, IInv
<1>15. CallsTyped'
  BY <1>1, <1>3, <1>12 DEF IInv, CallsTyped, p, u
<1>16. OneHolder'
  BY <1>3, <1>12, <1>14 DEF IInv, OneHolder
<1>17. AllocIsHeld'
  BY <1>9, <1>12, <1>14 DEF IInv, AllocIsHeld, Held
<1>18. \A q \in Pkts : Bound(q, packet[q].client) => packet[q].client # c
  BY <1>3 DEF Bound
<1>19. \A q \in Pkts, d \in Clients : q # p /\ Bound(q, d) => d # c /\ Bound(q, d)'
  BY <1>3, <1>9, <1>13 DEF Bound
<1>20. ASSUME NEW q, NEW d, q = p, d = c PROVE Bound(q, d)'
  <2>1. client'[c].end => packet'[p].rmode
    BY <1>2, <1>5, <1>9, <1>13, Zenon
  <2> QED
    BY <1>1, <1>2, <1>9, <1>13, <1>20, <2>1 DEF Bound
<1>21. Sending'
  <2> SUFFICES ASSUME NEW b \in Callers, call'[b].at = "send"
               PROVE  /\ Bound(call[b].pkt, call[b].use.client)'
                      /\ (client[call[b].use.client].end = call[b].use.end)'
    BY DEF Sending
  <2>1. CASE b = a
    <3>1. call'[b].use.client = c
      BY <2>1, <1>12 DEF c
    <3>2. Bound(call[b].pkt, call[b].use.client)'
      BY <2>1, <3>1, <1>12, <1>20 DEF Bound
    <3> QED
      BY <2>1, <3>1, <3>2, <1>12, <1>13
  <2>2. CASE b # a
    <3>1. call'[b] = call[b] /\ call[b].pkt \in Pkts /\ call[b].pkt # p
      BY <2>2, <1>4, <1>12 DEF IInv, CallsTyped
    <3>2. call[b].use.client \in Clients
      BY <3>1 DEF IInv, Sending, Bound
    <3> QED
      BY <3>1, <3>2, <1>13, <1>19 DEF IInv, Sending
  <2> QED
    BY <2>1, <2>2
<1>22. Flying'
  BY <1>4, <1>9, <1>14, <1>19 DEF IInv, Flying, Bound
<1>23. Answered'
  BY <1>3, <1>4, <1>9, <1>14 DEF IInv, Answered, InFlight
<1>24. \A q \in InFlight : packet'[q] = packet[q] /\ packet[q].client # c
  BY <1>4, <1>9, <1>14, <1>18 DEF IInv, Flying
<1>25. \A d \in Clients : Owing(d)' <=> Owing(d)
  BY <1>13, <1>14, <1>24 DEF Owing
<1>26. OwedExact'
  BY <1>3, <1>25 DEF IInv, OwedExact
<1> QED
  BY <1>11, <1>15, <1>16, <1>17, <1>21, <1>22, <1>23, <1>26 DEF IInv
(* Nothing but the place of packets changes: what is said of calls that are *)
(* about to send stays true.                                                *)
LEMMA SendingKept ==
  ASSUME IInv, UNCHANGED client,
         \A b \in Callers : call'[b].at = "send" =>
           call'[b] = call[b] /\ packet'[call[b].pkt] = packet[call[b].pkt]
  PROVE  Sending'
BY DEF IInv, Sending, Bound

(* The packet goes from the caller's hands into the ring. *)
LEMMA SendInv ==
  ASSUME IInv, NEW a \in Callers, Send(a)
  PROVE  IInv'
<1> USE RpcAssumption
<1>0. PICK p, u, c : p = call[a].pkt /\ u = call[a].use /\ c = u.client
  OBVIOUS
<1>1. p \in Pkts /\ u \in Uses /\ u.by = a
  BY <1>0 DEF IInv, CallsTyped, Send
<1>2. c \in Clients /\ u.end \in BOOLEAN /\ u.nowait \in BOOLEAN
  BY <1>0, <1>1 DEF AllUses
<1>3. /\ call[a].at = "send"
      /\ sif1' = Append(sif1, p)
      /\ owed' = IF u.end THEN [owed EXCEPT ![c] = @ + 1] ELSE owed
      /\ UNCHANGED <<pid, packet, client, iop, rend, irq>>
  BY <1>0 DEF Send
<1>4. /\ call'[a] \in CallRec /\ call'[a].pkt = NULL
      /\ call'[a].at \in {"idle", "wait"}
      /\ call'[a].at = "idle" => call'[a] = Idle
      /\ call'[a].at = "wait" => call'[a].use = u
      /\ call' \in [Callers -> CallRec]
      /\ \A b \in Callers : b # a => call'[b] = call[b]
  <2>1. Idle \in CallRec /\ [at |-> "wait", use |-> u, pkt |-> NULL] \in CallRec
    BY <1>1 DEF CallRec, Idle
  <2>2. call' = [call EXCEPT ![a] =
                   IF u.nowait THEN Idle ELSE [at |-> "wait", use |-> u, pkt |-> NULL]]
    BY <1>0 DEF Send
  <2> QED
    BY <1>2, <2>1, <2>2 DEF Idle, IInv, RpcTypeOK
<1>5. p \notin InFlight /\ p # irq.pkt
      /\ \A b \in Callers : b # a => call[b].pkt # p
  BY <1>0, <1>1 DEF IInv, OneHolder
<1>6. /\ sif1' \in Seq(Pkts) /\ Distinct(sif1')
      /\ Range(sif1') = Range(sif1) \cup {p}
  BY <1>1, <1>3, <1>5, AppendDistinct DEF IInv, RpcTypeOK, OneHolder, InFlight
<1>7. InFlight' = InFlight \cup {p} /\ irq' = irq /\ InFlight \subseteq Pkts
  BY <1>3, <1>6, InFlightType DEF InFlight, IInv
<1>8. RpcTypeOK'
  BY <1>2, <1>3, <1>4, <1>6 DEF IInv, RpcTypeOK
<1>9. CallsTyped'
  BY <1>1, <1>4 DEF IInv, CallsTyped
<1>10. OneHolder'
  BY <1>3, <1>4, <1>5, <1>6, <1>7 DEF IInv, OneHolder, InFlight
<1>11. AllocIsHeld'
  BY <1>0, <1>1, <1>3, <1>4, <1>7 DEF IInv, AllocIsHeld, Held
<1>12. Sending'
  BY <1>3, <1>4, SendingKept
<1>13. Bound(p, c) /\ client[c].end = u.end
  BY <1>0, <1>3 DEF IInv, Sending
<1>14. Flying'
  BY <1>3, <1>7, <1>13 DEF IInv, Flying, Bound
<1>15. Answered'
  BY <1>3 DEF IInv, Answered
<1>16. ~Owing(c)
  BY <1>5, <1>13 DEF IInv, Flying, Bound, Owing
<1>17. Owing(c)' <=> u.end
  BY <1>3, <1>7, <1>13, <1>16 DEF Owing, Bound
<1>18. \A d \in Clients : d # c => (Owing(d)' <=> Owing(d))
  BY <1>3, <1>7, <1>13 DEF Owing, Bound
<1>19. OwedExact'
  <2> SUFFICES ASSUME NEW d \in Clients PROVE owed'[d] = IF Owing(d)' THEN 1 ELSE 0
    BY DEF OwedExact
  <2>1. owed \in [Clients -> Int] /\ owed[c] = 0
    BY <1>2, <1>16 DEF IInv, RpcTypeOK, OwedExact
  <2>2. CASE d = c
    <3>1. owed'[c] = IF u.end THEN 1 ELSE 0
      BY <1>2, <1>3, <2>1
    <3> QED
      BY <2>2, <3>1, <1>17
  <2>3. CASE d # c
    <3>1. owed'[d] = owed[d]
      BY <2>3, <1>2, <1>3, <2>1
    <3> QED
      BY <2>3, <3>1, <1>18 DEF IInv, OwedExact
  <2> QED
    BY <2>2, <2>3
<1> QED
  BY <1>8, <1>9, <1>10, <1>11, <1>12, <1>14, <1>15, <1>19 DEF IInv

(* A waiting caller is woken: no packet is involved. *)
LEMMA WakeInv ==
  ASSUME IInv, NEW a \in Callers, Wake(a)
  PROVE  IInv'
<1> USE RpcAssumption
<1>0. PICK c : c = call[a].use.client
  OBVIOUS
<1>1. c \in Clients /\ call[a].at = "wait" /\ call[a].pkt \notin Pkts
  BY <1>0 DEF Wake, IInv, CallsTyped, AllUses
<1>2. /\ client' = [client EXCEPT ![c].sema_id = @ - 1]
      /\ call' = [call EXCEPT ![a] = Idle]
      /\ UNCHANGED <<pid, packet, sif1, iop, rend, irq, owed>>
  BY <1>0 DEF Wake
<1>3. /\ call' \in [Callers -> CallRec] /\ call'[a] = Idle /\ call'[a].pkt = NULL
      /\ call'[a].at = "idle" /\ \A b \in Callers : b # a => call'[b] = call[b]
  <2>1. Idle \in CallRec
    BY DEF CallRec, Idle
  <2> QED
    BY <1>2, <2>1 DEF Idle, IInv, RpcTypeOK
<1>4. client \in [Clients -> ClientRec]
  BY DEF IInv, RpcTypeOK
<1>5. client' \in [Clients -> ClientRec]
  BY <1>1, <1>2, <1>4 DEF ClientRec
<1>6. \A d \in Clients : /\ client'[d].pkt_addr = client[d].pkt_addr
                         /\ client'[d].rpc_id = client[d].rpc_id
                         /\ client'[d].end = client[d].end
  BY <1>1, <1>2, <1>4 DEF ClientRec
<1>7. InFlight' = InFlight /\ irq' = irq
  BY <1>2 DEF InFlight
<1>8. RpcTypeOK'
  BY <1>2, <1>3, <1>5 DEF IInv, RpcTypeOK
<1>9. CallsTyped'
  BY <1>3 DEF IInv, CallsTyped
<1>10. OneHolder'
  BY <1>2, <1>3, <1>7 DEF IInv, OneHolder
<1>11. AllocIsHeld'
  BY <1>1, <1>2, <1>3, <1>7 DEF IInv, AllocIsHeld, Held
<1>12. \A q \in Pkts, d \in Clients : Bound(q, d) => Bound(q, d)'
  BY <1>2, <1>6 DEF Bound
<1>13. Sending'
  <2> SUFFICES ASSUME NEW b \in Callers, call'[b].at = "send"
               PROVE  /\ Bound(call[b].pkt, call[b].use.client)'
                      /\ (client[call[b].use.client].end = call[b].use.end)'
    BY DEF Sending
  <2>1. call'[b] = call[b] /\ call[b].pkt \in Pkts
    BY <1>3 DEF IInv, CallsTyped
  <2>2. call[b].use.client \in Clients
    BY <2>1 DEF IInv, Sending, Bound
  <2> QED
    BY <2>1, <2>2, <1>2, <1>6 DEF IInv, Sending, Bound
<1>14. Flying'
  BY <1>2, <1>6, <1>7 DEF IInv, Flying, Bound
<1>15. Answered'
  BY <1>2 DEF IInv, Answered
<1>16. \A d \in Clients : Owing(d)' <=> Owing(d)
  BY <1>2, <1>6, <1>7 DEF Owing
<1>17. OwedExact'
  BY <1>2, <1>16 DEF IInv, OwedExact
<1> QED
  BY <1>8, <1>9, <1>10, <1>11, <1>13, <1>14, <1>15, <1>17 DEF IInv
(* Packets move on between the rings and the IOP, none leaves the way. *)
LEMMA MoveInv ==
  ASSUME IInv, UNCHANGED <<pid, packet, client, call, irq, owed>>,
         sif1' \in Seq(Pkts), iop' \subseteq Pkts, rend' \in Seq(Pkts),
         Distinct(sif1'), Distinct(rend'),
         Range(sif1') \cap iop' = {}, Range(sif1') \cap Range(rend') = {},
         iop' \cap Range(rend') = {},
         InFlight' = InFlight, \A p \in Range(rend') : packet[p].rmode
  PROVE  IInv'
<1>1. RpcTypeOK'
  BY DEF IInv, RpcTypeOK
<1>2. CallsTyped'
  BY DEF IInv, CallsTyped
<1>3. OneHolder'
  BY DEF IInv, OneHolder
<1>4. AllocIsHeld'
  BY DEF IInv, AllocIsHeld, Held
<1>5. Sending'
  BY SendingKept
<1>6. Flying' /\ Answered'
  BY DEF IInv, Flying, Bound, Answered
<1>7. OwedExact'
  BY DEF IInv, OwedExact, Owing
<1> QED
  BY <1>1, <1>2, <1>3, <1>4, <1>5, <1>6, <1>7 DEF IInv

LEMMA IopTakeInv ==
  ASSUME IInv, IopTake
  PROVE  IInv'
<1>1. /\ Tail(sif1) \in Seq(Pkts) /\ Head(sif1) \in Pkts /\ Head(sif1) \in Range(sif1)
      /\ Range(Tail(sif1)) = Range(sif1) \ {Head(sif1)} /\ Distinct(Tail(sif1))
  BY TailDistinct DEF IopTake, IInv, RpcTypeOK, OneHolder
<1>2. /\ sif1' = Tail(sif1) /\ iop' = iop \cup {Head(sif1)} /\ rend' = rend
      /\ UNCHANGED <<pid, packet, client, call, irq, owed>>
  BY DEF IopTake
<1>3. iop' \subseteq Pkts /\ rend' \in Seq(Pkts) /\ Distinct(rend')
  BY <1>1, <1>2 DEF IInv, RpcTypeOK, OneHolder
<1>4. /\ Range(sif1') \cap iop' = {} /\ Range(sif1') \cap Range(rend') = {}
      /\ iop' \cap Range(rend') = {}
  BY <1>1, <1>2 DEF IInv, OneHolder
<1>5. InFlight' = InFlight
  BY <1>1, <1>2 DEF InFlight
<1>6. \A p \in Range(rend') : packet[p].rmode
  BY <1>2 DEF IInv, Answered
<1> QED
  BY <1>1, <1>2, <1>3, <1>4, <1>5, <1>6, MoveInv

(* A packet that is not to be answered is freed while its client keeps it. *)
LEMMA IopAnswerInv ==
  ASSUME IInv, NEW p \in Pkts, IopAnswer(p)
  PROVE  IInv'
<1> USE RpcAssumption
<1>1. /\ p \in iop /\ iop' = iop \ {p}
      /\ UNCHANGED <<pid, client, call, sif1, irq, owed>>
  BY DEF IopAnswer
<1>2. p \in InFlight /\ p \notin Range(rend) /\ p \notin Range(sif1)
      /\ irq.pkt # p /\ \A a \in Callers : call[a].pkt # p
  BY <1>1 DEF IInv, OneHolder, InFlight
<1>3. CASE packet[p].rmode
  <2>1. rend' = Append(rend, p) /\ packet' = packet
    BY <1>3 DEF IopAnswer
  <2>2. /\ rend' \in Seq(Pkts) /\ Range(rend') = Range(rend) \cup {p}
        /\ Distinct(rend')
    BY <1>2, <2>1, AppendDistinct DEF IInv, RpcTypeOK, OneHolder
  <2>3. sif1' \in Seq(Pkts) /\ iop' \subseteq Pkts /\ Distinct(sif1')
    BY <1>1 DEF IInv, RpcTypeOK, OneHolder
  <2>4. /\ Range(sif1') \cap iop' = {} /\ Range(sif1') \cap Range(rend') = {}
        /\ iop' \cap Range(rend') = {}
    BY <1>1, <1>2, <2>2 DEF IInv, OneHolder
  <2>5. InFlight' = InFlight
    BY <1>1, <2>2 DEF InFlight
  <2>6. \A q \in Range(rend') : packet[q].rmode
    BY <1>3, <2>2 DEF IInv, Answered
  <2> QED
    BY <1>1, <2>1, <2>2, <2>3, <2>4, <2>5, <2>6, MoveInv
<1>4. CASE ~packet[p].rmode
  <2>1. rend' = rend /\ packet' = Freed(p)
    BY <1>4 DEF IopAnswer
  <2>2. /\ packet' \in [Pkts -> PacketRec] /\ packet'[p].alloc = FALSE
        /\ \A q \in Pkts : q # p => packet'[q] = packet[q]
    BY <2>1, FreedFacts DEF IInv
  <2>3. InFlight' = InFlight \ {p} /\ InFlight \subseteq Pkts
    BY <1>1, <1>2, <2>1, InFlightType DEF InFlight, IInv
  <2>4. RpcTypeOK'
    BY <1>1, <2>1, <2>2 DEF IInv, RpcTypeOK
  <2>5. CallsTyped'
    BY <1>1 DEF IInv, CallsTyped
  <2>6. OneHolder'
    BY <1>1, <2>1, <2>3 DEF IInv, OneHolder
  <2>7. AllocIsHeld'
    <3> SUFFICES ASSUME NEW q \in Pkts PROVE packet'[q].alloc <=> Held(q)'
      BY DEF AllocIsHeld
    <3>1. CASE q = p
      BY <3>1, <1>1, <1>2, <2>2, <2>3 DEF Held
    <3>2. CASE q # p
      BY <3>2, <1>1, <2>2, <2>3 DEF Held, IInv, AllocIsHeld
    <3> QED
      BY <3>1, <3>2
  <2>8. Sending'
    <3>1. ASSUME NEW b \in Callers, call'[b].at = "send"
          PROVE  call'[b] = call[b] /\ packet'[call[b].pkt] = packet[call[b].pkt]
      BY <3>1, <1>1, <1>2, <2>2 DEF IInv, CallsTyped
    <3> QED
      BY <3>1, <1>1, SendingKept
  <2>9. Flying'
    BY <1>1, <2>2, <2>3 DEF IInv, Flying, Bound
  <2>10. Answered'
    BY <1>2, <2>1, <2>2, InFlightType DEF IInv, Answered
  <2>11. \A c \in Clients : packet[p].client = c => ~client[c].end
    BY <1>2, <1>4 DEF IInv, Flying, Bound
  <2>12. \A c \in Clients : Owing(c)' <=> Owing(c)
    BY <1>1, <2>2, <2>3, <2>11 DEF Owing
  <2>13. OwedExact'
    BY <1>1, <2>12 DEF IInv, OwedExact
  <2> QED
    BY <2>4, <2>5, <2>6, <2>7, <2>8, <2>9, <2>10, <2>13 DEF IInv
<1> QED
  BY <1>3, <1>4

(* The answer releases its client and keeps the packet for a while. *)
LEMMA RequestEndInv ==
  ASSUME IInv, RequestEnd
  PROVE  IInv'
<1> USE RpcAssumption
<1>0. PICK p, c : p = Head(rend) /\ c = packet[p].client
  OBVIOUS
<1>1. /\ Tail(rend) \in Seq(Pkts) /\ p \in Pkts /\ p \in Range(rend)
      /\ Range(Tail(rend)) = Range(rend) \ {p} /\ Distinct(Tail(rend))
  BY <1>0, TailDistinct DEF RequestEnd, IInv, RpcTypeOK, OneHolder
<1>2. p \in InFlight /\ Bound(p, c)
  BY <1>0, <1>1 DEF InFlight, IInv, Flying
<1>3. c \in Clients /\ client[c].pkt_addr = p /\ packet[p].client = c
  BY <1>2 DEF Bound
<1>4. /\ irq = NoIrq /\ rend' = Tail(rend)
      /\ irq' = [client |-> c, pkt |-> p, run |-> client[c].end]
      /\ owed' = IF client[c].end THEN [owed EXCEPT ![c] = @ - 1] ELSE owed
      /\ client' = Released(client, c)
      /\ UNCHANGED <<pid, packet, call, sif1, iop>>
  BY <1>0, <1>3 DEF RequestEnd, Released
<1>5. /\ client' \in [Clients -> ClientRec]
      /\ client'[c].pkt_addr = NULL /\ client'[c].end = client[c].end
      /\ \A d \in Clients : d # c => client'[d] = client[d]
  BY <1>3, <1>4, ClientRelease DEF IInv, RpcTypeOK
<1>6. client[c].end \in BOOLEAN
  BY <1>3 DEF IInv, RpcTypeOK, ClientRec
<1>7. irq'.pkt = p /\ irq.pkt = NULL
  BY <1>4 DEF NoIrq
<1>8. /\ irq' \in [client : Clients \cup {NULL}, pkt : Pkts \cup {NULL}, run : BOOLEAN]
      /\ irq'.pkt \in Pkts
  BY <1>1, <1>3, <1>4, <1>6
<1>9. InFlight' = InFlight \ {p} /\ InFlight \subseteq Pkts
  BY <1>1, <1>4, InFlightType DEF InFlight, IInv, OneHolder
<1>10. RpcTypeOK'
  BY <1>1, <1>3, <1>4, <1>5, <1>8 DEF IInv, RpcTypeOK
<1>11. CallsTyped'
  BY <1>4 DEF IInv, CallsTyped
<1>12. OneHolder'
  BY <1>1, <1>2, <1>4, <1>7, <1>9 DEF IInv, OneHolder
<1>13. AllocIsHeld'
  BY <1>2, <1>4, <1>7, <1>9 DEF IInv, AllocIsHeld, Held
<1>14. \A q \in Pkts, d \in Clients : Bound(q, d) /\ q # p => d # c /\ Bound(q, d)'
  BY <1>3, <1>4, <1>5 DEF Bound
<1>15. Sending'
  <2> SUFFICES ASSUME NEW b \in Callers, call'[b].at = "send"
               PROVE  /\ Bound(call[b].pkt, call[b].use.client)'
                      /\ (client[call[b].use.client].end = call[b].use.end)'
    BY DEF Sending
  <2>1. call'[b] = call[b] /\ call[b].pkt \in Pkts /\ call[b].pkt # p
    BY <1>2, <1>4 DEF IInv, CallsTyped, OneHolder
  <2>2. call[b].use.client \in Clients
    BY <2>1 DEF IInv, Sending, Bound
  <2> QED
    BY <2>1, <2>2, <1>4, <1>5, <1>14 DEF IInv, Sending
<1>16. Flying'
  BY <1>4, <1>9, <1>14 DEF IInv, Flying, Bound
<1>17. Answered'
  BY <1>1, <1>4 DEF IInv, Answered
<1>18. Owing(c) <=> client[c].end
  BY <1>2, <1>3 DEF Owing
<1>19. ~Owing(c)'
  BY <1>3, <1>4, <1>9 DEF IInv, Flying, Bound, Owing
<1>20. \A d \in Clients : d # c => (Owing(d)' <=> Owing(d))
  BY <1>3, <1>4, <1>5, <1>9 DEF Owing
<1>21. OwedExact'
  <2> SUFFICES ASSUME NEW d \in Clients PROVE owed'[d] = IF Owing(d)' THEN 1 ELSE 0
    BY DEF OwedExact
  <2>1. owed \in [Clients -> Int] /\ owed[c] = IF client[c].end THEN 1 ELSE 0
    BY <1>3, <1>18 DEF IInv, RpcTypeOK, OwedExact
  <2>2. CASE d = c
    <3>1. owed'[c] = 0
      BY <1>3, <1>4, <1>6, <2>1
    <3> QED
      BY <2>2, <3>1, <1>19
  <2>3. CASE d # c
    <3>1. owed'[d] = owed[d]
      BY <2>3, <1>3, <1>4, <2>1
    <3> QED
      BY <2>3, <3>1, <1>20 DEF IInv, OwedExact
  <2> QED
    BY <2>2, <2>3
<1> QED
  BY <1>10, <1>11, <1>12, <1>13, <1>15, <1>16, <1>17, <1>21 DEF IInv
(* The end function returns: the interrupt still holds the packet. *)
LEMMA EndFunctionReturnsInv ==
  ASSUME IInv, EndFunctionReturns
  PROVE  IInv'
<1>1. /\ irq # NoIrq /\ irq' = [irq EXCEPT !.run = FALSE]
      /\ UNCHANGED <<pid, packet, client, call, sif1, iop, rend, owed>>
  BY DEF EndFunctionReturns
<1>2. /\ irq' \in [client : Clients \cup {NULL}, pkt : Pkts \cup {NULL}, run : BOOLEAN]
      /\ irq'.pkt = irq.pkt /\ irq.pkt \in Pkts
  BY <1>1 DEF IInv, RpcTypeOK
<1>3. InFlight' = InFlight
  BY <1>1 DEF InFlight
<1>4. RpcTypeOK'
  BY <1>1, <1>2 DEF IInv, RpcTypeOK
<1>5. CallsTyped' /\ OneHolder'
  BY <1>1, <1>2, <1>3 DEF IInv, CallsTyped, OneHolder
<1>6. AllocIsHeld'
  BY <1>1, <1>2, <1>3 DEF IInv, AllocIsHeld, Held
<1>7. Sending'
  BY <1>1, SendingKept
<1>8. Flying' /\ Answered' /\ OwedExact'
  BY <1>1, <1>3 DEF IInv, Flying, Bound, Answered, OwedExact, Owing
<1> QED
  BY <1>4, <1>5, <1>6, <1>7, <1>8 DEF IInv

(* _request_end frees the packet that nobody else holds. *)
LEMMA FreeAnsweredInv ==
  ASSUME IInv, FreeAnswered
  PROVE  IInv'
<1> USE RpcAssumption
<1>0. PICK p : p = irq.pkt
  OBVIOUS
<1>1. /\ packet' = Freed(p) /\ irq' = NoIrq /\ p \in Pkts
      /\ UNCHANGED <<pid, client, call, sif1, iop, rend, owed>>
  BY <1>0 DEF FreeAnswered, IInv, RpcTypeOK
<1>2. /\ packet' \in [Pkts -> PacketRec] /\ packet'[p].alloc = FALSE
      /\ \A q \in Pkts : q # p => packet'[q] = packet[q]
  BY <1>1, FreedFacts DEF IInv
<1>3. p \notin InFlight /\ \A a \in Callers : call[a].pkt # p
  BY <1>0, <1>1 DEF IInv, OneHolder
<1>4. InFlight' = InFlight /\ InFlight \subseteq Pkts
  BY <1>1, InFlightType DEF InFlight, IInv
<1>5. irq'.pkt = NULL /\ NULL \notin Pkts
  BY <1>1 DEF NoIrq
<1>6. RpcTypeOK'
  BY <1>1, <1>2 DEF IInv, RpcTypeOK, NoIrq
<1>7. CallsTyped'
  BY <1>1 DEF IInv, CallsTyped
<1>8. OneHolder'
  BY <1>1, <1>4, <1>5 DEF IInv, OneHolder
<1>9. AllocIsHeld'
  <2> SUFFICES ASSUME NEW q \in Pkts PROVE packet'[q].alloc <=> Held(q)'
    BY DEF AllocIsHeld
  <2>1. CASE q = p
    BY <2>1, <1>1, <1>2, <1>3, <1>4, <1>5 DEF Held
  <2>2. CASE q # p
    BY <2>2, <1>0, <1>1, <1>2, <1>4, <1>5 DEF Held, IInv, AllocIsHeld
  <2> QED
    BY <2>1, <2>2
<1>10. Sending'
  <2>1. ASSUME NEW b \in Callers, call'[b].at = "send"
        PROVE  call'[b] = call[b] /\ packet'[call[b].pkt] = packet[call[b].pkt]
    BY <2>1, <1>1, <1>2, <1>3 DEF IInv, CallsTyped
  <2> QED
    BY <2>1, <1>1, SendingKept
<1>11. \A q \in InFlight : packet'[q] = packet[q]
  BY <1>2, <1>3, <1>4
<1>12. Flying'
  BY <1>1, <1>4, <1>11 DEF IInv, Flying, Bound
<1>13. Answered'
  BY <1>1, <1>11 DEF IInv, Answered, InFlight
<1>14. \A c \in Clients : Owing(c)' <=> Owing(c)
  BY <1>1, <1>4, <1>11 DEF Owing
<1>15. OwedExact'
  BY <1>1, <1>14 DEF IInv, OwedExact
<1> QED
  BY <1>6, <1>7, <1>8, <1>9, <1>10, <1>12, <1>13, <1>15 DEF IInv

LEMMA StutterInv ==
  ASSUME IInv, UNCHANGED vars
  PROVE  IInv'
<1>1. RpcTypeOK' /\ CallsTyped'
  BY DEF IInv, vars, RpcTypeOK, CallsTyped
<1>2. OneHolder' /\ AllocIsHeld'
  BY DEF IInv, vars, OneHolder, AllocIsHeld, Held, InFlight
<1>3. Sending' /\ Flying' /\ Answered' /\ OwedExact'
  BY DEF IInv, vars, Sending, Flying, Bound, Answered, OwedExact, Owing, InFlight
<1> QED
  BY <1>1, <1>2, <1>3 DEF IInv

LEMMA NextIInv == IInv /\ [Next]_vars => IInv'
<1> SUFFICES ASSUME IInv, [Next]_vars PROVE IInv'
  OBVIOUS
<1>1. CASE \E u \in Uses : GetPacket(u)
  BY <1>1, GetPacketInv
<1>2. ASSUME NEW a \in Callers, Caller(a) PROVE IInv'
  <2>1. CASE RejectInUse(a)
    BY <2>1, DropPacketInv DEF RejectInUse
  <2>2. CASE Register(a)
    BY <2>2, RegisterInv
  <2>3. CASE Send(a)
    BY <2>3, SendInv
  <2>4. CASE SendFailed(a)
    BY <2>4, DropPacketInv DEF SendFailed
  <2>5. CASE Wake(a)
    BY <2>5, WakeInv
  <2> QED
    BY <1>2, <2>1, <2>2, <2>3, <2>4, <2>5 DEF Caller
<1>3. CASE Interrupt
  BY <1>3, RequestEndInv, EndFunctionReturnsInv, FreeAnsweredInv DEF Interrupt
<1>4. CASE Iop
  BY <1>4, IopTakeInv, IopAnswerInv DEF Iop
<1>5. CASE UNCHANGED vars
  BY <1>5, StutterInv
<1> QED
  BY <1>1, <1>2, <1>3, <1>4, <1>5 DEF Next

(* Type correctness: the packet table, the clients, the calls in progress,  *)
(* the rings and the interrupt keep their types, and an interrupt in        *)
(* progress always has a packet to free.                                    *)
THEOREM TypeCorrect == Spec => []RpcTypeOK
<1>1. IInv => RpcTypeOK
  BY DEF IInv
<1> QED
  BY <1>1, InitIInv, NextIInv, PTL DEF Spec

-----------------------------------------------------------------------------
(* No packet leaks and none is handed out twice, however the masked parts   *)
(* of SifBindRpc and SifCallRpc interleave with _request_end.               *)
THEOREM PacketsAccountedHolds == Spec => []PacketsAccounted
<1>1. ASSUME IInv PROVE PacketsAccounted
  <2> SUFFICES ASSUME NEW p \in Pkts
               PROVE  Holders(p) = IF packet[p].alloc THEN 1 ELSE 0
    BY DEF PacketsAccounted
  <2> DEFINE A == {a \in Callers : call[a].pkt = p}
             n == Cardinality(A)
  <2>1. n = IF \E a \in Callers : call[a].pkt = p THEN 1 ELSE 0
    <3>1. CASE \E a \in Callers : call[a].pkt = p
      <4>1. PICK a \in Callers : call[a].pkt = p
        BY <3>1
      <4>2. A = {a}
        BY <4>1, <1>1 DEF IInv, OneHolder
      <4> QED
        BY <4>2, <3>1, FS_Singleton
    <3>2. CASE ~\E a \in Callers : call[a].pkt = p
      <4>1. A = {}
        BY <3>2
      <4> QED
        BY <4>1, <3>2, FS_EmptySet
    <3> QED
      BY <3>1, <3>2
  <2>2. Places(sif1, p) = IF p \in Range(sif1) THEN 1 ELSE 0
    BY <1>1, PlacesDistinct DEF IInv, RpcTypeOK, OneHolder
  <2>3. Places(rend, p) = IF p \in Range(rend) THEN 1 ELSE 0
    BY <1>1, PlacesDistinct DEF IInv, RpcTypeOK, OneHolder
  <2>4. packet[p].alloc <=> Held(p)
    BY <1>1 DEF IInv, AllocIsHeld
  <2>5. packet[p].alloc \in BOOLEAN
    BY <1>1 DEF IInv, RpcTypeOK, PacketRec
  <2>6. Holders(p) = n + Places(sif1, p) + (IF p \in iop THEN 1 ELSE 0)
                       + Places(rend, p) + (IF irq.pkt = p THEN 1 ELSE 0)
    BY DEF Holders
  <2> HIDE DEF n
  <2>7. CASE \E a \in Callers : call[a].pkt = p
    <3>1. p \notin Range(sif1) /\ p \notin iop /\ p \notin Range(rend) /\ irq.pkt # p
      BY <2>7, <1>1 DEF IInv, OneHolder, InFlight
    <3> QED
      BY <3>1, <2>1, <2>2, <2>3, <2>4, <2>6, <2>7 DEF Held
  <2>8. CASE ~\E a \in Callers : call[a].pkt = p
    <3>1. /\ ~(p \in Range(sif1) /\ p \in iop)
          /\ ~(p \in Range(sif1) /\ p \in Range(rend))
          /\ ~(p \in iop /\ p \in Range(rend))
          /\ irq.pkt = p => p \notin Range(sif1) /\ p \notin iop /\ p \notin Range(rend)
      BY <1>1 DEF IInv, OneHolder, InFlight
    <3>2. Held(p) <=> p \in Range(sif1) \/ p \in iop \/ p \in Range(rend) \/ irq.pkt = p
      BY <2>8 DEF Held, InFlight
    <3> QED
      BY <3>1, <3>2, <2>1, <2>2, <2>3, <2>4, <2>6, <2>8
  <2> QED
    BY <2>7, <2>8
<1> QED
  BY <1>1, InitIInv, NextIInv, PTL DEF Spec

(* The packet that _request_end takes from its client is the one that was   *)
(* answered.                                                                *)
THEOREM AnswerFitsClientHolds == Spec => []AnswerFitsClient
<1>1. IInv => AnswerFitsClient
  BY DEF IInv, Flying, Bound, AnswerFitsClient
<1> QED
  BY <1>1, InitIInv, NextIInv, PTL DEF Spec

(* Every call that returned 0 and gave an end function has it run once. *)
THEOREM EndFunctionOwedHolds == Spec => []EndFunctionOwed
<1>1. ASSUME IInv PROVE EndFunctionOwed
  <2> SUFFICES ASSUME NEW c \in Clients
               PROVE  owed[c] = Cardinality({p \in InFlight :
                        packet[p].client = c /\ client[c].end /\ packet[p].rmode})
    BY DEF EndFunctionOwed
  <2> DEFINE E == {p \in InFlight :
                     packet[p].client = c /\ client[c].end /\ packet[p].rmode}
  <2>1. owed[c] = IF Owing(c) THEN 1 ELSE 0
    BY <1>1 DEF IInv, OwedExact
  <2>2. CASE Owing(c)
    <3>1. PICK p \in InFlight : packet[p].client = c /\ client[c].end
      BY <2>2 DEF Owing
    <3>2. E = {p}
      BY <3>1, <1>1 DEF IInv, Flying, Bound
    <3> QED
      BY <3>2, <2>1, <2>2, FS_Singleton
  <2>3. CASE ~Owing(c)
    <3>1. E = {}
      BY <2>3 DEF Owing
    <3> QED
      BY <3>1, <2>1, <2>3, FS_EmptySet
  <2> QED
    BY <2>2, <2>3
<1> QED
  BY <1>1, InitIInv, NextIInv, PTL DEF Spec
-----------------------------------------------------------------------------
(* The clients implement RpcClient. *)

(* What RpcClient's variables stand for. *)
Load == [c \in Clients |-> Cardinality(Requests(c))]

(* Packet q is a request of client c: on its way, or about to be sent. *)
LEMMA RequestsMember ==
  ASSUME NEW c, NEW q
  PROVE  q \in Requests(c) <=>
           \/ q \in InFlight /\ packet[q].client = c
           \/ \E b \in Callers : /\ call[b].at = "send" /\ call[b].use.client = c
                                 /\ q = call[b].pkt
BY DEF Requests

(* A client has at most one request, the one it points to. *)
OneRequestView ==
  \A c \in Clients :
    /\ \A q \in Requests(c) : q = client[c].pkt_addr /\ q \in Pkts
    /\ ClientState[c] = IF client[c].pkt_addr = NULL THEN "free"
                        ELSE IF Requests(c) # {} THEN "pending" ELSE "lost"
    /\ Load[c] = IF Requests(c) # {} THEN 1 ELSE 0

LEMMA OneRequest == IInv => OneRequestView
<1> SUFFICES ASSUME IInv, NEW c \in Clients
             PROVE  /\ \A q \in Requests(c) : q = client[c].pkt_addr /\ q \in Pkts
                    /\ ClientState[c] = IF client[c].pkt_addr = NULL THEN "free"
                                        ELSE IF Requests(c) # {} THEN "pending"
                                        ELSE "lost"
                    /\ Load[c] = IF Requests(c) # {} THEN 1 ELSE 0
  BY DEF OneRequestView
<1>1. ASSUME NEW q \in Requests(c) PROVE q = client[c].pkt_addr /\ q \in Pkts
  <2>1. CASE q \in InFlight /\ packet[q].client = c
    BY <2>1, InFlightType DEF IInv, Flying, Bound
  <2>2. CASE \E b \in Callers : /\ call[b].at = "send" /\ call[b].use.client = c
                                /\ q = call[b].pkt
    BY <2>2 DEF IInv, Sending, Bound, CallsTyped
  <2> QED
    BY <2>1, <2>2, RequestsMember
<1>2. ClientState[c] = IF client[c].pkt_addr = NULL THEN "free"
                       ELSE IF Requests(c) # {} THEN "pending" ELSE "lost"
  BY <1>1 DEF ClientState
<1>3. Load[c] = Cardinality(Requests(c))
  BY DEF Load
<1>4. CASE Requests(c) = {}
  BY <1>1, <1>2, <1>3, <1>4, FS_EmptySet
<1>5. CASE Requests(c) # {}
  <2>1. Requests(c) = {client[c].pkt_addr}
    BY <1>1, <1>5
  <2> QED
    BY <1>1, <1>2, <1>3, <1>5, <2>1, FS_Singleton
<1> QED
  BY <1>4, <1>5

LEMMA OneRequestNext == IInv' => OneRequestView'
BY OneRequest, PTL

(* A step that leaves every client's requests alone stutters. *)
LEMMA SameView ==
  ASSUME \A c \in Clients : /\ Requests(c)' = Requests(c)
                            /\ client'[c].pkt_addr = client[c].pkt_addr
  PROVE  UNCHANGED <<ClientState, Load>>
BY DEF ClientState, Load

(* A step that changes one client's requests. *)
LEMMA OneView ==
  ASSUME NEW c \in Clients, NEW s, NEW n,
         \A d \in Clients : d # c => /\ Requests(d)' = Requests(d)
                                     /\ client'[d].pkt_addr = client[d].pkt_addr,
         ClientState'[c] = s, Load'[c] = n
  PROVE  /\ ClientState' = [ClientState EXCEPT ![c] = s]
         /\ Load' = [Load EXCEPT ![c] = n]
<1>1. \A d \in Clients : d # c => ClientState'[d] = ClientState[d]
  BY DEF ClientState
<1>2. \A d \in Clients : d # c => Load'[d] = Load[d]
  BY DEF Load
<1>3. /\ ClientState = [d \in Clients |-> ClientState[d]]
      /\ ClientState' = [d \in Clients |-> ClientState'[d]]
  BY DEF ClientState
<1>4. /\ Load = [d \in Clients |-> Load[d]]
      /\ Load' = [d \in Clients |-> Load'[d]]
  BY DEF Load
<1> HIDE DEF Load
<1>5. ClientState' = [ClientState EXCEPT ![c] = s]
  BY <1>1, <1>3
<1>6. Load' = [Load EXCEPT ![c] = n]
  BY <1>2, <1>4
<1> QED
  BY <1>5, <1>6
(* The calls at "send" and the requests on their way are what counts. *)
LEMMA SameRequests ==
  ASSUME NEW c,
         \A q : q \in InFlight' /\ packet'[q].client = c
                  <=> q \in InFlight /\ packet[q].client = c,
         \A b \in Callers : call'[b].at = "send" /\ call'[b].use.client = c
                              <=> call[b].at = "send" /\ call[b].use.client = c,
         \A b \in Callers : call[b].at = "send" /\ call[b].use.client = c
                              => call'[b].pkt = call[b].pkt
  PROVE  Requests(c)' = Requests(c)
BY DEF Requests

LEMMA GetPacketView ==
  ASSUME IInv, NEW u \in Uses, GetPacket(u)
  PROVE  UNCHANGED <<ClientState, Load>>
<1>0. PICK p, b : p = Min(FreePkts) /\ b = u.by
  OBVIOUS
<1>1. p \in Pkts /\ b \in Callers /\ call[b] = Idle
  BY <1>0, MinFree, RpcAssumption DEF GetPacket, FreePkts, AllUses
<1>2. /\ packet' = [packet EXCEPT ![p].alloc = TRUE, ![p].rpc_id = PidUsed]
      /\ call' = [call EXCEPT ![b] = [at |-> "register", use |-> u, pkt |-> p]]
      /\ UNCHANGED <<client, sif1, iop, rend>>
  BY <1>0 DEF GetPacket
<1>3. packet \in [Pkts -> PacketRec] /\ call \in [Callers -> CallRec]
  BY DEF IInv, RpcTypeOK
<1>4. \A q \in Pkts : packet'[q].client = packet[q].client
  BY <1>1, <1>2, <1>3 DEF PacketRec
<1>5. InFlight' = InFlight /\ InFlight \subseteq Pkts
  BY <1>2, InFlightType DEF InFlight, IInv
<1>6. /\ call'[b].at # "send" /\ call[b].at # "send"
      /\ \A a \in Callers : a # b => call'[a] = call[a]
  BY <1>1, <1>2, <1>3 DEF Idle
<1>7. \A c \in Clients : Requests(c)' = Requests(c)
  BY <1>4, <1>5, <1>6, SameRequests
<1> QED
  BY <1>2, <1>7, SameView

(* A packet given back before Register leaves its client as it was, one      *)
(* given back afterwards loses it: SendFailed.                               *)
LEMMA RejectInUseView ==
  ASSUME IInv, NEW a \in Callers, RejectInUse(a)
  PROVE  UNCHANGED <<ClientState, Load>>
<1>1. /\ call[a].at = "register" /\ packet' = Freed(call[a].pkt)
      /\ call' = [call EXCEPT ![a] = Idle]
      /\ UNCHANGED <<client, sif1, iop, rend>>
  BY DEF RejectInUse
<1>2. call[a].pkt \in Pkts /\ call[a].pkt \notin InFlight
  BY <1>1 DEF IInv, CallsTyped, OneHolder
<1>3. InFlight' = InFlight /\ InFlight \subseteq Pkts
  BY <1>1, InFlightType DEF InFlight, IInv
<1>4. \A q \in InFlight : packet'[q] = packet[q]
  BY <1>1, <1>2, <1>3, FreedFacts DEF IInv
<1>5. /\ call'[a].at # "send" /\ \A b \in Callers : b # a => call'[b] = call[b]
  BY <1>1 DEF IInv, RpcTypeOK, Idle
<1>6. \A c \in Clients : Requests(c)' = Requests(c)
  BY <1>1, <1>3, <1>4, <1>5, SameRequests
<1> QED
  BY <1>1, <1>6, SameView

LEMMA SendFailedView ==
  ASSUME IInv, IInv', NEW a \in Callers, SendFailed(a)
  PROVE  \E c \in Clients : Client!Lose(c)
<1>0. PICK p, c : p = call[a].pkt /\ c = call[a].use.client
  OBVIOUS
<1>1. /\ call[a].at = "send" /\ packet' = Freed(p)
      /\ call' = [call EXCEPT ![a] = Idle]
      /\ UNCHANGED <<client, sif1, iop, rend>>
  BY <1>0 DEF SendFailed
<1>2. p \in Pkts /\ p \notin InFlight
  BY <1>0, <1>1 DEF IInv, CallsTyped, OneHolder
<1>3. c \in Clients /\ client[c].pkt_addr = p
  BY <1>0, <1>1 DEF IInv, Sending, Bound
<1>4. InFlight' = InFlight /\ InFlight \subseteq Pkts
  BY <1>1, InFlightType DEF InFlight, IInv
<1>5. \A q \in InFlight : packet'[q] = packet[q]
  BY <1>1, <1>2, <1>4, FreedFacts DEF IInv
<1>6. /\ call'[a].at # "send" /\ \A b \in Callers : b # a => call'[b] = call[b]
  BY <1>1 DEF IInv, RpcTypeOK, Idle
<1>7. \A d \in Clients : d # c => Requests(d)' = Requests(d)
  BY <1>0, <1>1, <1>4, <1>5, <1>6, SameRequests
<1>8. p \in Requests(c)
  BY <1>0, <1>1, RequestsMember
<1>9. Requests(c)' = {}
  <2> SUFFICES ASSUME NEW q, q \in Requests(c)' PROVE FALSE
    OBVIOUS
  <2>1. q = client'[c].pkt_addr
    BY <1>3, OneRequestNext DEF OneRequestView
  <2>2. q = p
    BY <2>1, <1>1, <1>3
  <2>3. \/ q \in InFlight' /\ packet'[q].client = c
        \/ \E b \in Callers : /\ call'[b].at = "send" /\ call'[b].use.client = c
                              /\ q = call'[b].pkt
    BY DEF Requests
  <2> QED
    BY <2>2, <2>3, <1>0, <1>2, <1>4, <1>6 DEF IInv, OneHolder
<1>10. ClientState[c] = "pending"
  BY <1>2, <1>3, <1>8, OneRequest, RpcAssumption DEF OneRequestView
<1>11. ClientState'[c] = "lost" /\ Load'[c] = 0
  BY <1>1, <1>2, <1>3, <1>9, OneRequestNext, RpcAssumption DEF OneRequestView
<1>12. /\ ClientState' = [ClientState EXCEPT ![c] = "lost"]
       /\ Load' = [Load EXCEPT ![c] = 0]
  BY <1>1, <1>3, <1>7, <1>11, OneView
<1> QED
  BY <1>3, <1>10, <1>12 DEF Client!Lose, Load
LEMMA RegisterView ==
  ASSUME IInv, IInv', NEW a \in Callers, Register(a)
  PROVE  \E c \in Clients : Client!Start(c)
<1>0. PICK p, u, c : p = call[a].pkt /\ u = call[a].use /\ c = u.client
  OBVIOUS
<1>1. p \in Pkts /\ u \in Uses /\ c \in Clients /\ p \notin InFlight
  BY <1>0, RpcAssumption DEF IInv, CallsTyped, Register, AllUses, OneHolder
<1>2. /\ call[a].at = "register" /\ client[c].pkt_addr = NULL
      /\ client' = [client EXCEPT ![c] = [pkt_addr |-> p, rpc_id |-> packet[p].rpc_id,
                                          sema_id |-> 0, end |-> u.end]]
      /\ packet' = [packet EXCEPT ![p].client = c,
                                  ![p].rmode = ~(u.cid = "call" /\ u.nowait /\ ~u.end)]
      /\ call' = [call EXCEPT ![a].at = "send"]
      /\ UNCHANGED <<sif1, iop, rend>>
  BY <1>0 DEF Register
<1>3. /\ packet \in [Pkts -> PacketRec] /\ call \in [Callers -> CallRec]
      /\ client \in [Clients -> ClientRec]
  BY DEF IInv, RpcTypeOK
<1>4. \A q \in Pkts : q # p => packet'[q] = packet[q]
  BY <1>2, <1>3
<1>5. InFlight' = InFlight /\ InFlight \subseteq Pkts
  BY <1>2, InFlightType DEF InFlight, IInv
<1>6. /\ call'[a].at = "send" /\ call'[a].use.client = c /\ call'[a].pkt = p
      /\ \A b \in Callers : b # a => call'[b] = call[b]
  BY <1>0, <1>2, <1>3 DEF CallRec
<1>7. /\ client'[c].pkt_addr = p
      /\ \A d \in Clients : d # c => client'[d].pkt_addr = client[d].pkt_addr
  BY <1>1, <1>2, <1>3
<1>8. \A d \in Clients : d # c => Requests(d)' = Requests(d)
  BY <1>1, <1>2, <1>4, <1>5, <1>6, SameRequests
<1>9. p \in Requests(c)'
  BY <1>6 DEF Requests
<1>10. ClientState[c] = "free"
  BY <1>1, <1>2, OneRequest DEF OneRequestView
<1>11. ClientState'[c] = "pending" /\ Load'[c] = 1
  BY <1>1, <1>7, <1>9, OneRequestNext, RpcAssumption DEF OneRequestView
<1>12. /\ ClientState' = [ClientState EXCEPT ![c] = "pending"]
       /\ Load' = [Load EXCEPT ![c] = 1]
  BY <1>1, <1>7, <1>8, <1>11, OneView
<1> QED
  BY <1>1, <1>10, <1>12 DEF Client!Start, Load

(* The request goes from the caller's hands into the ring. *)
LEMMA SendView ==
  ASSUME IInv, NEW a \in Callers, Send(a)
  PROVE  UNCHANGED <<ClientState, Load>>
<1>0. PICK p, u, c : p = call[a].pkt /\ u = call[a].use /\ c = u.client
  OBVIOUS
<1>1. /\ p \in Pkts /\ p \notin InFlight /\ u \in Uses
      /\ c \in Clients /\ packet[p].client = c
  BY <1>0 DEF IInv, CallsTyped, Send, OneHolder, Sending, Bound
<1>2. /\ call[a].at = "send" /\ sif1' = Append(sif1, p)
      /\ UNCHANGED <<packet, client, iop, rend>>
  BY <1>0 DEF Send
<1>3. call'[a].at # "send" /\ \A b \in Callers : b # a => call'[b] = call[b]
  BY <1>0 DEF Send, IInv, RpcTypeOK, Idle
<1>4. Range(sif1') = Range(sif1) \cup {p}
  BY <1>1, <1>2, AppendDistinct DEF IInv, RpcTypeOK, OneHolder, InFlight
<1>5. InFlight' = InFlight \cup {p}
  BY <1>2, <1>4 DEF InFlight
<1>6. ASSUME NEW d \in Clients PROVE Requests(d)' = Requests(d)
  <2> SUFFICES ASSUME NEW q PROVE q \in Requests(d)' <=> q \in Requests(d)
    OBVIOUS
  <2>1. q \in Requests(d)' <=>
          \/ q \in InFlight' /\ packet'[q].client = d
          \/ \E b \in Callers : /\ call'[b].at = "send" /\ call'[b].use.client = d
                                /\ q = call'[b].pkt
    BY DEF Requests
  <2>2. CASE q = p
    BY <2>1, <2>2, <1>0, <1>1, <1>2, <1>3, <1>5, RequestsMember
  <2>3. CASE q # p
    BY <2>1, <2>3, <1>0, <1>2, <1>3, <1>5, RequestsMember
  <2> QED
    BY <2>2, <2>3
<1> QED
  BY <1>2, <1>6, SameView

LEMMA WakeView ==
  ASSUME IInv, NEW a \in Callers, Wake(a)
  PROVE  UNCHANGED <<ClientState, Load>>
<1>0. PICK c : c = call[a].use.client
  OBVIOUS
<1>1. /\ call[a].at = "wait"
      /\ client' = [client EXCEPT ![c].sema_id = @ - 1]
      /\ call' = [call EXCEPT ![a] = Idle]
      /\ UNCHANGED <<packet, sif1, iop, rend>>
  BY <1>0 DEF Wake
<1>2. call'[a].at # "send" /\ \A b \in Callers : b # a => call'[b] = call[b]
  BY <1>1 DEF IInv, RpcTypeOK, Idle
<1>3. client \in [Clients -> ClientRec]
  BY DEF IInv, RpcTypeOK
<1>4. \A d \in Clients : client'[d].pkt_addr = client[d].pkt_addr
  BY <1>1, <1>3 DEF ClientRec
<1>5. InFlight' = InFlight
  BY <1>1 DEF InFlight
<1>6. \A d \in Clients : Requests(d)' = Requests(d)
  BY <1>1, <1>2, <1>5, SameRequests
<1> QED
  BY <1>4, <1>6, SameView

LEMMA IopTakeView ==
  ASSUME IInv, IopTake
  PROVE  UNCHANGED <<ClientState, Load>>
<1>1. /\ sif1' = Tail(sif1) /\ iop' = iop \cup {Head(sif1)}
      /\ UNCHANGED <<packet, client, call, rend>>
  BY DEF IopTake
<1>2. Head(sif1) \in Range(sif1) /\ Range(Tail(sif1)) = Range(sif1) \ {Head(sif1)}
  BY TailDistinct DEF IopTake, IInv, RpcTypeOK, OneHolder
<1>3. InFlight' = InFlight
  BY <1>1, <1>2 DEF InFlight
<1>4. \A d \in Clients : Requests(d)' = Requests(d)
  BY <1>1, <1>3, SameRequests
<1> QED
  BY <1>1, <1>4, SameView

(* An answer is on its way, or the request that asked for none is over. *)
LEMMA IopAnswerView ==
  ASSUME IInv, IInv', NEW p \in Pkts, IopAnswer(p)
  PROVE  UNCHANGED <<ClientState, Load>> \/ \E c \in Clients : Client!Lose(c)
<1>1. p \in iop /\ iop' = iop \ {p} /\ UNCHANGED <<client, call, sif1>>
  BY DEF IopAnswer
<1>2. p \in InFlight /\ p \notin Range(rend) /\ p \notin Range(sif1)
      /\ \A b \in Callers : call[b].pkt # p
  BY <1>1 DEF IInv, OneHolder, InFlight
<1>3. CASE packet[p].rmode
  <2>1. rend' = Append(rend, p) /\ packet' = packet
    BY <1>3 DEF IopAnswer
  <2>2. Range(rend') = Range(rend) \cup {p}
    BY <1>2, <2>1, AppendDistinct DEF IInv, RpcTypeOK, OneHolder
  <2>3. InFlight' = InFlight
    BY <1>1, <2>2 DEF InFlight
  <2>4. \A d \in Clients : Requests(d)' = Requests(d)
    BY <1>1, <2>1, <2>3, SameRequests
  <2> QED
    BY <1>1, <2>4, SameView
<1>4. CASE ~packet[p].rmode
  <2>0. PICK c : c = packet[p].client
    OBVIOUS
  <2>1. rend' = rend /\ packet' = Freed(p)
    BY <1>4 DEF IopAnswer
  <2>2. \A q \in Pkts : q # p => packet'[q] = packet[q]
    BY <2>1, FreedFacts DEF IInv
  <2>3. InFlight' = InFlight \ {p} /\ InFlight \subseteq Pkts
    BY <1>1, <1>2, <2>1, InFlightType DEF InFlight, IInv
  <2>4. c \in Clients /\ client[c].pkt_addr = p
    BY <1>2, <2>0 DEF IInv, Flying, Bound
  <2>5. \A d \in Clients : d # c => Requests(d)' = Requests(d)
    BY <1>1, <2>0, <2>2, <2>3, SameRequests
  <2>6. p \in Requests(c)
    BY <1>2, <2>0, RequestsMember
  <2>7. Requests(c)' = {}
    <3> SUFFICES ASSUME NEW q, q \in Requests(c)' PROVE FALSE
      OBVIOUS
    <3>1. q = p
      BY <1>1, <2>4, OneRequestNext DEF OneRequestView
    <3>2. \/ q \in InFlight' /\ packet'[q].client = c
          \/ \E b \in Callers : /\ call'[b].at = "send" /\ call'[b].use.client = c
                                /\ q = call'[b].pkt
      BY DEF Requests
    <3> QED
      BY <3>1, <3>2, <1>1, <1>2, <2>3
  <2>8. ClientState[c] = "pending"
    BY <2>4, <2>6, OneRequest, RpcAssumption DEF OneRequestView
  <2>9. ClientState'[c] = "lost" /\ Load'[c] = 0
    BY <1>1, <2>4, <2>7, OneRequestNext, RpcAssumption DEF OneRequestView
  <2>10. /\ ClientState' = [ClientState EXCEPT ![c] = "lost"]
         /\ Load' = [Load EXCEPT ![c] = 0]
    BY <1>1, <2>4, <2>5, <2>9, OneView
  <2> QED
    BY <2>4, <2>8, <2>10 DEF Client!Lose, Load
<1> QED
  BY <1>3, <1>4

LEMMA RequestEndView ==
  ASSUME IInv, IInv', RequestEnd
  PROVE  \E c \in Clients : Client!Finish(c)
<1>0. PICK p, c : p = Head(rend) /\ c = packet[p].client
  OBVIOUS
<1>1. /\ p \in Pkts /\ p \in Range(rend) /\ Range(Tail(rend)) = Range(rend) \ {p}
  BY <1>0, TailDistinct DEF RequestEnd, IInv, RpcTypeOK, OneHolder
<1>2. p \in InFlight /\ c \in Clients /\ client[c].pkt_addr = p
  BY <1>0, <1>1 DEF InFlight, IInv, Flying, Bound
<1>3. /\ rend' = Tail(rend) /\ client' = Released(client, c)
      /\ UNCHANGED <<packet, call, sif1, iop>>
  BY <1>0 DEF RequestEnd, Released
<1>4. /\ client'[c].pkt_addr = NULL
      /\ \A d \in Clients : d # c => client'[d] = client[d]
  BY <1>2, <1>3, ClientRelease DEF IInv, RpcTypeOK
<1>5. InFlight' = InFlight \ {p}
  BY <1>1, <1>3 DEF InFlight, IInv, OneHolder
<1>6. \A d \in Clients : d # c => Requests(d)' = Requests(d)
  BY <1>0, <1>3, <1>5, SameRequests
<1>7. p \in Requests(c)
  BY <1>0, <1>2, RequestsMember
<1>8. Requests(c)' = {}
  BY <1>2, <1>4, OneRequestNext, RpcAssumption DEF OneRequestView
<1>9. ClientState[c] = "pending"
  BY <1>1, <1>2, <1>7, OneRequest, RpcAssumption DEF OneRequestView
<1>10. ClientState'[c] = "free" /\ Load'[c] = 0
  BY <1>2, <1>4, <1>8, OneRequestNext DEF OneRequestView
<1>11. /\ ClientState' = [ClientState EXCEPT ![c] = "free"]
       /\ Load' = [Load EXCEPT ![c] = 0]
  BY <1>2, <1>4, <1>6, <1>10, OneView
<1> QED
  BY <1>2, <1>9, <1>11 DEF Client!Finish, Load

LEMMA FreeAnsweredView ==
  ASSUME IInv, FreeAnswered
  PROVE  UNCHANGED <<ClientState, Load>>
<1>1. /\ packet' = Freed(irq.pkt) /\ irq.pkt \in Pkts /\ irq.pkt \notin InFlight
      /\ UNCHANGED <<client, call, sif1, iop, rend>>
  BY DEF FreeAnswered, IInv, RpcTypeOK, OneHolder
<1>2. InFlight' = InFlight /\ InFlight \subseteq Pkts
  BY <1>1, InFlightType DEF InFlight, IInv
<1>3. \A q \in InFlight : packet'[q] = packet[q]
  BY <1>1, <1>2, FreedFacts DEF IInv
<1>4. \A d \in Clients : Requests(d)' = Requests(d)
  BY <1>1, <1>2, <1>3, SameRequests
<1> QED
  BY <1>1, <1>4, SameView

LEMMA QuietView ==
  ASSUME UNCHANGED <<packet, client, call, sif1, iop, rend>>
  PROVE  UNCHANGED <<ClientState, Load>>
<1>1. InFlight' = InFlight
  BY DEF InFlight
<1>2. \A d \in Clients : Requests(d)' = Requests(d)
  BY <1>1, SameRequests
<1> QED
  BY <1>2, SameView

(* Every step of the calls, of the interrupt and of the IOP is a step of     *)
(* RpcClient or changes nothing that a driver sees.                          *)
LEMMA NextView ==
  ASSUME IInv, IInv', [Next]_vars
  PROVE  [Client!Next]_(Client!vars)
<1>0. SUFFICES \/ UNCHANGED <<ClientState, Load>>
               \/ \E c \in Clients : Client!Start(c) \/ Client!Finish(c) \/ Client!Lose(c)
  BY DEF Client!Next, Client!vars, Load
<1>1. CASE \E u \in Uses : GetPacket(u)
  BY <1>1, GetPacketView
<1>2. ASSUME NEW a \in Callers, Caller(a)
      PROVE  \/ UNCHANGED <<ClientState, Load>>
             \/ \E c \in Clients : Client!Start(c) \/ Client!Lose(c)
  BY <1>2, RejectInUseView, RegisterView, SendView, SendFailedView, WakeView
     DEF Caller
<1>3. CASE Interrupt
  <2>1. CASE EndFunctionReturns
    BY <2>1, QuietView DEF EndFunctionReturns
  <2> QED
    BY <1>3, <2>1, RequestEndView, FreeAnsweredView DEF Interrupt
<1>4. CASE Iop
  BY <1>4, IopTakeView, IopAnswerView DEF Iop
<1>5. CASE UNCHANGED vars
  BY <1>5, QuietView DEF vars
<1> QED
  BY <1>1, <1>2, <1>3, <1>4, <1>5 DEF Next

LEMMA InitView == Init => Client!Init
<1> SUFFICES ASSUME Init PROVE Client!Init
  OBVIOUS
<1>1. \A c \in Clients : client[c].pkt_addr = NULL
  BY DEF Init
<1>2. \A c \in Clients : Requests(c) = {}
  BY DEF Init, Requests, InFlight, Range, Idle
<1>3. ClientState = [c \in Clients |-> "free"]
  BY <1>1 DEF ClientState
<1>4. Load = [c \in Clients |-> 0]
  BY <1>2, FS_EmptySet DEF Load
<1> QED
  BY <1>3, <1>4 DEF Client!Init, Load

(* One request at a time per client, whatever tasks and end functions do:   *)
(* the packet table, the masked steps of the calls and _request_end         *)
(* implement RpcClient.                                                     *)
THEOREM ClientsImplemented == Spec => ImplementsClient
<1>1. Init => Client!Init
  BY InitView
<1>2. IInv /\ IInv' /\ [Next]_vars => [Client!Next]_(Client!vars)
  BY NextView
<1> QED
  BY <1>1, <1>2, InitIInv, NextIInv, PTL DEF Spec, ImplementsClient, Client!Spec
=============================================================================
