-------------------------- MODULE KernelSema_proofs --------------------------
(***************************************************************************)
(* Proofs about KernelSema, for every number of semaphores: the free list   *)
(* is exact and the calls implement SemaPool.                               *)
(***************************************************************************)
EXTENDS KernelSema, FiniteSetTheorems, TLAPS

(* The inductive invariant. *)
IInv == SemaTypeOK /\ FreeList

(* A list without repetition is no longer than the array. *)
LEMMA ListFits ==
  ASSUME NEW n \in Nat, NEW s \in [1 .. n -> Ids],
         \A j, k \in 1 .. n : s[j] = s[k] => j = k
  PROVE  n \in 0 .. N
<1>1. s \in Injection(1 .. n, Ids)
  BY DEF Injection, IsInjective
<1>2. IsFiniteSet(Ids) /\ Cardinality(Ids) = N
  BY FS_Interval, SemaAssumption DEF Ids
<1>3. IsFiniteSet(1 .. n) /\ Cardinality(1 .. n) = n
  BY FS_Interval
<1>4. Cardinality(1 .. n) <= Cardinality(Ids)
  BY <1>1, <1>2, FS_Injection
<1> QED
  BY <1>2, <1>3, <1>4, SemaAssumption

(* init_semaphores builds the list of all entries. *)
LEMMA InitIInv == SemaInit => IInv
<1> SUFFICES ASSUME SemaInit PROVE IInv
  OBVIOUS
<1> USE SemaAssumption
<1>1. SemaTypeOK
  BY DEF SemaInit, SemaTypeOK, Ids, NULL, Numbers
<1>2. FreeList
  <2> DEFINE s == [k \in 1 .. N |-> k - 1]
  <2>1. N \in 0 .. N /\ s \in [1 .. N -> Ids]
    BY DEF Ids
  <2>2. ASSUME NEW i \in Ids
        PROVE  i + 1 \in 1 .. N /\ s[i + 1] = i
    BY DEF Ids
  <2>3. IsFreeList(s, N)
    <3>1. \A j, k \in 1 .. N : s[j] = s[k] => j = k
      OBVIOUS
    <3>2. \A i \in Ids : free[i] = -1 <=> \E k \in 1 .. N : s[k] = i
      BY <2>2 DEF SemaInit
    <3>3. head = IF N = 0 THEN NULL ELSE s[1]
      BY DEF SemaInit
    <3>4. \A k \in 1 .. N : next[s[k]] = IF k = N THEN NULL ELSE s[k + 1]
      BY DEF SemaInit, Ids
    <3> QED
      BY <3>1, <3>2, <3>3, <3>4 DEF IsFreeList
  <2> QED
    BY <2>1, <2>3 DEF FreeList
<1> QED
  BY <1>1, <1>2 DEF IInv

(* What creation does to the list: it loses its first entry. *)
LEMMA CreateFreeList ==
  ASSUME NEW c \in InitCounts, IInv, CreateTakes(c)
  PROVE  FreeList'
<1> USE SemaAssumption
<1>1. PICK n \in 0 .. N : \E t \in [1 .. n -> Ids] : IsFreeList(t, n)
  BY DEF IInv, FreeList
<1>2. PICK s \in [1 .. n -> Ids] : IsFreeList(s, n)
  BY <1>1
<1>3. n >= 1 /\ n \in Nat /\ head = s[1] /\ head \in Ids
  BY <1>2 DEF IsFreeList, CreateTakes, Ids
<1> DEFINE t == [k \in 1 .. n - 1 |-> s[k + 1]]
<1>4. n - 1 \in 0 .. N /\ t \in [1 .. n - 1 -> Ids]
  BY <1>3
<1>5. \A k \in 1 .. n - 1 : k + 1 \in 1 .. n /\ t[k] = s[k + 1] /\ t[k] # head
  BY <1>2, <1>3 DEF IsFreeList
<1>6. \A j, k \in 1 .. n - 1 : t[j] = t[k] => j = k
  BY <1>2, <1>3, <1>5 DEF IsFreeList
<1>7. \A i \in Ids : free'[i] = IF i = head THEN 0 ELSE free[i]
  BY <1>3 DEF CreateTakes, IInv, SemaTypeOK
<1>8. \A i \in Ids : next'[i] = IF i = head THEN NULL ELSE next[i]
  BY <1>3 DEF CreateTakes, IInv, SemaTypeOK
<1>9. \A i \in Ids : free'[i] = -1 <=> \E k \in 1 .. n - 1 : t[k] = i
  <2> SUFFICES ASSUME NEW i \in Ids
               PROVE  free'[i] = -1 <=> \E k \in 1 .. n - 1 : t[k] = i
    OBVIOUS
  <2>1. CASE i = head
    BY <1>5, <1>7, <2>1
  <2>2. CASE i # head
    <3>1. free'[i] = -1 <=> \E k \in 1 .. n : s[k] = i
      BY <1>2, <1>7, <2>2 DEF IsFreeList
    <3>2. ASSUME NEW k \in 1 .. n, s[k] = i
          PROVE  k - 1 \in 1 .. n - 1 /\ t[k - 1] = i
      BY <1>3, <2>2, <3>2
    <3> QED
      BY <1>5, <3>1, <3>2
  <2> QED
    BY <2>1, <2>2
<1>10. head' = IF n - 1 = 0 THEN NULL ELSE t[1]
  BY <1>2, <1>3 DEF IsFreeList, CreateTakes
<1>11. \A k \in 1 .. n - 1 : next'[t[k]] = IF k = n - 1 THEN NULL ELSE t[k + 1]
  <2> SUFFICES ASSUME NEW k \in 1 .. n - 1
               PROVE  next'[t[k]] = IF k = n - 1 THEN NULL ELSE t[k + 1]
    OBVIOUS
  <2>1. t[k] \in Ids /\ k + 1 \in 1 .. n /\ t[k] = s[k + 1] /\ t[k] # head
    BY <1>4, <1>5
  <2>2. next'[t[k]] = next[s[k + 1]]
    BY <1>8, <2>1
  <2>3. next[s[k + 1]] = IF k + 1 = n THEN NULL ELSE s[k + 2]
    BY <1>2, <2>1, <1>3 DEF IsFreeList
  <2> QED
    BY <1>3, <2>2, <2>3
<1> HIDE DEF t
<1>12. IsFreeList(t, n - 1)'
  BY <1>6, <1>9, <1>10, <1>11 DEF IsFreeList
<1> QED
  BY <1>4, <1>12 DEF FreeList, Ids

(* Deletion puts an entry that was not on the list in front of it. *)
LEMMA DeleteFreeList ==
  ASSUME NEW id \in Numbers, IInv, Deletable(id), iDeleteSema(id)
  PROVE  FreeList'
<1> USE SemaAssumption
<1>1. PICK n \in 0 .. N : \E t \in [1 .. n -> Ids] : IsFreeList(t, n)
  BY DEF IInv, FreeList
<1>2. PICK s \in [1 .. n -> Ids] : IsFreeList(s, n)
  BY <1>1
<1>3. id \in Ids /\ free[id] = 0 /\ n \in Nat
  BY DEF Deletable
<1>4. \A k \in 1 .. n : s[k] # id
  BY <1>2, <1>3 DEF IsFreeList
<1> DEFINE t == [k \in 1 .. n + 1 |-> IF k = 1 THEN id ELSE s[k - 1]]
<1>5. n + 1 \in Nat /\ t \in [1 .. n + 1 -> Ids]
  BY <1>3
<1>6. /\ t[1] = id
      /\ \A k \in 1 .. n : k + 1 \in 1 .. n + 1 /\ t[k + 1] = s[k]
      /\ \A k \in 1 .. n + 1 : k = 1 \/ (k - 1 \in 1 .. n /\ t[k] = s[k - 1] /\ t[k] # id)
  BY <1>3, <1>4
<1>7. \A j, k \in 1 .. n + 1 : t[j] = t[k] => j = k
  <2>1. \A j, k \in 1 .. n : s[j] = s[k] => j = k
    BY <1>2 DEF IsFreeList
  <2> HIDE DEF t
  <2> SUFFICES ASSUME NEW j \in 1 .. n + 1, NEW k \in 1 .. n + 1, t[j] = t[k]
               PROVE  j = k
    OBVIOUS
  <2>2. CASE j = 1 \/ k = 1
    BY <1>3, <1>6, <2>2
  <2>3. CASE j # 1 /\ k # 1
    <3>1. j - 1 \in 1 .. n /\ k - 1 \in 1 .. n /\ s[j - 1] = s[k - 1]
      BY <1>6, <2>3
    <3>2. j - 1 = k - 1
      BY <2>1, <3>1
    <3> QED
      BY <1>3, <3>2
  <2> QED
    BY <2>2, <2>3
<1>8. \A i \in Ids : free'[i] = IF i = id THEN -1 ELSE free[i]
  BY <1>3 DEF iDeleteSema, IInv, SemaTypeOK, Deletable
<1>9. \A i \in Ids : next'[i] = IF i = id THEN head ELSE next[i]
  BY <1>3 DEF iDeleteSema, IInv, SemaTypeOK, Deletable
<1>10. head' = id
  BY DEF iDeleteSema
<1> HIDE DEF t
<1>11. \A i \in Ids : free'[i] = -1 <=> \E k \in 1 .. n + 1 : t[k] = i
  <2> SUFFICES ASSUME NEW i \in Ids
               PROVE  free'[i] = -1 <=> \E k \in 1 .. n + 1 : t[k] = i
    OBVIOUS
  <2>1. CASE i = id
    BY <1>3, <1>6, <1>8, <2>1
  <2>2. CASE i # id
    <3>1. free'[i] = -1 <=> \E k \in 1 .. n : s[k] = i
      BY <1>2, <1>8, <2>2 DEF IsFreeList
    <3>2. ASSUME NEW k \in 1 .. n + 1, t[k] = i
          PROVE  k - 1 \in 1 .. n /\ s[k - 1] = i
      BY <1>6, <2>2, <3>2
    <3> QED
      BY <1>6, <3>1, <3>2
  <2> QED
    BY <2>1, <2>2
<1>12. \A k \in 1 .. n + 1 : next'[t[k]] = IF k = n + 1 THEN NULL ELSE t[k + 1]
  <2> SUFFICES ASSUME NEW k \in 1 .. n + 1
               PROVE  next'[t[k]] = IF k = n + 1 THEN NULL ELSE t[k + 1]
    OBVIOUS
  <2>1. CASE k = 1
    <3>1. next'[t[k]] = head
      BY <1>3, <1>6, <1>9, <2>1
    <3>2. head = IF n = 0 THEN NULL ELSE s[1]
      BY <1>2 DEF IsFreeList
    <3>3. n # 0 => t[2] = s[1]
      BY <1>3, <1>6
    <3> QED
      BY <1>3, <2>1, <3>1, <3>2, <3>3
  <2>2. CASE k # 1
    <3>1. k - 1 \in 1 .. n /\ t[k] = s[k - 1] /\ t[k] # id /\ t[k] \in Ids
      BY <1>5, <1>6, <2>2
    <3>2. next'[t[k]] = next[s[k - 1]]
      BY <1>9, <3>1
    <3>3. next[s[k - 1]] = IF k - 1 = n THEN NULL ELSE s[k]
      BY <1>2, <1>3, <3>1 DEF IsFreeList
    <3>4. k - 1 # n => t[k + 1] = s[k]
      BY <1>3, <1>6, <3>1
    <3> QED
      BY <1>3, <3>2, <3>3, <3>4
  <2> QED
    BY <2>1, <2>2
<1>13. IsFreeList(t, n + 1)'
  BY <1>3, <1>6, <1>7, <1>10, <1>11, <1>12 DEF IsFreeList
<1>14. n + 1 \in 0 .. N
  BY <1>5, <1>7, ListFits
<1> QED
  BY <1>5, <1>13, <1>14 DEF FreeList, Ids

(* Calls that touch neither list nor marks keep the list. *)
LEMMA FrameFreeList ==
  ASSUME FreeList, UNCHANGED <<next, free, head>>
  PROVE  FreeList'
BY DEF FreeList, IsFreeList, Ids

LEMMA NextIInv == IInv /\ [SemaNext]_semavars => IInv'
<1> SUFFICES ASSUME IInv, [SemaNext]_semavars PROVE IInv'
  OBVIOUS
<1> USE SemaAssumption
<1>1. ASSUME NEW c \in InitCounts, syscallCreateSema(c)
      PROVE  IInv'
  <2>1. CASE CreateFails(c)
    <3>1. SemaTypeOK'
      BY <1>1, <2>1 DEF IInv, SemaTypeOK, syscallCreateSema, CreateFails, Answer, Ids, Numbers
    <3> QED
      BY <2>1, <3>1, FrameFreeList DEF IInv, CreateFails
  <2>2. CASE CreateTakes(c)
    <3>1. SemaTypeOK'
      BY <1>1, <2>2 DEF IInv, SemaTypeOK, syscallCreateSema, CreateTakes, Answer, Ids, Numbers, NULL
    <3> QED
      BY <2>2, <3>1, CreateFreeList DEF IInv
  <2> QED
    BY <1>1, <2>1, <2>2 DEF syscallCreateSema
<1>2. ASSUME NEW id \in Numbers, iDeleteSema(id)
      PROVE  IInv'
  <2>1. CASE Deletable(id)
    <3>1. id \in Ids /\ id \in Int
      BY <2>1 DEF Deletable, Numbers
    <3>2. /\ next' = [next EXCEPT ![id] = head]
          /\ head' = id
          /\ free' = [free EXCEPT ![id] = -1]
          /\ last' = [op |-> "delete", arg |-> id, ret |-> id]
          /\ UNCHANGED <<count, spc, sid>>
      BY <1>2, <2>1 DEF iDeleteSema, Answer
    <3>3. SemaTypeOK'
      BY <3>1, <3>2 DEF IInv, SemaTypeOK
    <3> QED
      BY <1>2, <2>1, <3>3, DeleteFreeList DEF IInv
  <2>2. CASE ~Deletable(id)
    <3>1. SemaTypeOK' /\ UNCHANGED <<next, free, head>>
      BY <1>2, <2>2 DEF IInv, SemaTypeOK, iDeleteSema, Answer, Ids, Numbers
    <3> QED
      BY <3>1, FrameFreeList DEF IInv
  <2> QED
    BY <2>1, <2>2
<1>3. ASSUME NEW id \in Numbers, iSignalSema(id)
      PROVE  IInv'
  <2>1. \E ret \in {0, -1} : last' = [op |-> "signal", arg |-> id, ret |-> ret]
    BY <1>3 DEF iSignalSema, Answer
  <2>2. count' \in [Ids -> Nat]
    BY <1>3 DEF IInv, SemaTypeOK, iSignalSema, Counting
  <2>3. UNCHANGED <<next, free, head, spc, sid>>
    BY <1>3 DEF iSignalSema
  <2>4. SemaTypeOK'
    BY <2>1, <2>2, <2>3 DEF IInv, SemaTypeOK, Numbers
  <2> QED
    BY <2>3, <2>4, FrameFreeList DEF IInv
<1>4. ASSUME NEW id \in Numbers, WaitSema(id)
      PROVE  IInv'
  <2>1. SemaTypeOK'
    BY <1>4 DEF IInv, SemaTypeOK, WaitSema
  <2> QED
    BY <1>4, <2>1, FrameFreeList DEF IInv, WaitSema
<1>5. ASSUME iWaitSema
      PROVE  IInv'
  <2>1. CASE WaitRefused
    <3>1. SemaTypeOK'
      BY <2>1 DEF IInv, SemaTypeOK, WaitRefused, Answer, Numbers
    <3> QED
      BY <2>1, <3>1, FrameFreeList DEF IInv, WaitRefused
  <2>2. CASE WaitTakes
    <3>1. SemaTypeOK'
      BY <2>2 DEF IInv, SemaTypeOK, WaitTakes, Counting, Answer, Ids, Numbers
    <3> QED
      BY <2>2, <3>1, FrameFreeList DEF IInv, WaitTakes
  <2>3. CASE WaitAgain
    <3>1. SemaTypeOK'
      BY <2>3 DEF IInv, SemaTypeOK, WaitAgain
    <3> QED
      BY <2>3, <3>1, FrameFreeList DEF IInv, WaitAgain
  <2> QED
    BY <1>5, <2>1, <2>2, <2>3 DEF iWaitSema
<1>6. ASSUME WindowEnds
      PROVE  IInv'
  <2>1. SemaTypeOK'
    BY <1>6 DEF IInv, SemaTypeOK, WindowEnds
  <2> QED
    BY <1>6, <2>1, FrameFreeList DEF IInv, WindowEnds
<1>7. CASE UNCHANGED semavars
  <2>1. SemaTypeOK'
    BY <1>7 DEF IInv, SemaTypeOK, semavars
  <2> QED
    BY <1>7, <2>1, FrameFreeList DEF IInv, semavars
<1> QED
  BY <1>1, <1>2, <1>3, <1>4, <1>5, <1>6, <1>7 DEF SemaNext

(* The invariant holds in every reachable state. *)
THEOREM SemaInvariance == SemaSpec => []IInv
BY InitIInv, NextIInv, PTL DEF SemaSpec

(* In every pool, counts never become negative and the list stays in range. *)
THEOREM SemaTypes == SemaSpec => []SemaTypeOK
<1>1. IInv => SemaTypeOK
  BY DEF IInv
<1> QED
  BY <1>1, SemaInvariance, PTL

(* In every pool, the entries marked free form one list without a cycle,      *)
(* whatever is deleted twice or by a wrong number.                            *)
THEOREM SemaFreeList == SemaSpec => []FreeList
<1>1. IInv => FreeList
  BY DEF IInv
<1> QED
  BY <1>1, SemaInvariance, PTL

(* The abstract value of a semaphore, entry by entry. *)
LEMMA ValueOf ==
  ASSUME SemaTypeOK
  PROVE  /\ Value \in [Ids -> Nat \cup {-1}]
         /\ Pool!Ids = Ids
         /\ Pool!InUse = {i \in Ids : free[i] = 0}
         /\ \A i \in Ids : Value[i] = IF free[i] = 0 THEN count[i] ELSE -1
<1>1. \A i \in Ids : Value[i] = IF free[i] = 0 THEN count[i] ELSE -1
  BY DEF Value
<1>2. Value \in [Ids -> Nat \cup {-1}]
  BY DEF SemaTypeOK, Value
<1>3. Pool!Ids = Ids
  BY DEF Ids, Pool!Ids
<1>4. \A i \in Ids : Value[i] # -1 <=> free[i] = 0
  BY <1>1 DEF SemaTypeOK
<1>5. Pool!InUse = {i \in Ids : free[i] = 0}
  BY <1>3, <1>4 DEF Pool!InUse, Pool!UNUSED
<1> QED
  BY <1>1, <1>2, <1>3, <1>5

(* A list that is empty leaves no entry free: creation fails only then. *)
LEMMA HeadNull ==
  ASSUME IInv
  PROVE  /\ head = NULL => \A i \in Ids : free[i] = 0
         /\ head # NULL => head \in Ids /\ free[head] = -1
<1> USE SemaAssumption
<1>1. PICK n \in 0 .. N : \E t \in [1 .. n -> Ids] : IsFreeList(t, n)
  BY DEF IInv, FreeList
<1>2. PICK s \in [1 .. n -> Ids] : IsFreeList(s, n)
  BY <1>1
<1>3. CASE n = 0
  BY <1>2, <1>3 DEF IsFreeList, IInv, SemaTypeOK, NULL
<1>4. CASE n # 0
  <2>1. head = s[1] /\ s[1] \in Ids /\ 1 \in 1 .. n
    BY <1>2, <1>4 DEF IsFreeList
  <2>2. free[head] = -1
    BY <1>2, <2>1 DEF IsFreeList
  <2> QED
    BY <2>1, <2>2 DEF NULL, Ids
<1> QED
  BY <1>3, <1>4

(* Nothing the caller sees changes. *)
LEMMA Unseen ==
  ASSUME UNCHANGED <<count, free, last>>
  PROVE  UNCHANGED <<Value, last>>
BY DEF Value, Ids

(* Every step of the code is a step of the pool, or changes nothing the       *)
(* callers see.                                                               *)
LEMMA StepPool ==
  ASSUME IInv, IInv', [SemaNext]_semavars
  PROVE  [Pool!Next]_<<Value, last>>
<1> USE SemaAssumption
<1> DEFINE Args == Numbers \cup InitCounts
<1>0. SemaTypeOK /\ SemaTypeOK'
  BY DEF IInv
<1>1. /\ Pool!Ids = Ids
      /\ Pool!InUse = {i \in Ids : free[i] = 0}
      /\ Value \in [Ids -> Nat \cup {-1}]
      /\ \A i \in Ids : Value[i] = IF free[i] = 0 THEN count[i] ELSE -1
  BY <1>0, ValueOf
<1>2. /\ Value' \in [Ids -> Nat \cup {-1}]
      /\ \A i \in Ids : Value'[i] = IF free'[i] = 0 THEN count'[i] ELSE -1
  BY <1>0 DEF SemaTypeOK, Value
<1>3. ASSUME NEW c \in InitCounts, syscallCreateSema(c)
      PROVE  Pool!Create(c)
  <2>1. CASE CreateFails(c)
    <3>1. c < 0 \/ Pool!InUse = Pool!Ids
      BY <1>1, <2>1, HeadNull DEF CreateFails
    <3>2. Value' = Value /\ last' = [op |-> "create", arg |-> c, ret |-> -1]
      BY <2>1 DEF CreateFails, Answer, Value, Ids
    <3> QED
      BY <3>1, <3>2 DEF Pool!Create, Pool!Answer
  <2>2. CASE CreateTakes(c)
    <3>1. c >= 0 /\ head \in Ids /\ free[head] = -1
      BY <2>2, HeadNull DEF CreateTakes
    <3>2. head \in Pool!Ids \ Pool!InUse
      BY <1>1, <3>1
    <3>3. \A i \in Ids : Value'[i] = IF i = head THEN c ELSE Value[i]
      BY <1>0, <1>1, <1>2, <2>2, <3>1 DEF CreateTakes, SemaTypeOK
    <3>4. Value' = [Value EXCEPT ![head] = c]
      BY <1>1, <1>2, <3>3
    <3>5. last' = [op |-> "create", arg |-> c, ret |-> head]
      BY <2>2 DEF CreateTakes, Answer
    <3> QED
      BY <3>1, <3>2, <3>4, <3>5 DEF Pool!Create, Pool!Answer
  <2> QED
    BY <1>3, <2>1, <2>2 DEF syscallCreateSema
<1>4. ASSUME NEW id \in Numbers, iDeleteSema(id)
      PROVE  Pool!Delete(id)
  <2>1. CASE Deletable(id)
    <3>1. id \in Ids /\ free[id] = 0 /\ id \in Pool!InUse
      BY <1>1, <2>1 DEF Deletable
    <3>2. free' = [free EXCEPT ![id] = -1] /\ count' = count
      BY <1>4, <2>1 DEF iDeleteSema
    <3>3. \A i \in Ids : Value'[i] = IF i = id THEN -1 ELSE Value[i]
      BY <1>0, <1>1, <1>2, <3>1, <3>2 DEF SemaTypeOK
    <3>4. Value' = [Value EXCEPT ![id] = -1]
      BY <1>1, <1>2, <3>3
    <3>5. last' = [op |-> "delete", arg |-> id, ret |-> id]
      BY <1>4, <2>1 DEF iDeleteSema, Answer
    <3> QED
      BY <3>1, <3>4, <3>5 DEF Pool!Delete, Pool!Answer, Pool!UNUSED
  <2>2. CASE ~Deletable(id)
    <3>1. id \notin Pool!InUse
      BY <1>1, <2>2 DEF Deletable
    <3>2. UNCHANGED <<count, free>> /\ last' = [op |-> "delete", arg |-> id, ret |-> -1]
      BY <1>4, <2>2 DEF iDeleteSema, Answer
    <3>3. Value' = Value
      BY <3>2 DEF Value, Ids
    <3> QED
      BY <3>1, <3>2, <3>3 DEF Pool!Delete, Pool!Answer
  <2> QED
    BY <2>1, <2>2
<1>5. ASSUME NEW id \in Numbers, iSignalSema(id)
      PROVE  Pool!Signal(id)
  <2>1. PICK ret \in {0, -1} : last' = [op |-> "signal", arg |-> id, ret |-> ret]
    BY <1>5 DEF iSignalSema, Answer
  <2>2. free' = free
    BY <1>5 DEF iSignalSema
  <2>3. CASE id \in Pool!InUse
    <3>1. id \in Ids /\ free[id] = 0 /\ Counting(id)
      BY <1>0, <1>1, <2>3 DEF Counting, SemaTypeOK
    <3>2. /\ count' = [count EXCEPT ![id] = @ + 1]
          /\ last' = [op |-> "signal", arg |-> id, ret |-> 0]
      BY <1>5, <3>1 DEF iSignalSema, Answer
    <3>3. \A i \in Ids : Value'[i] = IF i = id THEN Value[id] + 1 ELSE Value[i]
      BY <1>0, <1>1, <1>2, <2>2, <3>1, <3>2 DEF SemaTypeOK
    <3>4. Value' = [Value EXCEPT ![id] = Value[id] + 1]
      BY <1>1, <1>2, <3>3
    <3> QED
      BY <2>3, <3>2, <3>4 DEF Pool!Signal, Pool!Answer
  <2>4. CASE id \notin Pool!InUse
    <3>1. \A i \in Ids : free[i] = 0 => count'[i] = count[i]
      BY <1>0, <1>1, <1>5, <2>4 DEF iSignalSema, SemaTypeOK
    <3>2. Value' = Value
      BY <1>1, <1>2, <2>2, <3>1
    <3> QED
      BY <2>1, <2>4, <3>2 DEF Pool!Signal, Pool!Answer
  <2> QED
    BY <2>3, <2>4
<1>6. ASSUME iWaitSema
      PROVE  Pool!Wait(sid) \/ UNCHANGED <<Value, last>>
  <2>1. CASE WaitRefused
    <3>1. sid \notin Pool!InUse
      BY <1>0, <1>1, <2>1 DEF WaitRefused, Counting, SemaTypeOK
    <3>2. Value' = Value /\ last' = [op |-> "wait", arg |-> sid, ret |-> -1]
      BY <2>1 DEF WaitRefused, Answer, Value, Ids
    <3> QED
      BY <3>1, <3>2 DEF Pool!Wait, Pool!Answer
  <2>2. CASE WaitTakes
    <3>1. /\ sid \in Ids /\ count[sid] > 0
          /\ count' = [count EXCEPT ![sid] = @ - 1]
          /\ free' = free
          /\ last' = [op |-> "wait", arg |-> sid, ret |-> sid]
      BY <2>2 DEF WaitTakes, Counting, Answer
    <3>2. CASE sid \in Pool!InUse
      <4>1. free[sid] = 0 /\ Value[sid] > 0
        BY <1>1, <3>1, <3>2
      <4>2. \A i \in Ids : Value'[i] = IF i = sid THEN Value[sid] - 1 ELSE Value[i]
        BY <1>0, <1>1, <1>2, <3>1, <4>1 DEF SemaTypeOK
      <4>3. Value' = [Value EXCEPT ![sid] = Value[sid] - 1]
        BY <1>1, <1>2, <4>2
      <4> QED
        BY <3>1, <3>2, <4>1, <4>3 DEF Pool!Wait, Pool!Answer
    <3>3. CASE sid \notin Pool!InUse
      <4>1. \A i \in Ids : free[i] = 0 => count'[i] = count[i]
        BY <1>0, <1>1, <3>1, <3>3 DEF SemaTypeOK
      <4>2. Value' = Value
        BY <1>1, <1>2, <3>1, <4>1
      <4> QED
        BY <3>1, <3>3, <4>2 DEF Pool!Wait, Pool!Answer
    <3> QED
      BY <3>2, <3>3
  <2>3. CASE WaitAgain
    BY <2>3, Unseen DEF WaitAgain
  <2> QED
    BY <1>6, <2>1, <2>2, <2>3 DEF iWaitSema
<1>7. ASSUME NEW id \in Numbers, WaitSema(id)
      PROVE  UNCHANGED <<Value, last>>
  BY <1>7, Unseen DEF WaitSema
<1>8. ASSUME WindowEnds
      PROVE  UNCHANGED <<Value, last>>
  BY <1>8, Unseen DEF WindowEnds
<1>9. ASSUME UNCHANGED semavars
      PROVE  UNCHANGED <<Value, last>>
  BY <1>9, Unseen DEF semavars
<1>10. sid \in Args
  BY <1>0 DEF SemaTypeOK
<1> QED
  BY <1>3, <1>4, <1>5, <1>6, <1>7, <1>8, <1>9, <1>10 DEF SemaNext, Pool!Next

(* The calls on the linked list implement the pool of SemaPool, for every     *)
(* number of semaphores.                                                      *)
THEOREM SemaRefinement == SemaSpec => PoolImplemented
<1>1. SemaInit => Pool!Init
  BY DEF SemaInit, Pool!Init, Value, Ids, Pool!Ids, Pool!UNUSED
<1>2. IInv /\ IInv' /\ [SemaNext]_semavars => [Pool!Next]_<<Value, last>>
  BY StepPool
<1> QED
  BY <1>1, <1>2, SemaInvariance, PTL DEF SemaSpec, PoolImplemented, Pool!Spec
=============================================================================
