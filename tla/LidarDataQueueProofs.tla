------------------------ MODULE LidarDataQueueProofs ------------------------
(***************************************************************************)
(* Proofs about LidarDataQueue, for every set of packets, every queue size *)
(* and every modulus of the indices that is a proper multiple of it.       *)
(***************************************************************************)
EXTENDS LidarDataQueue, SequenceTheorems, TLAPS

-----------------------------------------------------------------------------
(* Arithmetic of the indices. *)

(* A remainder is the only number of 0 .. d-1 that differs from the         *)
(* dividend by a multiple of the divisor.                                   *)
LEMMA RemainderUnique ==
  ASSUME NEW d \in Nat \ {0}, NEW q \in Int, NEW r \in 0 .. d - 1
  PROVE  (d * q + r) % d = r
OBVIOUS

(* Every number is a multiple of the divisor plus its remainder. *)
LEMMA Division ==
  ASSUME NEW x \in Nat, NEW d \in Nat \ {0}
  PROVE  /\ x \div d \in Nat
         /\ x % d \in 0 .. d - 1
         /\ x = d * (x \div d) + (x % d)
OBVIOUS

(* The slots of consecutive indices follow each other around the ring, also *)
(* where the indices themselves wrap: the ring divides the modulus.         *)
LEMMA SlotOfPlus ==
  ASSUME NEW i \in Index, NEW n \in 0 .. QueueSize
  PROVE  /\ Plus(i, n) \in Index
         /\ Plus(i, n) % QueueSize =
              IF (i % QueueSize) + n < QueueSize
                THEN (i % QueueSize) + n
                ELSE (i % QueueSize) + n - QueueSize
<1> USE QueueAssumption DEF Index, Plus
<1> DEFINE q == i \div QueueSize
           s == i % QueueSize
           K == IndexModulus \div QueueSize
<1>0. i \in Nat /\ IndexModulus \in Nat /\ QueueSize \in Nat \ {0}
  OBVIOUS
<1>1. q \in Nat /\ s \in 0 .. QueueSize - 1 /\ i = QueueSize * q + s
  BY <1>0, Division
<1>2. K \in Nat /\ IndexModulus = QueueSize * K
  BY <1>0, Division
<1>3. Plus(i, n) \in Index
  OBVIOUS
<1> HIDE DEF q, s, K
<1>4. CASE i + n < IndexModulus /\ s + n < QueueSize
  <2>1. i + n = QueueSize * q + (s + n)
    BY <1>1
  <2>2. (i + n) % QueueSize = s + n
    BY <2>1, <1>1, <1>4, RemainderUnique
  <2>3. QED
    BY <2>2, <1>3, <1>4 DEF s
<1>5. CASE i + n < IndexModulus /\ s + n >= QueueSize
  <2>1. s + n - QueueSize \in 0 .. QueueSize - 1
    BY <1>1, <1>5
  <2>2. i + n = QueueSize * (q + 1) + (s + n - QueueSize)
    BY <1>1
  <2>3. (i + n) % QueueSize = s + n - QueueSize
    <3>1. QueueSize \in Nat \ {0} /\ q + 1 \in Int
      BY <1>1
    <3>2. (QueueSize * (q + 1) + (s + n - QueueSize)) % QueueSize
            = s + n - QueueSize
      BY <2>1, <3>1, RemainderUnique
    <3>3. QED
      BY <2>2, <3>2
  <2>4. QED
    BY <2>3, <1>1, <1>3, <1>5 DEF s
<1>6. CASE i + n >= IndexModulus
  <2>1. q + 1 = K
    <3>1. q < K
      BY <1>1, <1>2
    <3>2. q + 2 > K
      BY <1>1, <1>2, <1>6
    <3>3. QED
      BY <3>1, <3>2, <1>1, <1>2
  <2>2. i + n - IndexModulus = QueueSize * 0 + (s + n - QueueSize)
    BY <2>1, <1>1, <1>2
  <2>3. s + n - QueueSize \in 0 .. QueueSize - 1
    BY <2>2, <1>1, <1>6
  <2>4. (i + n - IndexModulus) % QueueSize = s + n - QueueSize
    BY <2>2, <2>3, RemainderUnique
  <2>5. QED
    BY <2>3, <2>4, <1>1, <1>3, <1>6 DEF s
<1>7. QED
  BY <1>1, <1>4, <1>5, <1>6

(* Less than a whole turn apart, two indices have different slots. *)
LEMMA SlotsDistinct ==
  ASSUME NEW i \in Index, NEW j \in 0 .. QueueSize, NEW k \in 0 .. QueueSize,
         j < k, k < j + QueueSize
  PROVE  Plus(i, j) % QueueSize # Plus(i, k) % QueueSize
<1>1. i \in Nat /\ QueueSize \in Nat \ {0}
  BY QueueAssumption DEF Index
<1>2. i % QueueSize \in 0 .. QueueSize - 1
  BY <1>1, Division
<1> DEFINE s == i % QueueSize
<1>3. /\ Plus(i, j) % QueueSize =
            IF s + j < QueueSize THEN s + j ELSE s + j - QueueSize
      /\ Plus(i, k) % QueueSize =
            IF s + k < QueueSize THEN s + k ELSE s + k - QueueSize
  BY SlotOfPlus
<1> HIDE DEF s
<1>4. QED
  BY <1>1, <1>2, <1>3 DEF s

(* The unsigned difference of the indices under the steps of the queue. *)
LEMMA UsedSize ==
  ASSUME NEW w \in Index, NEW r \in Index
  PROVE  /\ Minus(w, r) \in Nat
         /\ Minus(w, r) = 0 <=> w = r
         /\ Plus(r, Minus(w, r)) = w
         /\ Plus(w, 1) \in Index
         /\ Minus(w, r) < QueueSize =>
              Minus(Plus(w, 1), r) = Minus(w, r) + 1
         /\ w # r => Minus(w, Plus(r, 1)) = Minus(w, r) - 1
         /\ Plus(r, 0) = r
         /\ \A k \in 0 .. QueueSize - 1 : Plus(Plus(r, 1), k) = Plus(r, k + 1)
BY QueueAssumption DEF Index, Plus, Minus

(* idx & mask once the queue is initialised. *)
LEMMA SlotOfInitialised ==
  ASSUME TypeOK, mask = QueueSize - 1
  PROVE  \A i \in Index : /\ SlotOf(i) = i % QueueSize
                          /\ SlotOf(i) \in 0 .. QueueSize - 1
<1> TAKE i \in Index
<1>1. i \in Nat /\ QueueSize \in Nat \ {0} /\ mask + 1 = QueueSize
  BY QueueAssumption DEF Index
<1>2. QED
  BY <1>1, Division DEF SlotOf

-----------------------------------------------------------------------------
(* The inductive invariant, one lemma for each thread. *)

(* A ring that was not allocated satisfies the invariant. *)
LEMMA QueueInvInit == Init => QueueInv
<1> SUFFICES ASSUME Init PROVE QueueInv
  OBVIOUS
<1>1. TypeOK
  <2>1. Whole(NoPacket) \in Content /\ NoPacket \in Contents
    BY DEF Whole, Content, Contents
  <2>2. 0 \in Index
    BY QueueAssumption DEF Index
  <2>3. QED
    BY <2>1, <2>2 DEF Init, TypeOK, PushPC, PopPC
<1>2. QueueUsedSize = 0
  BY QueueAssumption DEF Init, QueueUsedSize, Minus
<1>3. QED
  BY <1>1, <1>2, QueueAssumption
     DEF Init, QueueInv, StartInv, CapacityInv, StoredInv, WriteInv, CopyInv,
         Initialised, Writing, Reading

(* Storing a packet, from the null check of storage_packet to wr_idx++. *)
LEMMA QueueInvProduce == QueueInv /\ Produce => QueueInv'
<1> SUFFICES ASSUME QueueInv, Produce PROVE QueueInv'
  OBVIOUS
<1> USE QueueAssumption DEF QueueInv, producer, consumer
<1>1. CASE \E p \in Packets : PushLidarData(p)
  <2>1. TypeOK'
    BY <1>1 DEF PushLidarData, TypeOK, Contents, PushPC
  <2>2. StartInv' /\ CapacityInv'
    BY <1>1 DEF PushLidarData, StartInv, CapacityInv, Initialised, Writing,
                Reading, QueueUsedSize, QueueIsEmpty
  <2>3. StoredInv' /\ WriteInv' /\ CopyInv'
    BY <1>1 DEF PushLidarData, StoredInv, WriteInv, CopyInv, QueueUsedSize,
                SlotOf
  <2>4. QED
    BY <2>1, <2>2, <2>3
<1>2. CASE InitQueue
  <2>1. TypeOK'
    BY <1>2 DEF InitQueue, TypeOK, Index, PushPC
  <2>2. pop = "idle" /\ QueueUsedSize' = 0
    BY <1>2 DEF InitQueue, StartInv, Initialised, QueueUsedSize, Minus
  <2>3. storage
    BY <1>2 DEF InitQueue, StartInv
  <2>4. QED
    BY <1>2, <2>1, <2>2, <2>3
       DEF InitQueue, StartInv, CapacityInv, StoredInv, WriteInv, CopyInv,
           Initialised, Writing, Reading
<1>3. CASE DropPacket \/ AcceptPacket
  <2>1. TypeOK'
    BY <1>3 DEF DropPacket, AcceptPacket, TypeOK, PushPC
  <2>2. storage /\ Initialised /\ Initialised'
    BY <1>3 DEF DropPacket, AcceptPacket, StartInv, Initialised
  <2>3. StartInv'
    BY <1>3, <2>2 DEF DropPacket, AcceptPacket, StartInv, Initialised
  <2>4. QueueUsedSize' = QueueUsedSize /\ QueueUsedSize \in Nat
    BY <1>3, UsedSize DEF DropPacket, AcceptPacket, QueueUsedSize, TypeOK
  <2>5. ~QueueIsFull => QueueUsedSize < QueueSize
    BY <2>2, <2>4 DEF StartInv, QueueIsFull
  <2>6. CapacityInv'
    BY <1>3, <2>4, <2>5
       DEF DropPacket, AcceptPacket, CapacityInv, Writing, Reading,
           QueueIsEmpty
  <2>7. StoredInv' /\ WriteInv' /\ CopyInv'
    BY <1>3, <2>4 DEF DropPacket, AcceptPacket, StoredInv, WriteInv, CopyInv,
                      SlotOf
  <2>8. QED
    BY <2>1, <2>3, <2>6, <2>7
<1>4. CASE WriteHeader \/ WritePoints
  <2> DEFINE used == QueueUsedSize
             sw == SlotOf(wr_idx)
             sr == SlotOf(rd_idx)
  <2>1. /\ storage /\ Initialised /\ Initialised' /\ mask = QueueSize - 1
        /\ incoming \in Packets
    BY <1>4 DEF WriteHeader, WritePoints, StartInv, Initialised
  <2>2. /\ UNCHANGED <<storage, rd_idx, wr_idx, mask, incoming, pop, copy, pkg>>
        /\ used' = used /\ used \in Nat /\ used < QueueSize /\ sw' = sw /\ sr' = sr
    BY <1>4, UsedSize DEF WriteHeader, WritePoints, QueueUsedSize, TypeOK,
                          CapacityInv, Writing, SlotOf
  <2>3. \A k \in 0 .. used - 1 :
          /\ Plus(rd_idx, k) \in Index
          /\ SlotOf(Plus(rd_idx, k)) # sw
    <3> TAKE k \in 0 .. used - 1
    <3>1. rd_idx \in Index /\ wr_idx \in Index /\ Plus(rd_idx, used) = wr_idx
      BY UsedSize DEF TypeOK, QueueUsedSize
    <3>2. Plus(rd_idx, k) \in Index
      BY <2>2, <3>1, SlotOfPlus
    <3>3. Plus(rd_idx, k) % QueueSize # Plus(rd_idx, used) % QueueSize
      BY <2>2, <3>1, SlotsDistinct
    <3>4. QED
      BY <2>1, <3>1, <3>2, <3>3, SlotOfInitialised
  <2>4. sw \in 0 .. QueueSize - 1
    BY <2>1, SlotOfInitialised DEF TypeOK
  <2>5. Reading => sr # sw
    <3>1. rd_idx # wr_idx => used # 0 /\ Plus(rd_idx, 0) = rd_idx
      BY UsedSize DEF QueueUsedSize, TypeOK
    <3>2. QED
      BY <2>2, <2>3, <3>1 DEF CapacityInv, QueueIsEmpty
  <2>6. slots \in [0 .. QueueSize - 1 -> Content]
    BY DEF TypeOK
  <2>7. \A i \in 0 .. QueueSize - 1 : i # sw => slots'[i] = slots[i]
    BY <1>4, <2>6 DEF WriteHeader, WritePoints
  <2>8. TypeOK'
    <3>1. /\ [slots[sw] EXCEPT !.head = incoming] \in Content
          /\ [slots[sw] EXCEPT !.body = incoming] \in Content
      BY <2>1, <2>4, <2>6 DEF Content, Contents
    <3>2. \E c \in Content : slots' = [slots EXCEPT ![sw] = c]
      BY <1>4, <3>1 DEF WriteHeader, WritePoints
    <3>3. slots' \in [0 .. QueueSize - 1 -> Content]
      BY <2>6, <3>2
    <3>4. push' \in PushPC
      BY <1>4 DEF WriteHeader, WritePoints, PushPC
    <3>5. QED
      BY <2>2, <3>3, <3>4 DEF TypeOK
  <2>9. StartInv' /\ CapacityInv'
    BY <1>4, <2>1, <2>2 DEF WriteHeader, WritePoints, StartInv, CapacityInv,
         Initialised, Writing, Reading, QueueIsEmpty
  <2>10. StoredInv'
    <3> SUFFICES ASSUME NEW k \in 0 .. used - 1
                 PROVE  \E p \in Packets : slots'[SlotOf(Plus(rd_idx, k))] = Whole(p)
      BY <2>2 DEF StoredInv, SlotOf
    <3>1. SlotOf(Plus(rd_idx, k)) \in 0 .. QueueSize - 1
      BY <2>1, <2>3, SlotOfInitialised
    <3>2. QED
      BY <2>3, <2>7, <3>1 DEF StoredInv
  <2>11. WriteInv'
    <3>1. CASE WriteHeader
      BY <3>1, <2>2, <2>4, <2>6 DEF WriteHeader, WriteInv, Content
    <3>2. CASE WritePoints
      <4>1. slots[sw] \in Content /\ slots[sw].head = incoming
        BY <3>2, <2>4, <2>6 DEF WritePoints, WriteInv
      <4>2. slots'[sw] = [slots[sw] EXCEPT !.body = incoming]
        BY <3>2, <2>4, <2>6 DEF WritePoints
      <4>3. slots'[sw] = Whole(incoming)
        BY <4>1, <4>2 DEF Content, Whole
      <4>4. QED
        BY <3>2, <2>2, <4>3 DEF WritePoints, WriteInv
    <3>3. QED
      BY <1>4, <3>1, <3>2
  <2>12. CopyInv'
    <3>1. Reading => sr \in 0 .. QueueSize - 1
      BY <2>1, SlotOfInitialised DEF TypeOK
    <3>2. QED
      BY <2>2, <2>5, <2>7, <3>1 DEF CopyInv, Reading
  <2>13. QED
    BY <2>8, <2>9, <2>10, <2>11, <2>12
<1>5. CASE PublishWrite
  <2> DEFINE used == QueueUsedSize
  <2>1. /\ storage /\ Initialised /\ Initialised' /\ mask = QueueSize - 1
        /\ incoming \in Packets
        /\ slots[SlotOf(wr_idx)] = Whole(incoming)
    BY <1>5 DEF PublishWrite, StartInv, Initialised, WriteInv
  <2>2. /\ used \in Nat /\ used < QueueSize
        /\ used' = used + 1
        /\ wr_idx' \in Index /\ Plus(rd_idx, used) = wr_idx
        /\ ~QueueIsEmpty'
    BY <1>5, UsedSize DEF PublishWrite, QueueUsedSize, TypeOK, CapacityInv,
                          Writing, QueueIsEmpty
  <2>3. TypeOK'
    BY <1>5, <2>2 DEF PublishWrite, TypeOK, PushPC
  <2>4. StartInv' /\ CapacityInv'
    BY <1>5, <2>1, <2>2 DEF PublishWrite, StartInv, CapacityInv, Initialised,
         Writing, Reading
  <2>5. StoredInv'
    <3> SUFFICES ASSUME NEW k \in 0 .. used
                 PROVE  \E p \in Packets : slots[SlotOf(Plus(rd_idx, k))] = Whole(p)
      BY <1>5, <2>2 DEF PublishWrite, StoredInv, SlotOf
    <3>1. CASE k = used
      BY <2>1, <2>2, <3>1
    <3>2. CASE k # used
      BY <2>2, <3>2 DEF StoredInv
    <3>3. QED
      BY <3>1, <3>2
  <2>6. WriteInv' /\ CopyInv'
    BY <1>5 DEF PublishWrite, WriteInv, CopyInv, SlotOf
  <2>7. QED
    BY <2>3, <2>4, <2>5, <2>6
<1>6. QED
  BY <1>1, <1>2, <1>3, <1>4, <1>5 DEF Produce

(* Popping a packet. *)
LEMMA QueueInvConsume == QueueInv /\ Consume => QueueInv'
<1> SUFFICES ASSUME QueueInv, Consume PROVE QueueInv'
  OBVIOUS
<1> USE QueueAssumption DEF QueueInv, producer, consumer
<1> DEFINE used == QueueUsedSize
           sr == SlotOf(rd_idx)
<1>1. Initialised /\ mask = QueueSize - 1
  BY DEF Consume, BeginPop, CopyHeader, CopyPoints, QueuePopUpdate, StartInv,
         Initialised, QueueIsEmpty
<1>2. rd_idx \in Index /\ wr_idx \in Index /\ used \in Nat
  BY UsedSize DEF TypeOK, QueueUsedSize
<1>3. sr \in 0 .. QueueSize - 1 /\ slots[sr] \in Content
  BY <1>1, <1>2, SlotOfInitialised DEF TypeOK
<1>4. CASE BeginPop \/ CopyHeader \/ CopyPoints
  <2>1. UNCHANGED <<storage, rd_idx, wr_idx, mask, slots, push, incoming, pkg>>
    BY <1>4 DEF BeginPop, CopyHeader, CopyPoints
  <2>2. used' = used /\ sr' = sr
    BY <2>1 DEF QueueUsedSize, SlotOf
  <2>3. copy' \in Content /\ pop' \in PopPC
    BY <1>3, <1>4 DEF BeginPop, CopyHeader, CopyPoints, TypeOK, Content, PopPC
  <2>4. ~QueueIsEmpty
    BY <1>4 DEF BeginPop, CopyHeader, CopyPoints, CapacityInv, Reading
  <2>5. TypeOK' /\ StartInv' /\ CapacityInv'
    BY <1>1, <2>1, <2>2, <2>3, <2>4
       DEF TypeOK, StartInv, CapacityInv, Initialised, Writing, QueueIsEmpty
  <2>6. StoredInv' /\ WriteInv'
    BY <2>1, <2>2 DEF StoredInv, WriteInv, SlotOf
  <2>7. CopyInv'
    <3>1. CASE BeginPop
      BY <3>1 DEF BeginPop, CopyInv
    <3>2. CASE CopyHeader
      BY <3>2, <2>1, <2>2, <1>3 DEF CopyHeader, CopyInv, TypeOK, Content
    <3>3. CASE CopyPoints
      <4>1. copy \in Content /\ copy.head = slots[sr].head
        BY <3>3 DEF CopyPoints, CopyInv, TypeOK
      <4>2. copy' = [copy EXCEPT !.body = slots[sr].body]
        BY <3>3 DEF CopyPoints
      <4>3. copy' = slots[sr]
        BY <4>1, <4>2, <1>3 DEF Content
      <4>4. QED
        BY <3>3, <4>3, <2>1, <2>2 DEF CopyPoints, CopyInv
    <3>4. QED
      BY <1>4, <3>1, <3>2, <3>3
  <2>8. QED
    BY <2>5, <2>6, <2>7
<1>5. CASE QueuePopUpdate
  <2>1. /\ rd_idx' = Plus(rd_idx, 1) /\ pop' = "idle" /\ pkg' = copy
        /\ UNCHANGED <<storage, wr_idx, mask, slots, push, incoming, copy>>
    BY <1>5 DEF QueuePopUpdate
  <2>2. rd_idx' \in Index /\ used # 0 /\ used' = used - 1
    BY <1>2, <1>5, <2>1, UsedSize
       DEF QueuePopUpdate, CapacityInv, Reading, QueueIsEmpty, QueueUsedSize
  <2>3. TypeOK'
    BY <2>1, <2>2 DEF TypeOK, PopPC
  <2>4. StartInv' /\ CapacityInv'
    BY <1>1, <1>2, <2>1, <2>2
       DEF StartInv, CapacityInv, Initialised, Writing, Reading
  <2>5. StoredInv'
    <3> SUFFICES ASSUME NEW k \in 0 .. used - 2
                 PROVE  \E p \in Packets :
                          slots[SlotOf(Plus(Plus(rd_idx, 1), k))] = Whole(p)
      BY <2>1, <2>2, <1>2 DEF StoredInv, SlotOf
    <3>1. k + 1 \in 0 .. used - 1 /\ k \in 0 .. QueueSize - 1
      BY <1>2 DEF CapacityInv
    <3>2. Plus(Plus(rd_idx, 1), k) = Plus(rd_idx, k + 1)
      BY <1>2, <3>1, UsedSize
    <3>3. QED
      BY <3>1, <3>2 DEF StoredInv
  <2>6. WriteInv' /\ CopyInv'
    BY <2>1 DEF WriteInv, CopyInv, SlotOf
  <2>7. QED
    BY <2>3, <2>4, <2>5, <2>6
<1>6. QED
  BY <1>4, <1>5 DEF Consume

(* Whatever the interleaving of the packet-assembly and the poll thread,    *)
(* the ring's indices, slots and copies stay as QueueInv describes.         *)
THEOREM QueueInvariant == Spec => []QueueInv
<1>1. QueueInv /\ UNCHANGED vars => QueueInv'
  BY DEF QueueInv, vars, producer, consumer, TypeOK, StartInv, CapacityInv,
         StoredInv, WriteInv, CopyInv, Initialised, Writing, Reading,
         QueueUsedSize, QueueIsEmpty, SlotOf
<1>2. QueueInv /\ [Next]_vars => QueueInv'
  BY <1>1, QueueInvProduce, QueueInvConsume DEF Next
<1>3. QED
  BY <1>2, QueueInvInit, PTL DEF Spec

-----------------------------------------------------------------------------
(* Safety and refinement. *)

(* QueuePushAny never writes the slot QueuePrePop is copying.               *)
THEOREM NoSlotRace == Spec => []SlotExclusive
<1>1. QueueInv => SlotExclusive
  <2> SUFFICES ASSUME QueueInv, Writing, Reading
               PROVE  SlotOf(wr_idx) # SlotOf(rd_idx)
    BY DEF SlotExclusive
  <2>1. TypeOK /\ mask = QueueSize - 1
    BY DEF QueueInv, StartInv, Initialised, Writing, Reading
  <2>2. /\ rd_idx \in Index /\ wr_idx \in Index
        /\ QueueUsedSize \in Nat /\ QueueUsedSize < QueueSize
        /\ QueueUsedSize # 0
        /\ Plus(rd_idx, QueueUsedSize) = wr_idx /\ Plus(rd_idx, 0) = rd_idx
    BY UsedSize DEF QueueInv, TypeOK, CapacityInv, QueueIsEmpty, QueueUsedSize
  <2>3. Plus(rd_idx, 0) % QueueSize # Plus(rd_idx, QueueUsedSize) % QueueSize
    BY <2>2, QueueAssumption, SlotsDistinct
  <2>4. QED
    BY <2>1, <2>2, <2>3, SlotOfInitialised
<1>2. QED
  BY <1>1, QueueInvariant, PTL

(* What Queued is, as a sequence. *)
LEMMA QueuedSeq ==
  ASSUME QueueInv
  PROVE  /\ QueueUsedSize \in Nat
         /\ Queued \in Seq({Whole(p) : p \in Packets})
         /\ Len(Queued) = QueueUsedSize
         /\ \A k \in 1 .. QueueUsedSize :
              Queued[k] = slots[SlotOf(Plus(rd_idx, k - 1))]
<1>1. QueueUsedSize \in Nat
  BY UsedSize DEF QueueInv, TypeOK, QueueUsedSize
<1>2. ASSUME NEW k \in 1 .. QueueUsedSize
      PROVE  slots[SlotOf(Plus(rd_idx, k - 1))] \in {Whole(p) : p \in Packets}
  <2>1. k - 1 \in 0 .. QueueUsedSize - 1
    BY <1>1
  <2>2. QED
    BY <2>1 DEF QueueInv, StoredInv
<1>3. Queued \in [1 .. QueueUsedSize -> {Whole(p) : p \in Packets}]
  BY <1>2 DEF Queued
<1>4. QED
  BY <1>1, <1>3 DEF Queued

(* A step that moves no index and writes at most the slot of wr_idx before  *)
(* that slot is published leaves the channel alone.                         *)
LEMMA QueuedUnchanged ==
  ASSUME QueueInv, UNCHANGED <<rd_idx, wr_idx, mask, pkg>>,
         UNCHANGED slots \/ WriteHeader \/ WritePoints
  PROVE  UNCHANGED Channel!vars
<1>1. QueueUsedSize' = QueueUsedSize
  BY DEF QueueUsedSize
<1>2. ASSUME NEW k \in 1 .. QueueUsedSize
      PROVE  slots'[SlotOf(Plus(rd_idx, k - 1))] = slots[SlotOf(Plus(rd_idx, k - 1))]
  <2>1. CASE UNCHANGED slots
    BY <2>1
  <2>2. CASE WriteHeader \/ WritePoints
    <3>1. TypeOK /\ mask = QueueSize - 1 /\ QueueUsedSize < QueueSize
      BY <2>2 DEF QueueInv, StartInv, CapacityInv, Initialised, Writing,
                  WriteHeader, WritePoints
    <3>2. /\ rd_idx \in Index /\ wr_idx \in Index
          /\ QueueUsedSize \in Nat /\ Plus(rd_idx, QueueUsedSize) = wr_idx
      BY <3>1, UsedSize DEF TypeOK, QueueUsedSize
    <3>3. k - 1 \in 0 .. QueueSize /\ QueueUsedSize \in 0 .. QueueSize
          /\ k - 1 < QueueUsedSize /\ QueueUsedSize < k - 1 + QueueSize
      BY <3>1, <3>2, QueueAssumption
    <3>4. Plus(rd_idx, k - 1) \in Index
      BY <3>2, <3>3, SlotOfPlus
    <3>5. Plus(rd_idx, k - 1) % QueueSize # wr_idx % QueueSize
      BY <3>2, <3>3, SlotsDistinct
    <3>6. SlotOf(Plus(rd_idx, k - 1)) # SlotOf(wr_idx)
          /\ SlotOf(Plus(rd_idx, k - 1)) \in 0 .. QueueSize - 1
      BY <3>1, <3>2, <3>4, <3>5, SlotOfInitialised
    <3>7. slots \in [0 .. QueueSize - 1 -> Content]
      BY <3>1 DEF TypeOK
    <3>8. QED
      BY <2>2, <3>6, <3>7 DEF WriteHeader, WritePoints
  <2>3. QED
    BY <2>1, <2>2
<1>3. Queued' = Queued
  BY <1>1, <1>2 DEF Queued, SlotOf
<1>4. QED
  BY <1>3 DEF Channel!vars

(* wr_idx++ puts the packet written into the channel, which has room. *)
LEMMA PublishIsPut ==
  ASSUME QueueInv, QueueInv', PublishWrite
  PROVE  \E p \in {Whole(q) : q \in Packets} : Channel!Put(p)
<1>1. /\ mask = QueueSize - 1 /\ incoming \in Packets
      /\ slots[SlotOf(wr_idx)] = Whole(incoming)
  BY DEF PublishWrite, QueueInv, StartInv, WriteInv, Initialised
<1>2. /\ QueueUsedSize \in Nat /\ QueueUsedSize < QueueSize
      /\ QueueUsedSize' = QueueUsedSize + 1
      /\ Plus(rd_idx, QueueUsedSize) = wr_idx
  BY UsedSize DEF PublishWrite, QueueInv, TypeOK, CapacityInv, Writing,
                  QueueUsedSize
<1>3. UNCHANGED <<rd_idx, mask, slots, pkg>>
  BY DEF PublishWrite, consumer
<1>4. \A k \in 1 .. QueueUsedSize : Queued'[k] = Queued[k]
  BY <1>2, <1>3 DEF Queued, SlotOf
<1>5. Queued'[QueueUsedSize + 1] = Whole(incoming)
  <2>1. (QueueUsedSize + 1) - 1 = QueueUsedSize
    BY <1>2
  <2>2. QED
    BY <1>1, <1>2, <1>3, <2>1 DEF Queued, SlotOf
<1>6. Queued' = Append(Queued, Whole(incoming))
  <2> DEFINE W == {Whole(q) : q \in Packets}
             app == Append(Queued, Whole(incoming))
  <2>1. Queued \in Seq(W) /\ Len(Queued) = QueueUsedSize /\ Whole(incoming) \in W
    BY <1>1, QueuedSeq
  <2>2. /\ app \in Seq(W) /\ Len(app) = QueueUsedSize + 1
        /\ \A k \in 1 .. QueueUsedSize : app[k] = Queued[k]
        /\ app[QueueUsedSize + 1] = Whole(incoming)
    BY <2>1, AppendProperties
  <2> HIDE DEF app
  <2>3. \A k \in 1 .. QueueUsedSize + 1 : Queued'[k] = app[k]
    BY <1>2, <1>4, <1>5, <2>2
  <2>4. app = [k \in 1 .. QueueUsedSize + 1 |-> app[k]]
    BY <2>2
  <2>5. Queued' = [k \in 1 .. QueueUsedSize + 1 |-> Queued'[k]]
    BY <1>2 DEF Queued
  <2>6. QED
    BY <2>3, <2>4, <2>5 DEF app
<1>7. QED
  BY <1>1, <1>2, <1>3, <1>6, QueuedSeq DEF Channel!Put

(* rd_idx++ takes the oldest packet, which the consumer copied whole. *)
LEMMA PopIsTake ==
  ASSUME QueueInv, QueueInv', QueuePopUpdate
  PROVE  Channel!Take
<1>1. /\ rd_idx \in Index /\ QueueUsedSize \in Nat /\ QueueUsedSize # 0
      /\ QueueUsedSize <= QueueSize
      /\ QueueUsedSize' = QueueUsedSize - 1 /\ Plus(rd_idx, 0) = rd_idx
      /\ \A k \in 0 .. QueueSize - 1 : Plus(Plus(rd_idx, 1), k) = Plus(rd_idx, k + 1)
  BY UsedSize DEF QueuePopUpdate, QueueInv, TypeOK, CapacityInv, Reading,
                  QueueIsEmpty, QueueUsedSize
<1>2. /\ rd_idx' = Plus(rd_idx, 1) /\ UNCHANGED <<mask, slots>>
      /\ pkg' = slots[SlotOf(rd_idx)]
  BY DEF QueuePopUpdate, QueueInv, CopyInv, producer
<1>3. Queued # <<>> /\ Head(Queued) = pkg'
  <2>1. Queued[1] = slots[SlotOf(Plus(rd_idx, 0))]
    BY <1>1, QueuedSeq
  <2>2. QED
    BY <1>1, <1>2, <2>1, QueuedSeq
<1>4. \A k \in 1 .. QueueUsedSize - 1 : Queued'[k] = Queued[k + 1]
  <2> TAKE k \in 1 .. QueueUsedSize - 1
  <2>1. k - 1 \in 0 .. QueueSize - 1 /\ (k - 1) + 1 = k /\ (k + 1) - 1 = k
        /\ k + 1 \in 1 .. QueueUsedSize
    BY <1>1, QueueAssumption
  <2>2. Queued'[k] = slots[SlotOf(Plus(Plus(rd_idx, 1), k - 1))]
    BY <1>1, <1>2 DEF Queued, SlotOf
  <2>3. Queued[k + 1] = slots[SlotOf(Plus(rd_idx, k))]
    BY <2>1, QueuedSeq
  <2>4. Plus(Plus(rd_idx, 1), k - 1) = Plus(rd_idx, k)
    BY <1>1, <2>1
  <2>5. QED
    BY <2>2, <2>3, <2>4
<1>5. Queued' = Tail(Queued)
  <2> DEFINE tl == Tail(Queued)
  <2>1. Queued \in Seq({Whole(p) : p \in Packets}) /\ Len(Queued) = QueueUsedSize
    BY QueuedSeq
  <2>2. /\ tl \in Seq({Whole(p) : p \in Packets})
        /\ Len(tl) = QueueUsedSize - 1
        /\ \A k \in 1 .. QueueUsedSize - 1 : tl[k] = Queued[k + 1]
    BY <1>3, <2>1, HeadTailProperties
  <2> HIDE DEF tl
  <2>3. tl = [k \in 1 .. QueueUsedSize - 1 |-> tl[k]]
    BY <2>2
  <2>4. Queued' = [k \in 1 .. QueueUsedSize - 1 |-> Queued'[k]]
    BY <1>1 DEF Queued
  <2>5. QED
    BY <1>4, <2>2, <2>3, <2>4 DEF tl
<1>6. QED
  BY <1>3, <1>5 DEF Channel!Take

(* The lock-free ring implements the bounded first-in first-out channel.    *)
THEOREM RefinesChannel == Spec => ImplementsChannel
<1>1. Init => Channel!Init
  <2> SUFFICES ASSUME Init PROVE Queued = <<>> /\ pkg = Whole(NoPacket)
    BY DEF Channel!Init
  <2>1. QueueUsedSize = 0
    BY QueueAssumption DEF Init, QueueUsedSize, Minus
  <2>2. QED
    BY <2>1 DEF Init, Queued
<1>2. QueueInv /\ QueueInv' /\ [Next]_vars => [Channel!Next]_(Channel!vars)
  <2> SUFFICES ASSUME QueueInv, QueueInv', [Next]_vars
               PROVE  [Channel!Next]_(Channel!vars)
    OBVIOUS
  <2>1. CASE \E p \in Packets : PushLidarData(p)
    BY <2>1, QueuedUnchanged DEF PushLidarData, consumer
  <2>2. CASE InitQueue
    <3>1. QueueUsedSize = 0 /\ QueueUsedSize' = 0
      BY <2>2, QueueAssumption DEF InitQueue, QueueInv, StartInv, Initialised,
                                   QueueUsedSize, Minus
    <3>2. Queued' = Queued
      BY <3>1 DEF Queued
    <3>3. QED
      BY <2>2, <3>2 DEF InitQueue, consumer, Channel!vars
  <2>3. CASE DropPacket \/ AcceptPacket \/ WriteHeader \/ WritePoints
    BY <2>3, QueuedUnchanged DEF DropPacket, AcceptPacket, WriteHeader,
                                 WritePoints, consumer
  <2>4. CASE PublishWrite
    BY <2>4, PublishIsPut DEF Channel!Next
  <2>5. CASE BeginPop \/ CopyHeader \/ CopyPoints
    BY <2>5, QueuedUnchanged DEF BeginPop, CopyHeader, CopyPoints
  <2>6. CASE QueuePopUpdate
    BY <2>6, PopIsTake DEF Channel!Next
  <2>7. CASE UNCHANGED vars
    BY <2>7, QueuedUnchanged DEF vars, consumer
  <2>8. QED
    BY <2>1, <2>2, <2>3, <2>4, <2>5, <2>6, <2>7 DEF Next, Produce, Consume
<1>3. QED
  BY <1>1, <1>2, QueueInvariant, PTL DEF Spec, ImplementsChannel, Channel!Spec

=============================================================================
