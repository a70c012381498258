--------------------------- MODULE LidarDataQueue ---------------------------
(***************************************************************************)
(* The point-cloud queue of one lidar (comm/ldq.cpp): a ring of            *)
(* StoragePackets with free-running 32-bit read and write indices and no   *)
(* lock.  The packet-assembly thread is the only producer and the          *)
(* point-cloud poll thread the only consumer.  The queue is allocated by   *)
(* the producer's first push (Lds::PushLidarData) while the consumer may   *)
(* already be polling it.                                                  *)
(*                                                                         *)
(* A StoragePacket is written and copied field by field, so a slot is a    *)
(* record of the fields assigned first (base_time and points_num: "head")  *)
(* and of the points (clear, resize and memcpy: "body"), each holding the  *)
(* name of the packet it came from.                                        *)
(***************************************************************************)
EXTENDS Integers, Sequences

CONSTANTS
  Packets,        (* the packets the lidar may send                         *)
  NoPacket,       (* the content of a slot never written                    *)
  QueueSize,      (* the size InitQueue rounds the query size up to         *)
  IndexModulus    (* rd_idx and wr_idx count modulo this (2^32 in the code) *)

(* QueueSize is a power of two below 2^32, so it divides the modulus. *)
ASSUME QueueAssumption ==
  /\ QueueSize \in Nat \ {0}
  /\ IndexModulus \in Nat
  /\ IndexModulus > QueueSize
  /\ IndexModulus % QueueSize = 0
  /\ NoPacket \notin Packets

VARIABLES
  storage,    (* TRUE when storage_packet is not null                     *)
  rd_idx,     (* the consumer's index                                     *)
  wr_idx,     (* the producer's index                                     *)
  mask,       (* size - 1 once initialised, 0 before                      *)
  slots,      (* the array storage_packet points to                       *)
  push,       (* where the producer is in PushLidarData                   *)
  incoming,   (* the packet the producer is pushing                       *)
  pop,        (* where the consumer is in QueuePop                        *)
  copy,       (* the StoragePacket the consumer is filling                *)
  pkg         (* the StoragePacket QueuePop returned last                 *)

producer == <<push, incoming>>
consumer == <<pop, copy, pkg>>
vars == <<storage, rd_idx, wr_idx, mask, slots, producer, consumer>>

Index == 0 .. IndexModulus - 1
Contents == Packets \cup {NoPacket}
Content == [head : Contents, body : Contents]
Whole(p) == [head |-> p, body |-> p]

PushPC == {"idle", "init", "check", "header", "points", "publish"}
PopPC == {"idle", "header", "points", "update"}

TypeOK ==
  /\ storage \in BOOLEAN
  /\ rd_idx \in Index
  /\ wr_idx \in Index
  /\ mask \in {0, QueueSize - 1}
  /\ slots \in [0 .. QueueSize - 1 -> Content]
  /\ push \in PushPC
  /\ incoming \in Contents
  /\ pop \in PopPC
  /\ copy \in Content
  /\ pkg \in Content

-----------------------------------------------------------------------------
(* Unsigned arithmetic of the indices. *)

(* i + n in uint32_t, for n of at most the queue's size. *)
Plus(i, n) ==
  IF i + n < IndexModulus THEN i + n ELSE i + n - IndexModulus

(* i - j in uint32_t. *)
Minus(i, j) ==
  IF i >= j THEN i - j ELSE i - j + IndexModulus

(* idx & mask, mask + 1 being a power of two. *)
SlotOf(idx) == idx % (mask + 1)

QueueUsedSize == Minus(wr_idx, rd_idx)

\* A full test off by one: the producer may write the slot being read.
QueueIsFullOffByOne == QueueUsedSize > mask + 1

QueueIsFull == QueueUsedSize > mask

QueueIsEmpty == rd_idx = wr_idx

-----------------------------------------------------------------------------
(* ResetLidar, run by the constructor of Lds, leaves every field zero; the  *)
(* driver's only Lds is a static object, so storage_packet starts null.     *)
Init ==
  /\ storage = FALSE
  /\ rd_idx = 0
  /\ wr_idx = 0
  /\ mask = 0
  /\ slots = [i \in 0 .. QueueSize - 1 |-> Whole(NoPacket)]
  /\ push = "idle"
  /\ incoming = NoPacket
  /\ pop = "idle"
  /\ copy = Whole(NoPacket)
  /\ pkg = Whole(NoPacket)

-----------------------------------------------------------------------------
(* The producer: Lds::PushLidarData, InitQueue and QueuePushAny. *)

(* PushLidarData is called with a packet; when the storage is null, it     *)
(* calls InitQueue, which publishes the new array before it sets the       *)
(* indices and the mask.                                                   *)
PushLidarData(p) ==
  /\ push = "idle"
  /\ incoming' = p
  /\ push' = IF storage THEN "check" ELSE "init"
  /\ storage' = TRUE
  /\ UNCHANGED <<rd_idx, wr_idx, mask, slots, consumer>>

\* InitQueue that never sets the mask: every packet goes to slot 0.
InitQueueNoMask ==
  /\ push = "init"
  /\ rd_idx' = 0
  /\ wr_idx' = 0
  /\ push' = "check"
  /\ UNCHANGED <<storage, mask, slots, incoming, consumer>>

InitQueue ==
  /\ push = "init"
  /\ rd_idx' = 0
  /\ wr_idx' = 0
  /\ mask' = QueueSize - 1
  /\ push' = "check"
  /\ UNCHANGED <<storage, slots, incoming, consumer>>

(* The newest packet is the one that is lost when the queue is full. *)
DropPacket ==
  /\ push = "check"
  /\ QueueIsFull
  /\ push' = "idle"
  /\ UNCHANGED <<storage, rd_idx, wr_idx, mask, slots, incoming, consumer>>

AcceptPacket ==
  /\ push = "check"
  /\ ~QueueIsFull
  /\ push' = "header"
  /\ UNCHANGED <<storage, rd_idx, wr_idx, mask, slots, incoming, consumer>>

WriteHeader ==
  /\ push = "header"
  /\ slots' = [slots EXCEPT ![SlotOf(wr_idx)].head = incoming]
  /\ push' = "points"
  /\ UNCHANGED <<storage, rd_idx, wr_idx, mask, incoming, consumer>>

\* wr_idx advanced before the points are in place.
WritePointsAfterPublish ==
  /\ push = "points"
  /\ wr_idx' = Plus(wr_idx, 1)
  /\ push' = "publish"
  /\ UNCHANGED <<storage, rd_idx, mask, slots, incoming, consumer>>

WritePoints ==
  /\ push = "points"
  /\ slots' = [slots EXCEPT ![SlotOf(wr_idx)].body = incoming]
  /\ push' = "publish"
  /\ UNCHANGED <<storage, rd_idx, wr_idx, mask, incoming, consumer>>

(* wr_idx++ makes the packet visible to the consumer. *)
PublishWrite ==
  /\ push = "publish"
  /\ wr_idx' = Plus(wr_idx, 1)
  /\ push' = "idle"
  /\ UNCHANGED <<storage, rd_idx, mask, slots, incoming, consumer>>

Produce ==
  \/ \E p \in Packets : PushLidarData(p)
  \/ InitQueue
  \/ DropPacket
  \/ AcceptPacket
  \/ WriteHeader
  \/ WritePoints
  \/ PublishWrite

-----------------------------------------------------------------------------
(* The consumer: PollingLidarPointCloudData and QueuePop. *)

(* Polling skips a queue without storage, and stops at an empty one. *)
BeginPop ==
  /\ pop = "idle"
  /\ storage
  /\ ~QueueIsEmpty
  /\ pop' = "header"
  /\ UNCHANGED <<storage, rd_idx, wr_idx, mask, slots, copy, pkg, producer>>

CopyHeader ==
  /\ pop = "header"
  /\ copy' = [copy EXCEPT !.head = slots[SlotOf(rd_idx)].head]
  /\ pop' = "points"
  /\ UNCHANGED <<storage, rd_idx, wr_idx, mask, slots, pkg, producer>>

CopyPoints ==
  /\ pop = "points"
  /\ copy' = [copy EXCEPT !.body = slots[SlotOf(rd_idx)].body]
  /\ pop' = "update"
  /\ UNCHANGED <<storage, rd_idx, wr_idx, mask, slots, pkg, producer>>

\* rd_idx left as it is: the same packet is popped for ever.
QueuePopNoUpdate ==
  /\ pop = "update"
  /\ pkg' = copy
  /\ pop' = "idle"
  /\ UNCHANGED <<storage, rd_idx, wr_idx, mask, slots, copy, producer>>

QueuePopUpdate ==
  /\ pop = "update"
  /\ rd_idx' = Plus(rd_idx, 1)
  /\ pkg' = copy
  /\ pop' = "idle"
  /\ UNCHANGED <<storage, wr_idx, mask, slots, copy, producer>>

Consume == BeginPop \/ CopyHeader \/ CopyPoints \/ QueuePopUpdate

-----------------------------------------------------------------------------
Next == Produce \/ Consume

Spec == Init /\ [][Next]_vars

(* The poll thread runs as long as the driver does; the producer steps only *)
(* when a lidar sends.                                                      *)
FairSpec == Spec /\ WF_vars(Consume)

-----------------------------------------------------------------------------
Writing == push \in {"header", "points", "publish"}
Reading == pop \in {"header", "points", "update"}

(* No slot is written while it is being copied, whatever the interleaving   *)
(* of QueuePushAny and QueuePrePop and however often the indices wrapped.   *)
SlotExclusive ==
  Writing /\ Reading => SlotOf(wr_idx) # SlotOf(rd_idx)

(* The packets between rd_idx and wr_idx, oldest first. *)
Queued ==
  [k \in 1 .. QueueUsedSize |-> slots[SlotOf(Plus(rd_idx, k - 1))]]

Channel == INSTANCE PacketChannel WITH
  Packets  <- {Whole(p) : p \in Packets},
  NoPacket <- Whole(NoPacket),
  Capacity <- QueueSize,
  chan     <- Queued

(* The ring is a bounded FIFO of whole packets: QueuePop returns exactly    *)
(* the packets QueuePushAny stored, in order, none twice, none mixed from   *)
(* two pushes, and an accepted push never exceeds the capacity.             *)
ImplementsChannel == Channel!Spec

(* Under a running poll thread the oldest stored packet is always popped,   *)
(* also when the producer never pushes again.                              *)
OldestPopped ==
  \A i \in Index : (rd_idx = i /\ ~QueueIsEmpty) ~> (rd_idx # i)

-----------------------------------------------------------------------------
(* The inductive invariant behind the properties above, by parts. *)

Initialised == storage /\ push # "init"

(* Until the mask is set the consumer sees an empty queue, so the order in  *)
(* which InitQueue publishes its fields does not matter.                    *)
StartInv ==
  /\ Initialised => mask = QueueSize - 1
  /\ ~Initialised => rd_idx = 0 /\ wr_idx = 0 /\ pop = "idle"
  /\ ~storage => push = "idle"
  /\ push # "idle" => incoming \in Packets

(* The indices are never more than the ring apart, whatever they wrapped;   *)
(* a push under way has a free slot, a pop under way has a packet.          *)
CapacityInv ==
  /\ QueueUsedSize <= QueueSize
  /\ Writing => QueueUsedSize < QueueSize
  /\ Reading => ~QueueIsEmpty

(* Every packet between the indices is whole. *)
StoredInv ==
  \A k \in 0 .. QueueUsedSize - 1 :
    \E p \in Packets : slots[SlotOf(Plus(rd_idx, k))] = Whole(p)

(* The slot being written and the copy being made hold what the steps so    *)
(* far put there.                                                           *)
WriteInv ==
  /\ push = "points" => slots[SlotOf(wr_idx)].head = incoming
  /\ push = "publish" => slots[SlotOf(wr_idx)] = Whole(incoming)

CopyInv ==
  /\ pop = "points" => copy.head = slots[SlotOf(rd_idx)].head
  /\ pop = "update" => copy = slots[SlotOf(rd_idx)]

(* What every interleaving of the two threads preserves. *)
QueueInv ==
  TypeOK /\ StartInv /\ CapacityInv /\ StoredInv /\ WriteInv /\ CopyInv

=============================================================================
