---------------------------- MODULE PacketChannel ----------------------------
(***************************************************************************)
(* What the point-cloud queue of one lidar promises to its two users: a    *)
(* bounded first-in first-out channel.  The packet-assembly thread puts    *)
(* whole packets, the poll thread takes whole packets, in order, and a     *)
(* packet offered while the channel is full is lost (a stuttering step).   *)
(* LidarDataQueue implements this specification.                           *)
(***************************************************************************)
EXTENDS Naturals, Sequences

CONSTANTS
  Packets,    (* the packets that may be put                *)
  NoPacket,   (* what the taker holds before its first take *)
  Capacity    (* how many packets the channel holds         *)

VARIABLES
  chan,   (* the packets put and not yet taken, oldest first *)
  pkg     (* the packet taken last                           *)

vars == <<chan, pkg>>

Init ==
  /\ chan = <<>>
  /\ pkg = NoPacket

Put(p) ==
  /\ Len(chan) < Capacity
  /\ chan' = Append(chan, p)
  /\ UNCHANGED pkg

Take ==
  /\ chan # <<>>
  /\ pkg' = Head(chan)
  /\ chan' = Tail(chan)

Next == Take \/ \E p \in Packets : Put(p)

Spec == Init /\ [][Next]_vars

=============================================================================
