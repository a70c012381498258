----------------------------- MODULE PointStream -----------------------------
(***************************************************************************)
(* What the assembly of point clouds promises to whoever reads the frames: *)
(* of each lidar, what its frames have held so far is a beginning of what  *)
(* the lidar has sent.  When a frame ends, how much it takes in and which  *)
(* other lidars share it is left open.  PubHandler implements this         *)
(* specification.                                                          *)
(***************************************************************************)
EXTENDS Naturals, SequencesExt

CONSTANTS
  Lidars,     (* the handles of the lidars        *)
  Packets     (* the packets a lidar may send     *)

VARIABLES
  sent,       (* the packets a lidar sent         *)
  framed      (* those its frames have held       *)

vars == <<sent, framed>>

Init ==
  /\ sent = [l \in Lidars |-> <<>>]
  /\ framed = [l \in Lidars |-> <<>>]

(* A lidar sends one packet more. *)
Send(l) ==
  /\ sent' \in [Lidars -> Seq(Packets)]
  /\ IsPrefix(sent[l], sent'[l])
  /\ Len(sent'[l]) = Len(sent[l]) + 1
  /\ \A m \in Lidars \ {l} : sent'[m] = sent[m]
  /\ UNCHANGED framed

(* Frames of some lidars end. *)
Publish ==
  /\ framed' \in [Lidars -> Seq(Packets)]
  /\ \A l \in Lidars : /\ IsPrefix(framed[l], framed'[l])
                       /\ IsPrefix(framed'[l], sent[l])
  /\ UNCHANGED sent

Next == Publish \/ \E l \in Lidars : Send(l)

Spec == Init /\ [][Next]_vars

=============================================================================
