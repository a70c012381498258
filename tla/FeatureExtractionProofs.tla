------------------------ MODULE FeatureExtractionProofs ------------------------
(***************************************************************************)
(* The classification of a line of any length, whatever the geometry makes *)
(* of it: no blind point becomes a feature, no pass takes away what        *)
(* another claimed, and the surface points stand for disjoint runs of      *)
(* planes that leave no plane out.                                         *)
(***************************************************************************)
EXTENDS FeatureExtraction, SequenceTheorems, WellFoundedInduction, TLAPS

\* The line the handlers pass: numbered points, and one that is not blind.
LineGiven ==
  /\ \E n \in Nat \ {0} : range \in [0 .. n - 1 -> {"blind", "near", "far"}]
  /\ \E k \in Indices : ~blind(k)

\* The pass over the planes claims behind its index only.
ClaimsBehind == pass = "planes" => \A k \in Indices : ftype[k] \in Real => k < i

\* An open run of planes was begun by the collection, before its index.
RunOpened == last_surface # -1 => pass \in {"collect", "done"} /\ last_surface < i

(* BlindUnclaimed says neither what the index may be nor where the claims  *)
(* lie; these parts do.                                                    *)
FInv == LineGiven /\ BlindUnclaimed /\ ClaimsBehind /\ RunOpened

(* A set of indices has a least one: the head of the line. *)
LEMMA LeastExists ==
  ASSUME NEW T \in SUBSET Nat, T # {}
  PROVE  \E k \in T : \A l \in T : ~(l < k)
<1>1. IsWellFoundedOn(OpToRel(<, Nat), Nat)
  BY NatLessThanWellFounded
<1>2. \E k \in T : \A l \in T : ~(<<l, k>> \in OpToRel(<, Nat))
  BY <1>1, WFMin
<1>3. ASSUME NEW k \in Nat, NEW l \in Nat, l < k PROVE <<l, k>> \in OpToRel(<, Nat)
  BY <1>3 DEF OpToRel
<1> QED BY <1>2, <1>3

(* The points are numbered from 0 to plsize - 1, and head is the first of  *)
(* them that is not blind.                                                 *)
LEMMA LineFacts ==
  ASSUME LineGiven
  PROVE  /\ plsize \in Nat \ {0} /\ Indices = 0 .. plsize - 1
         /\ head \in Indices /\ \A l \in Indices : l < head => blind(l)
<1>1. PICK n \in Nat \ {0} : range \in [0 .. n - 1 -> {"blind", "near", "far"}]
  BY DEF LineGiven
<1>2. Indices = 0 .. n - 1
  BY <1>1 DEF Indices
<1>3. range # <<>>
  <2>1. 0 \in DOMAIN range
    BY <1>2 DEF Indices
  <2>2. DOMAIN <<>> = {}
    OBVIOUS
  <2> QED BY <2>1, <2>2
<1>4. plsize = n
  <2>1. n - 1 \in Indices /\ (n - 1) + 1 \notin Indices
    BY <1>2
  <2>2. \A k \in Indices : k + 1 \notin Indices => k = n - 1
    BY <1>2
  <2>3. (CHOOSE k \in Indices : k + 1 \notin Indices) = n - 1
    BY <2>1, <2>2
  <2>4. plsize = 1 + (CHOOSE k \in Indices : k + 1 \notin Indices)
    BY <1>3, Zenon DEF plsize
  <2>5. 1 + (n - 1) = n
    OBVIOUS
  <2> QED BY <2>3, <2>4, <2>5, Zenon
<1>5. head \in Indices /\ \A l \in Indices : l < head => blind(l)
  <2> DEFINE Seen == {k \in Indices : ~blind(k)}
  <2>1. Seen \in SUBSET Nat /\ Seen # {}
    BY <1>2 DEF LineGiven
  <2>2. PICK k \in Seen : \A l \in Seen : ~(l < k)
    BY <2>1, LeastExists
  <2>3. \E h \in Indices : ~blind(h) /\ \A l \in Indices : l < h => blind(l)
    BY <2>2
  <2> QED BY <2>3 DEF head
<1> QED BY <1>2, <1>4, <1>5

(* The line as the handlers pass it satisfies the invariant. *)
LEMMA InitFInv == Init => FInv
<1> SUFFICES ASSUME Init PROVE FInv
  OBVIOUS
<1>1. LineGiven
  BY FeatureAssumption DEF Init, LineGiven
<1>2. i \in Nat
  BY <1>1, LineFacts DEF Init
<1>3. TypeOK
  BY <1>2 DEF Init, TypeOK, Features
<1> QED
  BY <1>1, <1>3 DEF Init, FInv, BlindUnclaimed, ClaimsBehind, RunOpened, Real

\* What one pass may do to the types.
Kept == \A k \in Indices : /\ ftype[k] \in Real => ftype'[k] = ftype[k]
                           /\ ftype[k] = "Poss_Plane" => ftype'[k] \notin {"Wire", "Nor"}

(* A group that plane_judge accepts or rejects claims no blind point. *)
LEMMA PlanePreserves ==
  ASSUME FInv, PlaneStep
  PROVE  FInv' /\ Kept
<1> USE DEF FInv, BlindUnclaimed
<1>1. /\ plsize \in Nat \ {0} /\ Indices = 0 .. plsize - 1 /\ group_size \in Nat \ {0}
      /\ i \in Nat /\ i < plsize - group_size /\ i \in Indices
  BY LineFacts, FeatureAssumption DEF PlaneStep, TypeOK
<1>2. LineGiven' /\ Indices' = Indices /\ \A k \in Indices : blind(k)' = blind(k)
  BY DEF PlaneStep, LineGiven, Indices, blind
<1>3. CASE UNCHANGED ftype /\ i' \in Nat /\ i <= i' /\ last_state' \in {0, 1}
  <2>1. TypeOK'
    BY <1>2, <1>3 DEF PlaneStep, TypeOK
  <2>2. ClaimsBehind' /\ Kept
    BY <1>1, <1>2, <1>3 DEF PlaneStep, ClaimsBehind, Kept, Real, Plane
  <2> QED BY <1>2, <1>3, <2>1, <2>2 DEF PlaneStep, RunOpened
<1>4. ASSUME NEW r \in plane_judge(i), MarkPlane(i, r[2]), r[1] = 1, ~blind(i)
      PROVE  FInv' /\ Kept
  <2>1. /\ r[2] \in i .. plsize /\ r[2] > i
        /\ \A k \in Indices : k \in i .. r[2] => ~blind(k)
    BY <1>1, <1>4 DEF plane_judge
  <2>2. /\ ftype' \in [Indices -> Features]
        /\ \A k \in Indices : k \notin i .. r[2] => ftype'[k] = ftype[k]
        /\ \A k \in Indices : k \in i .. r[2] /\ k # i => ftype'[k] \in Plane
        /\ r[2] \in Indices => ftype'[r[2]] = "Poss_Plane"
        /\ ftype'[i] \in {"Edge_Plane", "Real_Plane", "Poss_Plane"}
    <3> DEFINE marked == Marked(i, r[2])
    <3>1. /\ marked \in [Indices -> Features]
          /\ \A k \in Indices : k \notin i .. r[2] => marked[k] = ftype[k]
          /\ \A k \in Indices : k \in i .. r[2] => marked[k] \in Plane
          /\ marked[i] = "Poss_Plane"
          /\ r[2] \in Indices => marked[r[2]] = "Poss_Plane"
      BY <1>1, <2>1 DEF Marked, TypeOK, Features, Real, Plane
    <3>2. \/ ftype' = marked
          \/ \E joint \in {"Edge_Plane", "Real_Plane", "Poss_Plane"} : ftype' = [marked EXCEPT ![i] = joint]
      BY <1>4 DEF MarkPlane
    <3> HIDE DEF marked
    <3>3. CASE ftype' = marked
      BY <1>1, <2>1, <3>1, <3>3
    <3>4. ASSUME NEW joint \in {"Edge_Plane", "Real_Plane", "Poss_Plane"}, ftype' = [marked EXCEPT ![i] = joint]
          PROVE  /\ ftype' \in [Indices -> Features]
                 /\ \A k \in Indices : k \notin i .. r[2] => ftype'[k] = ftype[k]
                 /\ \A k \in Indices : k \in i .. r[2] /\ k # i => ftype'[k] \in Plane
                 /\ r[2] \in Indices => ftype'[r[2]] = "Poss_Plane"
                 /\ ftype'[i] \in {"Edge_Plane", "Real_Plane", "Poss_Plane"}
      BY <1>1, <2>1, <3>1, <3>4 DEF Features, Real, Plane
    <3> QED BY <3>2, <3>3, <3>4
  <2>3. i' = r[2] /\ last_state' = 1
    BY <1>4 DEF MarkPlane
  <2>4. TypeOK'
    BY <1>1, <1>2, <2>1, <2>2, <2>3 DEF PlaneStep, TypeOK
  <2>5. \A k \in Indices : ftype'[k] # "Nor" => ~blind(k)
    BY <2>1, <2>2
  <2>6. ClaimsBehind'
    BY <1>1, <1>2, <2>1, <2>2, <2>3 DEF PlaneStep, ClaimsBehind, Real, Plane
  <2>7. Kept
    BY <1>1, <2>1, <2>2 DEF PlaneStep, ClaimsBehind, Kept, Real, Plane
  <2> QED BY <1>2, <2>4, <2>5, <2>6, <2>7 DEF PlaneStep, RunOpened
<1>5. CASE blind(i)
  BY <1>1, <1>3, <1>5 DEF PlaneStep, TypeOK
<1>6. CASE ~blind(i)
  <2>1. PICK r \in plane_judge(i) :
          IF r[1] = 1 THEN MarkPlane(i, r[2])
          ELSE i' = r[2] + 1 /\ last_state' = 0 /\ UNCHANGED ftype
    BY <1>6 DEF PlaneStep
  <2>2. r[2] \in i .. plsize
    BY DEF plane_judge
  <2>3. CASE r[1] = 1
    BY <1>4, <1>6, <2>1, <2>3
  <2>4. CASE r[1] # 1
    BY <1>1, <1>3, <2>1, <2>2, <2>4
  <2> QED BY <2>3, <2>4
<1> QED BY <1>5, <1>6

(* The pass over the edges skips blind points and real planes. *)
LEMMA EdgePreserves ==
  ASSUME FInv, EdgeStep
  PROVE  FInv' /\ Kept
<1> USE DEF FInv, BlindUnclaimed
<1>1. LineGiven' /\ Indices' = Indices /\ \A k \in Indices : blind(k)' = blind(k)
  BY DEF EdgeStep, LineGiven, Indices, blind
<1>2. i \in Nat /\ i' = i + 1 /\ pass = "edges"
  BY DEF EdgeStep, TypeOK
<1>3. /\ ftype' \in [Indices -> Features] /\ Kept
      /\ \A k \in Indices : ftype'[k] # "Nor" => ~blind(k)
  <2>1. CASE UNCHANGED ftype
    BY <2>1 DEF TypeOK, Kept, Real, Plane
  <2>2. ASSUME ~blind(i), ftype[i] \notin Real, NEW f \in EdgeOutcomes(i), ftype' = [ftype EXCEPT ![i] = f]
        PROVE  /\ ftype' \in [Indices -> Features] /\ Kept
               /\ \A k \in Indices : ftype'[k] # "Nor" => ~blind(k)
    <3>1. f \in {ftype[i], "Edge_Jump", "Wire"}
      BY DEF EdgeOutcomes, Verdict
    <3>2. f = "Wire" => ftype[i] \in {"Nor", "Wire"}
      BY DEF EdgeOutcomes
    <3> QED BY <2>2, <3>1, <3>2 DEF TypeOK, Kept, Plane, Features, Real
  <2> QED BY <2>1, <2>2 DEF EdgeStep
<1>4. TypeOK'
  BY <1>1, <1>2, <1>3 DEF EdgeStep, TypeOK
<1> QED BY <1>1, <1>2, <1>3, <1>4 DEF EdgeStep, ClaimsBehind, RunOpened

(* The pass over small distances completes planes with seen points only. *)
LEMMA SmallPreserves ==
  ASSUME FInv, SmallStep
  PROVE  FInv' /\ Kept
<1> USE DEF FInv, BlindUnclaimed
<1>1. LineGiven' /\ Indices' = Indices /\ \A k \in Indices : blind(k)' = blind(k)
  BY DEF SmallStep, LineGiven, Indices, blind
<1>2. i \in Nat /\ i' = i + 1 /\ pass = "small"
  BY DEF SmallStep, TypeOK
<1>3. /\ ftype' \in [Indices -> Features] /\ Kept
      /\ \A k \in Indices : ftype'[k] # "Nor" => ~blind(k)
  <2>1. CASE UNCHANGED ftype
    BY <2>1 DEF TypeOK, Kept, Real, Plane
  <2>2. CASE ~blind(i) /\ ~blind(i - 1) /\ ~blind(i + 1) /\ ftype' = SmallPlane(i)
    <3>1. \A k \in Indices : k \in i - 1 .. i + 1 => ~blind(k)
      BY <1>2, <2>2, LineFacts
    <3> QED
      BY <2>2, <3>1 DEF SmallPlane, TypeOK, Kept, Plane, Features, Real
  <2> QED BY <2>1, <2>2 DEF SmallStep
<1>4. TypeOK'
  BY <1>1, <1>2, <1>3 DEF SmallStep, TypeOK
<1> QED BY <1>1, <1>2, <1>3, <1>4 DEF SmallStep, ClaimsBehind, RunOpened

(* Adding a surface point. *)
LEMMA AppendKeepsType ==
  ASSUME NEW S, NEW s \in Seq(S), NEW e \in S
  PROVE  Append(s, e) \in Seq(S)
OBVIOUS

(* Collecting the surface points changes no class. *)
LEMMA CollectPreserves ==
  ASSUME FInv, CollectStep
  PROVE  FInv' /\ Kept
<1> USE DEF FInv, BlindUnclaimed
<1>1. /\ LineGiven' /\ Indices' = Indices /\ \A k \in Indices : blind(k)' = blind(k)
      /\ UNCHANGED ftype
  BY DEF CollectStep, LineGiven, Indices, blind
<1>2. i \in Nat /\ i \in Indices /\ i' = i + 1 /\ pass = "collect"
  BY LineFacts DEF CollectStep, TypeOK
<1>3. /\ last_surface' \in {-1} \cup Indices /\ (last_surface' # -1 => last_surface' <= i)
      /\ pl_surf' \in Seq([from : Indices, to : Indices])
  <2>1. last_surface # -1 => last_surface \in Nat /\ last_surface < i
    BY LineFacts DEF RunOpened, TypeOK
  <2>2. CASE CollectPlane
    <3> DEFINE first == IF last_surface = -1 THEN i ELSE last_surface
    <3>1. first \in Indices /\ first <= i
      BY <1>2, <2>1, LineFacts DEF TypeOK
    <3>2. \/ pl_surf' = Append(pl_surf, Run(first, i)) /\ last_surface' = -1
          \/ last_surface' = first /\ UNCHANGED pl_surf
      BY <2>2 DEF CollectPlane
    <3> HIDE DEF first
    <3>3. Run(first, i) \in [from : Indices, to : Indices]
      BY <1>2, <3>1 DEF Run
    <3>4. pl_surf \in Seq([from : Indices, to : Indices])
      BY DEF TypeOK
    <3>5. Append(pl_surf, Run(first, i)) \in Seq([from : Indices, to : Indices])
      BY <3>3, <3>4, AppendKeepsType, Zenon
    <3>6. pl_surf' \in Seq([from : Indices, to : Indices])
      BY <3>2, <3>4, <3>5
    <3>7. last_surface' = -1 \/ last_surface' = first
      BY <3>2
    <3> QED BY <1>2, <3>1, <3>6, <3>7
  <2>3. CASE CollectOther
    <3>1. last_surface # -1 => last_surface \in Indices /\ i - 1 \in Indices
      BY <1>2, <2>1, LineFacts DEF TypeOK
    <3>2. last_surface # -1 => Run(last_surface, i - 1) \in [from : Indices, to : Indices]
      BY <3>1 DEF Run
    <3>3. pl_surf \in Seq([from : Indices, to : Indices])
      BY DEF TypeOK
    <3>4. pl_surf' \in Seq([from : Indices, to : Indices])
      <4>1. CASE last_surface = -1
        BY <2>3, <3>3, <4>1 DEF CollectOther
      <4>2. CASE last_surface # -1
        <5>1. Append(pl_surf, Run(last_surface, i - 1)) \in Seq([from : Indices, to : Indices])
          BY <3>2, <3>3, <4>2, AppendKeepsType, Zenon
        <5> QED BY <2>3, <4>2, <5>1 DEF CollectOther
      <4> QED BY <4>1, <4>2
    <3> QED BY <2>3, <3>4 DEF CollectOther
  <2> QED BY <2>2, <2>3 DEF CollectStep
<1>4. pl_corn' \in Seq(Indices)
  BY <1>2 DEF CollectStep, TypeOK
<1>5. TypeOK'
  BY <1>1, <1>2, <1>3, <1>4 DEF CollectStep, TypeOK
<1>6. RunOpened'
  BY <1>2, <1>3, LineFacts DEF CollectStep, RunOpened
<1> QED
  BY <1>1, <1>2, <1>5, <1>6 DEF CollectStep, ClaimsBehind, Kept, Real, Plane

(* Nor does the end of a pass. *)
LEMMA EndsPreserve ==
  ASSUME FInv, EndPlanes \/ EndEdges \/ EndSmall \/ EndCollect
  PROVE  FInv' /\ Kept
<1> USE DEF FInv, BlindUnclaimed
<1>1. /\ LineGiven' /\ Indices' = Indices /\ \A k \in Indices : blind(k)' = blind(k)
      /\ UNCHANGED <<ftype, last_state, last_surface, pl_surf, pl_corn>>
  BY DEF EndPlanes, EndEdges, EndSmall, EndCollect, LineGiven, Indices, blind
<1>2. i' \in Nat /\ pass' \in {"edges", "small", "collect", "done"}
  BY LineFacts DEF EndPlanes, EndEdges, EndSmall, EndCollect, TypeOK
<1>3. TypeOK'
  BY <1>1, <1>2 DEF TypeOK
<1>4. RunOpened'
  BY <1>1, <1>2 DEF EndPlanes, EndEdges, EndSmall, EndCollect, RunOpened
<1> QED BY <1>1, <1>2, <1>3, <1>4 DEF ClaimsBehind, Kept, Real, Plane

(* Every iteration preserves the invariant and keeps what was claimed. *)
LEMMA StepPreserves ==
  ASSUME FInv, [Next]_vars
  PROVE  FInv' /\ (Kept \/ UNCHANGED vars)
<1>1. CASE UNCHANGED vars
  BY <1>1
  DEF vars, FInv, LineGiven, BlindUnclaimed, TypeOK, ClaimsBehind, RunOpened,
      Indices, blind
<1>2. CASE Next
  BY <1>2, PlanePreserves, EdgePreserves, SmallPreserves, CollectPreserves,
     EndsPreserve
  DEF Next
<1> QED BY <1>1, <1>2

(* FInv is an invariant of give_feature. *)
LEMMA FeatureInvariant == Spec => []FInv
BY InitFInv, StepPreserves, PTL DEF Spec

(* No blind point is ever taken for a plane, an edge or a wire. *)
THEOREM BlindNeverClaimed == Spec => []BlindUnclaimed
<1>1. FInv => BlindUnclaimed
  BY DEF FInv
<1> QED BY <1>1, FeatureInvariant, PTL

(* A real plane, an edge or a wire stays what it is through the rest of    *)
(* its pass and all later ones, and an end of a plane never turns into a   *)
(* wire nor back into a point nobody claimed.                              *)
THEOREM ClaimsAlwaysKept == Spec => ClaimsKept
<1>1. FInv /\ [Next]_vars =>
        [\A k \in Indices : /\ ftype[k] \in Real => ftype'[k] = ftype[k]
                            /\ ftype[k] = "Poss_Plane" => ftype'[k] \notin {"Wire", "Nor"}]_vars
  BY StepPreserves DEF Kept
<1> QED BY <1>1, FeatureInvariant, PTL DEF Spec, ClaimsKept
-----------------------------------------------------------------------------
(* The collection. *)

Collecting == pass \in {"collect", "done"}

\* The first point that is in no closed run yet.
Open == IF last_surface = -1 THEN i ELSE last_surface

(* Runs of planes, none longer than point_filter_num, in order and all of  *)
(* them before point n.                                                    *)
RunsUpTo(runs, types, n) ==
  /\ \A m \in 1 .. Len(runs) :
       /\ runs[m].from <= runs[m].to
       /\ runs[m].to < runs[m].from + point_filter_num
       /\ runs[m].to < n
       /\ \A k \in runs[m].from .. runs[m].to : types[k] \in Plane
  /\ \A m \in 2 .. Len(runs) : runs[m - 1].to < runs[m].from

\* Every plane before point n is in a run.
PlanesInRuns(runs, types, n) ==
  \A k \in Indices : k < n /\ types[k] \in Plane => \E m \in 1 .. Len(runs) : k \in runs[m].from .. runs[m].to

(* RunsPartitionPlanes speaks of the planes only when all is done; while   *)
(* the points are collected it is those before the open run.               *)
RunInv ==
  /\ ~Collecting => pl_surf = <<>> /\ last_surface = -1
  /\ pass = "done" => i = plsize
  /\ Collecting => /\ RunsUpTo(pl_surf, ftype, Open) /\ PlanesInRuns(pl_surf, ftype, Open)
                   /\ \A k \in Open .. i - 1 : ftype[k] \in Plane
                   /\ last_surface # -1 => i < last_surface + point_filter_num

(* Before the surface points are collected there are no runs. *)
LEMMA InitRunInv == Init => RunInv
BY DEF Init, RunInv, Collecting

(* A run that follows the others may be added to them. *)
LEMMA RunAdded ==
  ASSUME FInv, NEW from \in Indices, NEW to \in Indices,
         from <= to, to < from + point_filter_num,
         \A k \in from .. to : ftype[k] \in Plane,
         RunsUpTo(pl_surf, ftype, from), PlanesInRuns(pl_surf, ftype, from)
  PROVE  /\ RunsUpTo(Append(pl_surf, Run(from, to)), ftype, to + 1)
         /\ PlanesInRuns(Append(pl_surf, Run(from, to)), ftype, to + 1)
<1> DEFINE longer == Append(pl_surf, Run(from, to))
           last == Len(pl_surf) + 1
<1>1. /\ pl_surf \in Seq([from : Indices, to : Indices]) /\ Run(from, to) \in [from : Indices, to : Indices]
      /\ Run(from, to).from = from /\ Run(from, to).to = to
  BY DEF Run, FInv, BlindUnclaimed, TypeOK
<1>2. /\ Len(pl_surf) \in Nat /\ Len(longer) = last
      /\ \A m \in 1 .. Len(pl_surf) : longer[m] = pl_surf[m] /\ pl_surf[m] \in [from : Indices, to : Indices]
      /\ longer[last] = Run(from, to)
  <2> DEFINE S == [from : Indices, to : Indices]
             run == Run(from, to)
  <2>1. pl_surf \in Seq(S) /\ run \in S
    BY <1>1
  <2> HIDE DEF S, run
  <2>2. /\ Len(pl_surf) \in Nat
        /\ \A m \in 1 .. Len(pl_surf) : pl_surf[m] \in S
        /\ Len(Append(pl_surf, run)) = Len(pl_surf) + 1
        /\ \A m \in 1 .. Len(pl_surf) : Append(pl_surf, run)[m] = pl_surf[m]
        /\ Append(pl_surf, run)[Len(pl_surf) + 1] = run
    BY <2>1, AppendProperties, LenProperties, ElementOfSeq
  <2> QED BY <2>2 DEF S, run
<1>3. Indices \subseteq Nat /\ point_filter_num \in Nat \ {0}
  BY LineFacts, FeatureAssumption DEF FInv
<1> HIDE DEF longer
<1>4. RunsUpTo(longer, ftype, to + 1)
  <2>1. ASSUME NEW m \in 1 .. Len(pl_surf)
        PROVE  /\ longer[m].from <= longer[m].to
               /\ longer[m].to < longer[m].from + point_filter_num
               /\ longer[m].to < to + 1
               /\ \A k \in longer[m].from .. longer[m].to : ftype[k] \in Plane
    <3>1. longer[m] = pl_surf[m] /\ pl_surf[m].to \in Nat
      BY <1>2, <1>3
    <3>2. /\ pl_surf[m].from <= pl_surf[m].to
          /\ pl_surf[m].to < pl_surf[m].from + point_filter_num
          /\ pl_surf[m].to < from
          /\ \A k \in pl_surf[m].from .. pl_surf[m].to : ftype[k] \in Plane
      BY DEF RunsUpTo
    <3>3. pl_surf[m].to < to + 1
      BY <1>3, <3>1, <3>2
    <3> QED BY <3>1, <3>2, <3>3
  <2>2. ASSUME NEW m \in 2 .. last PROVE longer[m - 1].to < longer[m].from
    <3>1. CASE m = last
      BY <1>1, <1>2, <3>1 DEF RunsUpTo
    <3>2. CASE m # last
      BY <1>2, <3>2 DEF RunsUpTo
    <3> QED BY <3>1, <3>2
  <2> QED BY <1>1, <1>2, <1>3, <2>1, <2>2 DEF RunsUpTo
<1>5. PlanesInRuns(longer, ftype, to + 1)
  <2> SUFFICES ASSUME NEW k \in Indices, k < to + 1, ftype[k] \in Plane
               PROVE  \E m \in 1 .. last : k \in longer[m].from .. longer[m].to
    BY <1>2 DEF PlanesInRuns
  <2>1. CASE k < from
    <3>1. PICK m \in 1 .. Len(pl_surf) : k \in pl_surf[m].from .. pl_surf[m].to
      BY <2>1 DEF PlanesInRuns
    <3> QED BY <1>2, <3>1
  <2>2. CASE ~(k < from)
    <3>1. k \in from .. to
      BY <1>3, <2>2
    <3>2. last \in 1 .. last /\ longer[last].from = from /\ longer[last].to = to
      BY <1>1, <1>2
    <3> QED BY <3>1, <3>2
  <2> QED BY <2>1, <2>2
<1> QED BY <1>4, <1>5 DEF longer

(* An iteration of the last pass opens, extends or closes one run. *)
LEMMA CollectRuns ==
  ASSUME FInv, RunInv, CollectStep
  PROVE  RunInv'
<1>1. /\ pass = "collect" /\ pass' = "collect" /\ Indices' = Indices /\ UNCHANGED ftype
      /\ i \in Nat /\ i \in Indices /\ i' = i + 1
      /\ Indices = 0 .. plsize - 1 /\ plsize \in Nat \ {0} /\ point_filter_num \in Nat \ {0}
  BY LineFacts, FeatureAssumption
  DEF CollectStep, FInv, BlindUnclaimed, TypeOK, Indices
<1>2. /\ Open \in Indices /\ Open <= i
      /\ last_surface # -1 => last_surface \in Indices /\ last_surface < i /\ i < last_surface + point_filter_num
  BY <1>1 DEF Open, FInv, BlindUnclaimed, TypeOK, RunOpened, RunInv, Collecting
<1>3. /\ RunsUpTo(pl_surf, ftype, Open) /\ PlanesInRuns(pl_surf, ftype, Open)
      /\ \A k \in Open .. i - 1 : ftype[k] \in Plane
  BY <1>1 DEF RunInv, Collecting
<1>4. SUFFICES /\ RunsUpTo(pl_surf', ftype, Open') /\ PlanesInRuns(pl_surf', ftype, Open')
               /\ \A k \in Open' .. i : ftype[k] \in Plane
               /\ last_surface' # -1 => i' < last_surface' + point_filter_num
  <2>1. i' - 1 = i
    BY <1>1
  <2> QED BY <1>1, <1>4, <2>1 DEF RunInv, Collecting, PlanesInRuns, RunsUpTo
<1>5. CASE ftype[i] \in Plane
  <2>1. CollectPlane
    BY <1>5 DEF CollectStep
  <2>2. \A k \in Open .. i : ftype[k] \in Plane
    BY <1>1, <1>2, <1>3, <1>5
  <2>3. CASE i = Open + point_filter_num - 1
    <3>1. pl_surf' = Append(pl_surf, Run(Open, i)) /\ last_surface' = -1
      BY <2>1, <2>3 DEF CollectPlane, Open
    <3>2. Open' = i + 1
      BY <1>1, <3>1 DEF Open
    <3>3. i < Open + point_filter_num
      BY <1>1, <1>2, <2>3
    <3>4. RunsUpTo(pl_surf', ftype, i + 1) /\ PlanesInRuns(pl_surf', ftype, i + 1)
      BY <1>1, <1>2, <1>3, <2>2, <3>1, <3>3, RunAdded
    <3> QED BY <1>1, <3>1, <3>2, <3>4
  <2>4. CASE i # Open + point_filter_num - 1
    <3>1. last_surface' = Open /\ UNCHANGED pl_surf
      BY <2>1, <2>4 DEF CollectPlane, Open
    <3>2. Open' = Open /\ last_surface' # -1
      <4>1. Open # -1
        BY <1>1, <1>2
      <4> QED BY <3>1, <4>1 DEF Open
    <3>3. i + 1 < Open + point_filter_num
      <4>1. i < Open + point_filter_num
        BY <1>1, <1>2 DEF Open
      <4> QED BY <1>1, <1>2, <2>4, <4>1
    <3> QED BY <1>1, <1>3, <2>2, <3>1, <3>2, <3>3
  <2> QED BY <2>3, <2>4
<1>6. CASE ftype[i] \notin Plane
  <2>1. CollectOther
    BY <1>6 DEF CollectStep
  <2>2. last_surface' = -1 /\ Open' = i + 1
    BY <1>1, <2>1 DEF CollectOther, Open
  <2>3. RunsUpTo(pl_surf', ftype, i) /\ PlanesInRuns(pl_surf', ftype, i)
    <3>1. CASE last_surface = -1
      BY <1>3, <2>1, <3>1 DEF CollectOther, Open
    <3>2. CASE last_surface # -1
      <4>1. pl_surf' = Append(pl_surf, Run(last_surface, i - 1)) /\ Open = last_surface
        BY <2>1, <3>2 DEF CollectOther, Open
      <4>2. i - 1 \in Indices /\ last_surface <= i - 1 /\ i - 1 < last_surface + point_filter_num
        BY <1>1, <1>2, <3>2
      <4>3. RunsUpTo(pl_surf', ftype, (i - 1) + 1) /\ PlanesInRuns(pl_surf', ftype, (i - 1) + 1)
        BY <1>2, <1>3, <3>2, <4>1, <4>2, RunAdded
      <4>4. (i - 1) + 1 = i
        BY <1>1
      <4> QED BY <4>3, <4>4
    <3> QED BY <3>1, <3>2
  <2>4. PlanesInRuns(pl_surf', ftype, i + 1)
    BY <1>1, <1>6, <2>3 DEF PlanesInRuns
  <2>5. RunsUpTo(pl_surf', ftype, i + 1)
    <3>1. pl_surf' \in Seq([from : Indices, to : Indices])
      BY <1>1, CollectPreserves DEF FInv, BlindUnclaimed, TypeOK
    <3>2. ASSUME NEW m \in 1 .. Len(pl_surf') PROVE pl_surf'[m].to < i + 1
      <4>1. pl_surf'[m].to \in Nat /\ pl_surf'[m].to < i
        <5>1. pl_surf'[m] \in [from : Indices, to : Indices]
          BY <3>1, ElementOfSeq
        <5>2. pl_surf'[m].to \in Nat
          BY <1>1, <5>1
        <5> QED BY <2>3, <5>2 DEF RunsUpTo
      <4> QED BY <1>1, <4>1
    <3> QED BY <2>3, <3>2 DEF RunsUpTo
  <2> QED BY <1>1, <2>2, <2>4, <2>5
<1> QED BY <1>5, <1>6

(* The other passes leave the runs alone. *)
LEMMA RunStep ==
  ASSUME FInv, RunInv, [Next]_vars
  PROVE  RunInv'
<1>1. CASE CollectStep
  BY <1>1, CollectRuns
<1>2. CASE PlaneStep \/ EdgeStep \/ SmallStep \/ EndPlanes \/ EndEdges
  BY <1>2
  DEF PlaneStep, EdgeStep, SmallStep, EndPlanes, EndEdges, RunInv, Collecting
<1>3. CASE EndSmall
  <2>1. /\ pl_surf' = <<>> /\ last_surface' = -1 /\ pass' = "collect" /\ i' = head
        /\ ftype' = ftype /\ Indices' = Indices
    BY <1>3 DEF EndSmall, RunInv, Collecting, Indices
  <2>2. /\ head \in Nat /\ \A k \in Indices : k < head => blind(k)
    BY LineFacts DEF FInv
  <2>3. \A k \in Indices : k < head => ftype[k] \notin Plane
    BY <2>2 DEF FInv, BlindUnclaimed, Plane
  <2>4. Open' = head
    BY <2>1 DEF Open
  <2>5. Len(pl_surf') = 0
    BY <2>1
  <2>6. RunsUpTo(pl_surf, ftype, Open)' /\ PlanesInRuns(pl_surf, ftype, Open)'
    BY <2>1, <2>3, <2>4, <2>5 DEF RunsUpTo, PlanesInRuns
  <2>7. Open' .. i' - 1 = {}
    BY <2>1, <2>2, <2>4
  <2> QED BY <2>1, <2>6, <2>7 DEF RunInv, Collecting
<1>4. CASE EndCollect
  <2>1. /\ UNCHANGED <<ftype, i, last_surface, pl_surf>> /\ Indices' = Indices /\ plsize' = plsize
        /\ i = plsize /\ pass = "collect" /\ pass' = "done"
    BY <1>4 DEF EndCollect, Indices, plsize
  <2> QED BY <2>1 DEF RunInv, Collecting, Open, RunsUpTo, PlanesInRuns
<1>5. CASE UNCHANGED vars
  BY <1>5
  DEF vars, RunInv, Collecting, Open, RunsUpTo, PlanesInRuns, Indices, plsize
<1> QED BY <1>1, <1>2, <1>3, <1>4, <1>5 DEF Next

(* Every plane of a line goes into exactly one run, and no run holds       *)
(* anything else, is too long, or overlaps another: however the passes     *)
(* classified the line, and for every point_filter_num.                    *)
THEOREM RunsAlwaysPartitionPlanes == Spec => []RunsPartitionPlanes
<1>1. ASSUME FInv, RunInv PROVE RunsPartitionPlanes
  <2>1. CASE ~Collecting
    BY <1>1, <2>1 DEF RunInv, RunsPartitionPlanes, Collecting
  <2>2. CASE Collecting
    <3>1. /\ RunsUpTo(pl_surf, ftype, Open) /\ PlanesInRuns(pl_surf, ftype, Open)
          /\ pass = "done" => i = plsize
      BY <1>1, <2>2 DEF RunInv
    <3>2. Indices = 0 .. plsize - 1 /\ plsize \in Nat \ {0}
      BY <1>1, LineFacts DEF FInv
    <3>3. pl_surf \in Seq([from : Indices, to : Indices]) /\ (last_surface # -1 => last_surface \in Nat)
      BY <1>1, <3>2 DEF FInv, BlindUnclaimed, TypeOK
    <3>4. pl_surf # <<>> => Len(pl_surf) \in 1 .. Len(pl_surf)
      BY <3>3, EmptySeq
    <3>5. last_surface # -1 /\ pl_surf # <<>> => pl_surf[Len(pl_surf)].to < last_surface
      BY <3>1, <3>4 DEF RunsUpTo, Open
    <3>6. ASSUME pass = "done", NEW k \in Indices, ftype[k] \in Plane
          PROVE  InRun(k) \/ (last_surface # -1 /\ k >= last_surface)
      <4>1. CASE k < Open
        BY <3>1, <3>6, <4>1 DEF PlanesInRuns, InRun
      <4>2. CASE ~(k < Open)
        BY <3>1, <3>2, <3>3, <3>6, <4>2 DEF Open
      <4> QED BY <4>1, <4>2
    <3> QED BY <3>1, <3>5, <3>6 DEF RunsPartitionPlanes, RunsUpTo
  <2> QED BY <2>1, <2>2
<1>2. FInv /\ RunInv /\ [Next]_vars => RunInv'
  BY RunStep
<1> QED BY <1>1, <1>2, InitRunInv, FeatureInvariant, PTL DEF Spec
=============================================================================
