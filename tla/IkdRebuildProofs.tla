--------------------------- MODULE IkdRebuildProofs ---------------------------
(***************************************************************************)
(* No counted search is in the subtree while the rebuilding thread         *)
(* flattens or swaps it, none that went by a lock is in the one it         *)
(* deletes, and the subtree that replaces it has its points, where the log *)
(* was empty and something was flattened: for every number of search       *)
(* threads, every set of points and logs of any length.  The second part   *)
(* is about the nodes of the tree (TreeNode): what is deleted lazily is    *)
(* found deleted, and what is live is never pruned, in a tree of any depth. *)
(***************************************************************************)
EXTENDS IkdRebuild, TreeNode, FiniteSetTheorems, SequenceTheorems, TLAPS

\* The parallel loop is joined before the mapping thread does anything else.
ReadersJoined == upc # "searching" => \A r \in Readers : reader[r] = "out"

\* Rebuild_Ptr stays set from the start of a rebuild until the swap is over.
PtrHeld ==
  rpc \in {"lockSearch", "flatten", "unlockSearch", "build", "drain", "relock", "lockSwap", "swap", "unlockSwap"}
    => Rebuild_Ptr

(* Who is in the replaced subtree: a search that has loaded the pointer or *)
(* went in past the counter, and the mapping thread, which holds           *)
(* search_flag_mutex there only until the rebuilding thread has taken it.  *)
(* All of them are from before the swap of the last rebuild.               *)
InsideDiscarded ==
  /\ \A r \in Readers : r \in inDiscarded => reader[r] \in {"loaded", "direct"}
  /\ Mapping \in inDiscarded => upc \in {"pushdown", "check", "enter", "range"}
  /\ search_flag_mutex => upc = "range"
  /\ search_flag_mutex /\ Mapping \in inDiscarded => rpc = "unlockSwap"
  /\ inDiscarded # {} => rpc = "unlockSwap" \/ ~Rebuild_Ptr

\* The operation under way is one, and no search once it is carried out.
OpGiven ==
  /\ upc \in {"pushdown", "pushLocked", "check"} => op \in Operations \cup {SEARCH}
  /\ upc \in {"direct", "locked"} => op \in Operations

(* NearestSearchExcluded says nothing of the replaced subtree after the    *)
(* swap, nor of the operation; these parts do.                             *)
IInv == NearestSearchExcluded /\ OpGiven /\ ReadersJoined /\ PtrHeld /\ InsideDiscarded

(* Operations are about points of the model and yield such points. *)
LEMMA OperationTypes ==
  /\ \A o \in Operations : o.points \in SUBSET Points
  /\ \A points \in SUBSET Points : \A o \in Operations : run_operation(points, o) \in SUBSET Points
  /\ \A points \in SUBSET Points : run_operation(points, PUSH_DOWN) \in SUBSET Points
<1>1. ASSUME NEW o \in Operations PROVE o.points \in SUBSET Points
  <2>1. CASE \E p \in Points : o = ADD_POINT(p)
    BY <2>1 DEF ADD_POINT
  <2>2. CASE \E box \in BoxSets : o = DELETE_BOX(box)
    <3>1. PICK box \in BoxSets : o = DELETE_BOX(box)
      BY <2>2
    <3>2. o.points = box /\ box \in SUBSET Points
      BY <3>1, RebuildAssumption DEF DELETE_BOX
    <3> QED BY <3>2
  <2> QED BY <2>1, <2>2 DEF Operations
<1>2. ASSUME NEW points \in SUBSET Points, NEW o \in Operations
      PROVE  run_operation(points, o) \in SUBSET Points
  BY <1>1 DEF run_operation
<1>3. ASSUME NEW points \in SUBSET Points PROVE run_operation(points, PUSH_DOWN) \in SUBSET Points
  BY DEF run_operation, PUSH_DOWN
<1> QED BY <1>1, <1>2, <1>3

(* The number of counted searches is a number, at most that of the threads. *)
LEMMA CountedBounds ==
  ASSUME NEW S \in SUBSET Readers
  PROVE  /\ IsFiniteSet(S) /\ Cardinality(S) \in Nat /\ Cardinality(S) <= Cardinality(Readers)
         /\ Cardinality(Readers) \in Nat
         /\ Cardinality(S) = 0 => S = {}
<1>1. IsFiniteSet(S) /\ Cardinality(S) <= Cardinality(Readers)
  BY RebuildAssumption, FS_Subset
<1>2. Cardinality(S) \in Nat /\ Cardinality(Readers) \in Nat
  BY <1>1, RebuildAssumption, FS_CardinalityType
<1>3. Cardinality(S) = 0 => S = {}
  BY <1>1, FS_EmptySet
<1> QED BY <1>1, <1>2, <1>3

(* A tree without calls satisfies the invariant. *)
LEMMA InitIInv == Init => IInv
<1> SUFFICES ASSUME Init PROVE IInv
  OBVIOUS
<1>1. Counted = {}
  BY DEF Init, Counted
<1>2. Cardinality(Counted) = 0 /\ Cardinality(Readers) \in Nat
  BY <1>1, FS_EmptySet, CountedBounds
<1>3. TypeOK
  <2>1. search_mutex_counter \in -1 .. Cardinality(Readers)
    BY <1>2 DEF Init
  <2>2. reader \in [Readers -> {"out", "load", "loaded", "waiting", "counted", "direct"}]
    BY DEF Init
  <2>3. Rebuild_Logger \in Seq(Operations \cup {PUSH_DOWN}) /\ inDiscarded \subseteq Readers \cup {Mapping}
    BY DEF Init
  <2>4. /\ place \in {"root", "inner"} /\ sub \in SUBSET Points /\ pending \in BOOLEAN
        /\ op \in Operations \cup {NoOp, SEARCH} /\ searches \in Nat
    BY DEF Init
  <2>5. /\ Rebuild_Ptr \in BOOLEAN /\ rebuild_flag \in BOOLEAN /\ working_flag_mutex \in BOOLEAN
        /\ search_flag_mutex \in BOOLEAN /\ termination_flag \in BOOLEAN /\ clean \in BOOLEAN
    BY DEF Init
  <2>6. Rebuild_PCL_Storage \in SUBSET Points /\ new_root_node \in SUBSET Points
    BY DEF Init
  <2>7. upc = "idle" /\ rpc = "idle"
    BY DEF Init
  <2> QED BY <2>1, <2>2, <2>3, <2>4, <2>5, <2>6, <2>7 DEF TypeOK
<1>4. NearestSearchExcluded
  BY <1>2, <1>3 DEF Init, NearestSearchExcluded, SearchLocked
<1> QED
  BY <1>4
  DEF Init, IInv, OpGiven, ReadersJoined, PtrHeld, InsideDiscarded

(* Steps that touch neither the searches nor the thread's place keep the   *)
(* counter true.                                                           *)
LEMMA CounterKept ==
  ASSUME NearestSearchExcluded, TypeOK', UNCHANGED <<reader, rpc, search_mutex_counter>>
  PROVE  NearestSearchExcluded'
BY DEF NearestSearchExcluded, SearchLocked, Counted

(* The mapping thread's steps. *)
LEMMA CallTypes ==
  ASSUME IInv, \/ \E operation \in Operations \cup {SEARCH} : Call(operation)
               \/ DeleteFather \/ Fork \/ stop_thread \/ MappingStep
  PROVE  TypeOK'
<1>0. TypeOK
  BY DEF IInv, NearestSearchExcluded
<1> USE <1>0
<1>1. ASSUME NEW operation \in Operations \cup {SEARCH}, Call(operation) PROVE TypeOK'
  BY <1>1 DEF Call, TypeOK, treeVars, rebuildVars, lockVars
<1>2. CASE DeleteFather
  BY <1>2 DEF DeleteFather, TypeOK, callVars, rebuildVars, lockVars
<1>3. CASE Fork
  BY <1>3 DEF Fork, Searchable, TypeOK, treeVars, rebuildVars, lockVars
<1>4. CASE stop_thread
  BY <1>4 DEF stop_thread, TypeOK, treeVars, rebuildVars
<1>5. CASE PushDown
  <2>1. sub' \in SUBSET Points
    BY <1>5 DEF PushDown, Visible, TypeOK
  <2>2. pending' \in BOOLEAN /\ upc' \in {"pushLocked", "check"} /\ inDiscarded' \subseteq inDiscarded
    BY <1>5 DEF PushDown, TypeOK
  <2>3. UNCHANGED <<place, op, searches, reader, rebuildVars, Rebuild_Ptr, rebuild_flag, Rebuild_Logger, lockVars>>
    BY <1>5 DEF PushDown
  <2> QED BY <2>1, <2>2, <2>3 DEF TypeOK, rebuildVars, lockVars
<1>6. CASE PushDownLocked
  <2>1. Rebuild_Logger' \in Seq(Operations \cup {PUSH_DOWN})
    BY <1>6 DEF PushDownLocked, Logged, TypeOK
  <2>2. /\ sub' \in SUBSET Points /\ pending' \in BOOLEAN
        /\ upc' = "check" /\ inDiscarded' = inDiscarded
    BY <1>6 DEF PushDownLocked
  <2>3. UNCHANGED <<place, op, searches, reader, rebuildVars, Rebuild_Ptr, rebuild_flag, lockVars>>
    BY <1>6 DEF PushDownLocked
  <2> QED BY <2>1, <2>2, <2>3 DEF TypeOK, rebuildVars, lockVars
<1>7. CASE Check
  BY <1>7 DEF Check, TypeOK, treeVars, rebuildVars, lockVars
<1>8. CASE ApplyDirect
  <2>1. sub' \in SUBSET Points
    BY <1>8, OperationTypes DEF ApplyDirect, TypeOK, OpGiven, IInv
  <2> QED BY <1>8, <2>1 DEF ApplyDirect, TypeOK, rebuildVars, lockVars
<1>9. CASE ApplyLocked
  <2>1. sub' \in SUBSET Points
    BY <1>9, OperationTypes DEF ApplyLocked, TypeOK, OpGiven, IInv
  <2>2. Rebuild_Logger' \in Seq(Operations \cup {PUSH_DOWN})
    BY <1>9 DEF ApplyLocked, Logged, TypeOK, OpGiven, IInv
  <2> QED BY <1>9, <2>1, <2>2 DEF ApplyLocked, TypeOK, rebuildVars, lockVars
<1>10. CASE Rebuild
  BY <1>10 DEF Rebuild, PtrLocked, TypeOK, treeVars, rebuildVars, lockVars
<1>11. CASE RangeLocked \/ RangeUnlocked
  <2>1. search_flag_mutex' \in BOOLEAN /\ inDiscarded' \subseteq inDiscarded /\ upc' = "range"
    BY <1>11 DEF RangeLocked, RangeUnlocked, TypeOK, lockVars
  <2>2. UNCHANGED <<treeVars, op, searches, reader, rebuildVars, Rebuild_Ptr, rebuild_flag, Rebuild_Logger,
                    search_mutex_counter, working_flag_mutex, termination_flag>>
    BY <1>11 DEF RangeLocked, RangeUnlocked, lockVars
  <2> QED BY <2>1, <2>2 DEF TypeOK, treeVars, rebuildVars
<1>12. CASE EndRange
  <2>1. /\ inDiscarded' \subseteq inDiscarded /\ search_flag_mutex' \in BOOLEAN
        /\ upc' = "idle" /\ op' = NoOp
    BY <1>12 DEF EndRange
  <2>2. UNCHANGED <<treeVars, searches, reader, rebuildVars, Rebuild_Ptr, rebuild_flag, Rebuild_Logger,
                    search_mutex_counter, working_flag_mutex, termination_flag>>
    BY <1>12 DEF EndRange
  <2> QED BY <2>1, <2>2 DEF TypeOK, treeVars, rebuildVars
<1>13. CASE Join \/ Joined
  BY <1>13 DEF Join, Joined, TypeOK, treeVars, rebuildVars, lockVars
<1> QED
  BY <1>1, <1>2, <1>3, <1>4, <1>5, <1>6, <1>7, <1>8, <1>9, <1>10, <1>11,
     <1>12, <1>13
  DEF MappingStep

(* What the mapping thread does keeps to what is said of the replaced      *)
(* subtree: it asks for another rebuild only when nobody is in the last.   *)
LEMMA CallInsideDiscarded ==
  ASSUME IInv, \/ \E operation \in Operations \cup {SEARCH} : Call(operation)
               \/ DeleteFather \/ stop_thread \/ MappingStep,
         UNCHANGED <<reader, rpc>>
  PROVE  InsideDiscarded'
<1> USE DEF IInv, InsideDiscarded
<1>1. CASE PushDown \/ Check
  BY <1>1 DEF PushDown, Check, lockVars
<1>2. CASE RangeLocked
  BY <1>2 DEF RangeLocked
<1>3. CASE RangeUnlocked
  BY <1>3 DEF RangeUnlocked, lockVars
<1>4. CASE EndRange
  BY <1>4 DEF EndRange
<1>5. CASE Rebuild
  <2>1. /\ upc = "criterion" /\ inDiscarded \subseteq Readers \cup {Mapping}
        /\ UNCHANGED <<search_flag_mutex, inDiscarded>>
    BY <1>5 DEF Rebuild, NearestSearchExcluded, TypeOK, lockVars
  <2>2. inDiscarded = {}
    BY <2>1 DEF ReadersJoined
  <2> QED BY <2>1, <2>2
<1>6. CASE ~(PushDown \/ Check \/ RangeLocked \/ RangeUnlocked \/ EndRange \/ Rebuild)
  <2>1. UNCHANGED <<search_flag_mutex, inDiscarded, Rebuild_Ptr>>
    BY <1>6
    DEF Call, DeleteFather, stop_thread, MappingStep, PushDownLocked, ApplyDirect, ApplyLocked, Join, Joined, lockVars
  <2>2. upc = "range" => upc' = "range"
    BY <1>6
    DEF Call, DeleteFather, stop_thread, MappingStep, PushDownLocked, ApplyDirect, ApplyLocked, Join, Joined, callVars
  <2>3. upc \in {"pushdown", "check", "enter", "range"} => upc' = upc
    BY <1>6
    DEF Call, DeleteFather, stop_thread, MappingStep, PushDownLocked, ApplyDirect, ApplyLocked, Join, Joined, callVars
  <2> QED BY <2>1, <2>2, <2>3
<1> QED BY <1>1, <1>2, <1>3, <1>4, <1>5, <1>6

(* The mapping thread's steps preserve it. *)
LEMMA CallPreserves ==
  ASSUME IInv, \/ \E operation \in Operations \cup {SEARCH} : Call(operation)
               \/ DeleteFather \/ Fork \/ stop_thread \/ MappingStep
  PROVE  IInv'
<1>1. TypeOK'
  BY CallTypes
<1>2. CASE Fork
  <2>1. Counted' = Counted
    BY <1>2 DEF Fork, Searchable, Counted, IInv, ReadersJoined
  <2>2. NearestSearchExcluded'
    BY <1>1, <1>2, <2>1
    DEF Fork, IInv, NearestSearchExcluded, SearchLocked, rebuildVars, lockVars
  <2>3. InsideDiscarded'
    BY <1>2 DEF Fork, Searchable, IInv, ReadersJoined, InsideDiscarded, rebuildVars, lockVars
  <2> QED BY <1>2, <2>2, <2>3 DEF Fork, IInv, OpGiven, ReadersJoined, PtrHeld, rebuildVars
<1>3. CASE ~Fork
  <2>1. UNCHANGED <<reader, rpc, search_mutex_counter>>
    BY <1>3
    DEF Call, DeleteFather, stop_thread, MappingStep, PushDown,
        PushDownLocked, Check, ApplyDirect, ApplyLocked, Rebuild,
        RangeLocked, RangeUnlocked, EndRange, Join, Joined, callVars, rebuildVars, lockVars
  <2>2. NearestSearchExcluded'
    BY <1>1, <2>1, CounterKept DEF IInv
  <2>3. OpGiven'
    BY <1>3 DEF IInv, OpGiven, NearestSearchExcluded, TypeOK,
                Call, DeleteFather, stop_thread, MappingStep, PushDown, PushDownLocked, Check, ApplyDirect,
                ApplyLocked, Rebuild, RangeLocked, RangeUnlocked, EndRange, Join, Joined, callVars, SEARCH
  <2>4. ReadersJoined'
    BY <1>3, <2>1 DEF IInv, ReadersJoined,
                Call, DeleteFather, stop_thread, MappingStep, PushDown, PushDownLocked, Check, ApplyDirect,
                ApplyLocked, Rebuild, RangeLocked, RangeUnlocked, EndRange, Join, Joined, callVars
  <2>5. PtrHeld'
    <3>1. Rebuild_Ptr => Rebuild_Ptr'
      BY <1>3
      DEF Call, DeleteFather, stop_thread, MappingStep, PushDown,
          PushDownLocked, Check, ApplyDirect, ApplyLocked, Rebuild,
          RangeLocked, RangeUnlocked, EndRange, Join, Joined
    <3> QED BY <2>1, <3>1 DEF IInv, PtrHeld
  <2>6. InsideDiscarded'
    BY <1>3, <2>1, CallInsideDiscarded
  <2> QED BY <2>2, <2>3, <2>4, <2>5, <2>6 DEF IInv
<1> QED BY <1>2, <1>3

(* The search threads. *)
LEMMA SearchPreserves ==
  ASSUME IInv, NEW r \in Readers, SearchStep(r)
  PROVE  IInv'
<1> USE DEF IInv, NearestSearchExcluded
<1>1. Counted \in SUBSET Readers /\ Counted' \in SUBSET Readers
  BY DEF Counted
<1>2. upc = "searching"
  BY DEF SearchStep, SearchLoad, SearchTooFar, SearchCheck, SearchEnter, SearchLeave, ReadersJoined
<1>3. UNCHANGED <<upc, op, rpc, Rebuild_Ptr, search_flag_mutex>> /\ inDiscarded' \subseteq inDiscarded
  BY DEF SearchStep, SearchLoad, SearchTooFar, SearchCheck, SearchEnter, SearchLeave, rebuildVars, lockVars
<1>4. reader' \in [Readers -> {"out", "load", "loaded", "waiting", "counted", "direct"}]
  BY DEF SearchStep, SearchLoad, SearchTooFar, SearchCheck, SearchEnter, SearchLeave, TypeOK
<1>5. /\ SearchLocked => search_mutex_counter' = -1 /\ Counted' = {}
      /\ ~SearchLocked => search_mutex_counter' = Cardinality(Counted')
  <2>1. CASE SearchEnter(r)
    <3>1. Counted' = Counted \cup {r} /\ r \notin Counted
      BY <2>1 DEF SearchEnter, Counted, TypeOK
    <3>2. Cardinality(Counted') = Cardinality(Counted) + 1
      BY <1>1, <3>1, CountedBounds, FS_AddElement
    <3>3. ~SearchLocked /\ search_mutex_counter' = search_mutex_counter + 1
      BY <2>1 DEF SearchEnter
    <3> QED BY <3>2, <3>3
  <2>2. CASE SearchLeave(r) /\ reader[r] = "counted"
    <3>1. Counted' = Counted \ {r} /\ r \in Counted
      BY <2>2 DEF SearchLeave, Counted, TypeOK
    <3>2. Cardinality(Counted') = Cardinality(Counted) - 1
      BY <1>1, <3>1, CountedBounds, FS_RemoveElement
    <3>3. ~SearchLocked /\ search_mutex_counter' = search_mutex_counter - 1
      BY <2>2, <3>1 DEF SearchLeave
    <3> QED BY <3>2, <3>3
  <2>3. CASE SearchLoad(r) \/ SearchTooFar(r) \/ SearchCheck(r) \/ (SearchLeave(r) /\ reader[r] # "counted")
    <3>1. Counted' = Counted /\ search_mutex_counter' = search_mutex_counter
      BY <2>3 DEF SearchLoad, SearchTooFar, SearchCheck, SearchLeave, Counted, TypeOK, lockVars
    <3> QED BY <3>1
  <2> QED BY <2>1, <2>2, <2>3 DEF SearchStep
<1>6. search_mutex_counter' \in -1 .. Cardinality(Readers)
  BY <1>1, <1>5, CountedBounds
<1>7. TypeOK'
  BY <1>4, <1>6
     DEF TypeOK, SearchStep, SearchLoad, SearchTooFar, SearchCheck, SearchEnter, SearchLeave,
         treeVars, rebuildVars, lockVars
<1>8. NearestSearchExcluded'
  BY <1>3, <1>5, <1>7 DEF SearchLocked
<1>9. \A s \in Readers : s \in inDiscarded' => reader'[s] \in {"loaded", "direct"}
  <2>1. CASE SearchLoad(r)
    BY <2>1 DEF SearchLoad, TypeOK, InsideDiscarded
  <2>2. CASE SearchTooFar(r) \/ SearchLeave(r)
    BY <2>2 DEF SearchTooFar, SearchLeave, TypeOK, InsideDiscarded
  <2>3. CASE SearchCheck(r)
    BY <2>3 DEF SearchCheck, TypeOK, InsideDiscarded
  <2>4. CASE SearchEnter(r)
    BY <2>4 DEF SearchEnter, TypeOK, InsideDiscarded
  <2> QED BY <2>1, <2>2, <2>3, <2>4 DEF SearchStep
<1>10. InsideDiscarded'
  BY <1>3, <1>9 DEF InsideDiscarded
<1> QED
  BY <1>2, <1>3, <1>8, <1>10 DEF OpGiven, ReadersJoined, PtrHeld

(* The rebuilding thread. *)
LEMMA RebuildTypes ==
  ASSUME IInv, RebuildStep
  PROVE  TypeOK'
<1>0. TypeOK
  BY DEF IInv, NearestSearchExcluded
<1> USE <1>0
<1>1. CASE Iterate \/ NextIteration
  BY <1>1 DEF Iterate, NextIteration, TypeOK, treeVars, callVars, lockVars
<1>2. CASE Start
  <2>1. clean' \in BOOLEAN /\ rebuild_flag' \in BOOLEAN /\ working_flag_mutex' \in BOOLEAN
    BY <1>2 DEF Start, TypeOK
  <2> QED BY <1>2, <2>1 DEF Start, TypeOK, treeVars, callVars
<1>3. CASE LockSearch \/ UnlockSearch
  <2>1. search_mutex_counter' \in -1 .. Cardinality(Readers)
    BY <1>3, CountedBounds DEF LockSearch, UnlockSearch
  <2>2. CASE LockSearch
    BY <2>1, <2>2 DEF LockSearch, TypeOK, treeVars, callVars
  <2>3. CASE UnlockSearch
    <3>1. /\ rpc' \in {"lockSwap", "build"} /\ new_root_node' = {} /\ working_flag_mutex' \in BOOLEAN
          /\ UNCHANGED <<treeVars, callVars, Rebuild_PCL_Storage, clean, Rebuild_Ptr, rebuild_flag, Rebuild_Logger,
                         search_flag_mutex, termination_flag, inDiscarded>>
      BY <2>3 DEF UnlockSearch
    <3> QED BY <2>1, <3>1 DEF TypeOK, treeVars, callVars
  <2> QED BY <1>3, <2>2, <2>3
<1>4. CASE Flatten \/ BuildNew \/ Relock \/ Drained
  <2>1. CASE Flatten
    BY <2>1 DEF Flatten, TypeOK, treeVars, callVars, lockVars
  <2>2. CASE BuildNew
    BY <2>2 DEF BuildNew, TypeOK, treeVars, callVars
  <2>3. CASE Relock
    BY <2>3 DEF Relock, TypeOK, treeVars, callVars
  <2>4. CASE Drained
    BY <2>4 DEF Drained, TypeOK, treeVars, callVars, lockVars
  <2> QED BY <1>4, <2>1, <2>2, <2>3, <2>4
<1>5. CASE DrainOne
  <2>1. Head(Rebuild_Logger) \in Operations \cup {PUSH_DOWN} /\ Rebuild_Logger' \in Seq(Operations \cup {PUSH_DOWN})
    BY <1>5 DEF DrainOne, TypeOK
  <2>2. new_root_node' \in SUBSET Points
    BY <1>5, <2>1, OperationTypes DEF DrainOne, TypeOK
  <2>3. working_flag_mutex' \in BOOLEAN /\ rpc' = "relock"
    BY <1>5 DEF DrainOne
  <2>4. /\ UNCHANGED <<place, sub, pending, upc, op, searches, reader, Rebuild_PCL_Storage, clean, Rebuild_Ptr>>
        /\ UNCHANGED <<rebuild_flag, search_mutex_counter, search_flag_mutex, termination_flag, inDiscarded>>
    BY <1>5 DEF DrainOne, treeVars, callVars
  <2> QED BY <2>1, <2>2, <2>3, <2>4 DEF TypeOK
<1>6. CASE Swap
  BY <1>6 DEF Swap, TypeOK, callVars, lockVars
<1>7. CASE UnlockSwap
  <2>1. search_mutex_counter' \in -1 .. Cardinality(Readers)
    BY <1>7, CountedBounds DEF UnlockSwap
  <2>2. /\ rpc' = "flagOff" /\ Rebuild_Ptr' \in BOOLEAN /\ working_flag_mutex' \in BOOLEAN
        /\ UNCHANGED <<treeVars, callVars, Rebuild_PCL_Storage, new_root_node, clean, rebuild_flag, Rebuild_Logger,
                       search_flag_mutex, termination_flag, inDiscarded>>
    BY <1>7 DEF UnlockSwap
  <2> QED BY <2>1, <2>2 DEF TypeOK, treeVars, callVars
<1>8. CASE FlagOff \/ DeleteDiscarded
  <2>1. CASE FlagOff
    <3>1. rebuild_flag' \in BOOLEAN /\ rpc' = "delete"
      BY <2>1 DEF FlagOff
    <3>2. UNCHANGED <<treeVars, callVars, Rebuild_PCL_Storage, new_root_node, clean, Rebuild_Ptr, Rebuild_Logger,
                      lockVars, inDiscarded>>
      BY <2>1 DEF FlagOff
    <3> QED BY <3>1, <3>2 DEF TypeOK, treeVars, callVars, lockVars
  <2>2. CASE DeleteDiscarded
    BY <2>2 DEF DeleteDiscarded, TypeOK, treeVars, callVars, lockVars
  <2> QED BY <1>8, <2>1, <2>2
<1> QED BY <1>1, <1>2, <1>3, <1>4, <1>5, <1>6, <1>7, <1>8 DEF RebuildStep

(* The rebuilding thread's steps preserve it. *)
LEMMA RebuildPreserves ==
  ASSUME IInv, RebuildStep
  PROVE  IInv'
<1> USE DEF IInv, NearestSearchExcluded
<1>1. UNCHANGED <<upc, op, reader>>
  BY DEF RebuildStep, Iterate, Start, LockSearch, Flatten, UnlockSearch,
         BuildNew, DrainOne, Relock, Drained, Swap,
         UnlockSwap, FlagOff, DeleteDiscarded, NextIteration, callVars
<1>2. Counted' = Counted /\ Counted \in SUBSET Readers
  BY <1>1 DEF Counted
<1>3. /\ SearchLocked' => search_mutex_counter' = -1 /\ Counted' = {}
      /\ ~SearchLocked' => search_mutex_counter' = Cardinality(Counted')
  <2>1. CASE LockSearch
    BY <1>2, <2>1, CountedBounds DEF LockSearch, SearchLocked
  <2>2. CASE UnlockSearch
    BY <1>2, <2>2, FS_EmptySet DEF UnlockSearch, SearchLocked
  <2>3. CASE UnlockSwap
    BY <1>2, <2>3, FS_EmptySet DEF UnlockSwap, SearchLocked
  <2>4. CASE ~(LockSearch \/ UnlockSearch \/ UnlockSwap)
    <3>1. (SearchLocked' <=> SearchLocked) /\ search_mutex_counter' = search_mutex_counter
      BY <2>4
      DEF RebuildStep, Iterate, Start, Flatten, BuildNew, DrainOne, Relock,
          Drained, Swap, FlagOff,
                  DeleteDiscarded, NextIteration, SearchLocked, lockVars
    <3> QED BY <1>2, <3>1
  <2> QED BY <2>1, <2>2, <2>3, <2>4
<1>4. NearestSearchExcluded'
  BY <1>3, RebuildTypes
<1>5. PtrHeld'
  BY DEF PtrHeld, RebuildStep, Iterate, Start, LockSearch, Flatten,
         UnlockSearch, BuildNew, DrainOne, Relock,
         Drained, Swap, UnlockSwap, FlagOff, DeleteDiscarded, NextIteration
<1>6. InsideDiscarded'
  <2>1. CASE Swap
    <3>1. Counted = {}
      BY <2>1 DEF Swap, SearchLocked
    <3>2. Mapping \notin Readers
      BY RebuildAssumption DEF Mapping
    <3>3. /\ rpc' = "unlockSwap" /\ UNCHANGED search_flag_mutex
          /\ \A r \in Readers : r \in inDiscarded' => reader[r] \in {"loaded", "counted", "direct"}
          /\ Mapping \in inDiscarded' => upc \in {"pushdown", "check", "enter", "range"}
      BY <2>1, <3>2 DEF Swap, lockVars
    <3> QED BY <1>1, <3>1, <3>3 DEF InsideDiscarded, Counted
  <2>2. CASE UnlockSwap
    BY <1>1, <2>2 DEF UnlockSwap, InsideDiscarded
  <2>3. CASE ~(Swap \/ UnlockSwap)
    <3>1. UNCHANGED <<search_flag_mutex, inDiscarded, Rebuild_Ptr>> /\ rpc # "unlockSwap"
      BY <2>3
      DEF RebuildStep, Iterate, Start, LockSearch, Flatten, UnlockSearch,
          BuildNew, DrainOne, Relock,
          Drained, FlagOff, DeleteDiscarded, NextIteration, lockVars
    <3> QED BY <1>1, <3>1 DEF InsideDiscarded
  <2> QED BY <2>1, <2>2, <2>3
<1> QED BY <1>1, <1>4, <1>5, <1>6 DEF OpGiven, ReadersJoined

(* IInv is an invariant of the two threads and the searches. *)
LEMMA RebuildInductive == Spec => []IInv
<1>1. IInv /\ [Next]_vars => IInv'
  <2> SUFFICES ASSUME IInv, [Next]_vars PROVE IInv'
    OBVIOUS
  <2>1. CASE \/ \E operation \in Operations \cup {SEARCH} : Call(operation)
             \/ DeleteFather \/ Fork \/ stop_thread \/ MappingStep
    BY <2>1, CallPreserves
  <2>2. CASE \E r \in Readers : SearchStep(r)
    BY <2>2, SearchPreserves
  <2>3. CASE RebuildStep
    BY <2>3, RebuildPreserves
  <2>4. CASE UNCHANGED vars
    BY <2>4
    DEF vars, treeVars, callVars, rebuildVars, IInv, NearestSearchExcluded,
        TypeOK, SearchLocked, Counted,
                OpGiven, ReadersJoined, PtrHeld, InsideDiscarded
  <2> QED BY <2>1, <2>2, <2>3, <2>4 DEF Next
<1> QED BY <1>1, InitIInv, PTL DEF Spec

(* The counter is the number of the searches that were counted in, and     *)
(* none of these is in the subtree while it is flattened or replaced.      *)
THEOREM NearestSearchAlwaysExcluded == Spec => []NearestSearchExcluded
<1>1. IInv => NearestSearchExcluded
  BY DEF IInv
<1> QED BY <1>1, RebuildInductive, PTL

(* No search that went by a lock is in a subtree that is being deleted.    *)
THEOREM LockedSearchesAlwaysGone == Spec => []LockedSearchesGone
<1>1. IInv => LockedSearchesGone
  BY DEF IInv, InsideDiscarded, LockedSearchesGone, Counted
<1> QED BY <1>1, RebuildInductive, PTL
-----------------------------------------------------------------------------
(* The log and its replay. *)

\* What a rebuild may find in the log.
Loggable == Operations \cup {PUSH_DOWN}

(* An empty log changes nothing. *)
LEMMA ReplayNothing ==
  ASSUME NEW points \in SUBSET Points
  PROVE  Replay(points, <<>>) = points
<1>1. ASSUME NEW p \in Points PROVE p \in Replay(points, <<>>) <=> p \in points
  BY EmptySeq DEF Replay
<1>2. Replay(points, <<>>) \in SUBSET Points
  BY DEF Replay
<1> QED BY <1>1, <1>2

(* One more operation at the end of the log is carried out last. *)
LEMMA ReplayAppend ==
  ASSUME NEW points \in SUBSET Points, NEW log \in Seq(Loggable), NEW operation \in Loggable,
         operation.points \in SUBSET Points
  PROVE  Replay(points, Append(log, operation)) = run_operation(Replay(points, log), operation)
<1> DEFINE longer == Append(log, operation)
           end == Len(log) + 1
<1>1. /\ Len(log) \in Nat /\ Len(longer) = end
      /\ \A n \in 1 .. Len(log) : longer[n] = log[n]
      /\ longer[end] = operation
  BY AppendProperties, LenProperties
<1> HIDE DEF longer
<1>2. ASSUME NEW p \in Points
      PROVE  p \in Replay(points, longer) <=> p \in run_operation(Replay(points, log), operation)
  <2> DEFINE Last(n) == /\ IF n = 0 THEN p \in points ELSE Adds(log[n], p)
                        /\ \A m \in n + 1 .. Len(log) : ~Deletes(log[m], p)
             LastLonger(n) == /\ IF n = 0 THEN p \in points ELSE Adds(longer[n], p)
                              /\ \A m \in n + 1 .. end : ~Deletes(longer[m], p)
  <2>1. (p \in Replay(points, log) <=> \E n \in 0 .. Len(log) : Last(n))
        /\ (p \in Replay(points, longer) <=> \E n \in 0 .. end : LastLonger(n))
    BY <1>1 DEF Replay
  <2>2. ASSUME NEW n \in 0 .. Len(log) PROVE LastLonger(n) <=> Last(n) /\ ~Deletes(operation, p)
    BY <1>1
  <2>3. LastLonger(end) <=> Adds(operation, p)
    BY <1>1
  <2>4. 0 .. end = (0 .. Len(log)) \cup {end}
    BY <1>1
  <2> HIDE DEF Last, LastLonger
  <2>5. p \in Replay(points, longer) <=>
          Adds(operation, p) \/ (p \in Replay(points, log) /\ ~Deletes(operation, p))
    BY <2>1, <2>2, <2>3, <2>4
  <2> QED BY <2>5 DEF run_operation, Adds, Deletes
<1>3. Replay(points, longer) \in SUBSET Points /\ run_operation(Replay(points, log), operation) \in SUBSET Points
  BY DEF Replay, run_operation
<1> QED BY <1>2, <1>3 DEF longer

(* The first operation of a log may be carried out before the others. *)
LEMMA ReplayHead ==
  ASSUME NEW points \in SUBSET Points, NEW log \in Seq(Loggable), log # <<>>,
         Head(log).points \in SUBSET Points
  PROVE  Replay(run_operation(points, Head(log)), Tail(log)) = Replay(points, log)
<1> DEFINE rest == Tail(log)
           first == Head(log)
           done == run_operation(points, first)
<1>1. /\ Len(log) \in Nat \ {0} /\ Len(rest) = Len(log) - 1
      /\ \A n \in 1 .. Len(rest) : rest[n] = log[n + 1]
      /\ first = log[1]
  BY HeadTailProperties, EmptySeq, LenProperties
<1> HIDE DEF rest, first
<1>2. ASSUME NEW p \in Points
      PROVE  p \in Replay(done, rest) <=> p \in Replay(points, log)
  <2> DEFINE Last(n) == /\ IF n = 0 THEN p \in points ELSE Adds(log[n], p)
                        /\ \A m \in n + 1 .. Len(log) : ~Deletes(log[m], p)
             LastRest(n) == /\ IF n = 0 THEN p \in done ELSE Adds(rest[n], p)
                            /\ \A m \in n + 1 .. Len(rest) : ~Deletes(rest[m], p)
  <2>1. (p \in Replay(points, log) <=> \E n \in 0 .. Len(log) : Last(n))
        /\ (p \in Replay(done, rest) <=> \E n \in 0 .. Len(rest) : LastRest(n))
    BY DEF Replay
  <2>2. ASSUME NEW n \in 1 .. Len(rest) PROVE LastRest(n) <=> Last(n + 1)
    <3>1. Adds(rest[n], p) <=> Adds(log[n + 1], p)
      BY <1>1
    <3>2. (\A m \in n + 1 .. Len(rest) : ~Deletes(rest[m], p))
            <=> \A m \in n + 2 .. Len(log) : ~Deletes(log[m], p)
      <4>1. ASSUME NEW m \in n + 2 .. Len(log) PROVE m - 1 \in n + 1 .. Len(rest) /\ rest[m - 1] = log[m]
        BY <1>1
      <4>2. ASSUME NEW m \in n + 1 .. Len(rest) PROVE m + 1 \in n + 2 .. Len(log) /\ rest[m] = log[m + 1]
        BY <1>1
      <4> QED BY <4>1, <4>2
    <3> QED BY <1>1, <3>1, <3>2
  <2>3. LastRest(0) <=> Last(0) \/ Last(1)
    <3>1. (\A m \in 1 .. Len(rest) : ~Deletes(rest[m], p))
            <=> \A m \in 2 .. Len(log) : ~Deletes(log[m], p)
      <4>1. ASSUME NEW m \in 2 .. Len(log) PROVE m - 1 \in 1 .. Len(rest) /\ rest[m - 1] = log[m]
        BY <1>1
      <4>2. ASSUME NEW m \in 1 .. Len(rest) PROVE m + 1 \in 2 .. Len(log) /\ rest[m] = log[m + 1]
        BY <1>1
      <4> QED BY <4>1, <4>2
    <3>2. p \in done <=> Adds(first, p) \/ (p \in points /\ ~Deletes(first, p))
      BY DEF run_operation, Adds, Deletes
    <3>3. (\A m \in 1 .. Len(log) : ~Deletes(log[m], p))
            <=> ~Deletes(first, p) /\ \A m \in 2 .. Len(log) : ~Deletes(log[m], p)
      BY <1>1
    <3> QED BY <1>1, <3>1, <3>2, <3>3
  <2>4. (\E n \in 0 .. Len(rest) : LastRest(n))
          <=> LastRest(0) \/ \E n \in 1 .. Len(rest) : LastRest(n)
    <3>1. 0 .. Len(rest) = {0} \cup 1 .. Len(rest)
      BY <1>1
    <3> HIDE DEF LastRest
    <3> QED BY <3>1
  <2>5. (\E n \in 0 .. Len(log) : Last(n))
          <=> Last(0) \/ Last(1) \/ \E n \in 2 .. Len(log) : Last(n)
    <3>1. 0 .. Len(log) = {0, 1} \cup 2 .. Len(log)
      BY <1>1
    <3> HIDE DEF Last
    <3> QED BY <3>1
  <2>6. (\E n \in 1 .. Len(rest) : LastRest(n)) <=> \E n \in 2 .. Len(log) : Last(n)
    <3>1. ASSUME NEW n \in 2 .. Len(log), Last(n) PROVE \E k \in 1 .. Len(rest) : LastRest(k)
      <4>1. n - 1 \in 1 .. Len(rest) /\ (n - 1) + 1 = n
        BY <1>1
      <4> HIDE DEF Last, LastRest
      <4>2. LastRest(n - 1)
        BY <2>2, <3>1, <4>1
      <4> QED BY <4>1, <4>2
    <3>2. ASSUME NEW n \in 1 .. Len(rest), LastRest(n) PROVE \E k \in 2 .. Len(log) : Last(k)
      <4>1. n + 1 \in 2 .. Len(log)
        BY <1>1
      <4> HIDE DEF Last, LastRest
      <4> QED BY <2>2, <3>2, <4>1
    <3> QED BY <3>1, <3>2
  <2> HIDE DEF Last, LastRest
  <2> QED BY <2>1, <2>3, <2>4, <2>5, <2>6
<1>3. Replay(done, rest) \in SUBSET Points /\ Replay(points, log) \in SUBSET Points
  BY DEF Replay
<1> QED BY <1>2, <1>3 DEF rest, first
(* What keeps the log in step with the subtree: an operation that found no *)
(* rebuild asked for is over before one is; a rebuild logs from its start  *)
(* until after its swap; where nothing may be logged the rebuilding thread *)
(* holds working_flag_mutex; and of nothing flattened nothing is built.    *)
Replaying == {"lockSearch", "flatten", "unlockSearch", "build", "drain", "relock", "lockSwap", "swap"}
DirectUnasked == upc = "direct" => rpc = "unlockSwap" \/ ~Rebuild_Ptr
FlagHeld == rpc \in Replaying \cup {"unlockSwap", "flagOff"} => rebuild_flag
WorkingHeld ==
  /\ rpc \in {"lockSearch", "flatten", "unlockSearch", "drain"} => working_flag_mutex
  /\ rpc \in {"lockSwap", "swap"} /\ Rebuild_PCL_Storage # {} => working_flag_mutex
StartsClean == clean /\ rpc \in {"lockSearch", "flatten", "unlockSearch"} => Rebuild_Logger = <<>>

NothingBuilt ==
  /\ rpc \in {"build", "drain", "relock"} => Rebuild_PCL_Storage # {}
  /\ rpc \in {"lockSwap", "swap"} /\ Rebuild_PCL_Storage = {} => new_root_node = {}

LogInv == DirectUnasked /\ FlagHeld /\ WorkingHeld /\ StartsClean /\ NothingBuilt /\ LogCatchesUp

(* Before the first rebuild nothing is logged. *)
LEMMA InitLogInv == Init => LogInv
BY DEF Init, LogInv, DirectUnasked, FlagHeld, WorkingHeld, StartsClean, NothingBuilt,
       LogCatchesUp, Replaying

(* The types the replay of the log needs. *)
LEMMA LogTypes ==
  ASSUME IInv
  PROVE  /\ sub \in SUBSET Points /\ Rebuild_PCL_Storage \in SUBSET Points /\ new_root_node \in SUBSET Points
         /\ Rebuild_Logger \in Seq(Loggable)
         /\ \A operation \in Loggable : operation.points \in SUBSET Points
         /\ upc = "locked" => op \in Loggable
<1>1. PUSH_DOWN.points \in SUBSET Points
  BY DEF PUSH_DOWN
<1> QED
  BY <1>1, OperationTypes
  DEF IInv, NearestSearchExcluded, TypeOK, Loggable, OpGiven

(* A change of the subtree that goes to the log keeps a copy with the log   *)
(* in step.                                                                *)
LEMMA LoggedInStep ==
  ASSUME NEW copy \in SUBSET Points, NEW log \in Seq(Loggable), NEW operation \in Loggable,
         operation.points \in SUBSET Points, Replay(copy, log) = sub,
         sub' = run_operation(sub, operation)
  PROVE  Replay(copy, Append(log, operation)) = sub'
BY ReplayAppend

\* Steps of the mapping thread that change the subtree or the log.
LEMMA ApplyKeepsLog ==
  ASSUME IInv, LogInv, PushDown \/ PushDownLocked \/ ApplyDirect \/ ApplyLocked
  PROVE  LogInv'
<1>1. /\ UNCHANGED <<rpc, Rebuild_PCL_Storage, new_root_node, clean, Rebuild_Ptr, rebuild_flag, working_flag_mutex>>
      /\ upc' # "direct"
  BY DEF PushDown, PushDownLocked, ApplyDirect, ApplyLocked, rebuildVars,
         lockVars
<1>2. DirectUnasked' /\ FlagHeld' /\ WorkingHeld' /\ NothingBuilt'
  BY <1>1 DEF LogInv, DirectUnasked, FlagHeld, WorkingHeld, NothingBuilt
<1>3. \/ UNCHANGED <<sub, Rebuild_Logger>>
      \/ rpc \notin Replaying
      \/ /\ ~working_flag_mutex
         /\ \E operation \in Loggable : /\ sub' = run_operation(sub, operation)
                                        /\ Rebuild_Logger' = Append(Rebuild_Logger, operation)
  <2>1. CASE PushDown
    BY <2>1 DEF PushDown, Visible, Replaying, IInv, PtrHeld
  <2>2. CASE PushDownLocked /\ rpc \in Replaying
    <3>1. rebuild_flag
      BY <2>2 DEF LogInv, FlagHeld
    <3>2. sub \ Points = {}
      BY LogTypes
    <3>3. run_operation(sub, PUSH_DOWN) = {}
      BY <3>2 DEF run_operation, PUSH_DOWN
    <3>4. PUSH_DOWN \in Loggable
      BY DEF Loggable
    <3> QED BY <2>2, <3>1, <3>3, <3>4 DEF PushDownLocked, Logged
  <2>3. CASE ApplyDirect
    BY <2>3 DEF ApplyDirect, Replaying, IInv, PtrHeld, LogInv, DirectUnasked
  <2>4. CASE ApplyLocked /\ rpc \in Replaying
    <3>1. rebuild_flag
      BY <2>4 DEF LogInv, FlagHeld
    <3>2. op \in Loggable
      BY <2>4, LogTypes DEF ApplyLocked
    <3> QED BY <2>4, <3>1, <3>2 DEF ApplyLocked, Logged
  <2> QED BY <2>1, <2>2, <2>3, <2>4
<1>4. CASE UNCHANGED <<sub, Rebuild_Logger>>
  BY <1>1, <1>2, <1>4 DEF LogInv, StartsClean, LogCatchesUp
<1>5. CASE rpc \notin Replaying
  BY <1>1, <1>2, <1>5 DEF LogInv, StartsClean, LogCatchesUp, Replaying
<1>6. ASSUME ~working_flag_mutex, rpc \in Replaying, NEW operation \in Loggable,
             sub' = run_operation(sub, operation), Rebuild_Logger' = Append(Rebuild_Logger, operation)
      PROVE  LogInv'
  <2>1. /\ rpc \notin {"lockSearch", "flatten", "unlockSearch", "drain"}
        /\ rpc \in {"lockSwap", "swap"} => Rebuild_PCL_Storage = {}
    BY <1>6 DEF LogInv, WorkingHeld
  <2>2. StartsClean'
    BY <1>1, <2>1 DEF StartsClean
  <2>3. operation.points \in SUBSET Points /\ Rebuild_Logger \in Seq(Loggable)
        /\ Rebuild_PCL_Storage \in SUBSET Points /\ new_root_node \in SUBSET Points
    BY LogTypes
  <2>4. ASSUME clean', Rebuild_PCL_Storage' # {}, rpc' = "build"
        PROVE  Replay(Rebuild_PCL_Storage', Rebuild_Logger') = sub'
    <3>1. Replay(Rebuild_PCL_Storage, Rebuild_Logger) = sub
      BY <1>1, <2>4 DEF LogInv, LogCatchesUp
    <3> QED BY <1>1, <1>6, <2>3, <3>1, LoggedInStep
  <2>5. ASSUME clean', Rebuild_PCL_Storage' # {}, rpc' = "relock"
        PROVE  Replay(new_root_node', Rebuild_Logger') = sub'
    <3>1. Replay(new_root_node, Rebuild_Logger) = sub
      BY <1>1, <2>5 DEF LogInv, LogCatchesUp
    <3> QED BY <1>1, <1>6, <2>3, <3>1, LoggedInStep
  <2>6. LogCatchesUp'
    BY <1>1, <2>1, <2>4, <2>5 DEF LogCatchesUp
  <2> QED BY <1>2, <2>2, <2>6 DEF LogInv
<1> QED BY <1>3, <1>4, <1>5, <1>6

\* The mapping thread's other steps, and the search threads'.
LEMMA OthersKeepLog ==
  ASSUME IInv, LogInv,
         \/ \E operation \in Operations \cup {SEARCH} : Call(operation)
         \/ DeleteFather \/ Fork \/ stop_thread
         \/ Check \/ Rebuild \/ RangeLocked \/ RangeUnlocked \/ EndRange \/ Join \/ Joined
         \/ \E r \in Readers : SearchStep(r)
  PROVE  LogInv'
<1>1. UNCHANGED <<sub, rpc, Rebuild_PCL_Storage, new_root_node, clean, rebuild_flag, working_flag_mutex, Rebuild_Logger>>
  BY DEF Call, DeleteFather, Fork, stop_thread, Check, Rebuild, RangeLocked, RangeUnlocked,
         EndRange, Join, Joined, SearchStep,
         SearchLoad, SearchTooFar, SearchCheck, SearchEnter, SearchLeave, treeVars, rebuildVars, lockVars
<1>2. DirectUnasked'
  <2>1. CASE Check
    <3>1. upc' = "direct" => ~Rebuild_Ptr \/ Mapping \in inDiscarded
      BY <2>1 DEF Check
    <3>2. inDiscarded # {} => rpc = "unlockSwap" \/ ~Rebuild_Ptr
      BY DEF IInv, InsideDiscarded
    <3>3. Rebuild_Ptr' = Rebuild_Ptr
      BY <2>1 DEF Check
    <3> QED BY <1>1, <3>1, <3>2, <3>3 DEF DirectUnasked
  <2>2. CASE ~Check
    <3>1. upc' = "direct" => upc = "direct" /\ Rebuild_Ptr' = Rebuild_Ptr
      BY <2>2
      DEF Call, DeleteFather, Fork, stop_thread, Rebuild, RangeLocked, RangeUnlocked, EndRange, Join, Joined,
          SearchStep, SearchLoad, SearchTooFar, SearchCheck, SearchEnter, SearchLeave, callVars
    <3> QED BY <1>1, <3>1 DEF LogInv, DirectUnasked
  <2> QED BY <2>1, <2>2
<1> QED
  BY <1>1, <1>2 DEF LogInv, FlagHeld, WorkingHeld, StartsClean, NothingBuilt, LogCatchesUp

(* The rebuilding thread: the flatten starts from an empty log, and every  *)
(* logged operation it carries out leaves the log.                         *)
LEMMA RebuildKeepsLog ==
  ASSUME IInv, LogInv, RebuildStep
  PROVE  LogInv'
<1>1. UNCHANGED upc /\ (Rebuild_Ptr' => Rebuild_Ptr /\ rpc # "unlockSwap")
  BY DEF RebuildStep, Iterate, Start, LockSearch, Flatten, UnlockSearch,
         BuildNew, DrainOne, Relock, Drained, Swap,
         UnlockSwap, FlagOff, DeleteDiscarded, NextIteration, callVars
<1>2. DirectUnasked'
  BY <1>1 DEF LogInv, DirectUnasked
<1>3. FlagHeld'
  BY DEF LogInv, FlagHeld, Replaying, RebuildStep, Iterate, Start, LockSearch,
         Flatten, UnlockSearch, BuildNew,
         DrainOne, Relock, Drained, Swap, UnlockSwap, FlagOff, DeleteDiscarded, NextIteration
<1>4. WorkingHeld'
  BY DEF LogInv, WorkingHeld, RebuildStep, Iterate, Start, LockSearch,
         Flatten, UnlockSearch, BuildNew, DrainOne,
         Relock, Drained, Swap, UnlockSwap, FlagOff, DeleteDiscarded, NextIteration, lockVars
<1>5. StartsClean'
  BY DEF LogInv, StartsClean, RebuildStep, Iterate, Start, LockSearch,
         Flatten, UnlockSearch, BuildNew, DrainOne,
         Relock, Drained, Swap, UnlockSwap, FlagOff, DeleteDiscarded, NextIteration
<1>6. NothingBuilt'
  BY DEF LogInv, NothingBuilt, RebuildStep, Iterate, Start, LockSearch,
         Flatten, UnlockSearch, BuildNew, DrainOne,
         Relock, Drained, Swap, UnlockSwap, FlagOff, DeleteDiscarded, NextIteration
<1>7. LogCatchesUp'
  <2> USE DEF LogInv, LogCatchesUp
  <2>1. CASE Flatten
    <3>1. clean => Rebuild_Logger = <<>>
      BY <2>1 DEF Flatten, StartsClean
    <3>2. Replay(sub, <<>>) = sub
      BY LogTypes, ReplayNothing
    <3> QED BY <2>1, <3>1, <3>2 DEF Flatten, rebuildVars, treeVars
  <2>2. CASE DrainOne
    <3>1. /\ Rebuild_Logger # <<>> /\ Rebuild_Logger \in Seq(Loggable) /\ new_root_node \in SUBSET Points
          /\ Head(Rebuild_Logger).points \in SUBSET Points
      <4>1. Rebuild_Logger # <<>>
        BY <2>2 DEF DrainOne
      <4>2. Head(Rebuild_Logger) \in Loggable
        BY <4>1, LogTypes, HeadTailProperties
      <4> QED BY <4>1, <4>2, LogTypes
    <3>2. Replay(new_root_node', Rebuild_Logger') = Replay(new_root_node, Rebuild_Logger)
      BY <2>2, <3>1, ReplayHead DEF DrainOne
    <3> QED BY <2>2, <3>2 DEF DrainOne, treeVars
  <2>3. CASE UnlockSearch
    BY <2>3 DEF UnlockSearch, treeVars
  <2>4. CASE BuildNew
    BY <2>4 DEF BuildNew, treeVars
  <2>5. CASE Relock \/ Drained \/ LockSearch
    BY <2>5 DEF Relock, Drained, LockSearch, treeVars, lockVars
  <2>6. CASE Iterate \/ Start \/ Swap \/ UnlockSwap \/ FlagOff \/ DeleteDiscarded \/ NextIteration
    BY <2>6
    DEF Iterate, Start, Swap, UnlockSwap, FlagOff, DeleteDiscarded,
        NextIteration
  <2> QED BY <2>1, <2>2, <2>3, <2>4, <2>5, <2>6 DEF RebuildStep
<1> QED BY <1>2, <1>3, <1>4, <1>5, <1>6, <1>7 DEF LogInv

(* The two invariants hold together. *)
LEMMA LogInductive == Spec => [](IInv /\ LogInv)
<1>1. IInv /\ LogInv /\ [Next]_vars => LogInv'
  <2> SUFFICES ASSUME IInv, LogInv, [Next]_vars PROVE LogInv'
    OBVIOUS
  <2>1. CASE PushDown \/ PushDownLocked \/ ApplyDirect \/ ApplyLocked
    BY <2>1, ApplyKeepsLog
  <2>2. CASE RebuildStep
    BY <2>2, RebuildKeepsLog
  <2>3. CASE UNCHANGED vars
    BY <2>3
    DEF vars, treeVars, callVars, rebuildVars, LogInv, DirectUnasked,
        FlagHeld, WorkingHeld, StartsClean, NothingBuilt, LogCatchesUp
  <2> QED BY <2>1, <2>2, <2>3, OthersKeepLog DEF Next, MappingStep
<1> QED BY <1>1, InitLogInv, RebuildInductive, PTL DEF Spec

(* From the flatten to the swap the new subtree and what is still logged   *)
(* make up the subtree callers see, in a rebuild that began with an empty  *)
(* log and whose flatten found a point.                                    *)
THEOREM LogAlwaysCatchesUp == Spec => []LogCatchesUp
<1>1. LogInv => LogCatchesUp
  BY DEF LogInv
<1> QED BY <1>1, LogInductive, PTL

(* The swap of a rebuild that began with an empty log: if the flatten      *)
(* found a point, the new subtree has the points of the one it replaces,   *)
(* and no caller sees the swap; if it found none the new subtree is empty, *)
(* and what was added since is lost, since nothing replays the log.        *)
SwapOutcome == [][Swap /\ clean => sub' = IF Rebuild_PCL_Storage = {} THEN {} ELSE sub]_vars

(* What a swap leaves of the operations carried out during the rebuild, if *)
(* none was left in the log by an earlier one: all of them, or, where the  *)
(* flatten found no point, none.                                           *)
THEOREM SwapsKeepOrEmpty == Spec => SwapOutcome
<1>1. ASSUME IInv, LogInv, Swap, clean, Rebuild_PCL_Storage # {} PROVE sub' = sub
  <2>1. Rebuild_Logger = <<>> /\ Replay(new_root_node, Rebuild_Logger) = sub
    BY <1>1 DEF Swap, LogInv, LogCatchesUp
  <2>2. new_root_node = sub
    BY <1>1, <2>1, LogTypes, ReplayNothing
  <2> QED BY <1>1, <2>2 DEF Swap
<1>2. ASSUME LogInv, Swap, Rebuild_PCL_Storage = {} PROVE sub' = {}
  BY <1>2 DEF Swap, LogInv, NothingBuilt
<1>3. IInv /\ LogInv => [Swap /\ clean => sub' = IF Rebuild_PCL_Storage = {} THEN {} ELSE sub]_vars
  BY <1>1, <1>2
<1> QED BY <1>3, LogInductive, PTL DEF SwapOutcome
-----------------------------------------------------------------------------
\* The nodes whose sons are members of S.
Node(S) ==
  [point : [Axes -> Int], division_axis : Axes, left_son_ptr : S, right_son_ptr : S,
   TreeSize : Nat, invalid_point_num : Nat, down_del_num : Nat,
   point_deleted : BOOLEAN, tree_deleted : BOOLEAN,
   point_downsample_deleted : BOOLEAN, tree_downsample_deleted : BOOLEAN,
   need_push_down_to_left : BOOLEAN, need_push_down_to_right : BOOLEAN,
   lo : [Axes -> Int], hi : [Axes -> Int]]

\* A set of subtrees with all that is below them, and nullptr for none.
Trees(S) == S \subseteq Node(S) \cup {nullptr} /\ nullptr \notin Node(S)

\* A way down from w[0] to w[n], each node passed being pushed down first.
Walk(w, n, S) ==
  /\ n \in Nat /\ w \in [0 .. n -> Node(S)]
  /\ \A i \in 0 .. n - 1 : w[i + 1] \in Sons(Push_Down(w[i]))

\* A subtree deleted as a whole: its counts say so and its flags are pending.
WhollyDeleted(t) ==
  /\ t.tree_deleted /\ t.point_deleted /\ t.invalid_point_num = t.TreeSize
  /\ t.need_push_down_to_left /\ t.need_push_down_to_right

\* A set of nodes with all that is below them, each of which follows from its sons.
ExactBelow(X) == \A t \in X : Sons(Push_Down(t)) \subseteq X /\ NodeExact(Push_Down(t))

\* The size a node gives is that of its sons and itself.
SizeExact(t) ==
  LET size(s) == IF s = nullptr THEN 0 ELSE s.TreeSize
  IN  t.TreeSize = 1 + size(t.left_son_ptr) + size(t.right_son_ptr)

(* A set of numbers has a least one. *)
LEMMA LeastExists ==
  ASSUME NEW T \in SUBSET Nat, T # {}
  PROVE  \E k \in T : \A l \in T : ~(l < k)
<1>1. IsWellFoundedOn(OpToRel(<, Nat), Nat)
  BY NatLessThanWellFounded
<1>2. \E k \in T : \A l \in T : ~(<<l, k>> \in OpToRel(<, Nat))
  BY <1>1, WFMin
<1>3. ASSUME NEW k \in Nat, NEW l \in Nat, l < k PROVE <<l, k>> \in OpToRel(<, Nat)
  BY <1>3 DEF OpToRel
<1> QED BY <1>2, <1>3

(* What holds at the top of a walk and passes from each node to the next   *)
(* holds all the way down.                                                 *)
LEMMA DownTheWalk ==
  ASSUME NEW n \in Nat, NEW H \in SUBSET (0 .. n),
         0 \in H, \A i \in 0 .. n - 1 : i \in H => i + 1 \in H
  PROVE  H = 0 .. n
<1> DEFINE T == (0 .. n) \ H
<1>1. T \in SUBSET Nat
  OBVIOUS
<1>2. ASSUME T # {} PROVE FALSE
  <2>1. PICK k \in T : \A l \in T : ~(l < k)
    BY <1>1, <1>2, LeastExists
  <2>2. k # 0 /\ k - 1 \in 0 .. n - 1 /\ (k - 1) + 1 = k
    BY <2>1
  <2>3. k - 1 \notin T
    BY <2>1, <2>2
  <2>4. k - 1 \in H
    BY <2>2, <2>3
  <2> QED BY <2>1, <2>2, <2>4
<1> QED BY <1>2

(* What holds at the end of a walk and passes from each node to its father *)
(* holds all the way up.                                                   *)
LEMMA UpTheWalk ==
  ASSUME NEW n \in Nat, NEW H \in SUBSET (0 .. n),
         n \in H, \A i \in 0 .. n - 1 : i + 1 \in H => i \in H
  PROVE  H = 0 .. n
<1> DEFINE T == {j \in 0 .. n : n - j \notin H}
<1>1. T \in SUBSET Nat
  OBVIOUS
<1>2. ASSUME T # {} PROVE FALSE
  <2>1. PICK k \in T : \A l \in T : ~(l < k)
    BY <1>1, <1>2, LeastExists
  <2>2. k \in 0 .. n /\ n - k \notin H
    BY <2>1
  <2>3. k # 0
    BY <2>2
  <2>4. k - 1 \in 0 .. n /\ k - 1 < k
    BY <2>2, <2>3
  <2>5. n - (k - 1) \in H
    BY <2>1, <2>4
  <2>6. n - k \in 0 .. n - 1 /\ (n - k) + 1 = n - (k - 1)
    BY <2>2, <2>3
  <2> QED BY <2>2, <2>5, <2>6
<1>3. \A i \in 0 .. n : i \in H
  <2>1. SUFFICES ASSUME NEW i \in 0 .. n PROVE i \in H
    OBVIOUS
  <2>2. n - i \in 0 .. n /\ n - (n - i) = i
    OBVIOUS
  <2> QED BY <1>2, <2>2
<1> QED BY <1>3

(* Min and Max name the least and the greatest of up to three numbers: a    *)
(* node and its two sons.                                                  *)
LEMMA MinMax ==
  ASSUME NEW a \in Int, NEW b \in Int, NEW c \in Int, NEW S \in SUBSET {a, b, c}, S # {}
  PROVE  /\ Min(S) \in Int /\ \A x \in S : Min(S) <= x
         /\ Max(S) \in Int /\ \A x \in S : x <= Max(S)
<1>0. /\ a \in S \/ b \in S \/ c \in S
      /\ \A y \in S : y = a \/ y = b \/ y = c
  OBVIOUS
<1>1. \E x \in S : \A y \in S : x <= y
  <2>1. CASE a \in S /\ (b \in S => a <= b) /\ (c \in S => a <= c)
    BY <1>0, <2>1
  <2>2. CASE b \in S /\ (a \in S => b <= a) /\ (c \in S => b <= c)
    BY <1>0, <2>2
  <2>3. CASE c \in S /\ (a \in S => c <= a) /\ (b \in S => c <= b)
    BY <1>0, <2>3
  <2> QED BY <1>0, <2>1, <2>2, <2>3
<1>2. \E x \in S : \A y \in S : x >= y
  <2>1. CASE a \in S /\ (b \in S => a >= b) /\ (c \in S => a >= c)
    BY <1>0, <2>1
  <2>2. CASE b \in S /\ (a \in S => b >= a) /\ (c \in S => b >= c)
    BY <1>0, <2>2
  <2>3. CASE c \in S /\ (a \in S => c >= a) /\ (b \in S => c >= b)
    BY <1>0, <2>3
  <2> QED BY <1>0, <2>1, <2>2, <2>3
<1>3. Min(S) \in S /\ \A x \in S : Min(S) <= x
  BY <1>1 DEF Min
<1>4. Max(S) \in S /\ \A x \in S : Max(S) >= x
  BY <1>2 DEF Max
<1>5. S \subseteq Int
  OBVIOUS
<1> QED BY <1>3, <1>4, <1>5

(* The box around up to three spans holds each of them.                    *)
LEMMA SpansEnclosed ==
  ASSUME NEW r \in [Axes -> Int] \X [Axes -> Int], NEW s \in [Axes -> Int] \X [Axes -> Int],
         NEW u \in [Axes -> Int] \X [Axes -> Int], NEW spans \in SUBSET {r, s, u}, spans # {}
  PROVE  /\ Lowest(spans) \in [Axes -> Int] /\ Highest(spans) \in [Axes -> Int]
         /\ \A x \in spans, i \in Axes : Lowest(spans)[i] <= x[1][i] /\ x[2][i] <= Highest(spans)[i]
<1>1. ASSUME NEW i \in Axes
      PROVE  /\ Lowest(spans)[i] \in Int /\ \A x \in spans : Lowest(spans)[i] <= x[1][i]
             /\ Highest(spans)[i] \in Int /\ \A x \in spans : x[2][i] <= Highest(spans)[i]
  <2> DEFINE Low == {x[1][i] : x \in spans}
             High == {x[2][i] : x \in spans}
  <2>1. /\ r[1][i] \in Int /\ s[1][i] \in Int /\ u[1][i] \in Int
        /\ r[2][i] \in Int /\ s[2][i] \in Int /\ u[2][i] \in Int
    OBVIOUS
  <2>2. Lowest(spans)[i] = Min(Low) /\ Highest(spans)[i] = Max(High)
    BY DEF Lowest, Highest
  <2>3. Min(Low) \in Int /\ \A y \in Low : Min(Low) <= y
    <3> DEFINE a == r[1][i]
               b == s[1][i]
               c == u[1][i]
    <3>1. Low \in SUBSET {a, b, c} /\ Low # {} /\ a \in Int /\ b \in Int /\ c \in Int
      BY <2>1
    <3> HIDE DEF Low, a, b, c
    <3> QED BY <3>1, MinMax
  <2>4. Max(High) \in Int /\ \A y \in High : y <= Max(High)
    <3> DEFINE a == r[2][i]
               b == s[2][i]
               c == u[2][i]
    <3>1. High \in SUBSET {a, b, c} /\ High # {} /\ a \in Int /\ b \in Int /\ c \in Int
      BY <2>1
    <3> HIDE DEF High, a, b, c
    <3> QED BY <3>1, MinMax
  <2> HIDE DEF Low, High
  <2>5. \A x \in spans : x[1][i] \in Low /\ x[2][i] \in High
    BY DEF Low, High
  <2> QED BY <2>2, <2>3, <2>4, <2>5
<1>2. Lowest(spans) \in [Axes -> Int] /\ Highest(spans) \in [Axes -> Int]
  BY <1>1 DEF Lowest, Highest
<1> QED BY <1>1, <1>2

(* Whatever a node said before, Update makes it follow from its sons: the   *)
(* count of the live points, whether there are any, and a range around     *)
(* them, also where one son, or the node's own point, is deleted.          *)
THEOREM UpdateMakesExact ==
  ASSUME NEW S, Trees(S), NEW t \in Node(S)
  PROVE  /\ Update(t) \in Node(S) /\ NodeExact(Update(t))
         /\ Update(t).point = t.point /\ Update(t).point_deleted = t.point_deleted
         /\ Update(t).left_son_ptr = t.left_son_ptr /\ Update(t).right_son_ptr = t.right_son_ptr
<1> DEFINE dead == t.point_deleted /\ \A s \in Sons(t) : s.tree_deleted
           spans == {<<s.lo, s.hi>> : s \in {r \in Sons(t) : dead \/ ~r.tree_deleted}}
                    \cup (IF dead \/ ~t.point_deleted THEN {<<t.point, t.point>>} ELSE {})
           own == <<t.point, t.point>>
           span(s) == IF s = nullptr THEN own ELSE <<s.lo, s.hi>>
           size(s) == IF s = nullptr THEN 0 ELSE s.TreeSize
           invalid(s) == IF s = nullptr THEN 0 ELSE s.invalid_point_num
           down(s) == IF s = nullptr THEN 0 ELSE s.down_del_num
           l == t.left_son_ptr
           r == t.right_son_ptr
           u == Update(t)
<1>1. /\ l \in S /\ r \in S /\ t.point \in [Axes -> Int]
      /\ t.point_deleted \in BOOLEAN /\ t.point_downsample_deleted \in BOOLEAN
  BY DEF Node
<1>2. ASSUME NEW s \in S, s # nullptr
      PROVE  /\ s.TreeSize \in Nat /\ s.invalid_point_num \in Nat /\ s.down_del_num \in Nat
             /\ s.tree_deleted \in BOOLEAN /\ s.tree_downsample_deleted \in BOOLEAN
             /\ s.lo \in [Axes -> Int] /\ s.hi \in [Axes -> Int]
  <2>1. s \in Node(S)
    BY <1>2 DEF Trees
  <2> QED BY <2>1 DEF Node
<1>3. Sons(t) \subseteq S /\ nullptr \notin Sons(t) /\ \A s \in Sons(t) : s = l \/ s = r
  BY <1>1 DEF Sons
<1>4. spans # {}
  <2>1. CASE dead \/ ~t.point_deleted
    BY <2>1
  <2>2. CASE ~dead /\ t.point_deleted
    <3>1. PICK s \in Sons(t) : ~s.tree_deleted
      BY <2>2
    <3> QED BY <3>1
  <2> QED BY <2>1, <2>2
<1>5. spans \in SUBSET {span(l), span(r), own}
  BY <1>3
<1>6. own \in [Axes -> Int] \X [Axes -> Int] /\ span(l) \in [Axes -> Int] \X [Axes -> Int]
      /\ span(r) \in [Axes -> Int] \X [Axes -> Int]
  BY <1>1, <1>2
<1>7. /\ Lowest(spans) \in [Axes -> Int] /\ Highest(spans) \in [Axes -> Int]
      /\ \A x \in spans, i \in Axes : Lowest(spans)[i] <= x[1][i] /\ x[2][i] <= Highest(spans)[i]
  <2> HIDE DEF own, span, spans
  <2> QED BY <1>4, <1>5, <1>6, SpansEnclosed
<1>8. u = [t EXCEPT !.TreeSize = 1 + size(l) + size(r),
                    !.invalid_point_num = (IF t.point_deleted THEN 1 ELSE 0) + invalid(l) + invalid(r),
                    !.down_del_num = (IF t.point_downsample_deleted THEN 1 ELSE 0) + down(l) + down(r),
                    !.tree_downsample_deleted = t.point_downsample_deleted
                                                /\ \A s \in Sons(t) : s.tree_downsample_deleted,
                    !.tree_deleted = dead, !.lo = Lowest(spans), !.hi = Highest(spans)]
  BY DEF Update
<1>9. /\ size(l) \in Nat /\ size(r) \in Nat /\ invalid(l) \in Nat /\ invalid(r) \in Nat
      /\ down(l) \in Nat /\ down(r) \in Nat
  BY <1>1, <1>2
<1>10. /\ u.point = t.point /\ u.point_deleted = t.point_deleted
       /\ u.left_son_ptr = l /\ u.right_son_ptr = r
       /\ u.TreeSize = 1 + size(l) + size(r)
       /\ u.invalid_point_num = (IF t.point_deleted THEN 1 ELSE 0) + invalid(l) + invalid(r)
       /\ u.tree_deleted = dead
       /\ u.lo = Lowest(spans) /\ u.hi = Highest(spans)
  <2> HIDE DEF u, spans, dead, size, invalid, down
  <2> QED BY <1>8 DEF Node
<1>11. u \in Node(S)
  <2>1. dead \in BOOLEAN
    OBVIOUS
  <2>2. (t.point_downsample_deleted /\ \A s \in Sons(t) : s.tree_downsample_deleted) \in BOOLEAN
    OBVIOUS
  <2> HIDE DEF u, spans, dead, size, invalid, down
  <2>3. 1 + size(l) + size(r) \in Nat
    BY <1>9
  <2>4. (IF t.point_deleted THEN 1 ELSE 0) + invalid(l) + invalid(r) \in Nat
    BY <1>1, <1>9
  <2>5. (IF t.point_downsample_deleted THEN 1 ELSE 0) + down(l) + down(r) \in Nat
    BY <1>1, <1>9
  <2> DEFINE a == 1 + size(l) + size(r)
             b == (IF t.point_deleted THEN 1 ELSE 0) + invalid(l) + invalid(r)
             c == (IF t.point_downsample_deleted THEN 1 ELSE 0) + down(l) + down(r)
             d == t.point_downsample_deleted /\ \A s \in Sons(t) : s.tree_downsample_deleted
             f == Lowest(spans)
             g == Highest(spans)
  <2>6. u = [t EXCEPT !.TreeSize = a, !.invalid_point_num = b, !.down_del_num = c,
                      !.tree_downsample_deleted = d, !.tree_deleted = dead, !.lo = f, !.hi = g]
    BY <1>8
  <2> DEFINE P == [Axes -> Int]
  <2>7. /\ a \in Nat /\ b \in Nat /\ c \in Nat /\ d \in BOOLEAN /\ dead \in BOOLEAN
        /\ f \in P /\ g \in P
    BY <1>7, <2>1, <2>2, <2>3, <2>4, <2>5
  <2>8. t \in [point : P, division_axis : Axes, left_son_ptr : S, right_son_ptr : S,
               TreeSize : Nat, invalid_point_num : Nat, down_del_num : Nat,
               point_deleted : BOOLEAN, tree_deleted : BOOLEAN,
               point_downsample_deleted : BOOLEAN, tree_downsample_deleted : BOOLEAN,
               need_push_down_to_left : BOOLEAN, need_push_down_to_right : BOOLEAN,
               lo : P, hi : P]
    BY DEF Node
  <2> HIDE DEF a, b, c, d, f, g, P
  <2>9. [t EXCEPT !.TreeSize = a, !.invalid_point_num = b, !.down_del_num = c,
                  !.tree_downsample_deleted = d, !.tree_deleted = dead, !.lo = f, !.hi = g]
        \in [point : P, division_axis : Axes, left_son_ptr : S, right_son_ptr : S,
             TreeSize : Nat, invalid_point_num : Nat, down_del_num : Nat,
             point_deleted : BOOLEAN, tree_deleted : BOOLEAN,
             point_downsample_deleted : BOOLEAN, tree_downsample_deleted : BOOLEAN,
             need_push_down_to_left : BOOLEAN, need_push_down_to_right : BOOLEAN,
             lo : P, hi : P]
    BY <2>7, <2>8
  <2> QED BY <2>6, <2>9 DEF Node, P
<1>12. Sons(u) = Sons(t)
  BY <1>10 DEF Sons
<1>13. NodeExact(u)
  <2>1. u.TreeSize = 1 + size(u.left_son_ptr) + size(u.right_son_ptr)
    BY <1>10
  <2>2. u.TreeSize - u.invalid_point_num
          = (IF u.point_deleted THEN 0 ELSE 1)
            + (IF u.left_son_ptr = nullptr THEN 0 ELSE u.left_son_ptr.TreeSize - u.left_son_ptr.invalid_point_num)
            + (IF u.right_son_ptr = nullptr THEN 0 ELSE u.right_son_ptr.TreeSize - u.right_son_ptr.invalid_point_num)
    BY <1>1, <1>9, <1>10
  <2>3. u.tree_deleted <=> u.point_deleted /\ \A s \in Sons(u) : s.tree_deleted
    BY <1>10, <1>12
  <2>4. ASSUME NEW i \in Axes, ~u.point_deleted PROVE u.lo[i] <= u.point[i] /\ u.point[i] <= u.hi[i]
    <3>1. own \in spans
      BY <1>10, <2>4
    <3>2. own[1] = u.point /\ own[2] = u.point
      BY <1>10
    <3> HIDE DEF own, spans, u
    <3> QED BY <1>7, <1>10, <3>1, <3>2
  <2>5. ASSUME NEW i \in Axes, NEW s \in Sons(u), ~s.tree_deleted
        PROVE  u.lo[i] <= s.lo[i] /\ s.hi[i] <= u.hi[i]
    <3>1. <<s.lo, s.hi>> \in spans
      BY <1>12, <2>5
    <3>2. <<s.lo, s.hi>>[1] = s.lo /\ <<s.lo, s.hi>>[2] = s.hi
      OBVIOUS
    <3> HIDE DEF spans, u
    <3> QED BY <1>7, <1>10, <3>1, <3>2
  <2> HIDE DEF u
  <2> QED BY <2>1, <2>2, <2>3, <2>4, <2>5 DEF NodeExact
<1> QED BY <1>10, <1>11, <1>12, <1>13

(* A son that is pushed down stays the node it was, and a deleted father    *)
(* makes it deleted as a whole.                                             *)
LEMMA PushedSon ==
  ASSUME NEW S, NEW t \in Node(S), NEW s \in Node(S)
  PROVE  /\ Pushed(t, s) \in Node(S)
         /\ Pushed(t, s).TreeSize = s.TreeSize
         /\ t.tree_deleted => WhollyDeleted(Pushed(t, s))
<1> DEFINE P == [Axes -> Int]
           ds == s.tree_downsample_deleted \/ t.tree_downsample_deleted
           pds == s.point_downsample_deleted \/ t.tree_downsample_deleted
           td == t.tree_deleted \/ ds
           pd == t.tree_deleted \/ ds \/ pds
           dd == IF t.tree_downsample_deleted THEN s.TreeSize ELSE s.down_del_num
           inv == IF t.tree_deleted THEN s.TreeSize ELSE dd
           v == [s EXCEPT !.tree_downsample_deleted = ds, !.point_downsample_deleted = pds,
                          !.tree_deleted = td, !.point_deleted = pd, !.down_del_num = dd,
                          !.invalid_point_num = inv,
                          !.need_push_down_to_left = TRUE, !.need_push_down_to_right = TRUE]
<1>1. Pushed(t, s) = v
  BY DEF Pushed
<1>2. /\ s.TreeSize \in Nat /\ s.down_del_num \in Nat
      /\ s.tree_downsample_deleted \in BOOLEAN /\ s.point_downsample_deleted \in BOOLEAN
      /\ t.tree_deleted \in BOOLEAN /\ t.tree_downsample_deleted \in BOOLEAN
  BY DEF Node
<1>3. /\ ds \in BOOLEAN /\ pds \in BOOLEAN /\ td \in BOOLEAN /\ pd \in BOOLEAN
      /\ dd \in Nat /\ inv \in Nat
  BY <1>2
<1>4. t.tree_deleted => td /\ pd /\ inv = s.TreeSize
  OBVIOUS
<1>5. s \in [point : P, division_axis : Axes, left_son_ptr : S, right_son_ptr : S,
             TreeSize : Nat, invalid_point_num : Nat, down_del_num : Nat,
             point_deleted : BOOLEAN, tree_deleted : BOOLEAN,
             point_downsample_deleted : BOOLEAN, tree_downsample_deleted : BOOLEAN,
             need_push_down_to_left : BOOLEAN, need_push_down_to_right : BOOLEAN,
             lo : P, hi : P]
  BY DEF Node
<1> HIDE DEF P, ds, pds, td, pd, dd, inv
<1>6. v \in [point : P, division_axis : Axes, left_son_ptr : S, right_son_ptr : S,
             TreeSize : Nat, invalid_point_num : Nat, down_del_num : Nat,
             point_deleted : BOOLEAN, tree_deleted : BOOLEAN,
             point_downsample_deleted : BOOLEAN, tree_downsample_deleted : BOOLEAN,
             need_push_down_to_left : BOOLEAN, need_push_down_to_right : BOOLEAN,
             lo : P, hi : P]
  BY <1>3, <1>5
<1>7. v \in Node(S)
  BY <1>6 DEF Node, P
<1>8. /\ v.TreeSize = s.TreeSize /\ v.tree_deleted = td /\ v.point_deleted = pd /\ v.invalid_point_num = inv
      /\ v.need_push_down_to_left = TRUE /\ v.need_push_down_to_right = TRUE
  BY <1>3, <1>5
<1> HIDE DEF v
<1>9. t.tree_deleted => WhollyDeleted(v)
  BY <1>4, <1>8 DEF WhollyDeleted
<1> QED BY <1>1, <1>7, <1>8, <1>9

(* Pushing down changes a node's sons and flags and nothing it says of its  *)
(* subtree; no son comes or goes.                                           *)
LEMMA PushDownKeeps ==
  ASSUME NEW S, nullptr \notin Node(S), NEW t \in Node(S)
  PROVE  LET u == Push_Down(t)
         IN  /\ u.point = t.point /\ u.lo = t.lo /\ u.hi = t.hi
             /\ u.TreeSize = t.TreeSize /\ u.invalid_point_num = t.invalid_point_num
             /\ u.point_deleted = t.point_deleted /\ u.tree_deleted = t.tree_deleted
             /\ u.left_son_ptr = (IF t.need_push_down_to_left /\ t.left_son_ptr # nullptr
                                  THEN Pushed(t, t.left_son_ptr) ELSE t.left_son_ptr)
             /\ u.right_son_ptr = (IF t.need_push_down_to_right /\ t.right_son_ptr # nullptr
                                   THEN Pushed(t, t.right_son_ptr) ELSE t.right_son_ptr)
<1> DEFINE toLeft == t.need_push_down_to_left /\ t.left_son_ptr # nullptr
           toRight == t.need_push_down_to_right /\ t.right_son_ptr # nullptr
           l == IF toLeft THEN Pushed(t, t.left_son_ptr) ELSE t.left_son_ptr
           r == IF toRight THEN Pushed(t, t.right_son_ptr) ELSE t.right_son_ptr
           nl == t.need_push_down_to_left /\ ~toLeft
           nr == t.need_push_down_to_right /\ ~toRight
<1>1. Push_Down(t) = [t EXCEPT !.left_son_ptr = l, !.right_son_ptr = r,
                               !.need_push_down_to_left = nl, !.need_push_down_to_right = nr]
  BY DEF Push_Down
<1> HIDE DEF toLeft, toRight, l, r, nl, nr
<1>2. LET u == Push_Down(t)
      IN  /\ u.point = t.point /\ u.lo = t.lo /\ u.hi = t.hi
          /\ u.TreeSize = t.TreeSize /\ u.invalid_point_num = t.invalid_point_num
          /\ u.point_deleted = t.point_deleted /\ u.tree_deleted = t.tree_deleted
          /\ u.left_son_ptr = l /\ u.right_son_ptr = r
  BY <1>1 DEF Node
<1> QED BY <1>2 DEF l, r, toLeft, toRight

(* A deletion that covers a node marks it as deleted as a whole.           *)
LEMMA DeletedIsWhole ==
  ASSUME NEW S, NEW t \in Node(S), NEW isDownsample \in BOOLEAN
  PROVE  WhollyDeleted(Deleted(t, isDownsample))
<1> DEFINE d == Deleted(t, isDownsample)
<1>1. /\ d.tree_deleted = TRUE /\ d.point_deleted = TRUE /\ d.invalid_point_num = t.TreeSize
      /\ d.TreeSize = t.TreeSize
      /\ d.need_push_down_to_left = TRUE /\ d.need_push_down_to_right = TRUE
  BY DEF Deleted, Node
<1> QED BY <1>1 DEF WhollyDeleted

(* The son of a node that is deleted as a whole is, once pushed down.      *)
LEMMA WholeReachesSons ==
  ASSUME NEW S, Trees(S),
         NEW t \in Node(S), WhollyDeleted(t), SizeExact(t)
  PROVE  /\ \A s \in Sons(Push_Down(t)) : WhollyDeleted(s)
         /\ NodeExact(Push_Down(t))
<1> DEFINE u == Push_Down(t)
           l == t.left_son_ptr
           r == t.right_son_ptr
<1>1. /\ u.TreeSize = t.TreeSize /\ u.invalid_point_num = t.invalid_point_num
      /\ u.point_deleted = t.point_deleted /\ u.tree_deleted = t.tree_deleted
      /\ u.left_son_ptr = (IF t.need_push_down_to_left /\ l # nullptr THEN Pushed(t, l) ELSE l)
      /\ u.right_son_ptr = (IF t.need_push_down_to_right /\ r # nullptr THEN Pushed(t, r) ELSE r)
  BY PushDownKeeps DEF Trees
<1>2. /\ t.tree_deleted /\ t.point_deleted /\ t.invalid_point_num = t.TreeSize
      /\ t.need_push_down_to_left /\ t.need_push_down_to_right
  BY DEF WhollyDeleted
<1>3. l \in S /\ r \in S
  BY DEF Node
<1>4. ASSUME NEW s \in S, s # nullptr
      PROVE  /\ s.TreeSize \in Nat /\ Pushed(t, s) # nullptr
             /\ Pushed(t, s).TreeSize = s.TreeSize
             /\ WhollyDeleted(Pushed(t, s))
  <2>1. s \in Node(S)
    BY <1>4 DEF Trees
  <2>2. Pushed(t, s) \in Node(S) /\ Pushed(t, s).TreeSize = s.TreeSize /\ WhollyDeleted(Pushed(t, s))
    BY <1>2, <2>1, PushedSon DEF Trees
  <2>3. s.TreeSize \in Nat
    BY <2>1 DEF Node
  <2> QED BY <2>2, <2>3 DEF Trees
<1>5. /\ l # nullptr => u.left_son_ptr = Pushed(t, l)
      /\ l = nullptr => u.left_son_ptr = nullptr
      /\ r # nullptr => u.right_son_ptr = Pushed(t, r)
      /\ r = nullptr => u.right_son_ptr = nullptr
  BY <1>1, <1>2
<1>6. ASSUME NEW s \in Sons(u) PROVE WhollyDeleted(s)
  <2> HIDE DEF u, l, r
  <2>1. s # nullptr /\ (s = u.left_son_ptr \/ s = u.right_son_ptr)
    BY <1>6 DEF Sons
  <2>2. CASE s = u.left_son_ptr
    BY <1>3, <1>4, <1>5, <2>1, <2>2
  <2>3. CASE s = u.right_son_ptr
    BY <1>3, <1>4, <1>5, <2>1, <2>3
  <2> QED BY <2>1, <2>2, <2>3
<1>7. \A s \in Sons(u) : s.tree_deleted /\ s.invalid_point_num = s.TreeSize
  BY <1>6 DEF WhollyDeleted
<1> DEFINE size(s) == IF s = nullptr THEN 0 ELSE s.TreeSize
           live(s) == IF s = nullptr THEN 0 ELSE s.TreeSize - s.invalid_point_num
<1>8. size(u.left_son_ptr) = size(l) /\ size(u.right_son_ptr) = size(r)
  BY <1>3, <1>4, <1>5
<1>9. t.TreeSize = 1 + size(l) + size(r)
  BY DEF SizeExact
<1>10. live(u.left_son_ptr) = 0 /\ live(u.right_son_ptr) = 0
  <2>1. ASSUME NEW s \in S, s # nullptr PROVE live(Pushed(t, s)) = 0
    BY <1>4, <2>1 DEF WhollyDeleted
  <2> QED BY <1>3, <1>5, <2>1
<1>11. t.TreeSize \in Nat /\ t.TreeSize - t.TreeSize = 0
  BY DEF Node
<1>12. NodeExact(u)
  <2>1. u.TreeSize = 1 + size(u.left_son_ptr) + size(u.right_son_ptr)
    BY <1>1, <1>8, <1>9
  <2>2. u.TreeSize - u.invalid_point_num
          = (IF u.point_deleted THEN 0 ELSE 1) + live(u.left_son_ptr) + live(u.right_son_ptr)
    <3> HIDE DEF u, live
    <3>1. u.TreeSize - u.invalid_point_num = 0 /\ (IF u.point_deleted THEN 0 ELSE 1) = 0
      BY <1>1, <1>2, <1>11
    <3> QED BY <1>10, <3>1
  <2>3. u.point_deleted /\ u.tree_deleted
    BY <1>1, <1>2
  <2> HIDE DEF u
  <2> QED BY <1>7, <2>1, <2>2, <2>3 DEF NodeExact
<1> QED BY <1>6, <1>12

(* A deletion is only marked at the top of the subtree the box covers, and  *)
(* pushed down by whoever passes later (Delete_by_range, Push_Down); still, *)
(* however deep the subtree is, on every way down from the mark each node   *)
(* is found deleted, its counts say so, and they follow from its sons.      *)
THEOREM DeletionReachesAll ==
  ASSUME NEW S, Trees(S),
         NEW n, NEW w, Walk(w, n, S),
         NEW t \in Node(S), NEW isDownsample \in BOOLEAN, w[0] = Deleted(t, isDownsample),
         \A i \in 0 .. n : SizeExact(w[i])
  PROVE  \A i \in 0 .. n : WhollyDeleted(w[i]) /\ NodeExact(Push_Down(w[i]))
<1> DEFINE H == {i \in 0 .. n : WhollyDeleted(w[i])}
<1>1. n \in Nat /\ \A i \in 0 .. n : w[i] \in Node(S)
  BY DEF Walk
<1>2. 0 \in H
  BY <1>1, DeletedIsWhole
<1>3. ASSUME NEW i \in 0 .. n - 1, i \in H PROVE i + 1 \in H
  <2>1. i \in 0 .. n /\ i + 1 \in 0 .. n
    BY <1>1
  <2>2. w[i + 1] \in Sons(Push_Down(w[i]))
    BY DEF Walk
  <2>3. WhollyDeleted(w[i]) /\ SizeExact(w[i]) /\ w[i] \in Node(S)
    BY <1>1, <1>3, <2>1
  <2>4. \A s \in Sons(Push_Down(w[i])) : WhollyDeleted(s)
    BY <2>3, WholeReachesSons
  <2> QED BY <2>1, <2>2, <2>4
<1>4. H = 0 .. n
  <2>1. H \in SUBSET (0 .. n)
    OBVIOUS
  <2> HIDE DEF H
  <2> QED BY <1>1, <1>2, <1>3, <2>1, DownTheWalk
<1>5. ASSUME NEW i \in 0 .. n PROVE WhollyDeleted(w[i]) /\ NodeExact(Push_Down(w[i]))
  <2>1. WhollyDeleted(w[i])
    BY <1>4
  <2>2. w[i] \in Node(S) /\ SizeExact(w[i])
    BY <1>1
  <2> QED BY <2>1, <2>2, WholeReachesSons
<1> QED BY <1>5

(* A node has at least one node and as many as its sons and itself; sons    *)
(* have fewer.                                                              *)
LEMMA SonsAreSmaller ==
  ASSUME NEW S, Trees(S), NEW X \in SUBSET Node(S), ExactBelow(X), NEW t \in X
  PROVE  /\ t.TreeSize \in Nat \ {0}
         /\ \A s \in Sons(Push_Down(t)) : s \in X /\ s.TreeSize < t.TreeSize
<1> DEFINE u == Push_Down(t)
           size(s) == IF s = nullptr THEN 0 ELSE s.TreeSize
           l == u.left_son_ptr
           r == u.right_son_ptr
<1>1. Sons(u) \subseteq X /\ NodeExact(u) /\ u.TreeSize = t.TreeSize
  BY PushDownKeeps DEF ExactBelow, Trees
<1>2. t.TreeSize = 1 + size(l) + size(r)
  BY <1>1 DEF NodeExact
<1>3. (l # nullptr => l \in Sons(u)) /\ (r # nullptr => r \in Sons(u))
  BY DEF Sons
<1>4. \A s \in X : s.TreeSize \in Nat
  BY DEF Node
<1>5. size(l) \in Nat /\ size(r) \in Nat
  BY <1>1, <1>3, <1>4
<1>6. ASSUME NEW s \in Sons(u) PROVE s \in X /\ s.TreeSize < t.TreeSize
  <2>1. s # nullptr /\ (s = l \/ s = r)
    BY DEF Sons
  <2>2. s.TreeSize = size(l) \/ s.TreeSize = size(r)
    BY <2>1
  <2> HIDE DEF size, l, r, u
  <2>3. s.TreeSize < t.TreeSize
    BY <1>2, <1>5, <2>2
  <2> QED BY <1>1, <2>3
<1> QED BY <1>2, <1>5, <1>6

(* What passes from the sons to a node holds of every node.                *)
LEMMA UpTheTree ==
  ASSUME NEW S, Trees(S), NEW X \in SUBSET Node(S), ExactBelow(X), NEW H \in SUBSET X,
         \A t \in X : Sons(Push_Down(t)) \subseteq H => t \in H
  PROVE  H = X
<1> DEFINE T == {t.TreeSize : t \in X \ H}
<1>1. T \in SUBSET Nat
  BY SonsAreSmaller
<1>2. ASSUME T # {} PROVE FALSE
  <2>1. PICK k \in T : \A m \in T : ~(m < k)
    BY <1>1, <1>2, LeastExists
  <2>2. PICK t \in X \ H : k = t.TreeSize
    BY <2>1
  <2>3. PICK s \in Sons(Push_Down(t)) : s \notin H
    BY <2>2
  <2>4. s \in X /\ s.TreeSize < t.TreeSize
    BY <2>2, SonsAreSmaller
  <2>5. s.TreeSize \in T
    BY <2>3, <2>4
  <2> QED BY <2>1, <2>2, <2>4, <2>5
<1> QED BY <1>2

(* The counts of a node and its deletion flag agree in a tree of any depth: *)
(* there are as many live points as Delete_by_range returns, never fewer    *)
(* than none, and none if and only if the node is flagged as deleted, which *)
(* is where every search and deletion stops.                               *)
THEOREM CountsAgree ==
  ASSUME NEW S, Trees(S), NEW X \in SUBSET Node(S), ExactBelow(X)
  PROVE  \A t \in X : /\ t.invalid_point_num \in 0 .. t.TreeSize
                      /\ t.tree_deleted <=> t.invalid_point_num = t.TreeSize
<1> DEFINE Agree(t) == /\ t.invalid_point_num \in 0 .. t.TreeSize
                       /\ t.tree_deleted <=> t.invalid_point_num = t.TreeSize
           H == {t \in X : Agree(t)}
<1>1. ASSUME NEW t \in X, Sons(Push_Down(t)) \subseteq H PROVE t \in H
  <2> DEFINE u == Push_Down(t)
             l == u.left_son_ptr
             r == u.right_son_ptr
             live(s) == IF s = nullptr THEN 0 ELSE s.TreeSize - s.invalid_point_num
  <2>1. /\ NodeExact(u) /\ u.TreeSize = t.TreeSize /\ u.invalid_point_num = t.invalid_point_num
        /\ u.point_deleted = t.point_deleted /\ u.tree_deleted = t.tree_deleted
    BY PushDownKeeps DEF ExactBelow, Trees
  <2>2. t.TreeSize \in Nat /\ t.invalid_point_num \in Nat /\ t.point_deleted \in BOOLEAN /\ t.tree_deleted \in BOOLEAN
    BY DEF Node
  <2>3. /\ t.TreeSize - t.invalid_point_num = (IF t.point_deleted THEN 0 ELSE 1) + live(l) + live(r)
        /\ t.tree_deleted <=> t.point_deleted /\ \A s \in Sons(u) : s.tree_deleted
    <3> HIDE DEF u
    <3> QED BY <2>1 DEF NodeExact
  <2>4. \A s : s \in Sons(u) <=> s # nullptr /\ (s = l \/ s = r)
    BY DEF Sons
  <2>5. ASSUME NEW s \in Sons(u)
        PROVE  s.TreeSize - s.invalid_point_num \in Nat
               /\ (s.tree_deleted <=> s.TreeSize - s.invalid_point_num = 0)
    <3>1. s \in X /\ Agree(s)
      BY <1>1
    <3>2. s.TreeSize \in Nat
      BY <3>1 DEF Node
    <3> QED BY <3>1, <3>2
  <2> HIDE DEF u, l, r
  <2>6. /\ live(l) \in Nat /\ (l # nullptr => (l.tree_deleted <=> live(l) = 0)) /\ (l = nullptr => live(l) = 0)
        /\ live(r) \in Nat /\ (r # nullptr => (r.tree_deleted <=> live(r) = 0)) /\ (r = nullptr => live(r) = 0)
    BY <2>4, <2>5
  <2>7. (\A s \in Sons(u) : s.tree_deleted) <=> live(l) = 0 /\ live(r) = 0
    BY <2>4, <2>6
  <2> HIDE DEF live
  <2>8. t.TreeSize - t.invalid_point_num \in Nat /\ (t.tree_deleted <=> t.TreeSize - t.invalid_point_num = 0)
    <3>1. CASE t.point_deleted
      BY <2>2, <2>3, <2>6, <2>7, <3>1
    <3>2. CASE ~t.point_deleted
      BY <2>2, <2>3, <2>6, <3>2
    <3> QED BY <3>1, <3>2
  <2>9. Agree(t)
    BY <2>2, <2>8
  <2> QED BY <2>9
<1>2. H = X
  <2>1. H \in SUBSET X
    OBVIOUS
  <2> HIDE DEF H
  <2> QED BY <1>1, <2>1, UpTheTree
<1>3. \A t \in X : Agree(t)
  BY <1>2
<1> QED BY <1>3

(* A node that is not flagged as deleted has a live point below it, some    *)
(* way down: with LiveNeverPruned, tree_deleted says exactly that there is  *)
(* none, in a tree of any depth.                                            *)
THEOREM LiveIsReached ==
  ASSUME NEW S, Trees(S), NEW X \in SUBSET Node(S), ExactBelow(X)
  PROVE  \A t \in X : ~t.tree_deleted => \E n, w : Walk(w, n, S) /\ w[0] = t /\ ~w[n].point_deleted
<1> DEFINE Reached(t) == \E n, w : Walk(w, n, S) /\ w[0] = t /\ ~w[n].point_deleted
           H == {t \in X : ~t.tree_deleted => Reached(t)}
<1>1. ASSUME NEW t \in X, Sons(Push_Down(t)) \subseteq H PROVE t \in H
  <2> SUFFICES ASSUME ~t.tree_deleted PROVE Reached(t)
    OBVIOUS
  <2>1. CASE ~t.point_deleted
    <3> DEFINE w == [i \in 0 .. 0 |-> t]
    <3>1. Walk(w, 0, S) /\ w[0] = t /\ ~w[0].point_deleted
      BY <2>1 DEF Walk
    <3> QED BY <3>1
  <2>2. CASE t.point_deleted
    <3> DEFINE u == Push_Down(t)
    <3>1. NodeExact(u) /\ ~u.tree_deleted /\ u.point_deleted
      BY <2>2, PushDownKeeps DEF ExactBelow, Trees
    <3>2. PICK s \in Sons(u) : ~s.tree_deleted
      <4> HIDE DEF u
      <4> QED BY <3>1 DEF NodeExact
    <3>3. s \in X /\ Reached(s)
      BY <1>1, <3>2
    <3>4. PICK n, v : Walk(v, n, S) /\ v[0] = s /\ ~v[n].point_deleted
      BY <3>3
    <3>5. n \in Nat /\ v \in [0 .. n -> Node(S)] /\ \A i \in 0 .. n - 1 : v[i + 1] \in Sons(Push_Down(v[i]))
      BY <3>4 DEF Walk
    <3> DEFINE w == [i \in 0 .. n + 1 |-> IF i = 0 THEN t ELSE v[i - 1]]
    <3>6. w \in [0 .. n + 1 -> Node(S)] /\ n + 1 \in Nat
      BY <3>5
    <3>7. ASSUME NEW i \in 0 .. (n + 1) - 1 PROVE w[i + 1] \in Sons(Push_Down(w[i]))
      <4>1. w[i + 1] = v[i]
        BY <3>5
      <4>2. CASE i = 0
        BY <3>2, <3>4, <3>5, <4>1, <4>2
      <4>3. CASE i # 0
        <5>1. w[i] = v[i - 1] /\ i - 1 \in 0 .. n - 1 /\ (i - 1) + 1 = i
          BY <3>5, <4>3
        <5> QED BY <3>5, <4>1, <5>1
      <4> QED BY <4>2, <4>3
    <3>8. w[0] = t /\ w[n + 1] = v[n]
      BY <3>5
    <3> HIDE DEF w
    <3>9. Walk(w, n + 1, S) /\ w[0] = t /\ ~w[n + 1].point_deleted
      BY <3>4, <3>6, <3>7, <3>8 DEF Walk
    <3> QED BY <3>9
  <2>3. t.point_deleted \in BOOLEAN
    BY DEF Node
  <2> QED BY <2>1, <2>2, <2>3
<1>2. H = X
  <2>1. H \in SUBSET X
    OBVIOUS
  <2> HIDE DEF H
  <2> QED BY <1>1, <2>1, UpTheTree
<1> QED BY <1>2

(* A new node is live and has no flag pending.                             *)
LEMMA FreshNode ==
  ASSUME NEW S, Trees(S), nullptr \in S, NEW p \in [Axes -> Int], NEW a \in Axes
  PROVE  LET s == NewNode(p, a, nullptr, nullptr)
         IN  /\ s \in Node(S) /\ s.point = p /\ s.TreeSize = 1
             /\ s.invalid_point_num = 0 /\ s.down_del_num = 0
             /\ s.point_deleted = FALSE /\ s.tree_deleted = FALSE
             /\ s.point_downsample_deleted = FALSE /\ s.tree_downsample_deleted = FALSE
<1> DEFINE b == [point |-> p, division_axis |-> a, left_son_ptr |-> nullptr, right_son_ptr |-> nullptr,
                 TreeSize |-> 0, invalid_point_num |-> 0, down_del_num |-> 0,
                 point_deleted |-> FALSE, tree_deleted |-> FALSE,
                 point_downsample_deleted |-> FALSE, tree_downsample_deleted |-> FALSE,
                 need_push_down_to_left |-> FALSE, need_push_down_to_right |-> FALSE,
                 lo |-> p, hi |-> p]
           s == Update(b)
<1>1. b \in Node(S)
  BY DEF Node
<1>2. NewNode(p, a, nullptr, nullptr) = s
  BY DEF NewNode
<1>3. s \in Node(S) /\ s.point = p /\ s.point_deleted = FALSE
  BY <1>1, UpdateMakesExact
<1>4. /\ s.TreeSize = 1 + 0 + 0 /\ s.invalid_point_num = 0 + 0 + 0 /\ s.down_del_num = 0 + 0 + 0
      /\ s.tree_deleted = FALSE
      /\ s.point_downsample_deleted = FALSE /\ s.tree_downsample_deleted = FALSE
  BY DEF Update
<1> HIDE DEF s
<1> QED BY <1>2, <1>3, <1>4

(* What a father that is not deleted pushes down to a new son changes       *)
(* nothing the son says.                                                    *)
LEMMA PushedFresh ==
  ASSUME NEW S, NEW t \in Node(S), ~t.tree_deleted, ~t.tree_downsample_deleted,
         NEW s \in Node(S), s.invalid_point_num = 0, s.down_del_num = 0,
         ~s.point_deleted, ~s.tree_deleted,
         ~s.point_downsample_deleted, ~s.tree_downsample_deleted,
         NEW v, v = Pushed(t, s)
  PROVE  /\ v \in Node(S) /\ v.point = s.point /\ v.lo = s.lo /\ v.hi = s.hi
         /\ v.TreeSize = s.TreeSize /\ v.invalid_point_num = 0
         /\ ~v.point_deleted /\ ~v.tree_deleted
<1>1. /\ t.tree_deleted = FALSE /\ t.tree_downsample_deleted = FALSE
      /\ s.point_deleted = FALSE /\ s.tree_deleted = FALSE
      /\ s.point_downsample_deleted = FALSE /\ s.tree_downsample_deleted = FALSE
  BY DEF Node
<1>2. v = [s EXCEPT !.tree_downsample_deleted = FALSE, !.point_downsample_deleted = FALSE,
                    !.tree_deleted = FALSE, !.point_deleted = FALSE,
                    !.down_del_num = 0, !.invalid_point_num = 0,
                    !.need_push_down_to_left = TRUE, !.need_push_down_to_right = TRUE]
  BY <1>1 DEF Pushed
<1>3. v \in Node(S)
  BY PushedSon
<1>4. /\ v.point = s.point /\ v.lo = s.lo /\ v.hi = s.hi
      /\ v.TreeSize = s.TreeSize /\ v.invalid_point_num = 0
      /\ ~v.point_deleted /\ ~v.tree_deleted
  BY <1>2 DEF Node
<1> QED BY <1>3, <1>4

\* A node that is there and holds the point p, live.
LivePoint(v, p) == v # nullptr /\ v.point = p /\ ~v.point_deleted /\ ~v.tree_deleted

\* Two sons of which a father says the same.
Alike(s, v) ==
  \/ s = v
  \/ /\ s # nullptr /\ v # nullptr
     /\ v.TreeSize = s.TreeSize /\ v.invalid_point_num = s.invalid_point_num
     /\ (v.tree_deleted <=> s.tree_deleted) /\ v.lo = s.lo /\ v.hi = s.hi

(* A node that follows from its sons follows from any that say the same.   *)
LEMMA ExactAlike ==
  ASSUME NEW t, NEW u, NodeExact(t),
         u.TreeSize = t.TreeSize, u.invalid_point_num = t.invalid_point_num,
         u.point = t.point, u.point_deleted = t.point_deleted,
         u.tree_deleted = t.tree_deleted, u.lo = t.lo, u.hi = t.hi,
         Alike(t.left_son_ptr, u.left_son_ptr), Alike(t.right_son_ptr, u.right_son_ptr)
  PROVE  NodeExact(u)
<1> DEFINE size(s) == IF s = nullptr THEN 0 ELSE s.TreeSize
           live(s) == IF s = nullptr THEN 0 ELSE s.TreeSize - s.invalid_point_num
<1>1. /\ size(u.left_son_ptr) = size(t.left_son_ptr) /\ size(u.right_son_ptr) = size(t.right_son_ptr)
      /\ live(u.left_son_ptr) = live(t.left_son_ptr) /\ live(u.right_son_ptr) = live(t.right_son_ptr)
  BY DEF Alike
<1>2. \A v \in Sons(u) : \E s \in Sons(t) :
         (v.tree_deleted <=> s.tree_deleted) /\ v.lo = s.lo /\ v.hi = s.hi
  BY DEF Sons, Alike
<1>3. \A s \in Sons(t) : \E v \in Sons(u) : v.tree_deleted <=> s.tree_deleted
  BY DEF Sons, Alike
<1>4. (\A v \in Sons(u) : v.tree_deleted) <=> (\A s \in Sons(t) : s.tree_deleted)
  BY <1>2, <1>3
<1>5. /\ t.TreeSize = 1 + size(t.left_son_ptr) + size(t.right_son_ptr)
      /\ t.TreeSize - t.invalid_point_num
           = (IF t.point_deleted THEN 0 ELSE 1) + live(t.left_son_ptr) + live(t.right_son_ptr)
      /\ t.tree_deleted <=> t.point_deleted /\ \A s \in Sons(t) : s.tree_deleted
      /\ \A i \in Axes :
           /\ ~t.point_deleted => t.lo[i] <= t.point[i] /\ t.point[i] <= t.hi[i]
           /\ \A s \in Sons(t) : ~s.tree_deleted => t.lo[i] <= s.lo[i] /\ s.hi[i] <= t.hi[i]
  BY DEF NodeExact
<1>6. \A i \in Axes, v \in Sons(u) : ~v.tree_deleted => u.lo[i] <= v.lo[i] /\ v.hi[i] <= u.hi[i]
  BY <1>2, <1>5
<1>7. /\ u.TreeSize = 1 + size(u.left_son_ptr) + size(u.right_son_ptr)
      /\ u.TreeSize - u.invalid_point_num
           = (IF u.point_deleted THEN 0 ELSE 1) + live(u.left_son_ptr) + live(u.right_son_ptr)
  BY <1>1, <1>5
<1>8. u.tree_deleted <=> u.point_deleted /\ \A v \in Sons(u) : v.tree_deleted
  BY <1>4, <1>5
<1>9. \A i \in Axes : ~u.point_deleted => u.lo[i] <= u.point[i] /\ u.point[i] <= u.hi[i]
  BY <1>5
<1> QED BY <1>6, <1>7, <1>8, <1>9 DEF NodeExact

(* Update leaves the pending flags; a node with a live son is not deleted,  *)
(* nor is it deleted by downsampling.                                      *)
LEMMA UpdateKeepsFlags ==
  ASSUME NEW S, NEW t \in Node(S)
  PROVE  LET u == Update(t)
         IN  /\ u.need_push_down_to_left = t.need_push_down_to_left
             /\ u.need_push_down_to_right = t.need_push_down_to_right
             /\ u.tree_downsample_deleted => \A s \in Sons(t) : s.tree_downsample_deleted
             /\ u.tree_deleted => \A s \in Sons(t) : s.tree_deleted
  BY DEF Update, Node

(* Push_Down on a node that has a new live son and whose Update is done.    *)
LEMMA HungSon ==
  ASSUME NEW S, Trees(S), NEW t \in Node(S),
         NEW s \in Node(S), s.invalid_point_num = 0, s.down_del_num = 0,
         ~s.point_deleted, ~s.tree_deleted,
         ~s.point_downsample_deleted, ~s.tree_downsample_deleted,
         \/ /\ t.left_son_ptr = s
            /\ ~(t.need_push_down_to_right /\ t.right_son_ptr # nullptr)
         \/ /\ t.right_son_ptr = s
            /\ ~(t.need_push_down_to_left /\ t.left_son_ptr # nullptr)
  PROVE  /\ NodeExact(Push_Down(Update(t)))
         /\ \/ t.left_son_ptr = s /\ LivePoint(Push_Down(Update(t)).left_son_ptr, s.point)
            \/ t.right_son_ptr = s /\ LivePoint(Push_Down(Update(t)).right_son_ptr, s.point)
<1> DEFINE b == Update(t)
           v == Pushed(b, s)
           u == Push_Down(b)
<1>1. /\ b \in Node(S) /\ NodeExact(b)
      /\ b.left_son_ptr = t.left_son_ptr /\ b.right_son_ptr = t.right_son_ptr
  BY UpdateMakesExact
<1>2. nullptr \notin Node(S)
  BY DEF Trees
<1>3. s # nullptr /\ s \in Sons(t)
  BY <1>2 DEF Sons
<1>4. /\ b.need_push_down_to_left = t.need_push_down_to_left
      /\ b.need_push_down_to_right = t.need_push_down_to_right
      /\ ~b.tree_deleted /\ ~b.tree_downsample_deleted
  BY <1>3, UpdateKeepsFlags
<1>5. /\ v \in Node(S) /\ v.point = s.point /\ v.lo = s.lo /\ v.hi = s.hi
      /\ v.TreeSize = s.TreeSize /\ v.invalid_point_num = 0
      /\ ~v.point_deleted /\ ~v.tree_deleted
  <2>1. b \in Node(S) /\ ~b.tree_deleted /\ ~b.tree_downsample_deleted
    BY <1>1, <1>4
  <2>2. v = Pushed(b, s)
    OBVIOUS
  <2> HIDE DEF b, v
  <2> QED BY <2>1, <2>2, PushedFresh
<1>6. v # nullptr /\ Alike(s, v)
  <2> HIDE DEF v
  <2> QED BY <1>2, <1>3, <1>5 DEF Alike
<1>7. /\ u.point = b.point /\ u.lo = b.lo /\ u.hi = b.hi
      /\ u.TreeSize = b.TreeSize /\ u.invalid_point_num = b.invalid_point_num
      /\ u.point_deleted = b.point_deleted /\ u.tree_deleted = b.tree_deleted
      /\ u.left_son_ptr = (IF b.need_push_down_to_left /\ b.left_son_ptr # nullptr
                           THEN Pushed(b, b.left_son_ptr) ELSE b.left_son_ptr)
      /\ u.right_son_ptr = (IF b.need_push_down_to_right /\ b.right_son_ptr # nullptr
                            THEN Pushed(b, b.right_son_ptr) ELSE b.right_son_ptr)
  <2> HIDE DEF b
  <2> QED BY <1>1, <1>2, PushDownKeeps
<1>8. \A q : Alike(q, q)
  BY DEF Alike
<1>9. /\ Alike(b.left_son_ptr, u.left_son_ptr) /\ Alike(b.right_son_ptr, u.right_son_ptr)
       /\ \/ t.left_son_ptr = s /\ u.left_son_ptr \in {s, v}
          \/ t.right_son_ptr = s /\ u.right_son_ptr \in {s, v}
  <2>1. CASE /\ t.left_son_ptr = s
             /\ ~(t.need_push_down_to_right /\ t.right_son_ptr # nullptr)
    <3>1. u.right_son_ptr = b.right_son_ptr /\ (u.left_son_ptr = v \/ u.left_son_ptr = s) /\ b.left_son_ptr = s
      <4> HIDE DEF b, u
      <4> QED BY <1>1, <1>4, <1>7, <2>1
    <3> HIDE DEF b, u, v
    <3> QED BY <1>6, <1>8, <2>1, <3>1
  <2>2. CASE /\ t.right_son_ptr = s
             /\ ~(t.need_push_down_to_left /\ t.left_son_ptr # nullptr)
    <3>1. u.left_son_ptr = b.left_son_ptr /\ (u.right_son_ptr = v \/ u.right_son_ptr = s) /\ b.right_son_ptr = s
      <4> HIDE DEF b, u
      <4> QED BY <1>1, <1>4, <1>7, <2>2
    <3> HIDE DEF b, u, v
    <3> QED BY <1>6, <1>8, <2>2, <3>1
  <2> QED BY <2>1, <2>2
<1> HIDE DEF b, u, v
<1>10. NodeExact(u)
  BY <1>1, <1>7, <1>9, ExactAlike
<1>11. \A q \in {s, v} : LivePoint(q, s.point)
  BY <1>3, <1>5, <1>6 DEF LivePoint
<1> QED BY <1>9, <1>10, <1>11 DEF u, b

(* Push_Down leaves a flag set whose son does not exist.  When Add_by_point *)
(* hangs a new node there, after it pushed down and before it calls Update, *)
(* the flag is still pending and the next Push_Down acts on it: the new     *)
(* point stays live all the same, and what the node says stays true.       *)
THEOREM StaleFlagHarmless ==
  ASSUME NEW S, Trees(S), nullptr \in S, NEW p \in [Axes -> Int], NEW a \in Axes, NEW t \in Node(S),
         \/ /\ t.left_son_ptr = NewNode(p, a, nullptr, nullptr)
            /\ ~(t.need_push_down_to_right /\ t.right_son_ptr # nullptr)
         \/ /\ t.right_son_ptr = NewNode(p, a, nullptr, nullptr)
            /\ ~(t.need_push_down_to_left /\ t.left_son_ptr # nullptr)
  PROVE  LET u == Push_Down(Update(t))
         IN  /\ NodeExact(u)
             /\ \/ t.left_son_ptr = NewNode(p, a, nullptr, nullptr) /\ LivePoint(u.left_son_ptr, p)
                \/ t.right_son_ptr = NewNode(p, a, nullptr, nullptr) /\ LivePoint(u.right_son_ptr, p)
<1> DEFINE s == NewNode(p, a, nullptr, nullptr)
<1>1. /\ s \in Node(S) /\ s.point = p
      /\ s.invalid_point_num = 0 /\ s.down_del_num = 0
      /\ s.point_deleted = FALSE /\ s.tree_deleted = FALSE
      /\ s.point_downsample_deleted = FALSE /\ s.tree_downsample_deleted = FALSE
  BY FreshNode
<1>2. \/ /\ t.left_son_ptr = s
         /\ ~(t.need_push_down_to_right /\ t.right_son_ptr # nullptr)
      \/ /\ t.right_son_ptr = s
         /\ ~(t.need_push_down_to_left /\ t.left_son_ptr # nullptr)
  OBVIOUS
<1>3. /\ NodeExact(Push_Down(Update(t)))
      /\ \/ t.left_son_ptr = s /\ LivePoint(Push_Down(Update(t)).left_son_ptr, p)
         \/ t.right_son_ptr = s /\ LivePoint(Push_Down(Update(t)).right_son_ptr, p)
  <2> HIDE DEF s
  <2> QED BY <1>1, <1>2, HungSon
<1> QED BY <1>3

(* SumAxes adds up what each axis contributes, and is the greater the more  *)
(* each of them does.                                                       *)
LEMMA SumStep ==
  ASSUME NEW f \in [Axes -> Int]
  PROVE  \E s \in [0 .. Dims -> Int] :
           /\ s[0] = 0 /\ \A i \in 1 .. Dims : s[i] = s[i - 1] + f[i]
           /\ SumAxes(f) = s[Dims]
<1> DEFINE Sums(s, k) == s[0] = 0 /\ \A i \in 1 .. k : s[i] = s[i - 1] + f[i]
           H == {k \in 0 .. Dims : \E s \in [0 .. Dims -> Int] : Sums(s, k)}
           rule(s) == [i \in 0 .. Dims |-> IF i = 0 THEN 0 ELSE s[i - 1] + f[i]]
<1>1. Dims \in Nat /\ Axes = 1 .. Dims
  BY DimsAssumption DEF Axes
<1>2. 0 \in H
  <2> DEFINE z == [i \in 0 .. Dims |-> 0]
  <2>1. z \in [0 .. Dims -> Int] /\ Sums(z, 0) /\ 0 \in 0 .. Dims
    BY <1>1
  <2> HIDE DEF z, Sums
  <2> QED BY <2>1
<1>3. ASSUME NEW k \in 0 .. Dims - 1, k \in H PROVE k + 1 \in H
  <2>1. PICK s \in [0 .. Dims -> Int] : Sums(s, k)
    BY <1>3
  <2> DEFINE t == [s EXCEPT ![k + 1] = s[k] + f[k + 1]]
  <2>2. k + 1 \in 0 .. Dims /\ k \in 0 .. Dims /\ k + 1 \in Axes
    BY <1>1
  <2>3. t \in [0 .. Dims -> Int]
    BY <2>1, <2>2
  <2>4. t[0] = 0 /\ t[k + 1] = s[k] + f[k + 1] /\ \A i \in 0 .. Dims : i # k + 1 => t[i] = s[i]
    BY <1>1, <2>1, <2>2
  <2>5. ASSUME NEW i \in 1 .. k + 1 PROVE t[i] = t[i - 1] + f[i]
    <3>1. CASE i = k + 1
      <4>1. t[k] = s[k]
        BY <2>2, <2>4
      <4> QED BY <2>4, <3>1, <4>1
    <3>2. CASE i # k + 1
      <4>1. i \in 1 .. k /\ i \in 0 .. Dims /\ i - 1 \in 0 .. Dims /\ i - 1 # k + 1
        BY <1>1, <3>2
      <4> QED BY <2>1, <2>4, <3>2, <4>1
    <3> QED BY <3>1, <3>2
  <2>6. Sums(t, k + 1)
    BY <2>4, <2>5
  <2> QED BY <2>2, <2>3, <2>6
<1>4. H = 0 .. Dims
  <2>1. H \in SUBSET (0 .. Dims)
    OBVIOUS
  <2> HIDE DEF H
  <2> QED BY <1>1, <1>2, <1>3, <2>1, DownTheWalk
<1>5. PICK s \in [0 .. Dims -> Int] : Sums(s, Dims)
  <2> HIDE DEF Sums
  <2>1. Dims \in H
    <3> HIDE DEF H
    <3> QED BY <1>1, <1>4
  <2> QED BY <2>1
<1>6. s = rule(s)
  BY <1>1, <1>5
<1> DEFINE c == CHOOSE x : x = rule(x)
<1>7. c = rule(c)
  BY <1>6
<1>8. SumAxes(f) = c[Dims]
  BY DEF SumAxes
<1>9. c[0] = 0 /\ \A i \in 1 .. Dims : c[i] = c[i - 1] + f[i]
  <2> HIDE DEF c
  <2>1. ASSUME NEW i \in 0 .. Dims PROVE c[i] = (IF i = 0 THEN 0 ELSE c[i - 1] + f[i])
    BY <1>7
  <2> QED BY <1>1, <2>1
<1> HIDE DEF c
<1> DEFINE G == {k \in 0 .. Dims : c[k] \in Int}
<1>10. 0 \in G /\ \A k \in 0 .. Dims - 1 : k \in G => k + 1 \in G
  <2>1. 0 \in G
    BY <1>1, <1>9
  <2>2. ASSUME NEW k \in 0 .. Dims - 1, k \in G PROVE k + 1 \in G
    <3>1. k + 1 \in 1 .. Dims /\ k + 1 \in 0 .. Dims /\ (k + 1) - 1 = k
      BY <1>1
    <3>2. c[k + 1] = c[k] + f[k + 1] /\ c[k] \in Int /\ f[k + 1] \in Int
      BY <1>1, <1>9, <2>2, <3>1
    <3> QED BY <3>1, <3>2
  <2> QED BY <2>1, <2>2
<1>11. G = 0 .. Dims
  <2>1. G \in SUBSET (0 .. Dims)
    OBVIOUS
  <2> HIDE DEF G
  <2> QED BY <1>1, <1>10, <2>1, DownTheWalk
<1>12. c \in [0 .. Dims -> Int]
  BY <1>7, <1>11
<1> QED BY <1>8, <1>9, <1>12

(* A sum is no less than one that is nowhere greater.                      *)
LEMMA SumMonotone ==
  ASSUME NEW f \in [Axes -> Int], NEW g \in [Axes -> Int], \A i \in Axes : f[i] <= g[i]
  PROVE  SumAxes(f) <= SumAxes(g)
<1>1. Dims \in Nat /\ Axes = 1 .. Dims
  BY DimsAssumption DEF Axes
<1>2. PICK s \in [0 .. Dims -> Int] :
        /\ s[0] = 0 /\ \A i \in 1 .. Dims : s[i] = s[i - 1] + f[i]
        /\ SumAxes(f) = s[Dims]
  BY SumStep
<1>3. PICK t \in [0 .. Dims -> Int] :
        /\ t[0] = 0 /\ \A i \in 1 .. Dims : t[i] = t[i - 1] + g[i]
        /\ SumAxes(g) = t[Dims]
  BY SumStep
<1> DEFINE H == {k \in 0 .. Dims : s[k] <= t[k]}
<1>4. 0 \in H
  BY <1>1, <1>2, <1>3
<1>5. ASSUME NEW k \in 0 .. Dims - 1, k \in H PROVE k + 1 \in H
  <2>1. k \in 0 .. Dims /\ k + 1 \in 1 .. Dims /\ k + 1 \in 0 .. Dims /\ (k + 1) - 1 = k
    BY <1>1
  <2>2. s[k + 1] = s[k] + f[k + 1] /\ t[k + 1] = t[k] + g[k + 1]
    BY <1>2, <1>3, <2>1
  <2>3. f[k + 1] \in Int /\ g[k + 1] \in Int /\ f[k + 1] <= g[k + 1] /\ s[k] \in Int /\ t[k] \in Int /\ s[k] <= t[k]
    BY <1>1, <1>5, <2>1
  <2> QED BY <2>1, <2>2, <2>3
<1>6. H = 0 .. Dims
  <2>1. H \in SUBSET (0 .. Dims)
    OBVIOUS
  <2> HIDE DEF H
  <2> QED BY <1>1, <1>4, <1>5, <2>1, DownTheWalk
<1>7. s[Dims] <= t[Dims]
  <2>1. Dims \in 0 .. Dims
    BY <1>1
  <2> QED BY <1>6, <2>1
<1> QED BY <1>2, <1>3, <1>7

(* A number outside a range is further from any number of the range than   *)
(* from the bound it is beyond.                                            *)
LEMMA BeyondIsFurther ==
  ASSUME NEW p \in Int, NEW q \in Int, NEW b \in Int, (p < b /\ b <= q) \/ (q <= b /\ b < p)
  PROVE  (p - b) * (p - b) <= (p - q) * (p - q)
<1>1. ASSUME NEW c \in Nat, NEW d \in Nat, c <= d PROVE c * c <= d * d
  BY <1>1
<1>2. CASE p < b /\ b <= q
  <2>1. b - p \in Nat /\ q - p \in Nat /\ b - p <= q - p
    BY <1>2
  <2>2. (b - p) * (b - p) <= (q - p) * (q - p)
    BY <1>1, <2>1
  <2>3. (b - p) * (b - p) = (p - b) * (p - b) /\ (q - p) * (q - p) = (p - q) * (p - q)
    OBVIOUS
  <2> QED BY <2>2, <2>3
<1>3. CASE q <= b /\ b < p
  <2>1. p - b \in Nat /\ p - q \in Nat /\ p - b <= p - q
    BY <1>3
  <2> QED BY <1>1, <2>1
<1> QED BY <1>2, <1>3

\* The range of t encloses the point q.
Encloses(t, q) == \A i \in Axes : t.lo[i] <= q[i] /\ q[i] <= t.hi[i]

(* The distance of a range is no more than that of a point in it.           *)
LEMMA BoxIsNearer ==
  ASSUME NEW S, Trees(S), NEW t \in Node(S), NEW p \in [Axes -> Int], NEW q \in [Axes -> Int], Encloses(t, q)
  PROVE  BoxDist(t, p) <= CalcDist(p, q)
<1> DEFINE f == [i \in Axes |-> IF p[i] < t.lo[i] THEN (p[i] - t.lo[i]) * (p[i] - t.lo[i])
                                ELSE IF p[i] > t.hi[i] THEN (p[i] - t.hi[i]) * (p[i] - t.hi[i]) ELSE 0]
           g == [i \in Axes |-> (p[i] - q[i]) * (p[i] - q[i])]
<1>1. t # nullptr /\ t.lo \in [Axes -> Int] /\ t.hi \in [Axes -> Int]
  BY DEF Trees, Node
<1>2. BoxDist(t, p) = SumAxes(f) /\ CalcDist(p, q) = SumAxes(g)
  BY <1>1 DEF BoxDist, CalcDist
<1>3. ASSUME NEW i \in Axes PROVE f[i] \in Int /\ g[i] \in Int /\ f[i] <= g[i]
  <2>1. p[i] \in Int /\ q[i] \in Int /\ t.lo[i] \in Int /\ t.hi[i] \in Int /\ t.lo[i] <= q[i] /\ q[i] <= t.hi[i]
    BY <1>1 DEF Encloses
  <2>2. CASE p[i] < t.lo[i]
    <3>1. f[i] = (p[i] - t.lo[i]) * (p[i] - t.lo[i])
      BY <2>2
    <3>2. (p[i] - t.lo[i]) * (p[i] - t.lo[i]) <= (p[i] - q[i]) * (p[i] - q[i])
      BY <2>1, <2>2, BeyondIsFurther
    <3> QED BY <2>1, <3>1, <3>2
  <2>3. CASE ~(p[i] < t.lo[i]) /\ p[i] > t.hi[i]
    <3>1. f[i] = (p[i] - t.hi[i]) * (p[i] - t.hi[i])
      BY <2>3
    <3>2. (p[i] - t.hi[i]) * (p[i] - t.hi[i]) <= (p[i] - q[i]) * (p[i] - q[i])
      BY <2>1, <2>3, BeyondIsFurther
    <3> QED BY <2>1, <3>1, <3>2
  <2>4. CASE ~(p[i] < t.lo[i]) /\ ~(p[i] > t.hi[i])
    <3>1. f[i] = 0
      BY <2>4
    <3>2. 0 <= (p[i] - q[i]) * (p[i] - q[i])
      <4>1. \A d \in Int : 0 <= d * d
        OBVIOUS
      <4> QED BY <2>1, <4>1
    <3> QED BY <2>1, <3>1, <3>2
  <2> QED BY <2>2, <2>3, <2>4
<1>4. f \in [Axes -> Int] /\ g \in [Axes -> Int]
  BY <1>3
<1> HIDE DEF f, g
<1> QED BY <1>2, <1>3, <1>4, SumMonotone

(* A node that is not deleted, and encloses its own live point or a son     *)
(* that encloses a point, encloses that point.                              *)
LEMMA FatherEncloses ==
  ASSUME NEW S, Trees(S), NEW t \in Node(S), NodeExact(Push_Down(t)),
         NEW s \in Sons(Push_Down(t)), s \in Node(S), ~s.tree_deleted,
         NEW q \in [Axes -> Int], Encloses(s, q)
  PROVE  ~t.tree_deleted /\ Encloses(t, q)
<1> DEFINE u == Push_Down(t)
<1>1. u.lo = t.lo /\ u.hi = t.hi /\ u.tree_deleted = t.tree_deleted
  BY PushDownKeeps DEF Trees
<1>2. /\ t.lo \in [Axes -> Int] /\ t.hi \in [Axes -> Int]
      /\ s.lo \in [Axes -> Int] /\ s.hi \in [Axes -> Int]
  BY DEF Node
<1>3. /\ u.tree_deleted <=> u.point_deleted /\ \A r \in Sons(u) : r.tree_deleted
      /\ \A i \in Axes : u.lo[i] <= s.lo[i] /\ s.hi[i] <= u.hi[i]
  <2> HIDE DEF u
  <2>1. NodeExact(u) /\ s \in Sons(u)
    BY DEF u
  <2> QED BY <2>1 DEF NodeExact
<1>4. ~t.tree_deleted
  BY <1>1, <1>3
<1>5. ASSUME NEW i \in Axes PROVE t.lo[i] <= q[i] /\ q[i] <= t.hi[i]
  <2>1. t.lo[i] <= s.lo[i] /\ s.hi[i] <= t.hi[i]
    BY <1>1, <1>3
  <2>2. s.lo[i] <= q[i] /\ q[i] <= s.hi[i]
    BY DEF Encloses
  <2>3. t.lo[i] \in Int /\ t.hi[i] \in Int /\ s.lo[i] \in Int /\ s.hi[i] \in Int /\ q[i] \in Int
    BY <1>2
  <2> QED BY <2>1, <2>2, <2>3
<1> QED BY <1>4, <1>5 DEF Encloses

(* What the tests that end a search early say about a point in the range.  *)
LEMMA TestsOnEnclosed ==
  ASSUME NEW S, Trees(S), NEW t \in Node(S), NEW q \in [Axes -> Int], Encloses(t, q),
         NEW box \in [lo : [Axes -> Int], hi : [Axes -> Int]]
  PROVE  (Misses(t, box) => ~InBox(q, box)) /\ (Covers(t, box) => InBox(q, box))
<1>1. /\ t.lo \in [Axes -> Int] /\ t.hi \in [Axes -> Int]
      /\ box.lo \in [Axes -> Int] /\ box.hi \in [Axes -> Int]
  BY DEF Node
<1>2. \A i \in Axes : /\ t.lo[i] \in Int /\ t.hi[i] \in Int /\ box.lo[i] \in Int /\ box.hi[i] \in Int
                      /\ q[i] \in Int /\ t.lo[i] <= q[i] /\ q[i] <= t.hi[i]
  BY <1>1 DEF Encloses
<1>3. ASSUME Misses(t, box) PROVE ~InBox(q, box)
  <2>1. PICK i \in Axes : box.hi[i] <= t.lo[i] \/ box.lo[i] > t.hi[i]
    BY <1>3 DEF Misses
  <2>2. ~(box.lo[i] <= q[i] /\ q[i] < box.hi[i])
    BY <1>2, <2>1
  <2> QED BY <2>2 DEF InBox
<1>4. ASSUME Covers(t, box) PROVE InBox(q, box)
  <2>1. ASSUME NEW i \in Axes PROVE box.lo[i] <= q[i] /\ q[i] < box.hi[i]
    <3>1. box.lo[i] <= t.lo[i] /\ box.hi[i] > t.hi[i]
      BY <1>4 DEF Covers
    <3> QED BY <1>2, <3>1
  <2> QED BY <2>1 DEF InBox
<1> QED BY <1>3, <1>4

(* In a tree of any depth whose nodes follow from their sons, pending flags *)
(* included, no test that ends a search or a deletion early (tree_deleted,  *)
(* the two box tests, calc_box_dist) is wrong about a live point: no node   *)
(* above it is taken for deleted, none is missed by a box that holds the    *)
(* point, none is covered by a box that does not, and none is further from  *)
(* what is searched around than the point is.                               *)
THEOREM LiveNeverPruned ==
  ASSUME NEW S, Trees(S), NEW n, NEW w, Walk(w, n, S),
         \A i \in 0 .. n : NodeExact(Push_Down(w[i])),
         ~w[n].point_deleted
  PROVE  \A i \in 0 .. n :
           /\ ~w[i].tree_deleted
           /\ \A box \in [lo : [Axes -> Int], hi : [Axes -> Int]] :
                 /\ Misses(w[i], box) => ~InBox(w[n].point, box)
                 /\ Covers(w[i], box) => InBox(w[n].point, box)
           /\ \A p \in [Axes -> Int] : BoxDist(w[i], p) <= CalcDist(p, w[n].point)
<1> DEFINE q == w[n].point
           H == {i \in 0 .. n : ~w[i].tree_deleted /\ Encloses(w[i], q)}
<1>1. n \in Nat /\ n \in 0 .. n /\ \A i \in 0 .. n : w[i] \in Node(S)
  BY DEF Walk
<1>2. q \in [Axes -> Int]
  BY <1>1 DEF Node
<1>3. n \in H
  <2> DEFINE u == Push_Down(w[n])
  <2>1. /\ u.lo = w[n].lo /\ u.hi = w[n].hi /\ u.tree_deleted = w[n].tree_deleted
        /\ u.point = q /\ u.point_deleted = w[n].point_deleted
    BY <1>1, PushDownKeeps DEF Trees
  <2>2. NodeExact(u) /\ ~u.point_deleted
    BY <1>1, <2>1
  <2>3. ~u.tree_deleted /\ \A i \in Axes : u.lo[i] <= u.point[i] /\ u.point[i] <= u.hi[i]
    <3> HIDE DEF u
    <3> QED BY <2>2 DEF NodeExact
  <2>4. ~w[n].tree_deleted /\ Encloses(w[n], q)
    <3> HIDE DEF u, q
    <3> QED BY <2>1, <2>3 DEF Encloses
  <2> QED BY <1>1, <2>4
<1>4. ASSUME NEW i \in 0 .. n - 1, i + 1 \in H PROVE i \in H
  <2>1. i \in 0 .. n /\ i + 1 \in 0 .. n
    BY <1>1
  <2>2. w[i + 1] \in Sons(Push_Down(w[i]))
    BY DEF Walk
  <2>3. w[i] \in Node(S) /\ w[i + 1] \in Node(S) /\ NodeExact(Push_Down(w[i]))
    BY <1>1, <2>1
  <2>4. ~w[i + 1].tree_deleted /\ Encloses(w[i + 1], q)
    BY <1>4
  <2>5. ~w[i].tree_deleted /\ Encloses(w[i], q)
    <3> HIDE DEF q
    <3> QED BY <1>2, <2>2, <2>3, <2>4, FatherEncloses
  <2> QED BY <2>1, <2>5
<1>5. H = 0 .. n
  <2>1. H \in SUBSET (0 .. n)
    OBVIOUS
  <2> HIDE DEF H
  <2> QED BY <1>1, <1>3, <1>4, <2>1, UpTheWalk
<1>6. ASSUME NEW i \in 0 .. n
      PROVE  /\ ~w[i].tree_deleted
             /\ \A box \in [lo : [Axes -> Int], hi : [Axes -> Int]] :
                   (Misses(w[i], box) => ~InBox(q, box)) /\ (Covers(w[i], box) => InBox(q, box))
             /\ \A p \in [Axes -> Int] : BoxDist(w[i], p) <= CalcDist(p, q)
  <2>1. w[i] \in Node(S) /\ ~w[i].tree_deleted /\ Encloses(w[i], q)
    BY <1>1, <1>5
  <2> HIDE DEF q
  <2> QED BY <1>2, <2>1, TestsOnEnclosed, BoxIsNearer
<1> QED BY <1>6

(* Rounding down to a multiple of d leaves less than d.                     *)
LEMMA DivFacts ==
  ASSUME NEW d \in Nat \ {0}, NEW x \in Int
  PROVE  /\ x \div d \in Int /\ (x \div d) * d <= x /\ x < (x \div d) * d + d
         /\ \A k \in Int : k * d <= x /\ x < k * d + d => k = x \div d
  OBVIOUS

(* Downsampling clears the voxel of the new point and puts one point back   *)
(* (Add_Points): every point lies in its own voxel, and in no other, so     *)
(* that clearing one voxel touches no point that belongs to another.        *)
THEOREM VoxelsPartition ==
  ASSUME NEW p \in [Axes -> Int], NEW q \in [Axes -> Int]
  PROVE  /\ InBox(p, VoxelOf(p))
         /\ InBox(q, VoxelOf(p)) <=> VoxelOf(q) = VoxelOf(p)
<1> DEFINE d == downsample_size
           low(x) == [i \in Axes |-> (x[i] \div d) * d]
<1>1. d \in Nat \ {0}
  BY VoxelAssumption
<1>2. ASSUME NEW x \in [Axes -> Int]
      PROVE  /\ VoxelOf(x).lo = low(x) /\ VoxelOf(x).hi = [i \in Axes |-> low(x)[i] + d]
             /\ VoxelOf(x) = [lo |-> low(x), hi |-> [i \in Axes |-> low(x)[i] + d]]
  BY DEF VoxelOf
<1>3. ASSUME NEW x \in [Axes -> Int], NEW y \in [Axes -> Int]
      PROVE  InBox(y, VoxelOf(x)) <=> \A i \in Axes : (x[i] \div d) * d <= y[i] /\ y[i] < (x[i] \div d) * d + d
  <2>1. \A i \in Axes : VoxelOf(x).lo[i] = (x[i] \div d) * d /\ VoxelOf(x).hi[i] = (x[i] \div d) * d + d
    <3>1. /\ VoxelOf(x).lo = low(x) /\ VoxelOf(x).hi = [i \in Axes |-> low(x)[i] + d]
          /\ \A i \in Axes : low(x)[i] = (x[i] \div d) * d
      BY <1>2
    <3> HIDE DEF low, d
    <3>2. \A i \in Axes : VoxelOf(x).hi[i] = low(x)[i] + d
      BY <3>1
    <3> QED BY <3>1, <3>2
  <2> QED BY <2>1 DEF InBox
<1>4. \A x \in Int : /\ x \div d \in Int /\ (x \div d) * d <= x /\ x < (x \div d) * d + d
                    /\ \A k \in Int : k * d <= x /\ x < k * d + d => k = x \div d
  <2> HIDE DEF d
  <2> QED BY <1>1, DivFacts
<1>5. ASSUME NEW x \in [Axes -> Int] PROVE InBox(x, VoxelOf(x))
  BY <1>3, <1>4
<1>6. ASSUME InBox(q, VoxelOf(p)) PROVE VoxelOf(q) = VoxelOf(p)
  <2>1. ASSUME NEW i \in Axes PROVE p[i] \div d = q[i] \div d
    <3>1. (p[i] \div d) * d <= q[i] /\ q[i] < (p[i] \div d) * d + d
      BY <1>3, <1>6
    <3>2. p[i] \div d \in Int /\ q[i] \in Int
      BY <1>4
    <3> QED BY <1>4, <3>1, <3>2
  <2>2. low(p) = low(q)
    BY <2>1
  <2> HIDE DEF low
  <2> QED BY <1>2, <2>2
<1>7. ASSUME VoxelOf(q) = VoxelOf(p) PROVE InBox(q, VoxelOf(p))
  BY <1>5, <1>7
<1> QED BY <1>5, <1>6, <1>7

(* Criterion_Check reads the size of a son without testing that there is    *)
(* one: a node large enough to be rebuilt has it.                           *)
THEOREM CriterionFindsSon ==
  ASSUME NEW S, NEW t \in Node(S), SizeExact(t), Criterion_Check(t)
  PROVE  t.left_son_ptr # nullptr \/ t.right_son_ptr # nullptr
<1>1. t.TreeSize \in Nat /\ t.TreeSize > Minimal_Unbalanced_Tree_Size
  BY DEF Node, Criterion_Check
<1>2. Minimal_Unbalanced_Tree_Size \in Nat \ {0}
  BY TreeAssumption
<1>3. CASE t.left_son_ptr = nullptr /\ t.right_son_ptr = nullptr
  <2>1. t.TreeSize = 1
    BY <1>3 DEF SizeExact
  <2> QED BY <1>1, <1>2, <2>1
<1> QED BY <1>3
=============================================================================
