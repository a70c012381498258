------------------------------ MODULE IkdRebuild ------------------------------
(***************************************************************************)
(* The background rebuild of an ikd-Tree: multi_thread_rebuild against the *)
(* mapping thread, which changes and searches the same subtree, and the    *)
(* OpenMP threads it searches with (esekfom.hpp).                          *)
(*                                                                         *)
(* The subtree *Rebuild_Ptr is modelled by the set of its points.  What    *)
(* happens under one mutex that nobody lets go of in between is one step;  *)
(* what the code reads without a mutex is read in a step of its own.       *)
(* BuildTree, flatten and the operations themselves are module IkdTree.    *)
(***************************************************************************)
EXTENDS Integers, FiniteSets, Sequences

CONSTANTS Points,      \* what the subtree can hold
          BoxSets,     \* the sets of points a box deletes
          Readers,     \* the OpenMP threads that search
          MaxSearches, \* searches between two changes; NUM_MAX_ITERATIONS in a scan
          MaxLogged    \* bound on Rebuild_Logger; the code has a ring of Q_LEN

ASSUME RebuildAssumption ==
    /\ BoxSets \subseteq SUBSET Points
    /\ IsFiniteSet(Readers) /\ "mapping thread" \notin Readers
    /\ MaxSearches \in Nat /\ MaxLogged \in Nat

VARIABLES
    place,                 \* whether the subtree is the root or lies under a father
    sub,                   \* points of the subtree callers see at *Rebuild_Ptr
    pending,               \* the father is deleted and has not pushed that down yet
    \* the mapping thread
    upc, op,               \* where it is, and the operation it carries out
    searches,              \* searches since the last change
    reader,                \* where each search thread is
    \* shared with the rebuilding thread
    Rebuild_Ptr,           \* whether a rebuild of the subtree is asked for
    rebuild_flag, Rebuild_Logger, search_mutex_counter,
    working_flag_mutex,    \* whether the rebuilding thread holds it
    search_flag_mutex,     \* whether a range search holds it
    termination_flag,
    \* the rebuilding thread
    rpc, Rebuild_PCL_Storage, new_root_node,
    clean,                 \* auxiliary: the logger was empty when this rebuild began
    inDiscarded            \* auxiliary: threads in the replaced subtree, or with a pointer to it

treeVars == <<place, sub, pending>>
callVars == <<upc, op, searches, reader>>
rebuildVars == <<rpc, Rebuild_PCL_Storage, new_root_node, clean>>
vars == <<treeVars, callVars, rebuildVars, Rebuild_Ptr, rebuild_flag, Rebuild_Logger, search_mutex_counter,
          working_flag_mutex, search_flag_mutex, termination_flag, inDiscarded>>

\* The range search of the mapping thread itself.
Mapping == "mapping thread"

NoOp == [op |-> "NONE", points |-> {}]
ADD_POINT(p) == [op |-> "ADD_POINT", points |-> {p}]
DELETE_BOX(box) == [op |-> "DELETE_BOX", points |-> box]
SEARCH == [op |-> "SEARCH", points |-> {}]
PUSH_DOWN == [op |-> "PUSH_DOWN", points |-> Points]
Operations == {ADD_POINT(p) : p \in Points} \cup {DELETE_BOX(box) : box \in BoxSets}

\* run_operation, and the same operation carried out on the subtree in place.
run_operation(points, operation) ==
    IF operation.op = "ADD_POINT" THEN points \cup operation.points ELSE points \ operation.points

Adds(operation, p) == operation.op = "ADD_POINT" /\ p \in operation.points
Deletes(operation, p) == operation.op # "ADD_POINT" /\ p \in operation.points

(* What the replay of a log makes of points: a point is left if it was     *)
(* there or was added, and nothing later deletes it.                       *)
Replay(points, log) ==
    {p \in Points : \E n \in 0 .. Len(log) :
        /\ IF n = 0 THEN p \in points ELSE Adds(log[n], p)
        /\ \A m \in n + 1 .. Len(log) : ~Deletes(log[m], p)}

\* What a caller of the tree finds in the subtree.
Visible == IF pending THEN {} ELSE sub

Init ==
    /\ place \in {"root", "inner"} /\ sub \in SUBSET Points /\ pending = FALSE
    /\ upc = "idle" /\ op = NoOp /\ searches = 0
    /\ reader = [r \in Readers |-> "out"]
    /\ Rebuild_Ptr = FALSE /\ rebuild_flag = FALSE /\ Rebuild_Logger = <<>>
    /\ search_mutex_counter = 0
    /\ working_flag_mutex = FALSE /\ search_flag_mutex = FALSE
    /\ termination_flag = FALSE
    /\ rpc = "idle" /\ Rebuild_PCL_Storage = {} /\ new_root_node = {}
    /\ clean = TRUE /\ inDiscarded = {}
-----------------------------------------------------------------------------
(* The mapping thread changes the tree. *)

lockVars == <<search_mutex_counter, working_flag_mutex, search_flag_mutex, termination_flag>>

Searchable == upc = "idle" /\ ~termination_flag /\ searches < MaxSearches

(* Add_Points or Delete_Point_Boxes with one point or box, or a search by  *)
(* range.  Delete_by_range returns at once below a deleted father.         *)
Call(operation) ==
    /\ upc = "idle" /\ ~termination_flag /\ Len(Rebuild_Logger) + 2 <= MaxLogged
    /\ operation.op = "DELETE_BOX" => ~pending
    /\ operation.op = "SEARCH" => searches < MaxSearches
    /\ searches' = IF operation.op = "SEARCH" THEN searches + 1 ELSE 0
    /\ upc' = "pushdown" /\ op' = operation
    /\ UNCHANGED <<treeVars, reader, rebuildVars, Rebuild_Ptr, rebuild_flag, Rebuild_Logger, lockVars, inDiscarded>>

(* A box that covers the father flags the father only: no mutex, no log.   *)
DeleteFather ==
    /\ upc = "idle" /\ ~termination_flag /\ place = "inner"
    /\ pending' = TRUE
    /\ UNCHANGED <<place, sub, callVars, rebuildVars, Rebuild_Ptr, rebuild_flag, Rebuild_Logger, lockVars, inDiscarded>>

\* What happens to the subtree under working_flag_mutex is logged while a rebuild runs.
Logged(operation) ==
    Rebuild_Logger' = IF rebuild_flag THEN Append(Rebuild_Logger, operation) ELSE Rebuild_Logger

(* Every operation loads the pointer to the subtree and compares it with   *)
(* *Rebuild_Ptr without a mutex.  A swap may come in between: the pointer  *)
(* loaded is then stale, and no longer the one Rebuild_Ptr points to.      *)

(* Push_Down on the father, first thing in every operation.  Through a     *)
(* stale pointer it flags the replaced subtree, and the deletion is lost.  *)
PushDown ==
    /\ upc = "pushdown"
    /\ \/ pending /\ Rebuild_Ptr /\ upc' = "pushLocked" /\ UNCHANGED <<sub, pending>>
       \/ ~(pending /\ Rebuild_Ptr) /\ upc' = "check" /\ sub' = Visible /\ pending' = FALSE
       \/ Mapping \in inDiscarded /\ upc' = "check" /\ pending' = FALSE /\ UNCHANGED sub
    /\ inDiscarded' = inDiscarded \ {Mapping}
    /\ UNCHANGED <<place, op, searches, reader, rebuildVars, Rebuild_Ptr, rebuild_flag, Rebuild_Logger, lockVars>>

PushDownLocked ==
    /\ upc = "pushLocked" /\ ~working_flag_mutex
    /\ sub' = {} /\ pending' = FALSE
    /\ Logged(PUSH_DOWN)
    /\ upc' = "check"
    /\ UNCHANGED <<place, op, searches, reader, rebuildVars, Rebuild_Ptr, rebuild_flag, lockVars, inDiscarded>>

\* Is the subtree the one to be rebuilt?  An operation goes in by the father's field, never by a stale pointer.
Check ==
    /\ upc = "check"
    /\ \/ op.op = "SEARCH" /\ upc' = "enter"
       \/ op.op # "SEARCH" /\ Rebuild_Ptr /\ upc' = "locked"
       \/ op.op # "SEARCH" /\ (~Rebuild_Ptr \/ Mapping \in inDiscarded) /\ upc' = "direct"
    /\ inDiscarded' = inDiscarded \ {Mapping}
    /\ UNCHANGED <<treeVars, op, searches, reader, rebuildVars, Rebuild_Ptr, rebuild_flag, Rebuild_Logger, lockVars>>

\* It is not: the operation runs without a mutex, and may call Rebuild.
ApplyDirect ==
    /\ upc = "direct"
    /\ sub' = run_operation(sub, op)
    /\ upc' \in {"criterion", "idle"}
    /\ op' = IF upc' = "idle" THEN NoOp ELSE op
    /\ UNCHANGED <<place, pending, searches, reader, rebuildVars, Rebuild_Ptr, rebuild_flag, Rebuild_Logger, lockVars, inDiscarded>>

(* It is: the operation runs and is logged under working_flag_mutex.       *)
ApplyLocked ==
    /\ upc = "locked"
    /\ ~working_flag_mutex
    /\ sub' = run_operation(sub, op)
    /\ Logged(op)
    /\ upc' = "idle" /\ op' = NoOp
    /\ UNCHANGED <<place, pending, searches, reader, rebuildVars, Rebuild_Ptr, rebuild_flag, lockVars, inDiscarded>>

\* The rebuilding thread holds rebuild_ptr_mutex_lock through the whole of an iteration.
PtrLocked == rpc \notin {"idle", "iterated", "terminated"}

\* Rebuild on a large subtree: ask the thread, unless it is busy (trylock).
Rebuild ==
    /\ upc = "criterion"
    /\ Rebuild_Ptr' = (Rebuild_Ptr \/ ~PtrLocked)
    /\ upc' = "idle" /\ op' = NoOp
    /\ UNCHANGED <<treeVars, searches, reader, rebuildVars, rebuild_flag, Rebuild_Logger, lockVars, inDiscarded>>
-----------------------------------------------------------------------------
(* Searches.  A search goes in by the pointer it compared, stale or not;   *)
(* only where it takes a lock does it load the pointer again, under it.    *)

(* Search_by_range: in Add_Points and Box_Search.  Under a father it holds *)
(* search_flag_mutex while it is in the subtree.                           *)
RangeLocked ==
    /\ upc = "enter" /\ place = "inner" /\ Rebuild_Ptr
    /\ ~search_flag_mutex /\ search_flag_mutex' = TRUE
    /\ upc' = "range"
    /\ inDiscarded' = inDiscarded \ {Mapping}
    /\ UNCHANGED <<treeVars, op, searches, reader, rebuildVars, Rebuild_Ptr, rebuild_flag, Rebuild_Logger,
                   search_mutex_counter, working_flag_mutex, termination_flag>>

\* At the root nothing is compared, and of a swap before it goes in the pointer may be stale or not.
RangeUnlocked ==
    /\ upc = "enter"
    /\ place = "root" \/ ~Rebuild_Ptr \/ Mapping \in inDiscarded
    /\ upc' = "range"
    /\ inDiscarded' \in {inDiscarded, inDiscarded \ {Mapping}}
    /\ UNCHANGED <<treeVars, op, searches, reader, rebuildVars, Rebuild_Ptr, rebuild_flag, Rebuild_Logger, lockVars>>

EndRange ==
    /\ upc = "range"
    /\ upc' = "idle" /\ op' = NoOp
    /\ search_flag_mutex' = FALSE
    /\ inDiscarded' = inDiscarded \ {Mapping}
    /\ UNCHANGED <<treeVars, searches, reader, rebuildVars, Rebuild_Ptr, rebuild_flag, Rebuild_Logger,
                   search_mutex_counter, working_flag_mutex, termination_flag>>

\* The parallel loop of h_share_model: every thread searches, then they join.
Fork ==
    /\ Searchable
    /\ upc' = "searching" /\ searches' = searches + 1
    /\ reader' = [r \in Readers |-> "load"]
    /\ UNCHANGED <<treeVars, op, rebuildVars, Rebuild_Ptr, rebuild_flag, Rebuild_Logger, lockVars, inDiscarded>>

Join ==
    /\ upc = "searching" /\ \A r \in Readers : reader[r] = "out"
    /\ upc' = "idle"
    /\ UNCHANGED <<treeVars, op, searches, reader, rebuildVars, Rebuild_Ptr, rebuild_flag, Rebuild_Logger, lockVars, inDiscarded>>

(* Search at the father: calc_box_dist reads the ranges of the son, under  *)
(* no mutex and not counted, and they decide whether to go in at all.      *)
SearchLoad(r) ==
    /\ reader[r] = "load"
    /\ reader' = [reader EXCEPT ![r] = "loaded"]
    /\ UNCHANGED <<treeVars, upc, op, searches, rebuildVars, Rebuild_Ptr, rebuild_flag, Rebuild_Logger, lockVars, inDiscarded>>

SearchTooFar(r) ==
    /\ reader[r] = "loaded" /\ place = "inner"
    /\ reader' = [reader EXCEPT ![r] = "out"]
    /\ inDiscarded' = inDiscarded \ {r}
    /\ UNCHANGED <<treeVars, upc, op, searches, rebuildVars, Rebuild_Ptr, rebuild_flag, Rebuild_Logger, lockVars>>

\* Is the subtree the one to be rebuilt?  A stale pointer is not, unless the compiled code loads it again.
SearchCheck(r) ==
    /\ reader[r] = "loaded"
    /\ \/ /\ r \in inDiscarded
          /\ reader' = [reader EXCEPT ![r] = "direct"]
          /\ UNCHANGED inDiscarded
       \/ /\ reader' = [reader EXCEPT ![r] = IF Rebuild_Ptr THEN "waiting" ELSE "direct"]
          /\ inDiscarded' = inDiscarded \ {r}
    /\ UNCHANGED <<treeVars, upc, op, searches, rebuildVars, Rebuild_Ptr, rebuild_flag, Rebuild_Logger, lockVars>>

\* Counted in, the search loads the pointer again.
SearchEnter(r) ==
    /\ reader[r] = "waiting"
    /\ ~search_flag_mutex /\ search_mutex_counter # -1
    /\ search_mutex_counter' = search_mutex_counter + 1
    /\ reader' = [reader EXCEPT ![r] = "counted"]
    /\ UNCHANGED <<treeVars, upc, op, searches, rebuildVars, Rebuild_Ptr, rebuild_flag, Rebuild_Logger,
                   working_flag_mutex, search_flag_mutex, termination_flag, inDiscarded>>

SearchLeave(r) ==
    /\ \/ reader[r] = "direct" /\ UNCHANGED search_mutex_counter
       \/ /\ reader[r] = "counted" /\ ~search_flag_mutex
          /\ search_mutex_counter' = search_mutex_counter - 1
    /\ reader' = [reader EXCEPT ![r] = "out"]
    /\ inDiscarded' = inDiscarded \ {r}
    /\ UNCHANGED <<treeVars, upc, op, searches, rebuildVars, Rebuild_Ptr, rebuild_flag, Rebuild_Logger,
                   working_flag_mutex, search_flag_mutex, termination_flag>>
-----------------------------------------------------------------------------
(* The rebuilding thread. *)

\* Lock rebuild_ptr_mutex_lock.
Iterate ==
    /\ rpc = "idle"
    /\ rpc' = "start"
    /\ UNCHANGED <<treeVars, callVars, Rebuild_PCL_Storage, new_root_node, clean, Rebuild_Ptr, rebuild_flag,
                   Rebuild_Logger, lockVars, inDiscarded>>

(* Lock working_flag_mutex; nothing asked for: unlock both.  Otherwise the *)
(* logger should be empty, and from here on operations are logged.         *)
Start ==
    /\ rpc = "start" /\ ~working_flag_mutex
    /\ IF Rebuild_Ptr
       THEN /\ clean' = (Rebuild_Logger = <<>>)
            /\ rebuild_flag' = TRUE /\ working_flag_mutex' = TRUE
            /\ rpc' = "lockSearch"
       ELSE /\ rpc' = "iterated"
            /\ UNCHANGED <<clean, rebuild_flag, working_flag_mutex>>
    /\ UNCHANGED <<treeVars, callVars, Rebuild_PCL_Storage, new_root_node, Rebuild_Ptr, Rebuild_Logger,
                   search_mutex_counter, search_flag_mutex, termination_flag, inDiscarded>>

\* A mutated form: the thread does not wait for the searches inside.
LockSearchAtOnce ==
    /\ rpc \in {"lockSearch", "lockSwap"} /\ ~search_flag_mutex
    /\ search_mutex_counter' = -1
    /\ rpc' = IF rpc = "lockSearch" THEN "flatten" ELSE "swap"
    /\ UNCHANGED <<treeVars, callVars, Rebuild_PCL_Storage, new_root_node, clean, Rebuild_Ptr, rebuild_flag,
                   Rebuild_Logger, working_flag_mutex, search_flag_mutex, termination_flag, inDiscarded>>

(* Wait for every counted search to leave and keep new ones out, before    *)
(* the flatten and again before the swap.                                  *)
LockSearch ==
    /\ rpc \in {"lockSearch", "lockSwap"}
    /\ ~search_flag_mutex /\ search_mutex_counter = 0
    /\ search_mutex_counter' = -1
    /\ rpc' = IF rpc = "lockSearch" THEN "flatten" ELSE "swap"
    /\ UNCHANGED <<treeVars, callVars, Rebuild_PCL_Storage, new_root_node, clean, Rebuild_Ptr, rebuild_flag,
                   Rebuild_Logger, working_flag_mutex, search_flag_mutex, termination_flag, inDiscarded>>

Flatten ==
    /\ rpc = "flatten"
    /\ Rebuild_PCL_Storage' = sub
    /\ rpc' = "unlockSearch"
    /\ UNCHANGED <<treeVars, callVars, new_root_node, clean, Rebuild_Ptr, rebuild_flag, Rebuild_Logger,
                   lockVars, inDiscarded>>

\* A mutated form: the searches are not let in again.
KeepsSearchLocked ==
    /\ rpc = "unlockSearch" /\ ~search_flag_mutex
    /\ working_flag_mutex' = FALSE
    /\ new_root_node' = {}
    /\ rpc' = IF Rebuild_PCL_Storage = {} THEN "lockSwap" ELSE "build"
    /\ UNCHANGED <<treeVars, callVars, Rebuild_PCL_Storage, clean, Rebuild_Ptr, rebuild_flag, Rebuild_Logger,
                   search_mutex_counter, search_flag_mutex, termination_flag, inDiscarded>>

(* Unlock search and working_flag_mutex.  With nothing to build the thread *)
(* goes straight to the replacement, without working_flag_mutex.           *)
UnlockSearch ==
    /\ rpc = "unlockSearch" /\ ~search_flag_mutex
    /\ search_mutex_counter' = 0
    /\ working_flag_mutex' = FALSE
    /\ new_root_node' = {}
    /\ rpc' = IF Rebuild_PCL_Storage = {} THEN "lockSwap" ELSE "build"
    /\ UNCHANGED <<treeVars, callVars, Rebuild_PCL_Storage, clean, Rebuild_Ptr, rebuild_flag, Rebuild_Logger,
                   search_flag_mutex, termination_flag, inDiscarded>>

\* BuildTree without any mutex, then working_flag_mutex again.
BuildNew ==
    /\ rpc = "build" /\ ~working_flag_mutex
    /\ new_root_node' = Rebuild_PCL_Storage
    /\ working_flag_mutex' = TRUE
    /\ rpc' = "drain"
    /\ UNCHANGED <<treeVars, callVars, Rebuild_PCL_Storage, clean, Rebuild_Ptr, rebuild_flag, Rebuild_Logger,
                   search_mutex_counter, search_flag_mutex, termination_flag, inDiscarded>>

\* One logged operation: popped under the mutexes, carried out without them.
DrainOne ==
    /\ rpc = "drain" /\ Rebuild_Logger # <<>>
    /\ new_root_node' = run_operation(new_root_node, Head(Rebuild_Logger))
    /\ Rebuild_Logger' = Tail(Rebuild_Logger)
    /\ working_flag_mutex' = FALSE
    /\ rpc' = "relock"
    /\ UNCHANGED <<treeVars, callVars, Rebuild_PCL_Storage, clean, Rebuild_Ptr, rebuild_flag,
                   search_mutex_counter, search_flag_mutex, termination_flag, inDiscarded>>

\* A mutated form: one logged operation is replayed, not all.
RelockSkipsRest ==
    /\ rpc = "relock" /\ ~working_flag_mutex
    /\ working_flag_mutex' = TRUE
    /\ rpc' = "lockSwap"
    /\ UNCHANGED <<treeVars, callVars, Rebuild_PCL_Storage, new_root_node, clean, Rebuild_Ptr, rebuild_flag,
                   Rebuild_Logger, search_mutex_counter, search_flag_mutex, termination_flag, inDiscarded>>

Relock ==
    /\ rpc = "relock" /\ ~working_flag_mutex
    /\ working_flag_mutex' = TRUE
    /\ rpc' = "drain"
    /\ UNCHANGED <<treeVars, callVars, Rebuild_PCL_Storage, new_root_node, clean, Rebuild_Ptr, rebuild_flag,
                   Rebuild_Logger, search_mutex_counter, search_flag_mutex, termination_flag, inDiscarded>>

Drained ==
    /\ rpc = "drain" /\ Rebuild_Logger = <<>>
    /\ rpc' = "lockSwap"
    /\ UNCHANGED <<treeVars, callVars, Rebuild_PCL_Storage, new_root_node, clean, Rebuild_Ptr, rebuild_flag,
                   Rebuild_Logger, lockVars, inDiscarded>>

(* The father, or Root_Node, now points to the new subtree.                *)
Swap ==
    /\ rpc = "swap"
    /\ sub' = new_root_node
    /\ inDiscarded' = {r \in Readers : reader[r] \in {"loaded", "counted", "direct"}}
                      \cup (IF upc \in {"pushdown", "check", "enter", "range"} THEN {Mapping} ELSE {})
    /\ rpc' = "unlockSwap"
    /\ UNCHANGED <<place, pending, callVars, Rebuild_PCL_Storage, new_root_node, clean, Rebuild_Ptr, rebuild_flag,
                   Rebuild_Logger, lockVars>>

\* A mutated form: the searches are let in without search_flag_mutex.
UnlocksAtOnce ==
    /\ rpc = "unlockSwap"
    /\ search_mutex_counter' = 0
    /\ Rebuild_Ptr' = FALSE
    /\ working_flag_mutex' = FALSE
    /\ rpc' = "flagOff"
    /\ UNCHANGED <<treeVars, callVars, Rebuild_PCL_Storage, new_root_node, clean, rebuild_flag, Rebuild_Logger,
                   search_flag_mutex, termination_flag, inDiscarded>>

\* A mutated form: working_flag_mutex stays locked.
KeepsWorkingMutex ==
    /\ rpc = "unlockSwap" /\ ~search_flag_mutex
    /\ search_mutex_counter' = 0
    /\ Rebuild_Ptr' = FALSE
    /\ rpc' = "flagOff"
    /\ UNCHANGED <<treeVars, callVars, Rebuild_PCL_Storage, new_root_node, clean, rebuild_flag, Rebuild_Logger,
                   working_flag_mutex, search_flag_mutex, termination_flag, inDiscarded>>

\* Let the searches in, drop Rebuild_Ptr, unlock working_flag_mutex whether held or not.
UnlockSwap ==
    /\ rpc = "unlockSwap" /\ ~search_flag_mutex
    /\ search_mutex_counter' = 0
    /\ Rebuild_Ptr' = FALSE
    /\ working_flag_mutex' = FALSE
    /\ rpc' = "flagOff"
    /\ UNCHANGED <<treeVars, callVars, Rebuild_PCL_Storage, new_root_node, clean, rebuild_flag, Rebuild_Logger,
                   search_flag_mutex, termination_flag, inDiscarded>>

\* rebuild_flag is reset only after the unlock.
FlagOff ==
    /\ rpc = "flagOff"
    /\ rebuild_flag' = FALSE
    /\ rpc' = "delete"
    /\ UNCHANGED <<treeVars, callVars, Rebuild_PCL_Storage, new_root_node, clean, Rebuild_Ptr, Rebuild_Logger,
                   lockVars, inDiscarded>>

\* delete_tree_nodes on the replaced subtree, unlock rebuild_ptr_mutex_lock.
DeleteDiscarded ==
    /\ rpc = "delete"
    /\ rpc' = "iterated"
    /\ Rebuild_PCL_Storage' = {} /\ new_root_node' = {}
    /\ UNCHANGED <<treeVars, callVars, clean, Rebuild_Ptr, rebuild_flag, Rebuild_Logger, lockVars, inDiscarded>>

NextIteration ==
    /\ rpc = "iterated"
    /\ rpc' = IF termination_flag THEN "terminated" ELSE "idle"
    /\ UNCHANGED <<treeVars, callVars, Rebuild_PCL_Storage, new_root_node, clean, Rebuild_Ptr, rebuild_flag,
                   Rebuild_Logger, lockVars, inDiscarded>>

\* stop_thread: set the flag, then join.
stop_thread ==
    /\ upc = "idle" /\ ~termination_flag
    /\ termination_flag' = TRUE
    /\ upc' = "join"
    /\ UNCHANGED <<treeVars, op, searches, reader, rebuildVars, Rebuild_Ptr, rebuild_flag, Rebuild_Logger,
                   search_mutex_counter, working_flag_mutex, search_flag_mutex, inDiscarded>>

Joined ==
    /\ upc = "join" /\ rpc = "terminated"
    /\ upc' = "stopped"
    /\ UNCHANGED <<treeVars, op, searches, reader, rebuildVars, Rebuild_Ptr, rebuild_flag, Rebuild_Logger, lockVars, inDiscarded>>

MappingStep == PushDown \/ PushDownLocked \/ Check \/ ApplyDirect \/ ApplyLocked \/ Rebuild \/ RangeLocked
               \/ RangeUnlocked \/ EndRange \/ Join \/ Joined
SearchStep(r) == SearchLoad(r) \/ SearchTooFar(r) \/ SearchCheck(r) \/ SearchEnter(r) \/ SearchLeave(r)
RebuildStep == Iterate \/ Start \/ LockSearch \/ Flatten \/ UnlockSearch \/ BuildNew \/ DrainOne \/ Relock
               \/ Drained \/ Swap \/ UnlockSwap \/ FlagOff \/ DeleteDiscarded \/ NextIteration

Next == \/ \E operation \in Operations \cup {SEARCH} : Call(operation)
        \/ DeleteFather \/ Fork \/ stop_thread
        \/ MappingStep \/ RebuildStep
        \/ \E r \in Readers : SearchStep(r)

Fairness == WF_vars(MappingStep) /\ WF_vars(RebuildStep) /\ \A r \in Readers : WF_vars(SearchStep(r))

Spec == Init /\ [][Next]_vars /\ Fairness
-----------------------------------------------------------------------------
(* Properties. *)

(* Types; search_mutex_counter stays between -1 and the number of search  *)
(* threads.                                                                *)
TypeOK ==
    /\ place \in {"root", "inner"} /\ sub \in SUBSET Points
    /\ pending \in BOOLEAN
    /\ upc \in {"idle", "pushdown", "pushLocked", "check", "direct", "locked", "criterion", "enter",
                "range", "searching", "join", "stopped"}
    /\ op \in Operations \cup {NoOp, SEARCH} /\ searches \in Nat
    /\ reader \in [Readers -> {"out", "load", "loaded", "waiting", "counted", "direct"}]
    /\ Rebuild_Ptr \in BOOLEAN /\ rebuild_flag \in BOOLEAN
    /\ Rebuild_Logger \in Seq(Operations \cup {PUSH_DOWN})
    /\ search_mutex_counter \in -1..Cardinality(Readers)
    /\ working_flag_mutex \in BOOLEAN /\ search_flag_mutex \in BOOLEAN /\ termination_flag \in BOOLEAN
    /\ rpc \in {"idle", "start", "lockSearch", "flatten", "unlockSearch", "build", "drain", "relock", "lockSwap",
                "swap", "unlockSwap", "flagOff", "delete", "iterated", "terminated"}
    /\ Rebuild_PCL_Storage \in SUBSET Points /\ new_root_node \in SUBSET Points
    /\ clean \in BOOLEAN
    /\ inDiscarded \subseteq Readers \cup {Mapping}

Counted == {r \in Readers : reader[r] = "counted"}
SearchLocked == rpc \in {"flatten", "unlockSearch", "swap", "unlockSwap"}

(* search_mutex_counter is the number of nearest searches in the subtree,  *)
(* or -1 while the rebuilding thread flattens or swaps it, and then none   *)
(* is inside.                                                              *)
NearestSearchExcluded ==
    /\ TypeOK
    /\ SearchLocked => search_mutex_counter = -1 /\ Counted = {}
    /\ ~SearchLocked => search_mutex_counter = Cardinality(Counted)

(* When the replaced subtree is deleted, no search that went by a lock is  *)
(* still in it: neither one that was counted in, nor a range search that   *)
(* holds search_flag_mutex, which alone does not keep it out of the swap.  *)
(* It is not said that nobody is: a search that loaded the pointer before  *)
(* the swap and has not tested Rebuild_Ptr, or tested it too late, and a   *)
(* range search at the root may be.                                        *)
LockedSearchesGone ==
    rpc = "delete" => /\ inDiscarded \cap Counted = {}
                      /\ search_flag_mutex => Mapping \notin inDiscarded

(* From the flatten on, the new subtree and the operations logged but not  *)
(* replayed yet make up the subtree callers see, provided that the logger  *)
(* was empty at the start and that there was something to build: so the    *)
(* swap changes nothing a caller can see.                                  *)
LogCatchesUp ==
    clean /\ Rebuild_PCL_Storage # {} =>
        /\ rpc \in {"unlockSearch", "build"} => Replay(Rebuild_PCL_Storage, Rebuild_Logger) = sub
        /\ rpc \in {"drain", "relock", "lockSwap", "swap"} => Replay(new_root_node, Rebuild_Logger) = sub
        /\ rpc \in {"lockSwap", "swap"} => Rebuild_Logger = <<>>

(* Every call of the mapping thread returns, whatever the rebuilding       *)
(* thread holds, and stop_thread ends.                                     *)
CallsReturn == upc \notin {"idle", "stopped"} ~> upc \in {"idle", "stopped"}

(* A rebuild that is asked for is carried out, unless the thread is        *)
(* stopped, once the mapping thread logs no more operations: while it does *)
(* the replay may chase it for ever.                                       *)
RebuildServed == <>[][Len(Rebuild_Logger') <= Len(Rebuild_Logger)]_vars
                    => (Rebuild_Ptr ~> ~Rebuild_Ptr \/ termination_flag)
=============================================================================
