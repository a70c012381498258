# Verification of the MID-360 SLAM and relocalisation tools

TLA+ specifications of the parts of this repository where threads, messages
and asynchronous answers meet: the Livox driver (`src/src/livox_ros_driver2`)
from the packets of the SDK to the published messages, and the localisation
node (`src/src/FAST_LIO`) with its preprocessing, its maps and its ikd-Tree.
Modules `MC*` and the `.cfg` files check them with
TLC on small instances; modules `*Proofs` hold theorems that TLAPS checks for
every value of the constants. `PROJECT.json` maps each definition to the lines
it models and lists runs, hazards, findings and theorems.

Paths below are relative to `src/`; `D/` is
`src/livox_ros_driver2/src/`, `F/` is `src/FAST_LIO/`.

## 1. Inventory

How the parts are connected:

    lidar --UDP--> Livox SDK (external)
       | info change, answers            | packets (one SDK thread)
       v                                 v
    livox_lidar_callback  <--CacheIndex--> PubHandler: raw_packet_queue_
    (DeviceConfig)                        | processing thread, CheckTimer
       | connect_state = Sampling         v
       |                             StoragePointData / StorageImuData
       |                                  | LidarDataQueue, semaphores
       +--------------------------------> v
                                     poll threads (Lddc) --ROS topics-->
                                     Preprocess (features per line) -->
                                     FastLioNode: buffers, main_loop,
                                     Matching (NDT, local map window),
                                     map gathered --/map_save--> file
                                     ikd-Tree + its rebuilding thread

| Component | State | Operations | What is hard | What makes it correct |
|---|---|---|---|---|
| Point queue (`D/comm/ldq.cpp`) | `storage_packet`, `rd_idx`, `wr_idx`, `mask` | `InitQueue`, `QueuePushAny`, `QueuePop`, full and empty tests | no lock, two threads, indices that wrap at 2^32, allocation on first use | no slot shared, whole packets in order, nothing invented or doubled |
| Storage and publishing (`D/lds.cpp`, `D/lddc.cpp`, `D/comm/semaphore.*`, `D/driver_node.cpp`) | queues, two semaphores, `request_exit_`, `exit_signal_`, `connect_state` | `PushLidarData`, `StorageImuData`, `Distribute*`, `Polling*`, `~DriverNode` | the unlocked `GetCount`, wake-ups spent on lidars that are not Sampling, shutdown | no wake-up lost, data delivered, threads end |
| Device configuration (`D/call_back/livox_lidar_callback.cpp`, `D/parse_cfg_file`) | `set_bits`, `connect_state`, `config_mutex_`, commands in flight | info change, four options, work mode, their answers | answers late, refused or timed out, reconnection, retries, narrowing | Sampling only when configured, and always reached unless refused |
| Packet assembly (`D/comm/pub_handler.cpp`) | `raw_packet_queue_`, `is_timestamp_sync_`, `points_clouds_`, `points_`, `last_pub_time_` | the packet callback, `RawDataProcess`, `CheckTimer`, `Uninit` | two clocks, a flag shared by all lidars, a one-millisecond window, a timed wait | every point in one frame, in order; frames at the configured frequency; the thread ends |
| Index cache (`D/comm/cache_index.cpp`) | `map_index_`, `index_cache_` | `GetFreeIndex`, `GetIndex`, `LvxGetIndex` | two critical sections, a lookup outside the lock | one slot per handle, one handle per slot |
| Localisation node (`F/src/laserMapping_relocalization.cpp`, `F/include/matching/matching.hpp`) | `lidar_buffer`, `time_buffer`, `imu_buffer`, `pose_received`, `initial_guess`, `inited_pose`, the local map | five callbacks, `main_loop`, NDT matching | clocks that jump back, two queues in step, an initialisation that fails, a pose that comes late | each scan with its time, the user's pose used, failed matches kept out |
| Map saving and scripts | `pcl_wait_save`, the map file | `publish_frame_world`, `save_map_callback`, `start*.sh`, `run_slam.sh` | a kill while the file is written, a restart over the same file | what a node saved it still holds and saves again |
| ikd-Tree (`F/include/ikd-Tree`) | nodes with lazy flags and summaries, `Points_deleted`; `Rebuild_Ptr`, `Rebuild_Logger`, `search_mutex_counter`, three locks | build, add, delete, search; the rebuilding thread | flags pushed down late, rebuilding; the swap of a subtree in use, operations that arrive meanwhile | the tree answers as the points inserted and not deleted; no counted search is in what is flattened or swapped, none that went by a lock in what is deleted |
| Preprocessing (`F/src/preprocess.cpp`) | `pl_surf`, `pl_buff`, `time_unit`, per line `types` | five handlers, `give_feature` | buffers kept between messages, times from the yaw, four passes over one line | own points only, true times, blind zone respected, no pass takes back a real plane, an edge or a wire |
| Filter mathematics, legacy nodes, rapidjson, launch files, display scripts | - | - | - | not modelled, see section 7 |

## 2. Modules

| Module | Models | Checked by | Proved in |
|---|---|---|---|
| `PacketChannel` | abstract: what the point queue promises, a bounded FIFO of whole packets | through `LidarDataQueue` | `LidarDataQueueProofs` |
| `LidarDataQueue` | the ring of `D/comm/ldq.cpp` and its two users | `MCLidarDataQueue` | `LidarDataQueueProofs` |
| `PointDelivery` | storing, the semaphores, the poll loops, shutdown | `MCPointDelivery` | `PointDeliveryProofs` |
| `DeviceConfig` | from the configuration file to Sampling | `MCDeviceConfig` | `DeviceConfigProofs` |
| `PublishInterval` | the configured frequency as `CheckTimer` uses it | through the next two | - |
| `PointStream` | abstract: what packet assembly promises, per lidar a stream whose frames hold a beginning of what was sent | through `PubHandler` | `PubHandlerProofs` |
| `PubHandler` | raw packets to frames: the threads and the two clocks | `MCPubHandler` | `PubHandlerProofs` |
| `FrameTiming` | when a synchronised lidar's frames end, at tick resolution | `MCFrameTiming` | `PubHandlerProofs` |
| `FastLioNode` | the localisation node | `MCFastLioNode`, and through `SlamNode` | `SlamNodeProofs` |
| `SlamNode` | `FastLioNode` composed with the map window, the gathered map, the file and restarts | `MCSlamNode` | `SlamNodeProofs` |
| `PointGeometry` | distances, boxes and voxels of the ikd-Tree | through `IkdTree` | `IkdRebuildProofs` |
| `PointBag` | abstract: what an ikd-Tree promises, a bag of points | through `IkdTree` | - |
| `TreeNode` | one node of the tree: what it says of its subtree, pushing down, the pruning tests | through `IkdTree` | `IkdRebuildProofs` |
| `IkdTree` | the tree as a data structure, one caller | `MCIkdTree` | - |
| `IkdRebuild` | the rebuilding thread and its callers | `MCIkdRebuild` | `IkdRebuildProofs` |
| `Preprocess` | messages to clouds, every handler | `MCPreprocess` | `PreprocessProofs` |
| `FeatureExtraction` | `give_feature` on one line | `MCFeatureExtraction` | `FeatureExtractionProofs` |

### LidarDataQueue and PacketChannel

One lidar's ring. A push is five steps (the full test, header, points,
`wr_idx`), a pop four (the test, header, points, `rd_idx`), because nothing
but the indices keeps the two threads apart; `InitQueue` publishes the storage
before it sets the mask. A packet has a head and a body so that a torn packet
would be seen. Indices are kept modulo `IndexModulus`, which stands for 2^32
and is a multiple of the ring's size, as the code's power of two is.
`ImplementsChannel` is the refinement: the packets between the indices are the
channel, `WritePoints`'s index update is `Put`, the pop's is `Take`, and every
other step stutters.

### PointDelivery

The producer (packet-assembly or SDK thread) stores a packet, tests the queue
again, reads the semaphore's count without its mutex, and signals; each is a
step. A poll thread waits, scans the lidars, publishes what their queues hold,
and tests the exit signal. `mode` selects the loop: point clouds in formats 0
and 1, `PublishPclMsg` (which pops nothing under ROS 2), or IMU data.
A packet is a unit: the queue it sits in is `LidarDataQueue`.

### DeviceConfig

A lidar's info change finds or takes its device slot, sends the options of the
file one by one under `config_mutex_`, setting a bit for each, and asks for the
work mode. The SDK answers each command once: success, refusal or a timeout,
after which the callback asks again. An answer belongs to the connection it was
asked in or to a later one. Entries of the file carry numbers, narrowed as the
parser narrows them.

### PubHandler and FrameTiming

`PubHandler` follows the callback of the SDK's thread (set the flag, then queue
the packet) and the processing thread (test `is_quit_`, take a packet or wait,
gather its points, `CheckTimer`) with time in ticks and two clocks, `now` and
`now + Skew`. A packet carries one time stamp. `delivered` is
history. The packets under way form one `Line`: the one the processing thread
holds, the queue, and the one the callback holds; `Carries` says which of a
lidar's packets are in it. `StreamRefined` is the refinement of `PointStream`:
what a lidar has sent is read off the line and `delivered` by number (`Sent`), and what its
frames have held is `delivered`; the callback's `ReceivePoints` is `Send`, a
frame that ends is `Publish`, and the rest stutters. `FrameTiming` is the rule of the synchronised clock alone: a lidar
that loses nothing, a resolution of 1/150 ms, the clock kept modulo the
interval, so that drift over any number of frames is covered by a finite state.

### FastLioNode

Every callback is one step: they are all in the node's default callback group,
which is mutually exclusive, so the multi-threaded executor runs one at a time
(only the signal handler is asynchronous). Scans are numbered by arrival, and
`time_buffer` holds the number of the scan whose header time it is, which makes
"the scan's own time" a comparison. `kf` keeps which scan the last filter
update was for and which one its pose was computed from; poses, points and the
filter's mathematics are abstracted to that. A match may converge, end in NaN,
be given up for lack of points, or find no target at all. The node runs on the
system clock: the debounce of poses compares it with zero for the first pose,
which is why the first pose is always taken.

### SlamNode

Extends `FastLioNode`: every step is one of its steps together with what the
same code does to the maps. Positions lie on one axis, because the code looks at
each axis by itself and moves the window as soon as one asks for it. `origin` is
the middle of the box `box_filter_ptr_`, `cut` the middle of the window NDT's
target was cut from: `ResetLocalMap` always moves the first and the second only
if the window holds enough points. After a match the window moves when the pose
is within `Margin` (50 m) of an edge. Every `SavePeriod`-th scan is gathered;
`/map_save` writes all that was gathered, and the scripts call it every 30
seconds. `Restart` is a node started again after a stop or a kill at any moment,
also while the file is written; `map_file_path` and `globalmap_dir` name the same
file, so that the next life loads what the last one saved.

### IkdTree, TreeNode, PointBag and PointGeometry

A node (`TreeNode`) is a record that holds its sons, its flags and what it says of its
subtree; an operation is one step, as the calls of one thread on a tree too
small for the rebuilding thread are. What concerns one node and its sons, `Update`,
`Push_Down`, `Criterion_Check`, the mark of a box deletion and the pruning tests, are plain operators of
`TreeNode`, so that they can be proved about; `BuildTree`, `flatten`, the bounded heap of the nearest search and the three
searches are recursive operators, in the order in which the code does things, with the
pruning tests and the flags each search leaves pushed down. `settled` is the tree with
every flag pushed down. `PointBag` says what a caller sees: a bag of points,
a voxel that keeps the point nearest to its centre, deleted points that are handed
back at most once, searches that find exactly what is there. `PointSetRefined` is
the refinement. Coordinates are integers; the rounding of floats is left out.
The localisation node declares a tree, whose rebuilding thread runs, but its
`main_loop` searches the map with NDT and never reaches it: the callers modelled
here are those of `F/include/esekfom.hpp:100-131`, of `lasermap_fov_segment` and of the
mapping node the tree was written for.

### IkdRebuild

The subtree under `*Rebuild_Ptr` is the set of its points. The thread goes
through its iteration lock by lock; what it or a caller reads without a lock
(`Rebuild_Ptr`, `rebuild_flag`) is read in a step of its own. Callers are the mapping thread,
which adds, deletes and searches by range, and the OpenMP threads of
`h_share_model`, which run nearest searches and are joined before the mapping
thread goes on. `place` says whether the subtree is the root or has a father, which
may be deleted and push that down later. The loop that corrects the fathers
after the swap (`F/include/ikd-Tree/ikd_Tree.cpp:337-348`) changes summaries only and is left
out (section 6 says what it misses). Where the flatten found no point lines 333 and 334
dereference a null `new_root_node`, which is undefined; nobody uses the values, the build with
`-O3` (`F/CMakeLists.txt:9`) drops the reads, and the model goes on with an empty subtree.
Each son's `push_down_mutex_lock` is held inside one step.

A caller loads the pointer to the subtree, compares it with `*Rebuild_Ptr` under no mutex
and goes in; a swap can come between any two of these. `inDiscarded` are the threads that
are in the replaced subtree or hold a pointer to it:

* A nearest search first reads the ranges of the son (`calc_box_dist`, 1099-1100 and
  1693-1710), neither counted nor under a mutex (`SearchLoad`), and may turn away because of them
  (`SearchTooFar`). In `SearchCheck` a stale pointer is not the one `Rebuild_Ptr` points
  to, and the search goes in directly; the compiled code may also load the pointer
  again. Only `SearchEnter`, which counts it in, loads it again by the source.
* The mapping thread's range search takes `search_flag_mutex` under a father
  (`RangeLocked`). The swap itself does not hold that mutex, so this search can be inside
  when the subtree is replaced; `UnlockSwap` then waits for it. At the root (469, 503)
  it takes no mutex (`RangeUnlocked`).
* An addition or deletion goes in by the field of the father, never by a stale pointer.
  But `Push_Down` writes its flags through the pointer it compared: through a
  stale one the deletion is lost (third disjunct of `PushDown`).

### Preprocess and FeatureExtraction

A handler reads a message point by point. A point is its ring, its distance
compared with `blind`, and how far the sensor has turned; a time is a number of
steps and the power of ten by which it is off milliseconds, so that a wrong unit
and a wrong turn are both visible. `Begin` clears what the handler clears, and
no more. `FeatureExtraction` runs the passes of `give_feature` one iteration at a
time: what they compute from coordinates is any outcome, while indices, the
class of every point and its distance are kept. A line whose points are all
blind lets the search for `head` run past its end (`F/src/preprocess.cpp:472`),
and a plane that reaches the end of the line writes one element past it (501);
neither has an outcome that could be stated, and the model starts from lines
with a point beyond the blind zone.

## 3. Runs

| Run | Instance | Shows |
|---|---|---|
| `lidar_queue` | 2 packets, 4 slots, indices modulo 8 | no slot is shared, the ring is the channel, the oldest packet is popped |
| `point_delivery` | 2 lidars, 2 slots, 5 stores, 3 modes | no wake-up is lost, data is delivered, threads end |
| `device_config` | 2 lidars, one slot, entries of the file or none, 2 info changes, 1 retry | Sampling only when configured, and reached |
| `pub_handler` | 2 lidars, 2 packets each, two intervals, either clock | streams whole with a shared flag and timer, the handler is a stream per lidar, queue drained, thread ends |
| `frame_timing` | 100 Hz, packets of 0.40 to 0.56 ms, every starting tick | no interval is missed |
| `slam_node` | 5 scans, 2 IMU messages, 5 positions, a window of half edge 3, 2 lives, no map or one at the origin | buffers in step over restarts, scans consumed, the window around the vehicle, the target in step with the window, saved maps kept |
| `ikd_tree` | 2 dimensions, 4 points, 3 boxes, 4 nodes, criteria that rebuild at 2 nodes | summaries exact, the tree is the bag |
| `ikd_rebuild` | 2 points, 2 searching threads, 3 logged operations | counted searches kept out of what is flattened and swapped, those that went by a lock out of what is deleted; a log that began empty catches up if there was a point to build from; calls return, rebuilds happen |
| `preprocess` | every handler, 2 messages of up to 4 points, 2 lines, a turn of 3 steps | own points only, true times, blind zone |
| `features` | every line of up to 7 points, groups of 2 | no blind feature, runs partition the planes, real planes, edges and wires keep their class, the function ends |
| `time_unit`, `relocalised` | as above | the code disagrees with a document or a message, section 6 |

Why the bounds are enough. The ring wraps its indices twice around four slots,
so full, empty and wrapped states occur in every alignment; the space needs no
other bound. Two lidars are what it takes for one to be skipped, dropped or
starved by another. Five stores overfill a queue of two and leave some for
after a wake-up. Two info changes and one retry let an answer arrive in a
later connection and be asked for again. Two packets of a lidar, two intervals long, can
both be frames, share one, or wait while the other lidar ends it. Five scans are one to initialise, one that is only
the first, and three that loop back and register. Two lives are what it takes
to load what another life saved or left cut short; five positions let the vehicle leave
the window on one side. Four nodes give the tree a left, a right and a deeper son, and
criteria below the code's let them rebuild; a point of a box edge and a voxel with two points are among
them. Two searching threads let one be counted while another is not. Seven
points are the shortest line on which the pass over the edges looks at a point.
What the bounds leave out the
theorems of section 5 cover for the properties they name, which are all the
safety properties but those of the ikd-Tree's structure; of these the theorems about
its nodes cover a part, and for the rest and for liveness the bounded runs are all there is.

## 4. Fairness

No run assumes that a lidar sends, answers truthfully, or that a user acts.

* `PointDelivery`: weak fairness of the poll thread's steps and of a store that
  has begun; new packets are not fair, so data must be delivered without more.
* `LidarDataQueue`: the poll thread alone.
* `DeviceConfig`: the SDK thread goes on with a handler it has begun, and the
  SDK gives each command an answer, of whatever kind; timeouts are bounded by
  `MaxRetries`.
* `PubHandler`: the processing thread (its wait ends after 500 ms) and the rest
  of a callback that has begun.
* `FastLioNode` and `SlamNode`: the timer of `main_loop`, which fires every 200 us, and one
  IMU message after another, which `sync_packages` cannot do without; nothing of
  restarts, saves or matches is fair.
* `IkdRebuild`: the mapping thread inside a call, each search it has begun, and
  the rebuilding thread. `RebuildServed` supposes that the mapping thread stops
  logging operations: the replay takes one at a time and lets it log another in between.
* `FeatureExtraction`: the function runs on. The other modules state no liveness.

## 5. Proofs

Each `*Proofs` module states an inductive invariant, checked by TLC first, and
the theorems that follow from it.

* `LidarDataQueueProofs`: `QueueInv` says where the two indices and the slots
  between them stand and which slot each thread has in its hands. It is needed
  because the full test bounds the distance of the indices, and only the
  distance and the divisibility of the modulus by the size make the slots
  differ. `NoSlotRace` and the refinement `RefinesChannel` follow. Assumed: the
  size divides the index modulus (`RoundupPowerOf2`).
* `PointDeliveryProofs`: `WakeupInv` accounts for every queue that is not
  empty: a signal pending, a store on the way to the test, or a scan that is
  still to look at it. `SemaphoreStaysBinary` and `WakeupsAreNotLost`.
* `DeviceConfigProofs`: `ConfigInv` ties bits, commands in flight and
  acknowledgements of each option together; without the commands in flight
  the claim about the bits is not inductive. `NoEarlySampling` and
  `BitsStayAccounted`.
* `PubHandlerProofs`, the stream: `StreamIntact` is inductive together with
  `PubInv`, because it speaks of the whole `Line` and not of each lidar's share of
  the queue. Three facts about `Carries` carry the proof: a packet received
  extends its lidar's share by one (`LineGrows`), the queue only hands the line on
  (`QueueKeepsLine`), and the head of the line is the next packet of its lidar
  (`LineShrinks`), which the processing thread appends to what has gone before,
  whether a frame is published or not (`FrameKeepsAll`). `PubInv` is needed for
  one thing: the thread holds a packet only while it processes it, so that taking
  another cannot drop it. `PubInvariant` and `StreamAlwaysIntact`.
* `PubHandlerProofs`, the refinement: `RefinesStream`. Two facts follow from
  `StreamIntact`: every packet on its way or delivered is the only one of its
  lidar with its number, and all that were received are there (`Numbered`), so
  that `Sent` is what each lidar sent, and `delivered` is a beginning of it
  (`SentListed`). A step that receives a packet adds one to its lidar's and
  leaves the others alone (`ReceiveSends`), which is a `Send`; every other step
  keeps what was sent (`SentKept`) and moves `delivered` forward within it
  (`QuietPublishes`), which is a `Publish` or a stutter.
* `PubHandlerProofs`, the timing: `TimingInv` says that a frame begins within a
  millisecond and a point of an interval's start, and that only a lack of
  points delays its end within the first millisecond. From packets closer than
  a millisecond (`TimingAssumption`) and an interval of whole milliseconds
  (`WholeMilliseconds`) follows `FramesAreOnTime`. At other frequencies the
  theorem does not hold, see section 6.
* `SlamNodeProofs`: for `FastLioNode` alone `NodeInv` adds to the claims about the
  buffers and the guess that a pose counts as received only after one was taken:
  `TimesAlwaysCover` and `GuessAlwaysBehindPose`. For `SlamNode`, `MapInv` adds
  to the three claims about the maps that
  without a target the last match is the origin, and that no later life has saved
  the file; `WindowAlwaysHoldsPose`, `TargetStaysWindow` and `SavedMapStaysKept`
  follow. `NodeInv` is proved again for the node with its maps, through every
  restart. Assumed: two matches lie at most twice the margin apart
  (`MaxJump`), which is what keeps the vehicle in the window.
* `IkdRebuildProofs`, the locks: `IInv` adds to `NearestSearchExcluded` that an operation is
  given while it is under way (`OpGiven`), that a rebuild is asked for only while no
  search runs, because the parallel loop is joined (`ReadersJoined`), that `Rebuild_Ptr`
  stays set until the swap is over (`PtrHeld`), and where the threads in `inDiscarded` can
  be (`InsideDiscarded`). `LockedSearchesAlwaysGone` follows: a counted search is gone
  before the swap; a range search that holds `search_flag_mutex` may be inside at
  the swap, but `UnlockSwap` takes that mutex before the deletion. It does not say that nobody
  reads what is deleted, which is false: see section 6.
* `IkdRebuildProofs`, the log: `LogInv` adds to `LogCatchesUp` that a call which
  found no rebuild asked for is over before one is, that `rebuild_flag` stays raised
  from the flatten until after the swap, and that the thread holds
  `working_flag_mutex` where nothing may be logged. Two lemmas about `Replay` do the
  rest: an operation appended to the log is the operation done last
  (`ReplayAppend`), and the head of the log can be done at once (`ReplayHead`).
  `LogAlwaysCatchesUp`, and from it the action property `SwapsKeepOrEmpty`: a swap
  changes nothing a caller can see if the flatten found a point, and leaves an empty
  subtree if it found none, whatever was added since (`NothingBuilt`). Both speak of
  rebuilds that began with an empty log (`clean`).
* `FeatureExtractionProofs`: `BlindNeverClaimed` and `ClaimsAlwaysKept`, for
  lines of any length, from where each pass's index can stand. The second says that a real
  plane, an edge or a wire keeps its class, and that a possible plane, the end of a plane, becomes
  neither a wire nor a point of no class again; it may still become a real plane or an edge.
  `RunsAlwaysPartitionPlanes` needs `RunInv`: while the surface points are
  collected, the runs so far end before the run that is open, and every plane
  that the index has passed is in one of them or in the open one.
* `PreprocessProofs`: `PreInv` says where the points of a message can be while a
  handler works, in `pl_surf` or in the line of their ring, and that they are
  points of this message. For the times it ties each ring's clock to the angle the
  sensor has turned (`RingsTrue`): the yaw alone tells the time only up to whole turns,
  and `time_last` must say in which turn it is. `CloudsAlwaysFresh` and
  `BlindAlwaysRespected` hold for every setting; `TimesAlwaysTrue` for
  those in which `timestamp_unit` is the driver's unit (`UnitsAgree`), which is the
  premise that the run `time_unit` shows to fail.

* `IkdRebuildProofs`, the nodes of the tree: a tree of any depth is treated by
  its ways down (`Walk`: from a node to a son it has once it is pushed down), and
  what holds along a way by the least step at which it would fail (`DownTheWalk`,
  `UpTheWalk`). What passes from the sons to their father holds of every node of a set
  that has all that is below them (`ExactBelow`), by the least `TreeSize` at which it
  would fail (`UpTheTree`). `UpdateMakesExact`: after `Update` a node follows from its sons (`NodeExact`).
  `DeletionReachesAll`: below the mark of a box deletion everything is found deleted,
  and each node pushed down is `NodeExact` again, which needs of the subtree only that its sizes are right. `LiveNeverPruned`: where every node is
  `NodeExact`, the deletion flags, the two box tests and `calc_box_dist` cut off no
  live point; the last is a sum over the axes, whose recursive function is shown to
  exist and to be monotone (`SumStep`, `SumMonotone`). `CountsAgree` and `LiveIsReached`: in
  such a tree no node counts more deleted points than nodes, and one is flagged as deleted
  exactly if there is no live point below it. `StaleFlagHarmless`: a flag that
  `Push_Down` left set for want of a son does not delete the point hung there later,
  because the `Update` in between has found the node not deleted. `VoxelsPartition` for the
  downsampling, `CriterionFindsSon` for the one pointer that is read untested. That every node of
  the tree is `NodeExact`, flags pending, is a part of `SummariesExact` and checked by
  TLC: the operations that recur over the tree are out of the prover's reach.

What the proofs assume of the constants are the `ASSUME`s of the modules, which TLC
evaluates on every run.

Only model-checked: every liveness property (`Delivered`, `ExitEnds`, `Settles`,
`WorkModeReached`, `Drained`, `QuitEnds`, `OldestPopped`, `CallsReturn`,
`RebuildServed`, `Terminates`, `ScansConsumed`), because the prover has no rule for
fairness; and the structure of the ikd-Tree, `SummariesExact` and the refinement
`PointSetRefined`, as wholes: a tree's operations are RECURSIVE operators, about which
the prover cannot reason. Proved is what one node owes to its sons and what follows from that
along every way down, above. The pruning of the radius search by a ball around the range
is model-checked only.

## 6. Where code and documents disagree

Shown by a run:

* `time_unit`: the node scales the driver's nanoseconds as microseconds
  (default at `F/src/laserMapping_relocalization.cpp:152`; `F/config/mid360.yaml:10`
  sets a parameter of another name, to the same value), although the parameter is documented as the unit of the
  messages.
* `relocalised`: the status line reports a relocalisation that never happened.

Seen while modelling, not shown by a run of their own:

* `D/parse_cfg_file/parse_livox_lidar_cfg.cpp:88` narrows the blind spot to
  `int8_t`; `src/src/livox_ros_driver2/README.md:259` documents 50 to 200 cm.
  `DeviceConfig` narrows it (`Int8`).
* `D/comm/pub_handler.cpp:68` rounds the interval down to milliseconds and line 67
  does not: at 11 Hz a synchronised lidar's frames double now and then.
  `FrameTiming` has both definitions; its theorem needs whole milliseconds.
* `F/src/laserMapping_relocalization.cpp:381` clears the scans on a loop back, not
  their times, although line 380 says "clear buffer": scans are paired with times
  of dropped ones. `TimesCoverScans` is what still holds.
* `F/src/laserMapping_relocalization.cpp:990` ignores the result of a match that
  `F/include/matching/matching.hpp:523` reports as skipped, and updates the filter.
* `Delete_by_range` returns at `F/include/ikd-Tree/ikd_Tree.cpp:777` to 781 and,
  for a box that covers the node, at line 796 with `working_flag` still set. The walk over
  the fathers after a swap (341) takes that flag for a call under way and stops, so
  that the counts above stay those of the old subtree until a later call passes.
* "Lock Search" at `F/include/ikd-Tree/ikd_Tree.cpp:261` and the same loop at 309 keep
  out counted searches only. A search that loaded a son's pointer and reads its
  ranges at 1099-1100 is not counted, nor is one that went on with that pointer after the
  `Rebuild_Ptr` it is compared with at 1105 (1127 and so on for the other branches) was
  swapped; a range search at the root (469, 503) takes no lock at all. Each may still read
  the subtree when line 356 deletes it. The model has them in `inDiscarded` at that
  step; `LockedSearchesGone` is what still holds.
* A `Push_Down` that compares the pointer (1372) just as it is replaced flags
  the discarded subtree, and the deletion of the new one is lost.
* Where the flatten finds no point, lines 284 to 306 are skipped: operations logged
  meanwhile are not replayed, and points added to the old subtree meanwhile vanish with it
  (`SwapOutcome`). They stay in `Rebuild_Logger`, and so does an operation that waited for
  `working_flag_mutex` and is logged between its unlock (353) and `rebuild_flag = false`
  (354). The next rebuild, of whatever subtree, prints "ERROR!!!" (246 to 249), goes on, and replays them.
* Lines 333 and 334 of the same rebuild without a point dereference a null
  `new_root_node`; an unoptimised build would crash there.

## 7. Not modelled

Coordinates, extrinsics, ROS message layout and the filling of messages; the
filter's and the matching's mathematics; the geometry of the features. Of the
ikd-Tree what nothing calls: `Add_Point_Boxes` with `Add_by_range`,
`Delete_Points` with `Delete_by_point`, the getters. Of the node what
`main_loop` never calls: `lasermap_fov_segment` and `init_ikdtree`; and
publishing. Of `preprocess.cpp` an empty message for
`rs_handler` and an empty line for `oust64_handler`, which both index what is
not there. The index cache is one step of `DeviceConfig` and has no module of its
own. The legacy nodes `laserMapping.cpp` and `laserMapping_re.cpp`, which are not built;
rapidjson, launch files, shell set-up and display scripts. The Livox SDK, ROS
and PCL are external and modelled by how the code uses them.

## 8. Plan

Done: the point queue and its channel, delivery, device configuration, packet
assembly, the localisation node with its maps, the ikd-Tree and its rebuilding
thread, preprocessing and features, with proofs where the prover reaches.

Left, in this order:

1. `CacheIndex`: the two critical sections of `GetFreeIndex` and the lookup of
   `GetIndex` outside the lock, with callers from several threads; that a
   handle has one slot. Composed with `PubHandler`, whose frames it indexes.
2. `DriverSystem`: `DeviceConfig`, `PubHandler` and `PointDelivery` composed,
   from info change to published data.
3. The operations of the ikd-Tree without a caller, once something calls them.
4. Proofs: the slots of `CacheIndex`; the operations of the ikd-Tree, which
   would have to be written as recursive functions over a set of trees first.
