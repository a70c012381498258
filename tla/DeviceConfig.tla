----------------------------- MODULE DeviceConfig -----------------------------
(***************************************************************************)
(* How the driver configures a lidar until its data may be published:      *)
(* LivoxLidarCallback::LidarInfoChangeCallback sends the configured        *)
(* options to a lidar that appeared, one asynchronous command each, and    *)
(* the Set...Callback functions collect the answers in set_bits.  When the *)
(* last bit is cleared the lidar's connect_state becomes Sampling, which   *)
(* is what the poll threads of PointDelivery look at.                      *)
(*                                                                         *)
(* The SDK is external: it answers a command in any order, on any thread,  *)
(* also while LidarInfoChangeCallback is still sending.  The commands of   *)
(* one option are all alike, so a count of those in flight stands for them.*)
(* The answers to the install attitude and to the IMU switch change nothing *)
(* in the driver (they are logged, or the command is sent again): those two *)
(* commands are left out.                                                  *)
(***************************************************************************)
EXTENDS Integers, FiniteSets

CONSTANTS
  Lidars,      (* the handles of the lidars on the network                  *)
  NoEntry,     (* the "entry" of a lidar absent from lidar_configs          *)
  Entries,     (* the entries considered, each a function from its options  *)
  Slots,       (* kMaxSourceLidar, the devices lidars_ has room for         *)
  MaxChanges,  (* bound: info changes reported in a behaviour               *)
  MaxRetries   (* bound: answers the network loses in a behaviour           *)

Options == {"dataType", "scanPattern", "blindSpot", "dualEmit"}
Commands == Options \cup {"workMode"}

(* LidarInfoChangeCallback goes through these steps; 0 is "not running".    *)
Script == <<"dataType", "scanPattern", "blindSpot", "dualEmit", "workMode">>
OptionSteps == 1 .. 4
WorkModeStep == 5

ASSUME ConfigAssumption ==
  /\ \A e \in Entries \ {NoEntry} :
       DOMAIN e \subseteq Options /\ \A o \in DOMAIN e : e[o] \in Int
  /\ Slots \in Nat
  /\ MaxChanges \in Nat
  /\ MaxRetries \in Nat

VARIABLES
  file,        (* the entry of each lidar in the user's configuration       *)
  registered,  (* the lidars with an index in cache_index_                  *)
  bits,        (* livox_config.set_bits of each lidar, as a set of options  *)
  sampling,    (* the lidars whose connect_state is kConnectStateSampling   *)
  info,        (* how far LidarInfoChangeCallback is for each lidar         *)
  pending,     (* commands sent and not yet answered, per lidar and command *)
  done,        (* history: the commands a lidar has acknowledged            *)
  failed,      (* history: options refused since they were last sent        *)
  changes,     (* info changes so far, at most MaxChanges                   *)
  retries      (* commands sent again so far, at most MaxRetries            *)

vars == <<file, registered, bits, sampling, info, pending, done, failed,
          changes, retries>>

-----------------------------------------------------------------------------
(* The configuration file. *)

(* static_cast<int8_t>, which ParseUserConfigs applies to every option.     *)
Int8(v) == ((v + 128) % 256) - 128

(* An absent member is -1; the devices that are not in the file are zeros,  *)
(* as LdsLidar is a static object.                                         *)
LivoxConfig(l) ==
  [o \in Options |->
     IF file[l] = NoEntry THEN 0
     ELSE IF o \in DOMAIN file[l] THEN Int8(file[l][o]) ELSE -1]

Configured(l) == {o \in Options : LivoxConfig(l)[o] # -1}

TypeOK ==
  /\ file \in [Lidars -> Entries]
  /\ registered \subseteq Lidars
  /\ bits \in [Lidars -> SUBSET Options]
  /\ sampling \subseteq Lidars
  /\ info \in [Lidars -> 0 .. WorkModeStep]
  /\ pending \in [Lidars -> [Commands -> Nat]]
  /\ done \in [Lidars -> SUBSET Commands]
  /\ failed \in [Lidars -> SUBSET Options]
  /\ changes \in Nat
  /\ retries \in Nat

(* InitLivoxLidar has given the lidars of the file an index while there     *)
(* were free ones, and then registered the info-change callback.           *)
Init ==
  /\ file \in [Lidars -> Entries]
  /\ LET entered == {l \in Lidars : file[l] # NoEntry}
     IN /\ registered \in SUBSET entered
        /\ Cardinality(registered) <= Slots
        /\ registered = entered \/ Cardinality(registered) = Slots
  /\ bits = [l \in Lidars |-> {}]
  /\ sampling = {}
  /\ info = [l \in Lidars |-> 0]
  /\ pending = [l \in Lidars |-> [c \in Commands |-> 0]]
  /\ done = [l \in Lidars |-> {}]
  /\ failed = [l \in Lidars |-> {}]
  /\ changes = 0
  /\ retries = 0

-----------------------------------------------------------------------------
(* LidarInfoChangeCallback. *)

(* config_mutex_ is held while the options are sent. *)
Locked == \E l \in Lidars : info[l] \in OptionSteps

CanChange(l) ==
  /\ info[l] = 0
  /\ changes < MaxChanges
  /\ changes' = changes + 1

(* A lidar with a device: take the mutex and send the options. *)
BeginOptions(l) ==
  /\ CanChange(l)
  /\ l \in registered
  /\ ~Locked
  /\ info' = [info EXCEPT ![l] = 1]
  /\ UNCHANGED <<file, registered, bits, sampling, pending, done, failed,
                 retries>>

(* An unknown lidar gets a device and goes straight to the work mode. *)
AddLidarDevice(l) ==
  /\ CanChange(l)
  /\ l \notin registered
  /\ Cardinality(registered) < Slots
  /\ registered' = registered \cup {l}
  /\ info' = [info EXCEPT ![l] = WorkModeStep]
  /\ UNCHANGED <<file, bits, sampling, pending, done, failed, retries>>

RejectLidar(l) ==
  /\ CanChange(l)
  /\ l \notin registered
  /\ Cardinality(registered) >= Slots
  /\ UNCHANGED <<file, registered, bits, sampling, info, pending, done,
                 failed, retries>>

Send(l, c) ==
  /\ pending' = [pending EXCEPT ![l][c] = @ + 1]
  /\ failed' = [failed EXCEPT ![l] = @ \ {c}]

\* The bit assigned to set_bits instead of added to it.
SetOptionAssigned(l) ==
  /\ info[l] \in OptionSteps
  /\ info' = [info EXCEPT ![l] = @ + 1]
  /\ LET o == Script[info[l]]
     IN \/ /\ o \in Configured(l)
           /\ bits' = [bits EXCEPT ![l] = {o}]
           /\ Send(l, o)
        \/ /\ o \notin Configured(l)
           /\ UNCHANGED <<bits, pending, failed>>
  /\ UNCHANGED <<file, registered, sampling, done, changes, retries>>

(* One configured option: its bit, then its command; the mutex is released  *)
(* after the last one.                                                     *)
SetOption(l) ==
  /\ info[l] \in OptionSteps
  /\ info' = [info EXCEPT ![l] = @ + 1]
  /\ LET o == Script[info[l]]
     IN \/ /\ o \in Configured(l)
           /\ bits' = [bits EXCEPT ![l] = @ \cup {o}]
           /\ Send(l, o)
        \/ /\ o \notin Configured(l)
           /\ UNCHANGED <<bits, pending, failed>>
  /\ UNCHANGED <<file, registered, sampling, done, changes, retries>>

(* At the end, with the mutex released, the work mode Normal is asked for.  *)
SetWorkMode(l) ==
  /\ info[l] = WorkModeStep
  /\ info' = [info EXCEPT ![l] = 0]
  /\ Send(l, "workMode")
  /\ UNCHANGED <<file, registered, bits, sampling, done, changes, retries>>

InfoStep(l) == SetOption(l) \/ SetWorkMode(l)

-----------------------------------------------------------------------------
(* The answers. *)

Answered(l, c) ==
  /\ pending[l][c] > 0
  /\ pending' = [pending EXCEPT ![l][c] = @ - 1]

\* The answer handled without config_mutex_.
SetOptionSuccessUnlocked(l, o) ==
  /\ Answered(l, o)
  /\ done' = [done EXCEPT ![l] = @ \cup {o}]
  /\ bits' = [bits EXCEPT ![l] = @ \ {o}]
  /\ sampling' = IF bits'[l] = {} THEN sampling \cup {l} ELSE sampling
  /\ UNCHANGED <<file, registered, info, failed, changes, retries>>

\* The test for the last bit made before the bit is cleared.
SetOptionSuccessTestFirst(l, o) ==
  /\ Answered(l, o)
  /\ ~Locked
  /\ done' = [done EXCEPT ![l] = @ \cup {o}]
  /\ bits' = [bits EXCEPT ![l] = @ \ {o}]
  /\ sampling' = IF bits[l] = {} THEN sampling \cup {l} ELSE sampling
  /\ UNCHANGED <<file, registered, info, failed, changes, retries>>

(* An option was set: clear its bit under the mutex, and start Sampling     *)
(* when no bit is left.                                                    *)
SetOptionSuccess(l, o) ==
  /\ Answered(l, o)
  /\ ~Locked
  /\ done' = [done EXCEPT ![l] = @ \cup {o}]
  /\ bits' = [bits EXCEPT ![l] = @ \ {o}]
  /\ sampling' = IF bits'[l] = {} THEN sampling \cup {l} ELSE sampling
  /\ UNCHANGED <<file, registered, info, failed, changes, retries>>

(* The work mode changed: only logged. *)
WorkModeChanged(l) ==
  /\ Answered(l, "workMode")
  /\ done' = [done EXCEPT ![l] = @ \cup {"workMode"}]
  /\ UNCHANGED <<file, registered, bits, sampling, info, failed, changes,
                 retries>>

\* A timeout that is logged and not followed by another attempt.
TimeoutDropped(l, c) ==
  /\ retries < MaxRetries
  /\ retries' = retries + 1
  /\ Answered(l, c)
  /\ UNCHANGED <<file, registered, bits, sampling, info, done, failed, changes>>

(* A timeout: the command is sent again, whatever became of the first; the  *)
(* work mode is asked for again after any failure.                         *)
Timeout(l, c) ==
  /\ pending[l][c] > 0
  /\ retries < MaxRetries
  /\ retries' = retries + 1
  /\ UNCHANGED <<file, registered, bits, sampling, info, pending, done,
                 failed, changes>>

(* Any other status for an option is logged, and its bit stays set.         *)
Refused(l, o) ==
  /\ Answered(l, o)
  /\ failed' = [failed EXCEPT ![l] = @ \cup {o}]
  /\ UNCHANGED <<file, registered, bits, sampling, info, done, changes,
                 retries>>

-----------------------------------------------------------------------------
Next ==
  \E l \in Lidars :
    \/ BeginOptions(l) \/ AddLidarDevice(l) \/ RejectLidar(l)
    \/ InfoStep(l)
    \/ \E o \in Options : SetOptionSuccess(l, o) \/ Refused(l, o)
    \/ WorkModeChanged(l)
    \/ \E c \in Commands : Timeout(l, c)

Spec == Init /\ [][Next]_vars

(* A running info change goes on, and the SDK answers every command.        *)
FairSpec ==
  /\ Spec
  /\ \A l \in Lidars :
       /\ WF_vars(InfoStep(l))
       /\ WF_vars(WorkModeChanged(l))
       /\ \A o \in Options : WF_vars(SetOptionSuccess(l, o) \/ Refused(l, o))

-----------------------------------------------------------------------------
(* However the answers overtake the sending, a lidar publishes only after   *)
(* it acknowledged every option its configuration gives.                   *)
ConfiguredBeforeSampling ==
  \A l \in sampling : Configured(l) # {} /\ Configured(l) \subseteq done[l]

(* A bit that is still set has a command in flight that can clear it, or    *)
(* its command was refused: no loss of answers strands a lidar.            *)
BitsAccounted ==
  \A l \in Lidars : \A o \in bits[l] : pending[l][o] > 0 \/ o \in failed[l]

(* A lidar with options to set comes to publish, unless it refuses one.     *)
Settles ==
  \A l \in Lidars : bits[l] # {} ~> (l \in sampling \/ failed[l] # {})

(* A lidar that was told to measure does so in the end, whatever it         *)
(* answered on the way.                                                    *)
WorkModeReached ==
  \A l \in Lidars : info[l] > 0 ~> "workMode" \in done[l]

-----------------------------------------------------------------------------
(* The inductive invariant behind ConfiguredBeforeSampling: outside the     *)
(* loop, a lidar that was sent anything has the bit of every option it has *)
(* not acknowledged; inside, of those sent so far.                         *)
UnacknowledgedBits(l) ==
  /\ info[l] \in OptionSteps =>
       \A j \in OptionSteps :
         j < info[l] /\ Script[j] \in Configured(l) \ done[l] =>
           Script[j] \in bits[l]
  /\ info[l] \notin OptionSteps =>
       \/ Configured(l) \subseteq done[l] \cup bits[l]
       \/ \A o \in Options : pending[l][o] = 0

ConfigInv ==
  /\ TypeOK
  /\ ConfiguredBeforeSampling
  /\ BitsAccounted
  /\ \A l \in Lidars :
       /\ UnacknowledgedBits(l)
       /\ \A o \in Options : pending[l][o] > 0 => o \in Configured(l)

=============================================================================
