-------------------------- MODULE DeviceConfigProofs --------------------------
(***************************************************************************)
(* ConfigInv is an invariant of DeviceConfig for every set of lidars, every *)
(* configuration file and any number of info changes and lost answers; so  *)
(* no lidar publishes before it acknowledged all its options.              *)
(***************************************************************************)
EXTENDS DeviceConfig, TLAPS

(* The parts of ConfigInv that speak of one lidar. *)
LidarInv(l) ==
  /\ UnacknowledgedBits(l)
  /\ \A o \in Options : pending[l][o] > 0 => o \in Configured(l)
  /\ \A o \in bits[l] : pending[l][o] > 0 \/ o \in failed[l]
  /\ l \in sampling => Configured(l) # {} /\ Configured(l) \subseteq done[l]

(* ConfigInv is TypeOK and LidarInv of every lidar. *)
LEMMA ConfigInvByLidar ==
  ConfigInv <=> TypeOK /\ \A l \in Lidars : LidarInv(l)
BY DEF ConfigInv, TypeOK, LidarInv, ConfiguredBeforeSampling, BitsAccounted

(* The same of the next state. *)
LEMMA ConfigInvNext ==
  TypeOK' /\ (\A l \in Lidars : LidarInv(l)') => ConfigInv'
BY DEF ConfigInv, TypeOK, LidarInv, ConfiguredBeforeSampling, BitsAccounted

(* A lidar none of whose own state a step changes keeps its part. *)
LEMMA LidarUntouched ==
  ASSUME NEW l \in Lidars, LidarInv(l), UNCHANGED file,
         info'[l] = info[l], bits'[l] = bits[l], pending'[l] = pending[l],
         done'[l] = done[l], failed'[l] = failed[l],
         l \in sampling' <=> l \in sampling
  PROVE  LidarInv(l)'
BY DEF LidarInv, UnacknowledgedBits, Configured, LivoxConfig

(* What sending a command does to the types and to the other lidars. *)
LEMMA SendTypes ==
  ASSUME TypeOK, NEW l \in Lidars, NEW c \in Commands, Send(l, c)
  PROVE  /\ pending' \in [Lidars -> [Commands -> Nat]]
         /\ failed' \in [Lidars -> SUBSET Options]
         /\ pending'[l] = [pending[l] EXCEPT ![c] = pending[l][c] + 1]
         /\ failed'[l] = failed[l] \ {c}
         /\ \A m \in Lidars \ {l} :
              pending'[m] = pending[m] /\ failed'[m] = failed[m]
<1>1. pending \in [Lidars -> [Commands -> Nat]] BY DEF TypeOK
<1>2. failed \in [Lidars -> SUBSET Options] BY DEF TypeOK
<1>3. pending' = [pending EXCEPT ![l] =
                    [pending[l] EXCEPT ![c] = pending[l][c] + 1]]
  BY DEF Send
<1>4. [pending[l] EXCEPT ![c] = pending[l][c] + 1] \in [Commands -> Nat]
  BY <1>1
<1>5. failed' = [failed EXCEPT ![l] = failed[l] \ {c}] BY DEF Send
<1>6. failed[l] \ {c} \in SUBSET Options BY <1>2
<1> QED BY <1>1, <1>2, <1>3, <1>4, <1>5, <1>6

(* What an answer does to the commands in flight. *)
LEMMA AnsweredTypes ==
  ASSUME TypeOK, NEW l \in Lidars, NEW c \in Commands, Answered(l, c)
  PROVE  /\ pending' \in [Lidars -> [Commands -> Nat]]
         /\ pending'[l] = [pending[l] EXCEPT ![c] = pending[l][c] - 1]
         /\ \A m \in Lidars \ {l} : pending'[m] = pending[m]
<1>1. pending \in [Lidars -> [Commands -> Nat]] BY DEF TypeOK
<1>2. pending' = [pending EXCEPT ![l] =
                    [pending[l] EXCEPT ![c] = pending[l][c] - 1]]
  BY DEF Answered
<1>3. pending[l] \in [Commands -> Nat] /\ pending[l][c] > 0
  BY <1>1 DEF Answered
<1>4. [pending[l] EXCEPT ![c] = pending[l][c] - 1] \in [Commands -> Nat]
  BY <1>3
<1> QED BY <1>1, <1>2, <1>4

(* The initial states satisfy ConfigInv: nothing was sent yet. *)
LEMMA ConfigInit == Init => ConfigInv
<1> SUFFICES ASSUME Init PROVE ConfigInv
  OBVIOUS
<1>1. TypeOK
  BY DEF Init, TypeOK, WorkModeStep
<1>2. \A l \in Lidars : LidarInv(l)
  BY DEF Init, LidarInv, UnacknowledgedBits, OptionSteps, Commands, Options
<1> QED BY <1>1, <1>2, ConfigInvByLidar

(* LidarInfoChangeCallback keeps ConfigInv: the bits of a round are         *)
(* complete when it releases the mutex.                                    *)
LEMMA ConfigInfo ==
  ASSUME ConfigInv, NEW l \in Lidars,
         \/ BeginOptions(l) \/ AddLidarDevice(l) \/ RejectLidar(l)
         \/ InfoStep(l)
  PROVE  ConfigInv'
<1>0. TypeOK /\ \A m \in Lidars : LidarInv(m)
  BY ConfigInvByLidar
<1>1. info \in [Lidars -> 0 .. 5] /\ bits \in [Lidars -> SUBSET Options]
  BY <1>0 DEF TypeOK, WorkModeStep
<1>2. CASE BeginOptions(l) \/ AddLidarDevice(l)
  <2>1. PICK i \in {1, 5} :
          /\ info' = [info EXCEPT ![l] = i]
          /\ info[l] = 0
          /\ changes' = changes + 1
          /\ registered' \subseteq Lidars
          /\ UNCHANGED <<file, bits, sampling, pending, done, failed, retries>>
    BY <1>0, <1>2
       DEF BeginOptions, AddLidarDevice, CanChange, WorkModeStep, TypeOK
  <2>2. TypeOK'
    BY <1>0, <2>1 DEF TypeOK, WorkModeStep
  <2>3. ASSUME NEW m \in Lidars PROVE LidarInv(m)'
    <3>1. CASE m # l
      BY <1>0, <1>1, <2>1, <3>1, LidarUntouched
    <3>2. CASE m = l
      <4>1. info'[l] = i BY <1>1, <2>1
      <4>2. LidarInv(l) BY <1>0
      <4> QED BY <1>1, <2>1, <3>2, <4>1, <4>2
              DEF LidarInv, UnacknowledgedBits, OptionSteps, Configured,
                  LivoxConfig
    <3> QED BY <3>1, <3>2
  <2> QED BY <2>2, <2>3, ConfigInvNext
<1>3. CASE RejectLidar(l)
  <2>1. TypeOK'
    BY <1>0, <1>3 DEF TypeOK, RejectLidar, CanChange
  <2>2. \A m \in Lidars : LidarInv(m)'
    BY <1>0, <1>3, LidarUntouched DEF RejectLidar
  <2> QED BY <2>1, <2>2, ConfigInvNext
<1>4. CASE SetOption(l)
  <2> DEFINE o == Script[info[l]]
  <2>1. info[l] \in 1 .. 4 /\ info' = [info EXCEPT ![l] = info[l] + 1]
    BY <1>4 DEF SetOption, OptionSteps
  <2>2. o \in Options /\ o \in Commands
    BY <2>1 DEF Script, Options, Commands
  <2>3. UNCHANGED <<file, registered, sampling, done, changes, retries>>
    BY <1>4 DEF SetOption
  <2>4. CASE o \in Configured(l)
    <3>1. bits' = [bits EXCEPT ![l] = bits[l] \cup {o}] /\ Send(l, o)
      BY <1>4, <2>4 DEF SetOption
    <3>a. /\ pending' \in [Lidars -> [Commands -> Nat]]
          /\ failed' \in [Lidars -> SUBSET Options]
      BY <1>0, <2>2, <3>1, SendTypes
    <3>b. info' \in [Lidars -> 0 .. 5] /\ bits' \in [Lidars -> SUBSET Options]
      BY <1>1, <2>1, <2>2, <3>1
    <3>2. TypeOK'
      BY <1>0, <2>3, <3>a, <3>b DEF TypeOK, WorkModeStep
    <3>3. ASSUME NEW m \in Lidars PROVE LidarInv(m)'
      <4>1. CASE m # l
        BY <1>0, <1>1, <2>1, <2>2, <2>3, <3>1, <4>1, SendTypes, LidarUntouched
      <4>2. CASE m = l
        <5>1. info'[l] = info[l] + 1 /\ bits'[l] = bits[l] \cup {o}
          BY <1>1, <2>1, <3>1
        <5>2. /\ pending'[l] = [pending[l] EXCEPT ![o] = pending[l][o] + 1]
              /\ failed'[l] = failed[l] \ {o}
              /\ pending[l] \in [Commands -> Nat]
          BY <1>0, <2>2, <3>1, SendTypes DEF TypeOK
        <5>3. Configured(l)' = Configured(l) /\ done' = done
          BY <2>3 DEF Configured, LivoxConfig
        <5>4. LidarInv(l) BY <1>0
        <5>5. UnacknowledgedBits(l)'
          BY <1>1, <2>1, <5>1, <5>3, <5>4
             DEF LidarInv, UnacknowledgedBits, OptionSteps, Script, Configured,
                 Options
        <5>6. \A p \in Options : pending'[l][p] > 0 => p \in Configured(l)'
          BY <2>2, <2>4, <5>2, <5>3, <5>4 DEF LidarInv, Commands
        <5>7. \A p \in bits'[l] : pending'[l][p] > 0 \/ p \in failed'[l]
          BY <1>1, <2>2, <5>1, <5>2, <5>4 DEF LidarInv, Commands
        <5> QED BY <2>3, <4>2, <5>3, <5>4, <5>5, <5>6, <5>7 DEF LidarInv
      <4> QED BY <4>1, <4>2
    <3> QED BY <3>2, <3>3, ConfigInvNext
  <2>5. CASE o \notin Configured(l)
    <3>1. UNCHANGED <<bits, pending, failed>>
      BY <1>4, <2>5 DEF SetOption
    <3>2. TypeOK'
      BY <1>0, <1>1, <2>1, <2>3, <3>1 DEF TypeOK, WorkModeStep
    <3>3. ASSUME NEW m \in Lidars PROVE LidarInv(m)'
      <4>1. CASE m # l
        BY <1>0, <1>1, <2>1, <2>3, <3>1, <4>1, LidarUntouched
      <4>2. CASE m = l
        <5>1. info'[l] = info[l] + 1
          BY <1>1, <2>1
        <5>2. Configured(l)' = Configured(l)
          BY <2>3 DEF Configured, LivoxConfig
        <5>3. LidarInv(l) BY <1>0
        <5>4. UnacknowledgedBits(l)'
          BY <1>1, <2>1, <2>3, <2>5, <3>1, <5>1, <5>2, <5>3
             DEF LidarInv, UnacknowledgedBits, OptionSteps, Script, Configured,
                 Options
        <5> QED BY <2>3, <3>1, <4>2, <5>2, <5>3, <5>4 DEF LidarInv
      <4> QED BY <4>1, <4>2
    <3> QED BY <3>2, <3>3, ConfigInvNext
  <2> QED BY <2>4, <2>5
<1>5. CASE SetWorkMode(l)
  <2>1. /\ info[l] = 5 /\ info' = [info EXCEPT ![l] = 0]
        /\ Send(l, "workMode")
        /\ UNCHANGED <<file, registered, bits, sampling, done, changes,
                       retries>>
    BY <1>5 DEF SetWorkMode, WorkModeStep
  <2>2. "workMode" \in Commands BY DEF Commands
  <2>a. /\ pending' \in [Lidars -> [Commands -> Nat]]
        /\ failed' \in [Lidars -> SUBSET Options]
    BY <1>0, <2>1, <2>2, SendTypes
  <2>b. info' \in [Lidars -> 0 .. 5]
    BY <1>1, <2>1
  <2>3. TypeOK'
    BY <1>0, <2>1, <2>a, <2>b DEF TypeOK, WorkModeStep
  <2>4. ASSUME NEW m \in Lidars PROVE LidarInv(m)'
    <3>1. CASE m # l
      BY <1>0, <1>1, <2>1, <2>2, <3>1, SendTypes, LidarUntouched
    <3>2. CASE m = l
      <4>1. \A p \in Options :
              pending'[l][p] = pending[l][p] /\ (p \in failed'[l] <=> p \in failed[l])
        <5>1. /\ pending'[l] = [pending[l] EXCEPT !["workMode"] =
                                                   pending[l]["workMode"] + 1]
              /\ failed'[l] = failed[l] \ {"workMode"}
          BY <1>0, <2>1, <2>2, SendTypes
        <5>2. pending[l] \in [Commands -> Nat] BY <1>0 DEF TypeOK
        <5>3. \A p \in Options : p # "workMode" /\ p \in Commands
          BY DEF Options, Commands
        <5> QED BY <5>1, <5>2, <5>3
      <4>2. info'[l] = 0 /\ Configured(l)' = Configured(l)
        BY <1>1, <2>1 DEF Configured, LivoxConfig
      <4>3. LidarInv(l) BY <1>0
      <4> QED BY <1>1, <2>1, <3>2, <4>1, <4>2, <4>3
              DEF LidarInv, UnacknowledgedBits, OptionSteps
    <3> QED BY <3>1, <3>2
  <2> QED BY <2>3, <2>4, ConfigInvNext
<1> QED BY <1>2, <1>3, <1>4, <1>5 DEF InfoStep

(* The answers keep ConfigInv: only an acknowledged option loses its bit.   *)
LEMMA ConfigAnswer ==
  ASSUME ConfigInv, NEW l \in Lidars,
         \/ \E o \in Options : SetOptionSuccess(l, o) \/ Refused(l, o)
         \/ WorkModeChanged(l)
         \/ \E c \in Commands : Timeout(l, c)
  PROVE  ConfigInv'
<1>0. TypeOK /\ \A m \in Lidars : LidarInv(m)
  BY ConfigInvByLidar
<1>1. /\ bits \in [Lidars -> SUBSET Options]
      /\ done \in [Lidars -> SUBSET Commands]
      /\ failed \in [Lidars -> SUBSET Options]
      /\ pending[l] \in [Commands -> Nat]
  BY <1>0 DEF TypeOK
<1>2. ASSUME NEW o \in Options, SetOptionSuccess(l, o) PROVE ConfigInv'
  <2>1. /\ Answered(l, o)
        /\ info[l] \notin OptionSteps
        /\ done' = [done EXCEPT ![l] = done[l] \cup {o}]
        /\ bits' = [bits EXCEPT ![l] = bits[l] \ {o}]
        /\ sampling' = IF bits'[l] = {} THEN sampling \cup {l} ELSE sampling
        /\ UNCHANGED <<file, registered, info, failed, changes, retries>>
    BY <1>2 DEF SetOptionSuccess, Locked
  <2>2. o \in Commands BY DEF Commands
  <2>3. pending[l][o] > 0 BY <2>1 DEF Answered
  <2>4. /\ pending' \in [Lidars -> [Commands -> Nat]]
        /\ pending'[l] = [pending[l] EXCEPT ![o] = pending[l][o] - 1]
        /\ \A m \in Lidars \ {l} : pending'[m] = pending[m]
    BY <1>0, <2>1, <2>2, AnsweredTypes
  <2>5. TypeOK'
    <3>1. /\ bits' \in [Lidars -> SUBSET Options]
          /\ done' \in [Lidars -> SUBSET Commands]
      BY <1>1, <2>1, <2>2
    <3>2. sampling' \subseteq Lidars BY <1>0, <2>1 DEF TypeOK
    <3> QED BY <1>0, <2>1, <2>4, <3>1, <3>2 DEF TypeOK
  <2>6. ASSUME NEW m \in Lidars PROVE LidarInv(m)'
    <3>1. CASE m # l
      BY <1>0, <1>1, <2>1, <2>4, <3>1, LidarUntouched
    <3>2. CASE m = l
      <4>1. done'[l] = done[l] \cup {o} /\ bits'[l] = bits[l] \ {o}
        BY <1>1, <2>1
      <4>2. Configured(l)' = Configured(l)
        BY <2>1 DEF Configured, LivoxConfig
      <4>3. LidarInv(l) BY <1>0
      <4>4. o \in Configured(l) BY <2>3, <4>3 DEF LidarInv
      <4>5. Configured(l) \subseteq done[l] \cup bits[l]
        BY <1>1, <2>1, <2>2, <2>3, <4>3 DEF LidarInv, UnacknowledgedBits
      <4>6. UnacknowledgedBits(l)'
        BY <2>1, <4>1, <4>2, <4>5 DEF UnacknowledgedBits
      <4>7. \A p \in Options : pending'[l][p] > 0 => p \in Configured(l)'
        BY <1>1, <2>2, <2>4, <4>2, <4>3, <4>4 DEF LidarInv, Commands
      <4>8. \A p \in bits'[l] : pending'[l][p] > 0 \/ p \in failed'[l]
        BY <1>1, <2>1, <2>2, <2>4, <4>1, <4>3 DEF LidarInv, Commands
      <4>9. l \in sampling' =>
              Configured(l)' # {} /\ Configured(l)' \subseteq done'[l]
        BY <2>1, <4>1, <4>2, <4>3, <4>4, <4>5 DEF LidarInv
      <4> QED BY <3>2, <4>6, <4>7, <4>8, <4>9 DEF LidarInv
    <3> QED BY <3>1, <3>2
  <2> QED BY <2>5, <2>6, ConfigInvNext
<1>3. ASSUME NEW o \in Options, Refused(l, o) PROVE ConfigInv'
  <2>1. /\ Answered(l, o)
        /\ failed' = [failed EXCEPT ![l] = failed[l] \cup {o}]
        /\ UNCHANGED <<file, registered, bits, sampling, info, done, changes,
                       retries>>
    BY <1>3 DEF Refused
  <2>2. o \in Commands BY DEF Commands
  <2>3. /\ pending' \in [Lidars -> [Commands -> Nat]]
        /\ pending'[l] = [pending[l] EXCEPT ![o] = pending[l][o] - 1]
        /\ \A m \in Lidars \ {l} : pending'[m] = pending[m]
    BY <1>0, <2>1, <2>2, AnsweredTypes
  <2>4. pending[l][o] > 0 BY <2>1 DEF Answered
  <2>5. TypeOK'
    <3>1. failed' \in [Lidars -> SUBSET Options] BY <1>1, <2>1
    <3> QED BY <1>0, <2>1, <2>3, <3>1 DEF TypeOK
  <2>6. ASSUME NEW m \in Lidars PROVE LidarInv(m)'
    <3>1. CASE m # l
      BY <1>0, <1>1, <2>1, <2>3, <3>1, LidarUntouched
    <3>2. CASE m = l
      <4>1. failed'[l] = failed[l] \cup {o} BY <1>1, <2>1
      <4>2. Configured(l)' = Configured(l)
        BY <2>1 DEF Configured, LivoxConfig
      <4>3. LidarInv(l) BY <1>0
      <4>4. \A p \in Options : p \in Commands BY DEF Commands
      <4>5. UnacknowledgedBits(l)'
        <5>1. o \in Configured(l) /\ pending[l][o] > 0
          BY <2>4, <4>3 DEF LidarInv
        <5> QED BY <1>1, <2>1, <2>3, <4>2, <4>3, <4>4, <5>1
                DEF LidarInv, UnacknowledgedBits
      <4>6. \A p \in Options : pending'[l][p] > 0 => p \in Configured(l)'
        BY <1>1, <2>3, <2>4, <4>2, <4>3, <4>4 DEF LidarInv
      <4>7. \A p \in bits'[l] : pending'[l][p] > 0 \/ p \in failed'[l]
        BY <1>1, <2>1, <2>3, <4>1, <4>3, <4>4 DEF LidarInv
      <4> QED BY <2>1, <3>2, <4>2, <4>3, <4>5, <4>6, <4>7 DEF LidarInv
    <3> QED BY <3>1, <3>2
  <2> QED BY <2>5, <2>6, ConfigInvNext
<1>4. CASE WorkModeChanged(l)
  <2>1. /\ Answered(l, "workMode")
        /\ done' = [done EXCEPT ![l] = done[l] \cup {"workMode"}]
        /\ UNCHANGED <<file, registered, bits, sampling, info, failed, changes,
                       retries>>
    BY <1>4 DEF WorkModeChanged
  <2>2. "workMode" \in Commands BY DEF Commands
  <2>3. /\ pending' \in [Lidars -> [Commands -> Nat]]
        /\ pending'[l] = [pending[l] EXCEPT !["workMode"] =
                                               pending[l]["workMode"] - 1]
        /\ \A m \in Lidars \ {l} : pending'[m] = pending[m]
    BY <1>0, <2>1, <2>2, AnsweredTypes
  <2>5. TypeOK'
    <3>1. done' \in [Lidars -> SUBSET Commands] BY <1>1, <2>1, <2>2
    <3> QED BY <1>0, <2>1, <2>3, <3>1 DEF TypeOK
  <2>6. ASSUME NEW m \in Lidars PROVE LidarInv(m)'
    <3>1. CASE m # l
      BY <1>0, <1>1, <2>1, <2>3, <3>1, LidarUntouched
    <3>2. CASE m = l
      <4>1. done'[l] = done[l] \cup {"workMode"} BY <1>1, <2>1
      <4>2. Configured(l)' = Configured(l) /\ Configured(l) \subseteq Options
        BY <2>1 DEF Configured, LivoxConfig
      <4>3. LidarInv(l) BY <1>0
      <4>4. \A p \in Options : p # "workMode" /\ p \in Commands
        BY DEF Options, Commands
      <4>5. \A p \in Options : pending'[l][p] = pending[l][p]
        BY <1>1, <2>3, <4>4
      <4>6. \A j \in OptionSteps : Script[j] \in Options
        BY DEF OptionSteps, Script, Options
      <4>7. UnacknowledgedBits(l)'
        BY <2>1, <4>1, <4>2, <4>3, <4>4, <4>5, <4>6
           DEF LidarInv, UnacknowledgedBits
      <4>8. \A p \in bits'[l] : pending'[l][p] > 0 \/ p \in failed'[l]
        BY <1>1, <2>1, <4>3, <4>5 DEF LidarInv
      <4> QED BY <2>1, <3>2, <4>1, <4>2, <4>3, <4>5, <4>7, <4>8 DEF LidarInv
    <3> QED BY <3>1, <3>2
  <2> QED BY <2>5, <2>6, ConfigInvNext
<1>5. ASSUME NEW c \in Commands, Timeout(l, c) PROVE ConfigInv'
  <2>1. TypeOK' BY <1>0, <1>5 DEF TypeOK, Timeout
  <2>2. \A m \in Lidars : LidarInv(m)'
    BY <1>0, <1>5, LidarUntouched DEF Timeout
  <2> QED BY <2>1, <2>2, ConfigInvNext
<1> QED BY <1>2, <1>3, <1>4, <1>5

(* ConfigInv is an invariant: types, bits and acknowledgements stay in step *)
(* however the answers are delayed, reordered, lost or refused.            *)
THEOREM ConfigInvariant == Spec => []ConfigInv
<1>1. Init => ConfigInv BY ConfigInit
<1>2. ConfigInv /\ [Next]_vars => ConfigInv'
  <2> SUFFICES ASSUME ConfigInv, [Next]_vars PROVE ConfigInv'
    OBVIOUS
  <2>1. CASE Next
    BY <2>1, ConfigInfo, ConfigAnswer DEF Next
  <2>2. CASE UNCHANGED vars
    <3>1. TypeOK /\ \A m \in Lidars : LidarInv(m)
      BY ConfigInvByLidar
    <3>2. TypeOK' BY <2>2, <3>1 DEF TypeOK, vars
    <3>3. \A m \in Lidars : LidarInv(m)'
      BY <2>2, <3>1, LidarUntouched DEF vars
    <3> QED BY <3>2, <3>3, ConfigInvNext
  <2> QED BY <2>1, <2>2
<1> QED BY <1>1, <1>2, PTL DEF Spec

(* A lidar publishes only after it acknowledged every configured option.    *)
THEOREM NoEarlySampling == Spec => []ConfiguredBeforeSampling
BY ConfigInvariant, PTL DEF ConfigInv

(* A set bit always has a command in flight or a refusal behind it.         *)
THEOREM BitsStayAccounted == Spec => []BitsAccounted
BY ConfigInvariant, PTL DEF ConfigInv

=============================================================================
