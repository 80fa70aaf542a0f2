-------------------------- MODULE LeaseTimingProofs --------------------------
(***************************************************************************)
(* The timing properties of LeaseTiming for all settings that from_env     *)
(* accepts, the defaults included, and for any lateness and polling        *)
(* interval.                                                               *)
(***************************************************************************)
EXTENDS LeaseTiming, TLAPS

SettingsOK ==
  /\ settings.lease \in Nat /\ settings.heartbeat \in Nat /\ settings.reclaim \in Nat
  /\ settings.heartbeat > 0
  /\ settings.heartbeat < settings.lease /\ settings.heartbeat < settings.reclaim
  /\ late \in Nat

\* The loop waits no longer than a heartbeat and its lateness, and touches only
\* after it has renewed.
LoopInTime ==
  holder = "working" =>
    /\ wait <= settings.heartbeat + late
    /\ phase = "touching" => wait >= settings.heartbeat

\* How much of the lease is left at least, while the loop waits.
LeaseLeft ==
  holder = "working" =>
    /\ phase = "waiting" => lease + late + wait >= settings.lease
    /\ phase = "touching" => lease + wait >= settings.lease + settings.heartbeat

\* How long the entry can be idle while every touch succeeds.
IdleBound == holder = "working" /\ ~missed => idle <= wait + late

NotLost == late = 0 \/ settings.heartbeat + 2 * late < settings.lease => holder # "lost"

\* Without a worker the lease runs down, the entry becomes idle, and the last
\* poll was too early for one of the two.
RunsDown ==
  /\ lease <= settings.lease
  /\ holder = "working" => since = 0
  /\ holder = "lost" => lease = 0
  /\ holder # "working" =>
       /\ lease + since <= settings.lease \/ lease = 0
       /\ idle >= settings.reclaim \/ idle + settings.lease >= since
  /\ ~Traffic => since < settings.lease + settings.reclaim + poll

IInv == TypeOK /\ SettingsOK /\ LoopInTime /\ LeaseLeft /\ IdleBound /\ NotLost /\ RunsDown

-----------------------------------------------------------------------------
\* What from_env accepts is positive and in order.
LEMMA AcceptedSettings ==
  ASSUME NEW e \in Environments, Accepts(FromEnv(e))
  PROVE  LET s == FromEnv(e) IN
           /\ s.lease \in Nat /\ s.heartbeat \in Nat /\ s.reclaim \in Nat
           /\ s.heartbeat > 0 /\ s.heartbeat < s.lease /\ s.heartbeat < s.reclaim
<1> DEFINE seconds == Default(e.lease, 120)
           third == (seconds * Second) \div 3
           s == FromEnv(e)
<1>1. Second \in Nat \ {0} /\ seconds \in Nat \ {0}
  BY TimingConstants DEF Default
<1>2. seconds * Second \in Nat /\ (seconds + 5) * Second \in Nat /\ 120 * Second \in Nat
  BY <1>1
<1> HIDE DEF seconds
<1>3. third \in Nat
  BY <1>2
<1>4. /\ s.lease = seconds * Second
      /\ s.heartbeat = Default(e.heartbeat, Longer(Second, third))
      /\ s.reclaim = Default(e.reclaim, Longer((seconds + 5) * Second, 120 * Second))
  BY DEF FromEnv, seconds
<1> HIDE DEF s, third
<1>5. s.heartbeat \in Nat \ {0}
  BY <1>1, <1>3, <1>4, TimingConstants DEF Default, Longer
<1>6. s.reclaim \in Nat
  BY <1>2, <1>4, TimingConstants DEF Default, Longer
<1>7. s.heartbeat < s.lease /\ s.heartbeat < s.reclaim
  BY DEF Accepts, s
<1> QED
  BY <1>2, <1>4, <1>5, <1>6, <1>7 DEF s

LEMMA InitHolds == Init => IInv
<1> SUFFICES ASSUME Init PROVE IInv
  OBVIOUS
<1>1. SettingsOK
  BY AcceptedSettings, TimingConstants DEF Init, SettingsOK
<1>2. PICK i \in 0..late : \E d \in 0..i : idle = i /\ lease = Left(settings.lease, d)
  BY DEF Init
<1>3. PICK d \in 0..i : idle = i /\ lease = Left(settings.lease, d)
  BY <1>2
<1>4. /\ idle \in Nat /\ idle <= late
      /\ lease \in Nat /\ lease + late >= settings.lease /\ lease <= settings.lease
  BY <1>1, <1>3 DEF SettingsOK, Left
<1>5. holder = "working" /\ phase = "waiting" /\ wait = 0 /\ missed = FALSE /\ since = 0
      /\ poll \in 0..Polling
  BY DEF Init
<1>6. TypeOK
  <2>1. settings.lease \in Nat /\ lease \in 0..settings.lease
    BY <1>1, <1>4 DEF SettingsOK
  <2> QED
    BY <1>1, <1>4, <1>5, <2>1 DEF TypeOK, SettingsOK
<1>7. LoopInTime /\ LeaseLeft /\ IdleBound /\ NotLost
  BY <1>1, <1>4, <1>5 DEF SettingsOK, LoopInTime, LeaseLeft, IdleBound, NotLost
<1>8. RunsDown
  BY <1>1, <1>4, <1>5, <1>6, TimingConstants DEF SettingsOK, TypeOK, RunsDown
<1> QED
  BY <1>1, <1>6, <1>7, <1>8 DEF IInv

LEMMA TickKeeps == IInv /\ Tick => IInv'
<1> SUFFICES ASSUME IInv, Tick PROVE IInv'
  OBVIOUS
<1> USE TimingConstants DEF IInv, TypeOK, SettingsOK, Tick, Left, Shorter
<1>1. TypeOK' /\ SettingsOK'
  BY DEF RecoveryTime
<1>2. LoopInTime' /\ LeaseLeft' /\ IdleBound' /\ NotLost'
  BY <1>1 DEF LoopInTime, LeaseLeft, IdleBound, NotLost
<1>3. RunsDown'
  BY <1>1 DEF RunsDown, RecoveryTime
<1> QED
  BY <1>1, <1>2, <1>3

LEMMA RenewKeeps == IInv /\ Renew => IInv'
<1> SUFFICES ASSUME IInv, Renew PROVE IInv'
  OBVIOUS
<1> USE TimingConstants DEF IInv, TypeOK, SettingsOK, Renew
<1>1. TypeOK' /\ SettingsOK'
  OBVIOUS
<1>2. LoopInTime' /\ LeaseLeft' /\ IdleBound'
  BY <1>1 DEF LoopInTime, LeaseLeft, IdleBound
<1>3. NotLost'
  BY <1>1 DEF LoopInTime, LeaseLeft, NotLost
<1>4. RunsDown'
  BY <1>1 DEF RunsDown
<1> QED
  BY <1>1, <1>2, <1>3, <1>4

LEMMA TouchKeeps == ASSUME NEW failed \in BOOLEAN PROVE IInv /\ Touch(failed) => IInv'
<1> SUFFICES ASSUME IInv, Touch(failed) PROVE IInv'
  OBVIOUS
<1> USE TimingConstants DEF IInv, TypeOK, SettingsOK, Touch
<1>1. TypeOK' /\ SettingsOK'
  OBVIOUS
<1>2. LoopInTime' /\ LeaseLeft' /\ IdleBound' /\ NotLost'
  BY <1>1 DEF LoopInTime, LeaseLeft, IdleBound, NotLost
<1>3. RunsDown'
  BY <1>1 DEF RunsDown
<1> QED
  BY <1>1, <1>2, <1>3

LEMMA CrashKeeps == IInv /\ Crash => IInv'
<1> SUFFICES ASSUME IInv, Crash PROVE IInv'
  OBVIOUS
<1> USE TimingConstants DEF IInv, TypeOK, SettingsOK, Crash
<1>1. TypeOK' /\ SettingsOK'
  OBVIOUS
<1>2. LoopInTime' /\ LeaseLeft' /\ IdleBound' /\ NotLost'
  BY <1>1 DEF LoopInTime, LeaseLeft, IdleBound, NotLost
<1> DEFINE L == settings.lease
<1>3. RunsDown'
  BY <1>1 DEF RunsDown, LeaseLeft
<1> QED
  BY <1>1, <1>2, <1>3

LEMMA PollKeeps == IInv /\ Poll => IInv'
<1> SUFFICES ASSUME IInv, Poll PROVE IInv'
  OBVIOUS
<1> USE TimingConstants DEF IInv, TypeOK, SettingsOK, Leasable
<1>1. ASSUME UNCHANGED <<settings, late, holder, phase, lease, wait, missed, since>>, poll' = 0,
             \/ (Traffic \/ idle < settings.reclaim) /\ idle' = idle
             \/ lease # 0 /\ idle' = 0
      PROVE  IInv'
  <2>1. TypeOK' /\ SettingsOK'
    BY <1>1
  <2>2. LoopInTime' /\ LeaseLeft' /\ IdleBound' /\ NotLost'
    BY <1>1 DEF LoopInTime, LeaseLeft, IdleBound, NotLost
  <2>3. RunsDown'
    BY <1>1 DEF RunsDown
  <2> QED
    BY <2>1, <2>2, <2>3
<1>2. ASSUME NEW i \in 0..late, NEW d \in 0..i, Held(d, i), poll' = 0, UNCHANGED <<settings, late>>
      PROVE  IInv'
  <2>0. i \in Nat /\ i <= late /\ d \in Nat /\ d <= late
    OBVIOUS
  <2>1. /\ lease' \in Nat /\ lease' + late >= settings.lease /\ lease' <= settings.lease
    BY <1>2, <2>0 DEF Held, Left
  <2>5. /\ idle' \in Nat /\ idle' <= late
        /\ holder' = "working" /\ phase' = "waiting"
        /\ wait' = 0 /\ missed' = FALSE /\ since' = 0
    BY <1>2, <2>0 DEF Held
  <2>2. TypeOK' /\ SettingsOK'
    <3>1. settings' = settings /\ late' = late /\ poll' = 0
      BY <1>2
    <3>2. 0 \in 0..Polling
      OBVIOUS
    <3>3. lease' \in 0..settings'.lease
      BY <2>1, <3>1
    <3> QED
      BY <2>5, <3>1, <3>2, <3>3
  <2>3. LoopInTime' /\ LeaseLeft' /\ IdleBound' /\ NotLost'
    <3>1. settings' = settings /\ late' = late
      BY <1>2
    <3>2. settings.lease \in Nat /\ settings.heartbeat \in Nat /\ late \in Nat
      OBVIOUS
    <3> QED
      BY ONLY <2>1, <2>5, <3>1, <3>2 DEF LoopInTime, LeaseLeft, IdleBound, NotLost
  <2>4. RunsDown'
    BY <1>2, <2>1, <2>5 DEF RunsDown
  <2> QED
    BY <2>2, <2>3, <2>4
<1> QED
  <2>1. poll' = 0 /\ UNCHANGED <<settings, late>>
    BY DEF Poll
  <2>2. CASE \E i \in 0..late : \E d \in 0..i : Held(d, i)
    BY <1>2, <2>1, <2>2
  <2>4. \/ \E i \in 0..late : \E d \in 0..i : Held(d, i)
        \/ /\ UNCHANGED <<holder, phase, lease, wait, missed, since>>
           /\ (((Traffic \/ idle < settings.reclaim) /\ idle' = idle) \/ (lease # 0 /\ idle' = 0))
    BY DEF Poll
  <2>3. CASE UNCHANGED <<holder, phase, lease, wait, missed, since>>
             /\ (((Traffic \/ idle < settings.reclaim) /\ idle' = idle) \/ (lease # 0 /\ idle' = 0))
    BY <1>1, <2>1, <2>3
  <2> QED
    BY <2>2, <2>3, <2>4

LEMMA NextKeeps == IInv /\ [Next]_vars => IInv'
<1> SUFFICES ASSUME IInv, [Next]_vars PROVE IInv'
  OBVIOUS
<1>1. CASE UNCHANGED vars
  BY <1>1 DEF vars, IInv, TypeOK, SettingsOK, LoopInTime, LeaseLeft, IdleBound, NotLost, RunsDown
<1> QED
  BY <1>1, TickKeeps, RenewKeeps, TouchKeeps, CrashKeeps, PollKeeps DEF Next

\* Every reachable state satisfies the invariant.
THEOREM Invariant == Spec => []IInv
  BY InitHolds, NextKeeps, PTL DEF Spec

\* No timer leaves its type.
THEOREM TypeCorrect == Spec => []TypeOK
<1>1. IInv => TypeOK
  BY DEF IInv
<1> QED
  BY <1>1, Invariant, PTL

\* Heartbeats that come in time keep the lease, for every accepted setting.
THEOREM HeartbeatsKeepTheLease == Spec => []LeaseOutlivesHeartbeat
<1>1. IInv => LeaseOutlivesHeartbeat
  BY DEF IInv, TypeOK, SettingsOK, LoopInTime, LeaseLeft, NotLost, LeaseOutlivesHeartbeat
<1> QED
  BY <1>1, Invariant, PTL

\* Nor is the delivery of a working process reclaimed while Redis answers.
THEOREM WorkIsNotReclaimed == Spec => []ReclaimedOnlyIfMissed
<1>1. IInv => ReclaimedOnlyIfMissed
  BY DEF IInv, TypeOK, SettingsOK, LoopInTime, IdleBound, ReclaimedOnlyIfMissed
<1> QED
  BY <1>1, Invariant, PTL

\* A crash is recovered from within a lease, a reclaim interval and a poll.
THEOREM RecoveryIsBounded == Spec => []RecoveredInTime
<1>1. IInv => RecoveredInTime
  BY TimingConstants DEF IInv, TypeOK, SettingsOK, RunsDown, RecoveredInTime, RecoveryTime
<1> QED
  BY <1>1, Invariant, PTL
=============================================================================
