----------------------------- MODULE LeaseTiming -----------------------------
(***************************************************************************)
(* The timers of one delivery: the lease of the worker that holds it, the  *)
(* heartbeats that renew lease and pending entry, and the idle worker that *)
(* reclaims the entry.  ControlPlane lets every timer run out at any       *)
(* moment; here they run, and Settings.from_env decides how long.          *)
(*                                                                         *)
(* Time passes in ticks, Second of them to a second.  What is asked of the *)
(* environment is that a heartbeat, or taking a lease, is at most `late'   *)
(* ticks late, and that an idle worker polls every Polling ticks.  The     *)
(* work never ends by itself: shorter work needs less of the timers.       *)
(***************************************************************************)
EXTENDS Naturals

CONSTANTS
  Second,        \* ticks in a second, a multiple of 3
  Environments,  \* TASK_LEASE_SECONDS in seconds, TASK_HEARTBEAT_SECONDS and
                 \* TASK_RECLAIM_IDLE_MS in ticks, or None where not set, and
                 \* how late heartbeats may be there
  Polling,       \* the longest time between two polls of an idle worker
  Traffic,       \* whether the stream may hold new entries at any poll
  None

ASSUME TimingConstants ==
  /\ Second \in Nat \ {0} /\ Second % 3 = 0
  /\ \A e \in Environments :
       /\ e.lease \in {None} \cup (Nat \ {0})
       /\ e.heartbeat \in {None} \cup (Nat \ {0})
       /\ e.reclaim \in {None} \cup (Nat \ {0})
       /\ e.late \in Nat
  /\ Polling \in Nat \ {0}
  /\ Traffic \in BOOLEAN

VARIABLES
  settings,  \* task_lease_seconds, task_heartbeat_seconds, task_reclaim_idle_ms
  late,      \* how late heartbeats are in this run
  holder,    \* the worker of the delivery
  phase,     \* where its heartbeat loop stands
  lease,     \* ticks until lease_expires_at
  idle,      \* how long the pending entry has been idle
  wait,      \* ticks since the heartbeat loop began to wait
  missed,    \* whether the last touch of the pending entry failed
  poll,      \* ticks since the idle worker last polled
  since      \* ticks since the delivery has had no worker

vars == <<settings, late, holder, phase, lease, idle, wait, missed, poll, since>>

-----------------------------------------------------------------------------
Longer(m, n) == IF m > n THEN m ELSE n
Shorter(m, n) == IF m < n THEN m ELSE n
\* What is left of m ticks after n.
Left(m, n) == IF m > n THEN m - n ELSE 0

Default(v, default) == IF v = None THEN default ELSE v

\* Settings.from_env
FromEnv(e) ==
  LET seconds == Default(e.lease, 120) IN
  [ lease     |-> seconds * Second,
    heartbeat |-> Default(e.heartbeat, Longer(Second, (seconds * Second) \div 3)),
    reclaim   |-> Default(e.reclaim, Longer((seconds + 5) * Second, 120 * Second)) ]

\* Mutant: the heartbeat may be as long as the lease.
AcceptsLongHeartbeats(s) == s.heartbeat <= s.lease /\ s.reclaim > s.heartbeat

\* What raises no ValueError.
Accepts(s) == s.heartbeat < s.lease /\ s.reclaim > s.heartbeat

\* A worker has a delivery and its lease: the entry was delivered i ticks ago
\* and the lease committed d ticks ago.
Held(d, i) ==
  /\ holder' = "working" /\ phase' = "waiting"
  /\ lease' = Left(settings.lease, d) /\ idle' = i
  /\ wait' = 0 /\ missed' = FALSE /\ since' = 0

Init ==
  /\ \E e \in Environments :
       Accepts(FromEnv(e)) /\ settings = FromEnv(e) /\ late = e.late
  /\ holder = "working" /\ phase = "waiting"
  /\ \E i \in 0..late : \E d \in 0..i : idle = i /\ lease = Left(settings.lease, d)
  /\ wait = 0 /\ missed = FALSE
  /\ poll \in 0..Polling
  /\ since = 0

-----------------------------------------------------------------------------
\* Within this time a delivery without a worker has one again.
RecoveryTime == settings.lease + settings.reclaim + Polling

\* A tick.  A heartbeat is not more than late ticks late, nor a poll at all.
Tick ==
  /\ holder = "working" => wait < settings.heartbeat + late
  /\ poll < Polling
  /\ lease' = Left(lease, 1)
  /\ idle' = Shorter(idle + 1, settings.reclaim)
  /\ wait' = IF holder = "working" THEN wait + 1 ELSE wait
  /\ poll' = poll + 1
  /\ since' = IF holder = "working" THEN 0 ELSE Shorter(since + 1, RecoveryTime + 1)
  /\ UNCHANGED <<settings, late, holder, phase, missed>>

\* Mutant: only the lease is renewed, the pending entry is not touched.
RenewLease ==
  /\ holder = "working" /\ phase = "waiting" /\ wait >= settings.heartbeat
  /\ IF lease > 0 THEN lease' = settings.lease /\ wait' = 0 /\ UNCHANGED holder
     ELSE holder' = "lost" /\ UNCHANGED <<lease, wait>>
  /\ UNCHANGED <<settings, late, phase, idle, missed, poll, since>>

\* Mutant: a renewal adds to the lease what it should count from now.
AddToLease ==
  /\ holder = "working" /\ phase = "waiting" /\ wait >= settings.heartbeat
  /\ IF lease > 0 THEN lease' = lease + settings.lease /\ phase' = "touching" /\ UNCHANGED holder
     ELSE holder' = "lost" /\ UNCHANGED <<lease, phase>>
  /\ UNCHANGED <<settings, late, idle, wait, missed, poll, since>>

\* renew_once: the lease is renewed if it has not run out; else TaskLeaseLost
\* ends the work.
Renew ==
  /\ holder = "working" /\ phase = "waiting" /\ wait >= settings.heartbeat
  /\ IF lease > 0 THEN lease' = settings.lease /\ phase' = "touching" /\ UNCHANGED holder
     ELSE holder' = "lost" /\ UNCHANGED <<lease, phase>>
  /\ UNCHANGED <<settings, late, idle, wait, missed, poll, since>>

\* _touch_pending: the entry is no longer idle, unless Redis fails; then the loop
\* waits again.
Touch(failed) ==
  /\ holder = "working" /\ phase = "touching"
  /\ phase' = "waiting" /\ wait' = 0
  /\ idle' = IF failed THEN idle ELSE 0
  /\ missed' = failed
  /\ UNCHANGED <<settings, late, holder, lease, poll, since>>

\* The process dies.
Crash ==
  /\ holder = "working"
  /\ holder' = "dead"
  /\ UNCHANGED <<settings, late, phase, lease, idle, wait, missed, poll, since>>

\* Mutant: lease_task takes no task that is RUNNING.
NeverLeasable == FALSE

\* lease_task on a reclaimed delivery: the task is RUNNING, so its lease must
\* have run out.
Leasable == lease = 0

\* worker_loop of the idle worker: new entries first; the stale one only when
\* there are none, and then its lease.
Poll ==
  /\ poll' = 0
  /\ UNCHANGED <<settings, late>>
  /\ \/ /\ Traffic \/ idle < settings.reclaim
        /\ UNCHANGED <<holder, phase, lease, idle, wait, missed, since>>
     \/ /\ idle >= settings.reclaim /\ ~Leasable
        /\ idle' = 0
        /\ UNCHANGED <<holder, phase, lease, wait, missed, since>>
     \/ /\ idle >= settings.reclaim /\ Leasable
        /\ \E i \in 0..late : \E d \in 0..i : Held(d, i)

Next == Tick \/ Renew \/ (\E failed \in BOOLEAN : Touch(failed)) \/ Crash \/ Poll

Spec == Init /\ [][Next]_vars

-----------------------------------------------------------------------------
\* No lease ever has more than its full term left; the other state keeps its type.
TypeOK ==
  /\ settings.lease \in Nat /\ settings.heartbeat \in Nat /\ settings.reclaim \in Nat
  /\ late \in Nat
  /\ holder \in {"working", "dead", "lost"}
  /\ phase \in {"waiting", "touching"}
  /\ lease \in 0..settings.lease
  /\ idle \in Nat /\ wait \in Nat /\ poll \in 0..Polling /\ since \in Nat
  /\ missed \in BOOLEAN

\* A worker whose heartbeats come in time never loses its lease, whether Redis
\* answers or not.  In time is what the settings leave room for: with heartbeats
\* that are not late at all, every setting from_env accepts.
LeaseOutlivesHeartbeat ==
  late = 0 \/ settings.heartbeat + 2 * late < settings.lease =>
    holder # "lost" /\ (holder = "working" => lease > 0)

\* Nor is its delivery up for reclaim, unless Redis has not answered.
ReclaimedOnlyIfMissed ==
  late = 0 \/ settings.heartbeat + 2 * late < settings.reclaim =>
    (holder = "working" /\ ~missed => idle < settings.reclaim)

\* Without new entries in the stream, a delivery whose worker died is worked on
\* again after a lease, a reclaim interval and a poll, however often the reclaim
\* comes too early for the lease.
RecoveredInTime == ~Traffic => since < RecoveryTime
=============================================================================
