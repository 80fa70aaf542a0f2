---------------------------- MODULE TaskLifecycle ----------------------------
(***************************************************************************)
(* What the control plane promises a client that submits a task: the task  *)
(* is run by one executor at a time, fails at most budget times, and ends  *)
(* exactly once, done or as a dead letter, of which at most one later task *)
(* is the replay.  Queues, leases, messages and crashes are not visible.   *)
(***************************************************************************)
EXTENDS Naturals

CONSTANTS TaskIds, MaxAttempts, None

VARIABLES
  phase,          \* "none", "waiting", "running", "done", "dead" or "gone"
  failures,       \* failed attempts so far
  budget,         \* failed attempts allowed
  replayOf        \* the dead task this one replays, or None

vars == <<phase, failures, budget, replayOf>>

Init ==
  /\ phase = [t \in TaskIds |-> "none"]
  /\ failures = [t \in TaskIds |-> 0]
  /\ budget = [t \in TaskIds |-> 1]
  /\ replayOf = [t \in TaskIds |-> None]

Accept(new, b) ==
  /\ \A t \in new : phase[t] = "none"
  /\ phase' = [t \in TaskIds |-> IF t \in new THEN "waiting" ELSE phase[t]]
  /\ budget' = [t \in TaskIds |-> IF t \in new THEN b ELSE budget[t]]
  /\ UNCHANGED failures

Submit(t, b) == Accept({t}, b) /\ UNCHANGED replayOf

\* Each dead task is replayed by at most one other.
Replay(new, b) ==
  /\ Accept(new, b)
  /\ replayOf' \in [TaskIds -> TaskIds \cup {None}]
  /\ \A t \in TaskIds :
       IF t \in new
       THEN /\ replayOf'[t] # None /\ phase[replayOf'[t]] = "dead"
            /\ \A u \in TaskIds \ {t} : replayOf'[u] # replayOf'[t]
       ELSE replayOf'[t] = replayOf[t]

Move(t, from, to) == phase[t] = from /\ phase' = [phase EXCEPT ![t] = to]

Start(t) == Move(t, "waiting", "running") /\ UNCHANGED <<failures, budget, replayOf>>
Yield(t) == Move(t, "running", "waiting") /\ UNCHANGED <<failures, budget, replayOf>>
Finish(t) == Move(t, "running", "done") /\ UNCHANGED <<failures, budget, replayOf>>

Fail(t) ==
  /\ failures' = [failures EXCEPT ![t] = @ + 1]
  /\ \/ Move(t, "running", "waiting") /\ failures[t] + 1 < budget[t]
     \/ Move(t, "running", "dead") /\ failures[t] + 1 <= budget[t]
  /\ UNCHANGED <<budget, replayOf>>

Delete(old) ==
  /\ old # {} /\ \A t \in old : phase[t] = "done"
  /\ phase' = [t \in TaskIds |-> IF t \in old THEN "gone" ELSE phase[t]]
  /\ UNCHANGED <<failures, budget, replayOf>>

Next ==
  \/ \E b \in 1..MaxAttempts :
       \/ \E t \in TaskIds : Submit(t, b)
       \/ \E new \in SUBSET TaskIds : Replay(new, b)
  \/ \E t \in TaskIds : Start(t) \/ Yield(t) \/ Finish(t) \/ Fail(t)
  \/ \E old \in SUBSET TaskIds : Delete(old)

Spec == Init /\ [][Next]_vars
=============================================================================
