------------------------------ MODULE MCLiveness ------------------------------
(***************************************************************************)
(* ControlPlane under fairness, with a budget of faults: finitely many     *)
(* errors, crashes and missed heartbeats, which hit the processes in       *)
(* Unreliable; the others stay up.  Nothing says that a crashed process is *)
(* started again: Restart may happen and need not.                         *)
(***************************************************************************)
EXTENDS ControlPlaneInvariant

CONSTANTS
  Unreliable,     \* the workers and dispatchers that faults may hit
  MaxFaults       \* how many faults there are at most

VARIABLE faults

liveVars == <<vars, faults>>

OwnName == [w \in Workers |-> w]

\* Somebody runs t under its lease, so the heartbeat keeps renewing it.
Attended(t) == \E w \in Workers : Holds(w) /\ Task(w) = t /\ PassesFence(w)
Publishing(e) ==
  \E d \in Dispatchers : e \in dispatcher[d].batch \cup dispatcher[d].event

\* What the processes do by themselves, and time that passes at rest.
Routine ==
  \/ Submit \/ Cleanup
  \/ \E d \in Dispatchers : DispatcherStep(d) \/ DispatcherRestart(d)
  \/ \E w \in Workers : WorkerStep(w) \/ Heartbeat(w) \/ Restart(w)
  \/ \E t \in TaskIds : Backoff(t) \/ (~Attended(t) /\ LeaseTimeout(t))
  \/ \E e \in Event : ~Publishing(e) /\ ClaimTimeout(e)
  \/ \E m \in pel : GroupIdles(m)

\* What goes wrong: an error, a crash, or an attempt that outlives its lease or claim.
Fault ==
  \/ \E d \in Dispatchers \cap Unreliable : DispatcherFault(d)
  \/ \E w \in Workers \cap Unreliable : WorkerFault(w)
  \/ \E t \in TaskIds : Attended(t) /\ LeaseTimeout(t)
  \/ \E e \in Event : Publishing(e) /\ ClaimTimeout(e)

LiveNext ==
  \/ Routine /\ UNCHANGED faults
  \/ faults < MaxFaults /\ Fault /\ faults' = faults + 1

\* Every coroutine that is up is scheduled and its calls return; time passes.
Fairness ==
  /\ \A d \in Dispatchers : WF_liveVars(DispatcherStep(d) /\ UNCHANGED faults)
  /\ \A w \in Workers : WF_liveVars(WorkerStep(w) /\ UNCHANGED faults)
  /\ \A t \in TaskIds :
       /\ WF_liveVars(Backoff(t) /\ UNCHANGED faults)
       /\ WF_liveVars(~Attended(t) /\ LeaseTimeout(t) /\ UNCHANGED faults)
  /\ \A e \in Event : WF_liveVars(~Publishing(e) /\ ClaimTimeout(e) /\ UNCHANGED faults)
  /\ \A m \in 1..MaxMessages : WF_liveVars(GroupIdles(m) /\ UNCHANGED faults)

LiveSpec == (Init /\ faults = 0) /\ [][LiveNext]_liveVars /\ Fairness

\* Every submitted task ends as DONE or as a dead letter: a delivery lost in a
\* crash is published or reclaimed again, a dead holder's lease runs out.
EventuallySettled ==
  \A t \in TaskIds : Present(t) ~> tasks[t].status \in Terminal \cup {"PURGED"}

\* Every entry of the stream is acknowledged in the end, duplicates and entries
\* of finished, deleted or superseded tasks included: the pending list drains.
EventuallyAcked ==
  \A m \in 1..MaxMessages : (m \in Entries) ~> (m \in Entries /\ ~InFlight(m))
=============================================================================
