----------------------------- MODULE ControlPlane -----------------------------
(***************************************************************************)
(* Outbox dispatchers and ingestion workers over the task ledger and the   *)
(* Redis stream: one action per await of dispatch_ready, worker_loop,      *)
(* handle_delivery and TaskLeaseGuard.  Everything may be interleaved, any *)
(* process may crash at any await and start again with an empty memory,    *)
(* any call may fail, and any lease, claim or backoff may run out.         *)
(*                                                                         *)
(* A call whose reply is lost after it took effect is its success followed *)
(* by the failure of the next call, wherever that leads to the same place; *)
(* the actions named ...Error spell out the cases where it does not.       *)
(***************************************************************************)
EXTENDS TaskLedger, RedisStream, FiniteSets

CONSTANTS
  Workers,        \* worker_loop coroutines, over all processes
  WorkerName,     \* the worker_id each of them runs under
  BatchSize,      \* outbox_batch_size
  MaxMessages     \* bound on the length of the stream

ASSUME ControlPlaneConstants ==
  /\ WorkerName \in [Workers -> Names]
  /\ BatchSize \in Nat \ {0}
  /\ MaxMessages \in Nat

VARIABLES
  worker,         \* where each worker is, its delivery and its TaskLease
  dispatcher      \* where each dispatcher is and the batch it has claimed

vars == <<tasks, outbox, deadLetters, stream, delivered, pel, idle, worker, dispatcher>>

\* Between lease_task and the end of handle_delivery a worker holds a TaskLease.
\* "failing" and "failingForGood" are transition_failure for a retryable and
\* for a permanent error; "ackingDone" is the XACK after complete_task, inside
\* the try block; "releasing" and "releasingAgain" are the two
\* release_for_recovery calls of a cancelled run_guarded.
HoldingPcs == {"executing", "completing", "ackingDone", "failing", "failingForGood",
               "releasing", "releasingAgain"}
WorkerPcs == {"idle", "reclaiming", "leasing", "checking", "acking", "down"}
               \cup HoldingPcs

WorkerState ==
  [pc : WorkerPcs, msg : Nat, attempts : Generations, max : 0..MaxAttempts]
DispatcherState ==
  [pc : {"polling", "publishing", "marking", "recording", "down"},
   batch : SUBSET Event,  \* claimed, no XADD tried yet
   event : SUBSET Event]  \* the one event between XADD and the next update

NoDelivery(pc) == [pc |-> pc, msg |-> 0, attempts |-> 0, max |-> 0]
NoBatch(pc) == [pc |-> pc, batch |-> {}, event |-> {}]

Init ==
  /\ LedgerInit
  /\ RedisInit
  /\ worker = [w \in Workers |-> NoDelivery("idle")]
  /\ dispatcher = [d \in Dispatchers |-> NoBatch("polling")]

Goto(w, pc) == worker' = [worker EXCEPT ![w].pc = pc]
Forget(w, pc) == worker' = [worker EXCEPT ![w] = NoDelivery(pc)]

\* The task and generation of the delivery w is working on.
Task(w) == stream[worker[w].msg].task
Gen(w) == stream[worker[w].msg].gen
PassesFence(w) == Fenced(Task(w), Gen(w), WorkerName[w])

-----------------------------------------------------------------------------
(* The dispatcher                                                          *)

Claim(d) ==
  /\ dispatcher[d].pc = "polling"
  /\ \E batch \in SUBSET {e \in Event : Claimable(e)} :
       /\ Cardinality(batch) <= BatchSize
       /\ ClaimReady(d, batch)
       /\ dispatcher' = [dispatcher EXCEPT ![d] =
            [pc |-> "publishing", batch |-> batch, event |-> {}]]
  /\ UNCHANGED <<redis, worker>>

\* Takes e out of the batch and goes to pc with it.
Attempt(d, e, pc) ==
  /\ dispatcher[d].pc = "publishing" /\ e \in dispatcher[d].batch
  /\ dispatcher' = [dispatcher EXCEPT
       ![d] = [pc |-> pc, batch |-> @.batch \ {e}, event |-> {e}]]

Publish(d) ==
  /\ Len(stream) < MaxMessages
  /\ \E e \in dispatcher[d].batch : Attempt(d, e, "marking") /\ Xadd(e)
  /\ UNCHANGED <<ledger, worker>>

\* Mutant: the error is swallowed and the row marked published.
PublishErrorMarks(d) ==
  /\ \E e \in dispatcher[d].batch : Attempt(d, e, "marking")
  /\ UNCHANGED <<ledger, redis, worker>>

\* XADD raises, and the entry may be in the stream all the same.
PublishError(d) ==
  /\ \E e \in dispatcher[d].batch :
       /\ Attempt(d, e, "recording")
       /\ \/ UNCHANGED redis
          \/ Len(stream) < MaxMessages /\ Xadd(e)
  /\ UNCHANGED <<ledger, worker>>

\* The next event of the batch, or the next poll.
NextEvent(d) ==
  dispatcher' = [dispatcher EXCEPT ![d] =
    IF @.batch = {} THEN NoBatch("polling")
    ELSE [pc |-> "publishing", batch |-> @.batch, event |-> {}]]

\* publish_claimed marks the row, or finds that its claim is gone and raises.
Mark(d) ==
  /\ dispatcher[d].pc = "marking"
  /\ \E e \in dispatcher[d].event :
       \/ MarkPublished(d, e) /\ NextEvent(d)
       \/ /\ ~ClaimHeld(d, e)
          /\ dispatcher' = [dispatcher EXCEPT ![d].pc = "recording"]
          /\ UNCHANGED ledger
  /\ UNCHANGED <<redis, worker>>

\* The update raises.  (When it was committed, recording the failure matches no row.)
MarkError(d) ==
  /\ dispatcher[d].pc = "marking"
  /\ dispatcher' = [dispatcher EXCEPT ![d].pc = "recording"]
  /\ UNCHANGED <<ledger, redis, worker>>

Record(d) ==
  /\ dispatcher[d].pc = "recording"
  /\ \E e \in dispatcher[d].event :
       RecordFailure(d, e) \/ (~ClaimHeld(d, e) /\ UNCHANGED ledger)
  /\ NextEvent(d)
  /\ UNCHANGED <<redis, worker>>

\* Also what any error outside publish_claimed does: main() does not catch it.
DispatcherCrash(d) ==
  /\ dispatcher[d].pc # "down"
  /\ dispatcher' = [dispatcher EXCEPT ![d] = NoBatch("down")]
  /\ UNCHANGED <<ledger, redis, worker>>

DispatcherRestart(d) ==
  /\ dispatcher[d].pc = "down"
  /\ dispatcher' = [dispatcher EXCEPT ![d] = NoBatch("polling")]
  /\ UNCHANGED <<ledger, redis, worker>>

-----------------------------------------------------------------------------
(* The worker: taking a delivery                                           *)

Deliver(w, m) == worker' = [worker EXCEPT ![w] = [@ EXCEPT !.pc = "leasing", !.msg = m]]

ReadNew(w) ==
  /\ worker[w].pc = "idle"
  /\ ReadGroup
  /\ Deliver(w, delivered + 1)
  /\ UNCHANGED <<ledger, dispatcher>>

\* The blocking read times out; only then does the worker look for stale entries.
ReadNothing(w) ==
  /\ worker[w].pc = "idle" /\ Undelivered = {}
  /\ Goto(w, "reclaiming")
  /\ UNCHANGED <<ledger, redis, dispatcher>>

Reclaim(w) ==
  /\ worker[w].pc = "reclaiming"
  /\ \/ \E m \in idle : AutoClaim(m) /\ Deliver(w, m)
     \/ idle = {} /\ Goto(w, "idle") /\ UNCHANGED redis
  /\ UNCHANGED <<ledger, dispatcher>>

TakeLease(w) == LeaseTask(Task(w), Gen(w), WorkerName[w])

\* lease_task returns the row it leased, attempts and max_attempts included.
Lease(w) ==
  /\ worker[w].pc = "leasing"
  /\ TakeLease(w)
  /\ worker' = [worker EXCEPT ![w] =
       [@ EXCEPT !.pc = "executing", !.attempts = tasks[Task(w)].attempts,
                 !.max = tasks[Task(w)].max]]
  /\ UNCHANGED <<redis, dispatcher>>

LeaseRefused(w) ==
  /\ worker[w].pc = "leasing"
  /\ ~Leasable(Task(w), Gen(w))
  /\ Goto(w, "checking")
  /\ UNCHANGED <<ledger, redis, dispatcher>>

\* The reply is lost: worker_loop logs the error and polls again.  The delivery
\* stays pending, and the lease, if it was granted, has no holder.
LeaseError(w) ==
  /\ worker[w].pc = "leasing"
  /\ TakeLease(w) \/ UNCHANGED ledger
  /\ Forget(w, "idle")
  /\ UNCHANGED <<redis, dispatcher>>

\* Mutants: whatever cannot be leased is acknowledged; nothing of it ever is.
AckUnleasable(w) ==
  /\ worker[w].pc = "checking"
  /\ Goto(w, "acking")
  /\ UNCHANGED <<ledger, redis, dispatcher>>
ForgetUnleasable(w) ==
  /\ worker[w].pc = "checking"
  /\ Forget(w, "idle")
  /\ UNCHANGED <<ledger, redis, dispatcher>>

\* An unleasable delivery is acknowledged only when it is settled.
CheckSettled(w) ==
  /\ worker[w].pc = "checking"
  /\ IF Settled(Task(w), Gen(w)) THEN Goto(w, "acking") ELSE Forget(w, "idle")
  /\ UNCHANGED <<ledger, redis, dispatcher>>

-----------------------------------------------------------------------------
(* The worker: running under the lease guard                               *)

\* renew_once: the lease is renewed in PostgreSQL, then the pending entry is
\* touched in Redis, whose failure is only logged.
Heartbeat(w) ==
  /\ worker[w].pc = "executing"
  /\ Renewable(Task(w), Gen(w), WorkerName[w])
  /\ Touch(worker[w].msg) \/ UNCHANGED redis
  /\ UNCHANGED <<ledger, worker, dispatcher>>

\* renew_once matches no row: TaskLeaseLost, nothing more is written or acked.
LoseLease(w) ==
  /\ worker[w].pc = "executing"
  /\ ~Renewable(Task(w), Gen(w), WorkerName[w])
  /\ Forget(w, "idle")
  /\ UNCHANGED <<ledger, redis, dispatcher>>

OperationSucceeds(w) ==
  /\ worker[w].pc = "executing"
  /\ Goto(w, "completing")
  /\ UNCHANGED <<ledger, redis, dispatcher>>

\* Collection, persistence or the heartbeat's own query raises.
OperationFails(w) ==
  /\ worker[w].pc = "executing"
  /\ \E pc \in {"failing", "failingForGood"} : Goto(w, pc)
  /\ UNCHANGED <<ledger, redis, dispatcher>>

Complete(w) ==
  /\ worker[w].pc = "completing"
  /\ \/ CompleteTask(Task(w), Gen(w), WorkerName[w]) /\ Goto(w, "ackingDone")
     \/ ~PassesFence(w) /\ Forget(w, "idle") /\ UNCHANGED ledger
  /\ UNCHANGED <<redis, dispatcher>>

\* complete_task, or the XACK after it, raises: the handler takes it for a
\* retryable failure of the task.
CompleteError(w) ==
  /\ worker[w].pc \in {"completing", "ackingDone"}
  /\ \/ UNCHANGED redis
     \/ worker[w].pc = "ackingDone" /\ Xack(worker[w].msg)
  /\ Goto(w, "failing")
  /\ UNCHANGED <<ledger, dispatcher>>

\* transition_failure decides on the attempt count it was leased with.
Exhausted(w) == worker[w].attempts + 1 >= worker[w].max

TransitionFailure(w) ==
  /\ worker[w].pc \in {"failing", "failingForGood"}
  /\ LET final == worker[w].pc = "failingForGood" \/ Exhausted(w)
     IN \/ /\ IF final THEN DeadLetterTask(Task(w), Gen(w), WorkerName[w])
                       ELSE ScheduleRetry(Task(w), Gen(w), WorkerName[w])
           /\ Goto(w, "acking")
        \/ ~PassesFence(w) /\ Forget(w, "idle") /\ UNCHANGED ledger
  /\ UNCHANGED <<redis, dispatcher>>

\* An error in the handler's own error path reaches worker_loop.
TransitionError(w) ==
  /\ worker[w].pc \in {"failing", "failingForGood"}
  /\ Forget(w, "idle")
  /\ UNCHANGED <<ledger, redis, dispatcher>>

Ack(w) ==
  /\ worker[w].pc \in {"acking", "ackingDone"}
  /\ Xack(worker[w].msg)
  /\ Forget(w, "idle")
  /\ UNCHANGED <<ledger, dispatcher>>

AckError(w) ==
  /\ worker[w].pc = "acking"
  /\ Forget(w, "idle")
  /\ UNCHANGED <<ledger, redis, dispatcher>>

-----------------------------------------------------------------------------
(* The worker: shutdown, crash, restart                                    *)

\* main() cancels the coroutine at its current await.  Inside handle_delivery's
\* try block that releases the lease, from run_guarded twice.
Cancel(w) ==
  /\ worker[w].pc \in {"executing", "completing", "ackingDone"}
  /\ Goto(w, IF worker[w].pc = "executing" THEN "releasing" ELSE "releasingAgain")
  /\ UNCHANGED <<ledger, redis, dispatcher>>

Released(w) ==
  \/ ReleaseForRecovery(Task(w), Gen(w), WorkerName[w])
  \/ ~PassesFence(w) /\ UNCHANGED ledger

Release(w) ==
  /\ \/ worker[w].pc = "releasing" /\ Goto(w, "releasingAgain")
     \/ worker[w].pc = "releasingAgain" /\ Forget(w, "down")
  /\ Released(w)
  /\ UNCHANGED <<redis, dispatcher>>

\* run_guarded's release raises in place of the cancellation, and the handler
\* records a failed attempt.
ReleaseError(w) ==
  /\ worker[w].pc = "releasing"
  /\ Released(w) \/ UNCHANGED ledger
  /\ Goto(w, "failing")
  /\ UNCHANGED <<redis, dispatcher>>

\* Also a cancellation outside that try block, which only unwinds.
Crash(w) ==
  /\ worker[w].pc # "down"
  /\ Forget(w, "down")
  /\ UNCHANGED <<ledger, redis, dispatcher>>

Restart(w) ==
  /\ worker[w].pc = "down"
  /\ Forget(w, "idle")
  /\ UNCHANGED <<ledger, redis, dispatcher>>

-----------------------------------------------------------------------------
(* Specification                                                           *)

Submit ==
  /\ \E k \in Keys : (\E m \in AttemptLimits : InsertTask(k, m)) \/ ResubmitTask(k)
  /\ UNCHANGED <<redis, worker, dispatcher>>

Replay ==
  /\ \E batch \in SUBSET Replayable, m \in AttemptLimits : ReplayDeadLetters(batch, m)
  /\ UNCHANGED <<redis, worker, dispatcher>>

Cleanup == PurgeDone /\ UNCHANGED <<redis, worker, dispatcher>>

DispatcherStep(d) ==
  \/ Claim(d) \/ Publish(d) \/ Mark(d) \/ Record(d)

WorkerStep(w) ==
  \/ ReadNew(w) \/ ReadNothing(w) \/ Reclaim(w)
  \/ Lease(w) \/ LeaseRefused(w) \/ CheckSettled(w)
  \/ LoseLease(w) \/ OperationSucceeds(w) \/ OperationFails(w)
  \/ Complete(w) \/ TransitionFailure(w) \/ Ack(w)
  \/ Release(w)

Backoff(t) == BackoffElapses(t) /\ UNCHANGED <<redis, worker, dispatcher>>
LeaseTimeout(t) == LeaseExpires(t) /\ UNCHANGED <<redis, worker, dispatcher>>
ClaimTimeout(e) == ClaimExpires(e) /\ UNCHANGED <<redis, worker, dispatcher>>
GroupIdles(m) == IdleTimePasses(m) /\ UNCHANGED <<ledger, worker, dispatcher>>

DispatcherFault(d) == PublishError(d) \/ MarkError(d) \/ DispatcherCrash(d)

WorkerFault(w) ==
  \/ LeaseError(w) \/ CompleteError(w) \/ TransitionError(w) \/ AckError(w)
  \/ Cancel(w) \/ ReleaseError(w) \/ Crash(w)

Next ==
  \/ Submit \/ Replay \/ Cleanup
  \/ \E d \in Dispatchers : DispatcherStep(d) \/ DispatcherFault(d) \/ DispatcherRestart(d)
  \/ \E w \in Workers : WorkerStep(w) \/ Heartbeat(w) \/ WorkerFault(w) \/ Restart(w)
  \/ \E t \in TaskIds : Backoff(t) \/ LeaseTimeout(t)
  \/ \E e \in Event : ClaimTimeout(e)
  \/ \E m \in pel : GroupIdles(m)

Spec == Init /\ [][Next]_vars

-----------------------------------------------------------------------------
(* Safety                                                                  *)

TypeOK ==
  /\ LedgerTypeOK
  /\ RedisTypeOK(Event)
  /\ worker \in [Workers -> WorkerState]
  /\ dispatcher \in [Dispatchers -> DispatcherState]

\* A task that is not finished always has something that will drive it on: until
\* it is enqueued, an unpublished outbox row for its current generation; then that
\* row or an unacknowledged delivery; and while it is leased, a delivery, because
\* claim_ready skips RUNNING tasks.  Crashes between claim, XADD and the published
\* mark, and between lease, outcome and XACK, must not break the chain.
NoLostTask ==
  \A t \in TaskIds :
    LET unpublished == outbox[CurrentEvent(t)].state = "pending"
        delivery == \E m \in Entries : stream[m] = CurrentEvent(t) /\ InFlight(m)
    IN /\ tasks[t].status \in Waiting => unpublished
       /\ tasks[t].status = "ENQUEUED" => unpublished \/ delivery
       /\ tasks[t].status = "RUNNING" => delivery

\* XACK is final, so an acknowledged entry must be one that nobody needs again:
\* its task is finished, deleted, or already on a later generation.
AckedIsSettled ==
  \A m \in Entries : ~InFlight(m) => Settled(stream[m].task, stream[m].gen)

Holds(w) == worker[w].pc \in HoldingPcs

\* Of all the workers that hold a TaskLease for a task, crashed leases taken over
\* included, at most one can still write to its row.
SoleFencedExecutor ==
  \A v, w \in Workers :
    Holds(v) /\ Holds(w) /\ PassesFence(v) /\ PassesFence(w) /\ Task(v) = Task(w)
      => v = w

\* Every failed attempt is counted once, in attempts and in delivery_generation
\* alike, a task never fails more often than max_attempts, and a worker that passes
\* the fence decides between retry and dead letter on the count the row still has.
AttemptAccounting ==
  /\ \A t \in TaskIds :
       /\ tasks[t].attempts = tasks[t].gen + (IF tasks[t].status = "DEAD_LETTER" THEN 1 ELSE 0)
       /\ tasks[t].gen < tasks[t].max
  /\ \A w \in Workers : Holds(w) /\ PassesFence(w) =>
       worker[w].attempts = tasks[Task(w)].attempts /\ worker[w].max = tasks[Task(w)].max

\* A task is a dead letter exactly when the archive has one row for it, of the
\* generation that failed, however often the deciding reply was lost.
DeadLetterArchive ==
  \A t \in TaskIds :
    LET rows == {i \in DOMAIN deadLetters : deadLetters[i].task = t}
    IN IF tasks[t].status = "DEAD_LETTER"
       THEN \E i \in rows : rows = {i} /\ deadLetters[i].gen = tasks[t].gen
       ELSE rows = {}

\* e may be seen by a worker: its task was enqueued for it and, if that is still
\* its generation, is due and not waiting to be enqueued again.
Enqueued(e) ==
  /\ tasks[e.task].status # "ABSENT"
  /\ e.gen <= tasks[e.task].gen
  /\ e.gen = tasks[e.task].gen => tasks[e.task].status \notin Waiting /\ tasks[e.task].due

\* The class comment of DurableOutboxDispatcher: the transition to ENQUEUED is
\* committed before an event becomes visible in Redis, however old the claim that
\* publishes it is and however often it is published.
VisibleImpliesEnqueued == \A m \in Entries : Enqueued(stream[m])

\* A dead letter is replayed into at most one task, and the archive and the new
\* task name each other.
ReplayLineage ==
  /\ \A i \in DOMAIN deadLetters : deadLetters[i].replay # None =>
       tasks[deadLetters[i].replay].origin = i
  /\ \A t \in TaskIds : tasks[t].origin # 0 =>
       tasks[t].origin \in DOMAIN deadLetters /\ deadLetters[tasks[t].origin].replay = t

\* No step reopens a finished task or takes a task back to an earlier generation:
\* a late retry, release, claim or resubmission of finished work changes nothing.
Reopens(t) ==
  \/ tasks[t].status \in {"DEAD_LETTER", "PURGED"} /\ tasks'[t].status # tasks[t].status
  \/ tasks[t].status = "DONE" /\ tasks'[t].status \notin {"DONE", "PURGED"}
  \/ tasks'[t].gen < tasks[t].gen
NeverReopened == [][\A t \in TaskIds : ~Reopens(t)]_vars

\* While a lease is live it ends only by a step of a worker that is running under
\* it: no other worker takes the task over, claim_ready, cleanup and resubmission
\* pass it by, and a worker whose lease was taken over cannot end its successor's.
LeaseTaken(t) ==
  /\ tasks[t].status = "RUNNING" /\ tasks[t].live
  /\ tasks'[t].status # "RUNNING" \/ tasks'[t].owner # tasks[t].owner
LiveLeaseRespected ==
  [][\A t \in TaskIds : LeaseTaken(t) =>
       \E w \in Workers :
         /\ Holds(w) /\ Task(w) = t /\ PassesFence(w)
         /\ worker'[w] # worker[w]]_vars

-----------------------------------------------------------------------------
(* Refinement                                                              *)

ClientView ==
  [ ABSENT |-> "none", PENDING |-> "waiting", RETRY_SCHEDULED |-> "waiting",
    ENQUEUED |-> "waiting", RUNNING |-> "running", DONE |-> "done",
    DEAD_LETTER |-> "dead", PURGED |-> "gone" ]
Phase(t) == ClientView[tasks[t].status]

Lifecycle == INSTANCE TaskLifecycle WITH
  phase <- [t \in TaskIds |-> Phase(t)],
  failures <- [t \in TaskIds |-> tasks[t].attempts],
  budget <- [t \in TaskIds |-> tasks[t].max],
  replayOf <- [t \in TaskIds |->
    IF tasks[t].origin = 0 THEN None ELSE deadLetters[tasks[t].origin].task]

\* The whole machinery keeps the promise TaskLifecycle makes to a client.
LifecycleSpec == Lifecycle!Spec
=============================================================================
