-------------------------- MODULE ControlPlaneProofs --------------------------
(***************************************************************************)
(* The safety properties of ControlPlane hold for any number of tasks,     *)
(* workers and dispatchers and any attempt limits, whether or not workers  *)
(* share a name: every step of a process is a transaction or an operation  *)
(* on the stream that ControlPlaneInvariant allows, and leaves behind only *)
(* what is still true when it is used.                                     *)
(***************************************************************************)
EXTENDS ControlPlaneInvariant

-----------------------------------------------------------------------------
(* Steps                                                                   *)

\* PostgreSQL and Redis are never changed by the same step.
Step ==
  \/ LedgerStep /\ UNCHANGED redis
  \/ RedisStep /\ UNCHANGED ledger

LEMMA StepPreserves ==
  ASSUME IInv, Step
  PROVE  /\ LedgerInv' /\ StreamInv'
         /\ StreamGrows /\ delivered <= delivered'
         /\ \A e \in Event : Visible(e) => Visible(e)'
         /\ \A t \in TaskIds : TaskMove(t)
<1>0. LedgerTypeOK /\ Accounts /\ Unborn /\ RedisTypeOK(Event)
  BY DEF IInv, LedgerInv, StreamInv
<1>1. CASE LedgerStep /\ UNCHANGED redis
  <2>1. /\ StreamGrows /\ delivered <= delivered'
        /\ \A e \in Event : Visible(e) => Visible(e)'
    BY <1>0, <1>1 DEF StreamGrows, Visible, Entries, redis, RedisTypeOK
  <2>2. \A t \in TaskIds : TaskMove(t)
    BY <1>0, <1>1, TaskMoves
  <2>3. LedgerInv'
    BY <1>1, <2>1, LedgerPreserved DEF IInv, StreamInv
  <2>4. StreamInv'
    BY <1>0, <1>1, <2>2, StreamStable DEF IInv
  <2> QED  BY <2>1, <2>2, <2>3, <2>4
<1>2. CASE RedisStep /\ UNCHANGED ledger
  <2>1. StreamGrows /\ delivered <= delivered'
    BY <1>0, <1>2, RedisMoves
  <2>2. \A e \in Event : Visible(e) => Visible(e)'
    BY <1>0, <2>1, VisibleStable
  <2>3. LedgerStep
    BY <1>2 DEF LedgerStep
  <2>4. LedgerInv'
    BY <2>2, <2>3, LedgerPreserved DEF IInv, StreamInv
  <2>5. StreamInv'
    BY <1>2, StreamPreserved DEF IInv
  <2>6. \A t \in TaskIds : TaskMove(t)
    BY <1>0, <2>3, TaskMoves
  <2> QED  BY <2>1, <2>2, <2>4, <2>5, <2>6
<1> QED  BY <1>1, <1>2 DEF Step

\* What a process remembers of an event stays true whatever the others do.
LEMMA MemoryStable ==
  ASSUME IInv, Step, NEW e \in Event, Enqueued(e)
  PROVE  /\ Enqueued(e)'
         /\ tasks'[e.task].max = tasks[e.task].max
         /\ Settled(e.task, e.gen) => Settled(e.task, e.gen)'
<1>1. LedgerTypeOK /\ TaskMove(e.task)
  BY StepPreserves, EventFields DEF IInv, LedgerInv
<1>2. Enqueued(e)'
  BY <1>1, EnqueuedStable
<1>3. Settled(e.task, e.gen) => Settled(e.task, e.gen)'
  BY <1>1, SettledStable
<1>4. tasks'[e.task].max = tasks[e.task].max
  BY <1>1 DEF TaskMove, Moves, SameCounts, Born, Retried, GivenUp, Enqueued
<1> QED  BY <1>2, <1>3, <1>4

-----------------------------------------------------------------------------
(* Dispatchers                                                             *)

\* What a step may do to a dispatcher.
DispatcherMove(d) ==
  /\ \A e \in dispatcher'[d].batch \cup dispatcher'[d].event :
       e \in dispatcher[d].batch \cup dispatcher[d].event \/ Enqueued(e)'
  /\ dispatcher'[d].pc = "marking" =>
       \/ dispatcher'[d] = dispatcher[d]
       \/ \A e \in dispatcher'[d].event : Visible(e)'

LEMMA DispatcherPreserved ==
  ASSUME IInv, Step, dispatcher' \in [Dispatchers -> DispatcherState],
         \A d \in Dispatchers : DispatcherMove(d)
  PROVE  DispatcherInv'
<1>1. ASSUME NEW d \in Dispatchers, NEW e \in dispatcher'[d].batch \cup dispatcher'[d].event
      PROVE  Enqueued(e)'
  <2>1. e \in Event
    BY <1>1 DEF DispatcherState
  <2>2. CASE e \in dispatcher[d].batch \cup dispatcher[d].event
    <3>1. Enqueued(e)
      BY <2>2 DEF IInv, DispatcherInv
    <3> QED  BY <2>1, <3>1, MemoryStable
  <2> QED  BY <1>1, <2>2 DEF DispatcherMove
<1>2. ASSUME NEW d \in Dispatchers, dispatcher'[d].pc = "marking",
             NEW e \in dispatcher'[d].event
      PROVE  Visible(e)'
  <2>1. e \in Event
    BY <1>2 DEF DispatcherState
  <2>2. CASE dispatcher'[d] = dispatcher[d]
    <3>1. Visible(e)
      BY <1>2, <2>2 DEF IInv, DispatcherInv
    <3> QED  BY <2>1, <3>1, StepPreserves
  <2> QED  BY <1>2, <2>2 DEF DispatcherMove
<1> QED  BY <1>1, <1>2 DEF DispatcherInv

\* A step that leaves the dispatchers alone.
LEMMA DispatcherUnchanged ==
  ASSUME IInv, Step, UNCHANGED dispatcher
  PROVE  DispatcherInv'
<1>1. dispatcher' \in [Dispatchers -> DispatcherState]
  BY DEF IInv, DispatcherInv
<1>2. \A d \in Dispatchers : DispatcherMove(d)
  BY DEF DispatcherMove
<1> QED  BY <1>1, <1>2, DispatcherPreserved

\* claim_ready commits ENQUEUED before any event of its batch is published.
LEMMA ClaimEnqueues ==
  ASSUME IInv, NEW d \in Dispatchers, NEW batch \in SUBSET Event, ClaimReady(d, batch),
         NEW e \in batch
  PROVE  Enqueued(e)'
<1>1. e \in Event /\ e.task \in TaskIds /\ e = [task |-> e.task, gen |-> e.gen]
  BY EventFields
<1>2. /\ tasks[e.task].due /\ tasks[e.task].gen = e.gen
      /\ tasks[e.task].status \in Waiting \cup {"ENQUEUED"}
  BY DEF ClaimReady, Claimable
<1>3. e = CurrentEvent(e.task)
  BY <1>1, <1>2 DEF CurrentEvent
<1>4. tasks'[e.task] =
        IF tasks[e.task].status \in Waiting
        THEN [tasks[e.task] EXCEPT !.status = "ENQUEUED"] ELSE tasks[e.task]
  BY <1>1, <1>3 DEF ClaimReady
<1>5. tasks[e.task] \in TaskRow /\ tasks[e.task].gen \in Nat
  BY <1>1 DEF IInv, LedgerInv, LedgerTypeOK, TaskRow, Generations
<1>6. /\ tasks'[e.task].status = "ENQUEUED" /\ tasks'[e.task].gen = e.gen
      /\ tasks'[e.task].due
  BY <1>2, <1>4, <1>5 DEF TaskRow, Waiting
<1> QED  BY <1>2, <1>5, <1>6 DEF Enqueued, Waiting

LEMMA DispatcherSteps ==
  ASSUME IInv, NEW d \in Dispatchers,
         DispatcherStep(d) \/ DispatcherFault(d) \/ DispatcherRestart(d)
  PROVE  Step /\ DispatcherInv' /\ UNCHANGED worker
<1>0. /\ dispatcher \in [Dispatchers -> DispatcherState]
      /\ \A e \in dispatcher[d].batch \cup dispatcher[d].event : e \in Event /\ Enqueued(e)
  BY DEF IInv, DispatcherInv, DispatcherState
<1>a. ASSUME dispatcher' \in [Dispatchers -> DispatcherState],
             \A c \in Dispatchers \ {d} : dispatcher'[c] = dispatcher[c],
             DispatcherMove(d), Step
      PROVE  DispatcherInv'
  <2>1. \A c \in Dispatchers : DispatcherMove(c)
    BY <1>a DEF DispatcherMove
  <2> QED  BY <1>a, <2>1, DispatcherPreserved
<1>1. CASE Claim(d)
  <2>1. PICK batch \in SUBSET Event :
          /\ ClaimReady(d, batch)
          /\ dispatcher' = [dispatcher EXCEPT ![d] =
               [pc |-> "publishing", batch |-> batch, event |-> {}]]
    BY <1>1 DEF Claim
  <2>2. Step /\ UNCHANGED worker
    BY <1>1, <2>1 DEF Claim, Step, LedgerStep
  <2>3. /\ dispatcher' \in [Dispatchers -> DispatcherState]
        /\ \A c \in Dispatchers \ {d} : dispatcher'[c] = dispatcher[c]
    BY <1>0, <2>1 DEF DispatcherState
  <2>4. DispatcherMove(d)
    BY <1>0, <2>1, ClaimEnqueues DEF DispatcherMove
  <2> QED  BY <1>a, <2>2, <2>3, <2>4
<1>2. CASE Publish(d)
  <2>1. PICK e \in dispatcher[d].batch : Attempt(d, e, "marking") /\ Xadd(e)
    BY <1>2 DEF Publish
  <2>2. Step /\ UNCHANGED worker
    BY <1>0, <1>2, <2>1 DEF Publish, Step, RedisStep
  <2>3. /\ dispatcher' \in [Dispatchers -> DispatcherState]
        /\ \A c \in Dispatchers \ {d} : dispatcher'[c] = dispatcher[c]
        /\ dispatcher'[d].batch = dispatcher[d].batch \ {e} /\ dispatcher'[d].event = {e}
    BY <1>0, <2>1 DEF Attempt, DispatcherState
  <2>4. Visible(e)'
    BY <2>1 DEF Xadd, Visible, Entries, IInv, StreamInv, RedisTypeOK
  <2>5. DispatcherMove(d)
    BY <2>3, <2>4 DEF DispatcherMove
  <2> QED  BY <1>a, <2>2, <2>3, <2>5
<1>3. CASE PublishError(d)
  <2>1. PICK e \in dispatcher[d].batch :
          Attempt(d, e, "recording") /\ (UNCHANGED redis \/ Xadd(e))
    BY <1>3 DEF PublishError
  <2>2. Step /\ UNCHANGED worker
    BY <1>0, <1>3, <2>1 DEF PublishError, Step, RedisStep
  <2>3. /\ dispatcher' \in [Dispatchers -> DispatcherState]
        /\ \A c \in Dispatchers \ {d} : dispatcher'[c] = dispatcher[c]
        /\ dispatcher'[d].batch = dispatcher[d].batch \ {e} /\ dispatcher'[d].event = {e}
        /\ dispatcher'[d].pc = "recording"
    BY <1>0, <2>1 DEF Attempt, DispatcherState
  <2>5. DispatcherMove(d)
    BY <2>3 DEF DispatcherMove
  <2> QED  BY <1>a, <2>2, <2>3, <2>5
<1>b. ASSUME NextEvent(d)
      PROVE  /\ dispatcher' \in [Dispatchers -> DispatcherState]
             /\ \A c \in Dispatchers \ {d} : dispatcher'[c] = dispatcher[c]
             /\ DispatcherMove(d)
  BY <1>0, <1>b DEF NextEvent, NoBatch, DispatcherState, DispatcherMove
<1>c. ASSUME NEW pc \in {"recording", "down", "polling"}, NEW state \in DispatcherState,
             state.pc = pc, state.batch \subseteq dispatcher[d].batch,
             state.event \subseteq dispatcher[d].event,
             dispatcher' = [dispatcher EXCEPT ![d] = state]
      PROVE  /\ dispatcher' \in [Dispatchers -> DispatcherState]
             /\ \A c \in Dispatchers \ {d} : dispatcher'[c] = dispatcher[c]
             /\ DispatcherMove(d)
  BY <1>0, <1>c DEF DispatcherMove
<1>d. [dispatcher[d] EXCEPT !.pc = "recording"] \in DispatcherState
  BY <1>0 DEF DispatcherState
<1>4. CASE Mark(d)
  <2>1. PICK e \in dispatcher[d].event :
          \/ MarkPublished(d, e) /\ NextEvent(d)
          \/ /\ dispatcher' = [dispatcher EXCEPT ![d].pc = "recording"]
             /\ UNCHANGED ledger
    BY <1>4 DEF Mark
  <2>2. Visible(e) /\ e \in Event
    BY <1>0, <1>4 DEF Mark, IInv, DispatcherInv
  <2>3. Step /\ UNCHANGED worker
    BY <1>4, <2>1, <2>2 DEF Mark, Step, LedgerStep
  <2>4. CASE NextEvent(d)
    BY <1>a, <1>b, <2>3, <2>4
  <2>5. CASE dispatcher' = [dispatcher EXCEPT ![d].pc = "recording"]
    BY <1>0, <1>a, <1>c, <1>d, <2>3, <2>5 DEF DispatcherState
  <2> QED  BY <2>1, <2>3, <2>4, <2>5
<1>5. CASE MarkError(d)
  <2>1. Step /\ UNCHANGED worker /\ dispatcher' = [dispatcher EXCEPT ![d].pc = "recording"]
    BY <1>5 DEF MarkError, Step, LedgerStep
  <2> QED  BY <1>0, <1>a, <1>c, <1>d, <2>1 DEF DispatcherState
<1>6. CASE Record(d)
  <2>1. PICK e \in dispatcher[d].event : RecordFailure(d, e) \/ UNCHANGED ledger
    BY <1>6 DEF Record
  <2>2. Step /\ UNCHANGED worker
    BY <1>0, <1>6, <2>1 DEF Record, Step, LedgerStep
  <2> QED  BY <1>6, <1>a, <1>b, <2>2 DEF Record
<1>7. CASE DispatcherCrash(d) \/ DispatcherRestart(d)
  <2>1. PICK pc \in {"down", "polling"} : dispatcher' = [dispatcher EXCEPT ![d] = NoBatch(pc)]
    BY <1>7 DEF DispatcherCrash, DispatcherRestart
  <2>2. Step /\ UNCHANGED worker
    BY <1>7 DEF DispatcherCrash, DispatcherRestart, Step, LedgerStep
  <2>3. /\ NoBatch(pc) \in DispatcherState /\ NoBatch(pc).pc = pc
        /\ NoBatch(pc).batch = {} /\ NoBatch(pc).event = {}
    BY DEF NoBatch, DispatcherState
  <2> QED  BY <1>a, <1>c, <2>1, <2>2, <2>3
<1> QED
  BY <1>1, <1>2, <1>3, <1>4, <1>5, <1>6, <1>7 DEF DispatcherStep, DispatcherFault

-----------------------------------------------------------------------------
(* Workers                                                                 *)

\* What a step may do to a worker: drop its delivery, take one, or go on with
\* the one it has.
WorkerMove(w) ==
  LET next == worker'[w]
  IN \/ next.pc \in {"idle", "reclaiming", "down"}
     \/ next.pc = "leasing" /\ next.msg \in 1..delivered'
     \/ /\ HasDelivery(w) /\ next.msg = worker[w].msg
        /\ next.pc \in HoldingPcs =>
             next.attempts = Gen(w) /\ next.max = tasks[Task(w)].max
        /\ next.pc \in {"acking", "ackingDone"} =>
             Settled(Task(w), Gen(w)) \/ Settled(Task(w), Gen(w))'

\* The event a worker is working on.
LEMMA DeliveryFacts ==
  ASSUME IInv, NEW w \in Workers, HasDelivery(w)
  PROVE  /\ worker[w].msg \in 1..delivered /\ worker[w].msg \in Entries
         /\ [task |-> Task(w), gen |-> Gen(w)] \in Event
         /\ Enqueued([task |-> Task(w), gen |-> Gen(w)])
         /\ Visible([task |-> Task(w), gen |-> Gen(w)])
<1>1. worker[w].msg \in 1..delivered /\ worker[w].msg \in Entries
  BY DEF IInv, WorkerInv, StreamInv, RedisTypeOK, Entries
<1>2. stream[worker[w].msg] \in Event
  BY <1>1 DEF IInv, StreamInv, RedisTypeOK, Entries
<1>3. stream[worker[w].msg] = [task |-> Task(w), gen |-> Gen(w)]
  BY <1>2, EventFields DEF Task, Gen
<1>4. Enqueued(stream[worker[w].msg])
  BY <1>1 DEF IInv, StreamInv, VisibleImpliesEnqueued
<1> QED  BY <1>1, <1>2, <1>3, <1>4 DEF Visible

LEMMA WorkerPreserved ==
  ASSUME IInv, Step, worker' \in [Workers -> WorkerState],
         \A w \in Workers : WorkerMove(w)
  PROVE  WorkerInv'
<1> SUFFICES ASSUME NEW w \in Workers
             PROVE  /\ HasDelivery(w)' => worker'[w].msg \in 1..delivered'
                    /\ Holds(w)' => /\ worker'[w].attempts = Gen(w)'
                                    /\ worker'[w].max = tasks'[Task(w)'].max
                    /\ worker'[w].pc \in {"acking", "ackingDone"} =>
                         Settled(Task(w), Gen(w))'
  BY DEF WorkerInv
<1>1. CASE worker'[w].pc \in {"idle", "reclaiming", "down"}
  BY <1>1 DEF HasDelivery, Holds, HoldingPcs
<1>2. CASE worker'[w].pc = "leasing" /\ worker'[w].msg \in 1..delivered'
  BY <1>2 DEF HasDelivery, Holds, HoldingPcs
<1>3. CASE /\ HasDelivery(w) /\ worker'[w].msg = worker[w].msg
           /\ worker'[w].pc \in HoldingPcs =>
                worker'[w].attempts = Gen(w) /\ worker'[w].max = tasks[Task(w)].max
           /\ worker'[w].pc \in {"acking", "ackingDone"} =>
                Settled(Task(w), Gen(w)) \/ Settled(Task(w), Gen(w))'
  <2>1. /\ worker[w].msg \in 1..delivered /\ worker[w].msg \in Entries
        /\ [task |-> Task(w), gen |-> Gen(w)] \in Event
        /\ Enqueued([task |-> Task(w), gen |-> Gen(w)])
    BY <1>3, DeliveryFacts
  <2>2. Task(w)' = Task(w) /\ Gen(w)' = Gen(w)
    BY <1>3, <2>1, StepPreserves DEF StreamGrows, Task, Gen
  <2>3. /\ tasks'[Task(w)].max = tasks[Task(w)].max
        /\ Settled(Task(w), Gen(w)) => Settled(Task(w), Gen(w))'
    <3>1. ASSUME NEW e \in Event, e = [task |-> Task(w), gen |-> Gen(w)]
          PROVE  /\ tasks'[e.task].max = tasks[e.task].max
                 /\ Settled(e.task, e.gen) => Settled(e.task, e.gen)'
      BY <2>1, <3>1, MemoryStable
    <3>2. PICK e \in Event : e = [task |-> Task(w), gen |-> Gen(w)]
      BY <2>1
    <3>3. e.task = Task(w) /\ e.gen = Gen(w)
      BY <3>2
    <3> QED  BY <2>2, <3>1, <3>2, <3>3 DEF Settled, Present
  <2>4. worker'[w].msg \in 1..delivered'
    <3>1. delivered \in Nat /\ delivered' \in Nat /\ delivered <= delivered'
      BY StepPreserves DEF IInv, StreamInv, RedisTypeOK
    <3> QED  BY <1>3, <2>1, <3>1
  <2> QED  BY <1>3, <2>2, <2>3, <2>4 DEF Holds
<1> QED  BY <1>1, <1>2, <1>3 DEF WorkerMove

\* A worker that nobody touches.
LEMMA WorkerStays ==
  ASSUME IInv, Step, NEW w \in Workers, worker'[w] = worker[w]
  PROVE  WorkerMove(w)
BY DEF WorkerMove, IInv, WorkerInv, HasDelivery, Holds

LEMMA WorkerUnchanged ==
  ASSUME IInv, Step, UNCHANGED worker
  PROVE  WorkerInv'
<1>1. worker' \in [Workers -> WorkerState] /\ \A w \in Workers : WorkerMove(w)
  BY WorkerStays DEF IInv, WorkerInv
<1> QED  BY <1>1, WorkerPreserved

LEMMA OneWorkerMoves ==
  ASSUME IInv, Step, NEW w \in Workers, WorkerMove(w), NEW state \in WorkerState,
         worker' = [worker EXCEPT ![w] = state]
  PROVE  WorkerInv'
<1>1. worker' \in [Workers -> WorkerState] /\ \A v \in Workers \ {w} : worker'[v] = worker[v]
  BY DEF IInv, WorkerInv
<1>2. \A v \in Workers : WorkerMove(v)
  BY <1>1, WorkerStays
<1> QED  BY <1>1, <1>2, WorkerPreserved

\* Going on to pc with the same delivery, or dropping it.
LEMMA GotoPreserves ==
  ASSUME IInv, Step, NEW w \in Workers, NEW pc \in WorkerPcs, Goto(w, pc),
         \/ pc \in {"idle", "reclaiming"}
         \/ /\ HasDelivery(w)
            /\ pc \in HoldingPcs => Holds(w)
            /\ pc \in {"acking", "ackingDone"} =>
                 Settled(Task(w), Gen(w)) \/ Settled(Task(w), Gen(w))'
  PROVE  WorkerInv'
<1>1. worker \in [Workers -> WorkerState] /\ worker[w] \in WorkerState
  BY DEF IInv, WorkerInv
<1> DEFINE state == [worker[w] EXCEPT !.pc = pc]
<1>2. /\ state \in WorkerState /\ state.pc = pc /\ state.msg = worker[w].msg
      /\ state.attempts = worker[w].attempts /\ state.max = worker[w].max
  BY <1>1 DEF WorkerState
<1>3. worker' = [worker EXCEPT ![w] = state] /\ worker'[w] = state
  BY <1>1 DEF Goto
<1>4. Holds(w) => worker[w].attempts = Gen(w) /\ worker[w].max = tasks[Task(w)].max
  BY DEF IInv, WorkerInv
<1> HIDE DEF state
<1>5. WorkerMove(w)
  BY <1>2, <1>3, <1>4 DEF WorkerMove, HoldingPcs
<1> QED  BY <1>2, <1>3, <1>5, OneWorkerMoves

LEMMA ForgetPreserves ==
  ASSUME IInv, Step, NEW w \in Workers, NEW pc \in {"idle", "down"}, Forget(w, pc)
  PROVE  WorkerInv'
<1>1. worker \in [Workers -> WorkerState]
  BY DEF IInv, WorkerInv
<1>2. NoDelivery(pc) \in WorkerState /\ NoDelivery(pc).pc = pc
  BY LedgerConstants DEF LedgerConstants, NoDelivery, WorkerState, WorkerPcs, Generations
<1>3. worker' = [worker EXCEPT ![w] = NoDelivery(pc)] /\ worker'[w] = NoDelivery(pc)
  BY <1>1 DEF Forget
<1>4. WorkerMove(w)
  BY <1>2, <1>3 DEF WorkerMove
<1> QED  BY <1>2, <1>3, <1>4, OneWorkerMoves

LEMMA DeliverPreserves ==
  ASSUME IInv, Step, NEW w \in Workers, NEW m \in 1..delivered', Deliver(w, m)
  PROVE  WorkerInv'
<1>1. worker \in [Workers -> WorkerState] /\ worker[w] \in WorkerState /\ m \in Nat
  BY StepPreserves DEF IInv, WorkerInv, StreamInv, RedisTypeOK
<1> DEFINE state == [worker[w] EXCEPT !.pc = "leasing", !.msg = m]
<1>2. state \in WorkerState /\ state.pc = "leasing" /\ state.msg = m
  BY <1>1 DEF WorkerState, WorkerPcs
<1>3. worker' = [worker EXCEPT ![w] = state] /\ worker'[w] = state
  BY <1>1 DEF Deliver
<1> HIDE DEF state
<1>4. WorkerMove(w)
  BY <1>2, <1>3 DEF WorkerMove
<1> QED  BY <1>2, <1>3, <1>4, OneWorkerMoves

\* A worker writes only to the task of a delivery, under its own name.
LEMMA HolderSteps ==
  ASSUME IInv, NEW w \in Workers, HasDelivery(w), UNCHANGED redis,
         \/ LeaseTask(Task(w), Gen(w), WorkerName[w])
         \/ CompleteTask(Task(w), Gen(w), WorkerName[w])
         \/ ReleaseForRecovery(Task(w), Gen(w), WorkerName[w])
         \/ ScheduleRetry(Task(w), Gen(w), WorkerName[w]) /\ Gen(w) + 1 < tasks[Task(w)].max
         \/ DeadLetterTask(Task(w), Gen(w), WorkerName[w])
  PROVE  Step
<1>1. PICK e \in Event : e = [task |-> Task(w), gen |-> Gen(w)]
  BY DeliveryFacts
<1>2. e.task = Task(w) /\ e.gen = Gen(w) /\ Visible(e)
  BY <1>1, DeliveryFacts
<1>3. WorkerName[w] \in Names
  BY ControlPlaneConstants DEF ControlPlaneConstants
<1>4. HolderStep(e, WorkerName[w])
  <2>1. e.task = Task(w) /\ e.gen = Gen(w)
    BY <1>2
  <2> HIDE DEF Task, Gen
  <2> QED  BY <2>1, Zenon DEF HolderStep
<1> QED  BY <1>2, <1>3, <1>4 DEF Step, LedgerStep

LEMMA WorkerSteps ==
  ASSUME IInv, NEW w \in Workers,
         WorkerStep(w) \/ Heartbeat(w) \/ WorkerFault(w) \/ Restart(w)
  PROVE  Step /\ WorkerInv' /\ UNCHANGED dispatcher
<1>0. worker \in [Workers -> WorkerState] /\ RedisTypeOK(Event)
  BY DEF IInv, WorkerInv, StreamInv
<1>1. CASE ReadNew(w)
  <2>1. Step /\ UNCHANGED dispatcher /\ Deliver(w, delivered + 1)
    BY <1>1 DEF ReadNew, Step, RedisStep
  <2>2. delivered + 1 \in 1..delivered'
    BY <1>0, <1>1 DEF ReadNew, ReadGroup, RedisTypeOK
  <2> QED  BY <2>1, <2>2, DeliverPreserves
<1>2. CASE ReadNothing(w)
  <2>1. Step /\ UNCHANGED dispatcher /\ Goto(w, "reclaiming")
    BY <1>2 DEF ReadNothing, Step, LedgerStep
  <2> QED  BY <2>1, GotoPreserves DEF WorkerPcs
<1>3. CASE Reclaim(w)
  <2>1. UNCHANGED ledger /\ UNCHANGED dispatcher
    BY <1>3 DEF Reclaim
  <2>2. ASSUME NEW m \in idle, AutoClaim(m), Deliver(w, m)
        PROVE  Step /\ WorkerInv'
    <3>1. Step
      BY <2>1, <2>2 DEF Step, RedisStep
    <3>2. m \in 1..delivered'
      BY <1>0, <2>2 DEF AutoClaim, RedisTypeOK
    <3> QED  BY <2>2, <3>1, <3>2, DeliverPreserves
  <2>3. CASE Goto(w, "idle") /\ UNCHANGED redis
    <3>1. Step
      BY <2>1, <2>3 DEF Step, LedgerStep
    <3> QED  BY <2>1, <2>3, <3>1, GotoPreserves DEF WorkerPcs
  <2> QED  BY <1>3, <2>1, <2>2, <2>3 DEF Reclaim
<1>4. CASE Lease(w)
  <2>1. /\ HasDelivery(w) /\ UNCHANGED redis /\ UNCHANGED dispatcher
        /\ LeaseTask(Task(w), Gen(w), WorkerName[w])
    BY <1>4 DEF Lease, TakeLease, HasDelivery
  <2>2. Step
    BY <2>1, HolderSteps
  <2>3. /\ Task(w) \in TaskIds /\ tasks[Task(w)].attempts = Gen(w)
        /\ tasks[Task(w)] \in TaskRow
    <3>1. Task(w) \in TaskIds
      BY <2>1, DeliveryFacts DEF Event
    <3>2. tasks[Task(w)].gen = Gen(w) /\ tasks[Task(w)].status # "DEAD_LETTER"
      BY <2>1 DEF LeaseTask, Leasable
    <3>3. tasks[Task(w)].gen \in Nat /\ tasks[Task(w)] \in TaskRow
      BY <3>1 DEF IInv, LedgerInv, LedgerTypeOK, TaskRow, Generations
    <3> QED  BY <3>1, <3>2, <3>3 DEF IInv, LedgerInv, Accounts
  <2> DEFINE state == [worker[w] EXCEPT !.pc = "executing",
                         !.attempts = tasks[Task(w)].attempts, !.max = tasks[Task(w)].max]
  <2>4. /\ state.pc = "executing" /\ state.msg = worker[w].msg
        /\ state.attempts = tasks[Task(w)].attempts /\ state.max = tasks[Task(w)].max
    BY <1>0 DEF WorkerState
  <2>5. state \in WorkerState
    <3>1. tasks[Task(w)].attempts \in Generations /\ tasks[Task(w)].max \in 0..MaxAttempts
      BY <2>3 DEF TaskRow
    <3> QED  BY <1>0, <3>1 DEF WorkerState, WorkerPcs, HoldingPcs
  <2>6. worker' = [worker EXCEPT ![w] = state] /\ worker'[w] = state
    BY <1>0, <1>4 DEF Lease
  <2> HIDE DEF state
  <2>7. WorkerMove(w)
    BY <2>1, <2>3, <2>4, <2>6 DEF WorkerMove
  <2> QED  BY <2>1, <2>2, <2>5, <2>6, <2>7, OneWorkerMoves
<1>5. CASE LeaseRefused(w)
  <2>1. Step /\ UNCHANGED dispatcher /\ Goto(w, "checking") /\ HasDelivery(w)
    BY <1>5 DEF LeaseRefused, Step, LedgerStep, HasDelivery
  <2> QED  BY <2>1, GotoPreserves DEF WorkerPcs, HoldingPcs
<1>6. CASE LeaseError(w)
  <2>1. HasDelivery(w) /\ UNCHANGED redis /\ UNCHANGED dispatcher /\ Forget(w, "idle")
    BY <1>6 DEF LeaseError, HasDelivery
  <2>2. Step
    BY <1>6, <2>1, HolderSteps DEF LeaseError, TakeLease, Step, LedgerStep
  <2> QED  BY <2>1, <2>2, ForgetPreserves
<1>7. CASE CheckSettled(w)
  <2>1. Step /\ UNCHANGED dispatcher /\ HasDelivery(w)
    BY <1>7 DEF CheckSettled, Step, LedgerStep, HasDelivery
  <2>2. CASE Settled(Task(w), Gen(w)) /\ Goto(w, "acking")
    BY <2>1, <2>2, GotoPreserves DEF WorkerPcs, HoldingPcs
  <2>3. CASE Forget(w, "idle")
    BY <2>1, <2>3, ForgetPreserves
  <2> QED  BY <1>7, <2>1, <2>2, <2>3 DEF CheckSettled
<1>8. CASE Heartbeat(w)
  <2>1. worker[w].msg \in Nat
    BY <1>0 DEF WorkerState
  <2>2. Step /\ UNCHANGED dispatcher /\ UNCHANGED worker
    BY <1>8, <2>1 DEF Heartbeat, Step, RedisStep
  <2> QED  BY <2>2, WorkerUnchanged
<1>9. CASE LoseLease(w) \/ TransitionError(w) \/ AckError(w)
  <2>1. Step /\ UNCHANGED dispatcher /\ Forget(w, "idle")
    BY <1>9 DEF LoseLease, TransitionError, AckError, Step, LedgerStep
  <2> QED  BY <2>1, ForgetPreserves
<1>10. CASE Crash(w) \/ Restart(w)
  <2>1. Step /\ UNCHANGED dispatcher /\ (Forget(w, "down") \/ Forget(w, "idle"))
    BY <1>10 DEF Crash, Restart, Step, LedgerStep
  <2> QED  BY <2>1, ForgetPreserves
<1>11. CASE OperationSucceeds(w) \/ OperationFails(w) \/ Cancel(w)
  <2>1. Step /\ UNCHANGED dispatcher /\ HasDelivery(w) /\ Holds(w)
    BY <1>11 DEF OperationSucceeds, OperationFails, Cancel, Step, LedgerStep, HasDelivery, Holds,
                 HoldingPcs
  <2>2. PICK pc \in {"completing", "failing", "failingForGood", "releasing", "releasingAgain"} :
          Goto(w, pc)
    BY <1>11, Zenon DEF OperationSucceeds, OperationFails, Cancel
  <2> QED  BY <2>1, <2>2, GotoPreserves DEF WorkerPcs, HoldingPcs
<1>12. CASE Complete(w)
  <2>1. HasDelivery(w) /\ Holds(w) /\ UNCHANGED redis /\ UNCHANGED dispatcher
    BY <1>12 DEF Complete, HasDelivery, Holds, HoldingPcs
  <2>2. CASE CompleteTask(Task(w), Gen(w), WorkerName[w]) /\ Goto(w, "ackingDone")
    <3>1. Step
      BY <2>1, <2>2, HolderSteps
    <3>2. Settled(Task(w), Gen(w))'
      <4>1. Task(w) \in TaskIds /\ tasks \in [TaskIds -> TaskRow]
        BY <2>1, DeliveryFacts DEF Event, IInv, LedgerInv, LedgerTypeOK
      <4>2. tasks'[Task(w)].status = "DONE"
        BY <2>2, <4>1 DEF CompleteTask, Unleased, TaskRow
      <4>3. Task(w)' = Task(w)
        BY <1>0, <2>1, <2>2 DEF Goto, Task, redis, WorkerState
      <4> QED  BY <4>2, <4>3 DEF Settled, Terminal
    <3> QED  BY <2>1, <2>2, <3>1, <3>2, GotoPreserves DEF WorkerPcs, HoldingPcs
  <2>3. CASE Forget(w, "idle") /\ UNCHANGED ledger
    <3>1. Step
      BY <2>1, <2>3 DEF Step, LedgerStep
    <3> QED  BY <2>1, <2>3, <3>1, ForgetPreserves
  <2> QED  BY <1>12, <2>1, <2>2, <2>3 DEF Complete
<1>13. CASE CompleteError(w)
  <2>1. HasDelivery(w) /\ Holds(w) /\ UNCHANGED ledger /\ UNCHANGED dispatcher /\ Goto(w, "failing")
    BY <1>13 DEF CompleteError, HasDelivery, Holds, HoldingPcs
  <2>2. Step
    <3>1. CASE UNCHANGED redis
      BY <2>1, <3>1 DEF Step, RedisStep
    <3>2. CASE worker[w].pc = "ackingDone" /\ Xack(worker[w].msg)
      <4>1. Settled(Task(w), Gen(w)) /\ worker[w].msg \in Entries
        BY <2>1, <3>2, DeliveryFacts DEF IInv, WorkerInv
      <4> QED  BY <2>1, <3>2, <4>1 DEF Step, RedisStep, Task, Gen
    <3> QED  BY <1>13, <3>1, <3>2 DEF CompleteError
  <2> QED  BY <2>1, <2>2, GotoPreserves DEF WorkerPcs, HoldingPcs
<1>14. CASE TransitionFailure(w)
  <2>1. HasDelivery(w) /\ Holds(w) /\ UNCHANGED redis /\ UNCHANGED dispatcher
    BY <1>14 DEF TransitionFailure, HasDelivery, Holds, HoldingPcs
  <2>2. Task(w) \in TaskIds /\ Gen(w) \in Nat /\ tasks \in [TaskIds -> TaskRow]
    <3>1. [task |-> Task(w), gen |-> Gen(w)] \in Event
      BY <2>1, DeliveryFacts
    <3>2. Task(w) \in TaskIds /\ Gen(w) \in Nat
      BY <3>1 DEF Event, Generations
    <3> QED  BY <3>2 DEF IInv, LedgerInv, LedgerTypeOK
  <2>3. CASE DeadLetterTask(Task(w), Gen(w), WorkerName[w]) /\ Goto(w, "acking")
    <3>1. Step
      BY <2>1, <2>3, HolderSteps
    <3>2. tasks'[Task(w)].status = "DEAD_LETTER" /\ Task(w)' = Task(w)
      BY <1>0, <2>1, <2>2, <2>3
         DEF DeadLetterTask, Unleased, TaskRow, Goto, Task, redis, WorkerState
    <3>3. Settled(Task(w), Gen(w))'
      BY <3>2 DEF Settled, Terminal
    <3> QED  BY <2>1, <2>3, <3>1, <3>3, GotoPreserves DEF WorkerPcs, HoldingPcs
  <2>4. CASE ScheduleRetry(Task(w), Gen(w), WorkerName[w]) /\ ~Exhausted(w) /\ Goto(w, "acking")
    <3>1. Gen(w) + 1 < tasks[Task(w)].max
      <4>1. worker[w].attempts = Gen(w) /\ worker[w].max = tasks[Task(w)].max
        BY <2>1 DEF IInv, WorkerInv
      <4>2. tasks[Task(w)].max \in Nat
        BY <2>2, LedgerConstants DEF LedgerConstants, TaskRow
      <4> QED  BY <2>2, <2>4, <4>1, <4>2 DEF Exhausted
    <3>2. Step
      BY <2>1, <2>4, <3>1, HolderSteps
    <3>3. tasks[Task(w)].gen = Gen(w) /\ tasks'[Task(w)].gen = Gen(w) + 1
      BY <2>2, <2>4 DEF ScheduleRetry, Fenced, Unleased, TaskRow
    <3>4. Task(w)' = Task(w) /\ Gen(w)' = Gen(w)
      BY <1>0, <2>1, <2>4 DEF Goto, Task, Gen, redis, WorkerState
    <3>5. Settled(Task(w), Gen(w))'
      BY <2>2, <3>3, <3>4 DEF Settled
    <3> QED  BY <2>1, <2>4, <3>2, <3>5, GotoPreserves DEF WorkerPcs, HoldingPcs
  <2>5. CASE Forget(w, "idle") /\ UNCHANGED ledger
    <3>1. Step
      BY <2>1, <2>5 DEF Step, LedgerStep
    <3> QED  BY <2>1, <2>5, <3>1, ForgetPreserves
  <2> QED  BY <1>14, <2>1, <2>3, <2>4, <2>5 DEF TransitionFailure
<1>15. CASE Ack(w)
  <2>1. Settled(Task(w), Gen(w)) /\ worker[w].msg \in Entries
    BY <1>15, DeliveryFacts DEF Ack, HasDelivery, IInv, WorkerInv
  <2>2. Step /\ UNCHANGED dispatcher /\ Forget(w, "idle")
    BY <1>15, <2>1 DEF Ack, Step, RedisStep, Task, Gen
  <2> QED  BY <2>2, ForgetPreserves
<1>16. ASSUME HasDelivery(w), Released(w), UNCHANGED redis
       PROVE  Step
  BY <1>16, HolderSteps DEF Released, Step, LedgerStep
<1>17. CASE Release(w)
  <2>1. Step /\ UNCHANGED dispatcher
    BY <1>16, <1>17 DEF Release, HasDelivery
  <2>2. CASE worker[w].pc = "releasing" /\ Goto(w, "releasingAgain")
    BY <2>1, <2>2, GotoPreserves DEF WorkerPcs, HoldingPcs, Holds, HasDelivery
  <2>3. CASE Forget(w, "down")
    BY <2>1, <2>3, ForgetPreserves
  <2> QED  BY <1>17, <2>1, <2>2, <2>3 DEF Release
<1>18. CASE ReleaseError(w)
  <2>1. HasDelivery(w) /\ Holds(w) /\ UNCHANGED redis /\ UNCHANGED dispatcher /\ Goto(w, "failing")
    BY <1>18 DEF ReleaseError, HasDelivery, Holds, HoldingPcs
  <2>2. Step
    BY <1>16, <1>18, <2>1 DEF ReleaseError, Step, LedgerStep
  <2> QED  BY <2>1, <2>2, GotoPreserves DEF WorkerPcs, HoldingPcs
<1> QED
  BY <1>1, <1>2, <1>3, <1>4, <1>5, <1>6, <1>7, <1>8, <1>9, <1>10, <1>11, <1>12, <1>13, <1>14,
     <1>15, <1>17, <1>18 DEF WorkerStep, WorkerFault

-----------------------------------------------------------------------------
(* The theorems                                                            *)

LEMMA EnvironmentSteps ==
  ASSUME IInv,
         \/ Submit \/ Replay \/ Cleanup
         \/ \E t \in TaskIds : Backoff(t) \/ LeaseTimeout(t)
         \/ \E e \in Event : ClaimTimeout(e)
         \/ \E m \in pel : GroupIdles(m)
  PROVE  Step /\ UNCHANGED <<worker, dispatcher>>
<1>1. CASE Submit
  BY <1>1 DEF Submit, Step, LedgerStep
<1>2. CASE Replay
  BY <1>2 DEF Replay, Step, LedgerStep
<1>3. CASE Cleanup
  BY <1>3 DEF Cleanup, Step, LedgerStep
<1>4. CASE \E t \in TaskIds : Backoff(t) \/ LeaseTimeout(t)
  BY <1>4 DEF Backoff, LeaseTimeout, Step, LedgerStep
<1>5. CASE \E e \in Event : ClaimTimeout(e)
  BY <1>5 DEF ClaimTimeout, Step, LedgerStep
<1>6. CASE \E m \in pel : GroupIdles(m)
  BY <1>6 DEF GroupIdles, Step, RedisStep
<1> QED  BY <1>1, <1>2, <1>3, <1>4, <1>5, <1>6

LEMMA InitIInv == Init => IInv
<1> SUFFICES ASSUME Init
             PROVE  IInv
  OBVIOUS
<1> USE DEF Init, LedgerInit, RedisInit
<1>1. /\ \A t \in TaskIds : tasks[t] = NewTask("ABSENT", 1, None, 0)
      /\ \A e \in Event : outbox[e] = NoRow
      /\ DOMAIN deadLetters = {} /\ Entries = {}
  BY DEF Entries
<1>2. LedgerTypeOK
  <2>1. NewTask("ABSENT", 1, None, 0) \in TaskRow
    BY LedgerConstants DEF LedgerConstants, NewTask, TaskRow, Statuses, Generations
  <2>2. NoRow \in OutboxRow
    BY DEF NoRow, OutboxRow
  <2> QED  BY <2>1, <2>2 DEF LedgerTypeOK
<1>3. Accounts /\ Unborn /\ Driven /\ DeadLetterArchive /\ ReplayLineage
  BY <1>1 DEF Accounts, Unborn, Driven, DeadLetterArchive, ReplayLineage, NewTask, NoRow, Waiting
<1>4. StreamInv
  BY <1>1 DEF StreamInv, RedisTypeOK, VisibleImpliesEnqueued, AckedIsSettled
<1>5. WorkerInv
  <2>1. NoDelivery("idle") \in WorkerState /\ NoDelivery("idle").pc = "idle"
    BY LedgerConstants DEF LedgerConstants, NoDelivery, WorkerState, WorkerPcs, Generations
  <2>2. worker \in [Workers -> WorkerState] /\ \A w \in Workers : worker[w].pc = "idle"
    BY <2>1
  <2> QED  BY <2>2 DEF WorkerInv, HasDelivery, Holds, HoldingPcs
<1>6. DispatcherInv
  BY DEF DispatcherInv, NoBatch, DispatcherState
<1> QED  BY <1>2, <1>3, <1>4, <1>5, <1>6 DEF IInv, LedgerInv

LEMMA NextStep ==
  ASSUME IInv, [Next]_vars
  PROVE  Step /\ WorkerInv' /\ DispatcherInv'
<1>1. CASE UNCHANGED vars
  <2>1. Step /\ UNCHANGED <<worker, dispatcher>>
    BY <1>1 DEF vars, Step, LedgerStep, ledger, redis
  <2> QED  BY <2>1, WorkerUnchanged, DispatcherUnchanged
<1>2. ASSUME NEW d \in Dispatchers, DispatcherStep(d) \/ DispatcherFault(d) \/ DispatcherRestart(d)
      PROVE  Step /\ WorkerInv' /\ DispatcherInv'
  BY <1>2, DispatcherSteps, WorkerUnchanged
<1>3. ASSUME NEW w \in Workers, WorkerStep(w) \/ Heartbeat(w) \/ WorkerFault(w) \/ Restart(w)
      PROVE  Step /\ WorkerInv' /\ DispatcherInv'
  BY <1>3, WorkerSteps, DispatcherUnchanged
<1>4. CASE \/ Submit \/ Replay \/ Cleanup
           \/ \E t \in TaskIds : Backoff(t) \/ LeaseTimeout(t)
           \/ \E e \in Event : ClaimTimeout(e)
           \/ \E m \in pel : GroupIdles(m)
  BY <1>4, EnvironmentSteps, WorkerUnchanged, DispatcherUnchanged
<1> QED  BY <1>1, <1>2, <1>3, <1>4 DEF Next

LEMMA NextIInv == IInv /\ [Next]_vars => IInv'
BY NextStep, StepPreserves DEF IInv

\* The invariant of dispatchers and workers holds in every reachable state,
\* whatever crashes, errors, timeouts and interleavings the run has.
THEOREM Invariance == Spec => []IInv
<1>1. Init => IInv
  BY InitIInv
<1>2. IInv /\ [Next]_vars => IInv'
  BY NextIInv
<1> QED  BY <1>1, <1>2, PTL DEF Spec

\* Every table, the stream and every process memory stay well-formed.
THEOREM TypeCorrect == Spec => []TypeOK
<1>1. IInv => TypeOK
  BY DEF IInv, LedgerInv, StreamInv, WorkerInv, DispatcherInv, TypeOK
<1> QED  BY <1>1, Invariance, PTL

LEMMA IInvNoLostTask == IInv => NoLostTask
<1> SUFFICES ASSUME IInv, NEW t \in TaskIds
             PROVE  LET unpublished == outbox[CurrentEvent(t)].state = "pending"
                        delivery ==
                          \E m \in Entries : stream[m] = CurrentEvent(t) /\ InFlight(m)
                    IN /\ tasks[t].status \in Waiting => unpublished
                       /\ tasks[t].status = "ENQUEUED" => unpublished \/ delivery
                       /\ tasks[t].status = "RUNNING" => delivery
  BY DEF NoLostTask
<1>1. ASSUME Visible(CurrentEvent(t)), tasks[t].status \in {"ENQUEUED", "RUNNING"}
      PROVE  \E m \in Entries : stream[m] = CurrentEvent(t) /\ InFlight(m)
  <2>1. PICK m \in Entries : stream[m] = CurrentEvent(t)
    BY <1>1 DEF Visible
  <2>2. ~Settled(stream[m].task, stream[m].gen)
    BY <1>1, <2>1 DEF Settled, Present, Terminal, CurrentEvent
  <2>3. InFlight(m)
    BY <2>1, <2>2 DEF IInv, StreamInv, AckedIsSettled
  <2> QED  BY <2>1, <2>3
<1> QED  BY <1>1 DEF IInv, LedgerInv, Driven

\* A task that is not finished is never without a pending outbox row or an
\* unacknowledged delivery for its current generation.
THEOREM TasksAreNotLost == Spec => []NoLostTask
BY Invariance, IInvNoLostTask, PTL

\* What a worker acknowledges nobody needs again.
THEOREM AcksAreFinal == Spec => []AckedIsSettled
<1>1. IInv => AckedIsSettled
  BY DEF IInv, StreamInv
<1> QED  BY <1>1, Invariance, PTL

\* What a dispatcher publishes was enqueued before, and durably.
THEOREM EnqueuedBeforeVisible == Spec => []VisibleImpliesEnqueued
<1>1. IInv => VisibleImpliesEnqueued
  BY DEF IInv, StreamInv
<1> QED  BY <1>1, Invariance, PTL

LEMMA IInvAttempts == IInv => AttemptAccounting
<1> SUFFICES ASSUME IInv
             PROVE  AttemptAccounting
  OBVIOUS
<1>1. ASSUME NEW w \in Workers, Holds(w), PassesFence(w)
      PROVE  /\ worker[w].attempts = tasks[Task(w)].attempts
             /\ worker[w].max = tasks[Task(w)].max
  <2>1. HasDelivery(w)
    BY <1>1 DEF Holds, HoldingPcs, HasDelivery
  <2>2. Task(w) \in TaskIds
    <3>1. [task |-> Task(w), gen |-> Gen(w)] \in Event
      BY <2>1, DeliveryFacts
    <3> QED  BY <3>1 DEF Event
  <2>3. tasks[Task(w)].gen = Gen(w) /\ tasks[Task(w)].status = "RUNNING"
    BY <1>1 DEF PassesFence, Fenced
  <2>4. tasks[Task(w)].gen \in Nat
    BY <2>2 DEF IInv, LedgerInv, LedgerTypeOK, TaskRow, Generations
  <2>5. tasks[Task(w)].attempts = Gen(w)
    BY <2>2, <2>3, <2>4 DEF IInv, LedgerInv, Accounts
  <2> QED  BY <1>1, <2>5 DEF IInv, WorkerInv
<1> QED  BY <1>1 DEF IInv, LedgerInv, Accounts, AttemptAccounting

\* Failed attempts are counted once and never exceed max_attempts, and a holder
\* that passes the fence decides on the count the row has.
THEOREM AttemptsAreCounted == Spec => []AttemptAccounting
BY Invariance, IInvAttempts, PTL

\* Every dead-lettered task has exactly one archive row, and no other task has one.
THEOREM ArchiveIsExact == Spec => []DeadLetterArchive
<1>1. IInv => DeadLetterArchive
  BY DEF IInv, LedgerInv
<1> QED  BY <1>1, Invariance, PTL

\* No dead letter is replayed into two tasks.
THEOREM LineageIsOneToOne == Spec => []ReplayLineage
<1>1. IInv => ReplayLineage
  BY DEF IInv, LedgerInv
<1> QED  BY <1>1, Invariance, PTL

LEMMA NeverReopens ==
  ASSUME IInv, [Next]_vars, NEW t \in TaskIds
  PROVE  ~Reopens(t)
<1>1. TaskMove(t)
  BY NextStep, StepPreserves
<1>2. tasks[t].gen \in Nat /\ (tasks[t].status = "ABSENT" => tasks[t].gen = 0)
  BY DEF IInv, LedgerInv, LedgerTypeOK, TaskRow, Generations, Unborn
<1>3. CASE Moves(t)
  BY <1>2, <1>3 DEF Moves, SameCounts, StatusStep, Waiting, Reopens
<1>4. CASE Born(t)
  BY <1>2, <1>4 DEF Born, Reopens
<1>5. CASE Retried(t)
  BY <1>2, <1>5 DEF Retried, Reopens
<1>6. CASE GivenUp(t)
  BY <1>2, <1>6 DEF GivenUp, Reopens
<1> QED  BY <1>1, <1>3, <1>4, <1>5, <1>6 DEF TaskMove

\* A finished task stays finished, and no task goes back to an earlier generation.
THEOREM FinishedStaysFinished == Spec => NeverReopened
<1>1. IInv /\ [Next]_vars => [\A t \in TaskIds : ~Reopens(t)]_vars
  BY NeverReopens
<1> QED  BY <1>1, Invariance, PTL DEF Spec, NeverReopened

\* The transactions that can end or take over a live lease.
LEMMA LeaseEnders ==
  ASSUME IInv, NEW t \in TaskIds, LeaseTaken(t), [Next]_vars
  PROVE  \E w \in Workers :
           /\ Complete(w) \/ TransitionFailure(w) \/ Release(w) \/ ReleaseError(w)
           /\ tasks' # tasks
<1>1. tasks[t].status = "RUNNING" /\ tasks[t].live /\ tasks' # tasks
  BY DEF LeaseTaken
<1>2. ASSUME NEW w \in Workers, TakeLease(w)
      PROVE  FALSE
  <2>1. CASE Task(w) = t
    BY <1>1, <1>2, <2>1 DEF TakeLease, LeaseTask, Leasable
  <2>2. CASE Task(w) # t
    BY <1>2, <2>2 DEF TakeLease, LeaseTask, LeaseTaken
  <2> QED  BY <2>1, <2>2
<1>3. ASSUME NEW w \in Workers, WorkerStep(w) \/ Heartbeat(w) \/ WorkerFault(w) \/ Restart(w)
      PROVE  Complete(w) \/ TransitionFailure(w) \/ Release(w) \/ ReleaseError(w)
  <2>1. Lease(w) \/ LeaseError(w) => TakeLease(w) \/ tasks' = tasks
    BY DEF Lease, LeaseError, ledger
  <2> QED
    BY <1>1, <1>2, <1>3, <2>1
       DEF WorkerStep, WorkerFault, ReadNew, ReadNothing, Reclaim, LeaseRefused, CheckSettled,
           LoseLease, OperationSucceeds, OperationFails, Ack, Heartbeat, CompleteError,
           TransitionError, AckError, Cancel, Crash, Restart, ledger
<1>4. ASSUME NEW d \in Dispatchers, DispatcherStep(d) \/ DispatcherFault(d) \/ DispatcherRestart(d)
      PROVE  FALSE
  <2>1. ASSUME NEW batch, ClaimReady(d, batch)
        PROVE  FALSE
    BY <1>1, <2>1 DEF ClaimReady, LeaseTaken, Waiting
  <2> QED
    BY <1>1, <1>4, <2>1
       DEF DispatcherStep, DispatcherFault, DispatcherRestart, Claim, Publish, PublishError, Mark,
           MarkError, Record, DispatcherCrash, MarkPublished, RecordFailure, ledger
<1>5. ASSUME \/ Submit \/ Replay \/ Cleanup
             \/ \E u \in TaskIds : Backoff(u) \/ LeaseTimeout(u)
             \/ \E e \in Event : ClaimTimeout(e)
             \/ \E m \in pel : GroupIdles(m)
      PROVE  FALSE
  <2>0. tasks \in [TaskIds -> TaskRow]
    BY DEF IInv, LedgerInv, LedgerTypeOK
  <2>1. ASSUME Submit
        PROVE  FALSE
    BY <1>1, <2>0, <2>1 DEF Submit, InsertTask, ResubmitTask, LeaseTaken
  <2>2. ASSUME Replay
        PROVE  FALSE
    <3>0. PICK batch \in SUBSET Replayable, m \in AttemptLimits : ReplayDeadLetters(batch, m)
      BY <2>2 DEF Replay
    <3>1. PICK id \in Injection(batch, {u \in TaskIds : tasks[u].status = "ABSENT"}) :
            tasks' = [u \in TaskIds |->
              IF \E i \in batch : id[i] = u
              THEN NewTask("PENDING", m, None, CHOOSE i \in batch : id[i] = u)
              ELSE tasks[u]]
      BY <3>0 DEF ReplayDeadLetters
    <3>2. ~\E i \in batch : id[i] = t
      BY <1>1, <3>1 DEF Injection
    <3> QED  BY <3>1, <3>2 DEF LeaseTaken
  <2>3. ASSUME Cleanup
        PROVE  FALSE
    BY <1>1, <2>3 DEF Cleanup, PurgeDone, LeaseTaken
  <2>4. ASSUME NEW u \in TaskIds, Backoff(u) \/ LeaseTimeout(u)
        PROVE  FALSE
    <3>1. CASE Backoff(u)
      BY <2>0, <3>1 DEF Backoff, BackoffElapses, LeaseTaken, TaskRow
    <3>2. CASE LeaseTimeout(u)
      BY <2>0, <3>2 DEF LeaseTimeout, LeaseExpires, LeaseTaken, TaskRow
    <3> QED  BY <2>4, <3>1, <3>2
  <2>5. ASSUME NEW e \in Event, ClaimTimeout(e)
        PROVE  FALSE
    BY <1>1, <2>5 DEF ClaimTimeout, ClaimExpires
  <2>6. ASSUME NEW m \in pel, GroupIdles(m)
        PROVE  FALSE
    BY <1>1, <2>6 DEF GroupIdles, ledger
  <2> QED  BY <1>5, <2>1, <2>2, <2>3, <2>4, <2>5, <2>6
<1>6. ~UNCHANGED vars
  BY <1>1 DEF vars
<1> QED  BY <1>1, <1>3, <1>4, <1>5, <1>6 DEF Next

LEMMA LeaseEndedByHolder ==
  ASSUME IInv, NEW t \in TaskIds, LeaseTaken(t), NEW w \in Workers, tasks' # tasks,
         Complete(w) \/ TransitionFailure(w) \/ Release(w) \/ ReleaseError(w)
  PROVE  Holds(w) /\ Task(w) = t /\ PassesFence(w) /\ worker'[w] # worker[w]
<1>1. Holds(w)
  BY DEF Holds, HoldingPcs, Complete, TransitionFailure, Release, ReleaseError
<1>2. /\ Fenced(Task(w), Gen(w), WorkerName[w])
      /\ \A u \in TaskIds : u # Task(w) => tasks'[u] = tasks[u]
  <2>1. \/ CompleteTask(Task(w), Gen(w), WorkerName[w])
        \/ ReleaseForRecovery(Task(w), Gen(w), WorkerName[w])
        \/ ScheduleRetry(Task(w), Gen(w), WorkerName[w])
        \/ DeadLetterTask(Task(w), Gen(w), WorkerName[w])
    BY Zenon DEF Complete, TransitionFailure, Release, ReleaseError, Released, ledger
  <2>2. /\ Fenced(Task(w), Gen(w), WorkerName[w])
        /\ \E row : tasks' = [tasks EXCEPT ![Task(w)] = row]
    BY <2>1 DEF CompleteTask, ReleaseForRecovery, ScheduleRetry, DeadLetterTask
  <2>3. tasks \in [TaskIds -> TaskRow]
    BY DEF IInv, LedgerInv, LedgerTypeOK
  <2> QED  BY <2>2, <2>3
<1>3. Task(w) = t
  BY <1>2 DEF LeaseTaken
<1>4. worker'[w] # worker[w]
  <2>1. worker \in [Workers -> WorkerState]
    BY DEF IInv, WorkerInv
  <2>2. \/ Goto(w, "ackingDone") /\ worker[w].pc = "completing"
        \/ Goto(w, "acking")
        \/ Goto(w, "releasingAgain") /\ worker[w].pc = "releasing"
        \/ Goto(w, "failing") /\ worker[w].pc = "releasing"
        \/ Forget(w, "idle")
        \/ Forget(w, "down")
    BY Zenon DEF Complete, TransitionFailure, Release, ReleaseError
  <2> QED  BY <1>1, <2>1, <2>2 DEF Goto, Forget, NoDelivery, WorkerState, Holds, HoldingPcs
<1> QED  BY <1>1, <1>2, <1>3, <1>4 DEF PassesFence

\* A live lease ends only by a step of a worker that runs under it.
THEOREM LiveLeasesAreRespected == Spec => LiveLeaseRespected
<1>1. IInv /\ [Next]_vars =>
        [\A t \in TaskIds : LeaseTaken(t) =>
          \E w \in Workers :
            /\ Holds(w) /\ Task(w) = t /\ PassesFence(w)
            /\ worker'[w] # worker[w]]_vars
  <2> SUFFICES ASSUME IInv, [Next]_vars, NEW t \in TaskIds, LeaseTaken(t)
               PROVE  \E w \in Workers :
                        /\ Holds(w) /\ Task(w) = t /\ PassesFence(w)
                        /\ worker'[w] # worker[w]
    OBVIOUS
  <2> QED  BY LeaseEnders, LeaseEndedByHolder
<1> QED  BY <1>1, Invariance, PTL DEF Spec, LiveLeaseRespected

\* With a worker id per worker, the fence lets only one of the holders of a task
\* through: leases that were taken over no longer match.
UniqueNames == \A v, w \in Workers : WorkerName[v] = WorkerName[w] => v = w

THEOREM OneFencedExecutor == UniqueNames => (Spec => []SoleFencedExecutor)
<1>1. UniqueNames => SoleFencedExecutor
  BY DEF UniqueNames, SoleFencedExecutor, PassesFence, Fenced
<1>2. UniqueNames => UniqueNames'
  BY DEF UniqueNames
<1> QED  BY <1>1, <1>2, PTL
=============================================================================
