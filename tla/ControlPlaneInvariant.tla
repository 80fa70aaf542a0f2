------------------------ MODULE ControlPlaneInvariant ------------------------
(***************************************************************************)
(* The inductive invariant of ControlPlane, and what any transaction on    *)
(* the ledger and any operation on the stream does to it.  The invariant   *)
(* has four parts: what the ledger says on its own and of the stream, what *)
(* the stream says of the ledger, and what workers and dispatchers         *)
(* remember of both.  ControlPlaneProofs adds the processes.               *)
(***************************************************************************)
EXTENDS ControlPlane, TLAPS

-----------------------------------------------------------------------------
(* The inductive invariant                                                 *)

\* attempts and delivery_generation count the same failures.
Accounts ==
  \A t \in TaskIds :
    /\ tasks[t].attempts = tasks[t].gen + (IF tasks[t].status = "DEAD_LETTER" THEN 1 ELSE 0)
    /\ tasks[t].gen < tasks[t].max

\* Nothing exists for an id that is not issued or a generation not reached.
Unborn ==
  /\ \A t \in TaskIds : tasks[t].status = "ABSENT" => tasks[t].gen = 0 /\ tasks[t].origin = 0
  /\ \A e \in Event :
       tasks[e.task].status = "ABSENT" \/ tasks[e.task].gen < e.gen
         => outbox[e].state = "absent"

\* What drives an unfinished task on; a published event is in the stream.
Driven ==
  /\ \A t \in TaskIds :
       /\ tasks[t].status \in Waiting => outbox[CurrentEvent(t)].state = "pending"
       /\ tasks[t].status = "ENQUEUED" =>
            outbox[CurrentEvent(t)].state = "pending" \/ Visible(CurrentEvent(t))
       /\ tasks[t].status = "RUNNING" => Visible(CurrentEvent(t))

LedgerInv ==
  /\ LedgerTypeOK
  /\ Accounts
  /\ Unborn
  /\ Driven
  /\ DeadLetterArchive
  /\ ReplayLineage

StreamInv ==
  /\ RedisTypeOK(Event)
  /\ VisibleImpliesEnqueued
  /\ AckedIsSettled

HasDelivery(w) == worker[w].pc \notin {"idle", "reclaiming", "down"}

WorkerInv ==
  /\ worker \in [Workers -> WorkerState]
  /\ \A w \in Workers :
       /\ HasDelivery(w) => worker[w].msg \in 1..delivered
       /\ Holds(w) => worker[w].attempts = Gen(w) /\ worker[w].max = tasks[Task(w)].max
       /\ worker[w].pc \in {"acking", "ackingDone"} => Settled(Task(w), Gen(w))

DispatcherInv ==
  /\ dispatcher \in [Dispatchers -> DispatcherState]
  /\ \A d \in Dispatchers :
       /\ \A e \in dispatcher[d].batch \cup dispatcher[d].event : Enqueued(e)
       /\ dispatcher[d].pc = "marking" => \A e \in dispatcher[d].event : Visible(e)

IInv == LedgerInv /\ StreamInv /\ WorkerInv /\ DispatcherInv

-----------------------------------------------------------------------------
(* Events                                                                  *)

\* An event is determined by its task and its generation.
LEMMA EventFields ==
  ASSUME NEW e \in Event
  PROVE  e.task \in TaskIds /\ e.gen \in Generations /\ e = [task |-> e.task, gen |-> e.gen]
BY DEF Event

LEMMA FirstEvent ==
  ASSUME NEW t \in TaskIds
  PROVE  [task |-> t, gen |-> 0] \in Event
BY LedgerConstants DEF LedgerConstants, Event, Generations

LEMMA CurrentEventType ==
  ASSUME LedgerTypeOK
  PROVE  \A t \in TaskIds : CurrentEvent(t) \in Event
BY DEF LedgerTypeOK, TaskRow, CurrentEvent, Event

LEMMA WithOutboxType ==
  ASSUME LedgerTypeOK, NEW e \in Event
  PROVE  WithOutbox(e) \in [Event -> OutboxRow]
BY DEF LedgerTypeOK, WithOutbox, PendingRow, NoRow, OutboxRow

-----------------------------------------------------------------------------
(* The ledger                                                              *)

\* What a holder of a TaskLease does to the row, with what it knows by then.
HolderStep(e, name) ==
  \/ LeaseTask(e.task, e.gen, name)
  \/ CompleteTask(e.task, e.gen, name)
  \/ ReleaseForRecovery(e.task, e.gen, name)
  \/ ScheduleRetry(e.task, e.gen, name) /\ e.gen + 1 < tasks[e.task].max
  \/ DeadLetterTask(e.task, e.gen, name)

LedgerStep ==
  \/ UNCHANGED ledger
  \/ \E k \in Keys, m \in AttemptLimits : InsertTask(k, m)
  \/ \E k \in Keys : ResubmitTask(k)
  \/ \E batch \in SUBSET Replayable, m \in AttemptLimits : ReplayDeadLetters(batch, m)
  \/ PurgeDone
  \/ \E e \in Event, name \in Names : Visible(e) /\ HolderStep(e, name)
  \/ \E d \in Dispatchers, batch \in SUBSET Event : ClaimReady(d, batch)
  \/ \E d \in Dispatchers, e \in Event : Visible(e) /\ MarkPublished(d, e)
  \/ \E d \in Dispatchers, e \in Event : RecordFailure(d, e)
  \/ \E t \in TaskIds : BackoffElapses(t)
  \/ \E t \in TaskIds : LeaseExpires(t)
  \/ \E e \in Event : ClaimExpires(e)

\* Rows stay rows when a transaction writes some of their columns.
LEMMA RowTypes ==
  ASSUME NEW r \in TaskRow
  PROVE  /\ \A status \in Statuses : [r EXCEPT !.status = status] \in TaskRow
         /\ \A status \in Statuses, name \in Names :
              [r EXCEPT !.status = status, !.owner = name, !.live = TRUE] \in TaskRow
         /\ [r EXCEPT !.owner = None, !.live = FALSE] \in TaskRow
         /\ [r EXCEPT !.due = TRUE] \in TaskRow
         /\ [r EXCEPT !.live = FALSE] \in TaskRow
BY DEF TaskRow

LEMMA RowCounts ==
  ASSUME NEW r \in TaskRow
  PROVE  r.gen \in Nat /\ r.max \in 1..MaxAttempts
BY DEF TaskRow, Generations

LEMMA CountedRowTypes ==
  ASSUME NEW r \in TaskRow, NEW status \in Statuses, r.attempts + 1 \in Generations
  PROVE  /\ [r EXCEPT !.status = status, !.attempts = @ + 1] \in TaskRow
         /\ r.gen + 1 \in Generations =>
              [r EXCEPT !.status = status, !.attempts = @ + 1,
                        !.gen = @ + 1, !.due = FALSE] \in TaskRow
BY DEF TaskRow

LEMMA StatusNames ==
  /\ {"PENDING", "RETRY_SCHEDULED", "ENQUEUED", "RUNNING", "DONE", "DEAD_LETTER", "PURGED"}
       \subseteq Statuses
BY DEF Statuses, Waiting, Terminal

\* The lease columns are set to NULL; nothing else changes.
LEMMA UnleasedRow ==
  ASSUME LedgerTypeOK, NEW t \in TaskIds
  PROVE  /\ Unleased(t) \in TaskRow
         /\ Unleased(t).attempts = tasks[t].attempts
         /\ Unleased(t).gen = tasks[t].gen
<1>1. tasks[t] \in TaskRow
  BY DEF LedgerTypeOK
<1> QED  BY <1>1 DEF Unleased, TaskRow

\* Every transaction keeps the tables well-typed.
LEMMA LedgerType ==
  ASSUME LedgerTypeOK, Accounts, LedgerStep
  PROVE  LedgerTypeOK'
<1> USE DEF LedgerTypeOK
<1>1. CASE UNCHANGED ledger
  BY <1>1 DEF ledger
<1>2. ASSUME NEW k \in Keys, NEW m \in AttemptLimits, InsertTask(k, m)
      PROVE  LedgerTypeOK'
  <2>1. NewTask("PENDING", m, k, 0) \in TaskRow
    BY LedgerConstants DEF LedgerConstants, NewTask, TaskRow, Statuses, Waiting, Generations
  <2>2. tasks' \in [TaskIds -> TaskRow] /\ deadLetters' = deadLetters
    BY <1>2, <2>1 DEF InsertTask
  <2>3. outbox' \in [Event -> OutboxRow]
    BY <1>2, FirstEvent, WithOutboxType DEF InsertTask
  <2> QED  BY <2>2, <2>3
<1>3. ASSUME NEW k \in Keys, ResubmitTask(k)
      PROVE  LedgerTypeOK'
  BY <1>3, CurrentEventType, WithOutboxType DEF ResubmitTask
<1>4. ASSUME NEW batch \in SUBSET Replayable, NEW m \in AttemptLimits,
             ReplayDeadLetters(batch, m)
      PROVE  LedgerTypeOK'
  <2>1. PICK id \in Injection(batch, {t \in TaskIds : tasks[t].status = "ABSENT"}) :
          /\ tasks' = [t \in TaskIds |->
               IF \E i \in batch : id[i] = t
               THEN NewTask("PENDING", m, None, CHOOSE i \in batch : id[i] = t)
               ELSE tasks[t]]
          /\ outbox' = [e \in Event |->
               IF e.gen = 0 /\ \E i \in batch : id[i] = e.task
               THEN PendingRow ELSE outbox[e]]
          /\ deadLetters' = [i \in DOMAIN deadLetters |->
               IF i \in batch THEN [deadLetters[i] EXCEPT !.replay = id[i]]
               ELSE deadLetters[i]]
    BY <1>4 DEF ReplayDeadLetters
  <2>2. id \in [batch -> TaskIds] /\ batch \subseteq DOMAIN deadLetters
    BY <2>1, <1>4 DEF Injection, Replayable
  <2>3. \A i \in batch : i \in Nat /\ NewTask("PENDING", m, None, i) \in TaskRow
    BY <2>2, LedgerConstants
       DEF LedgerConstants, NewTask, TaskRow, Statuses, Waiting, Generations
  <2>4. tasks' \in [TaskIds -> TaskRow]
    <3>1. ASSUME NEW t \in TaskIds, \E i \in batch : id[i] = t
          PROVE  (CHOOSE i \in batch : id[i] = t) \in batch
      BY <3>1
    <3> QED  BY <2>1, <2>3, <3>1
  <2>5. PendingRow \in OutboxRow
    BY DEF PendingRow, NoRow, OutboxRow
  <2>6. outbox' \in [Event -> OutboxRow]
    BY <2>1, <2>5
  <2>7. \A i \in batch : [deadLetters[i] EXCEPT !.replay = id[i]] \in DeadLetterRow
    <3>1. \A i \in batch : deadLetters[i] \in DeadLetterRow
      BY <2>2
    <3> QED  BY <2>2, <3>1 DEF DeadLetterRow
  <2>8. deadLetters' \in [1..Len(deadLetters) -> DeadLetterRow]
    BY <2>1, <2>7
  <2>9. deadLetters' \in Seq(DeadLetterRow)
    BY <2>8
  <2> QED  BY <2>4, <2>6, <2>9
<1>5. CASE PurgeDone
  <2>1. tasks' \in [TaskIds -> TaskRow]
    <3>1. \A t \in TaskIds : [tasks[t] EXCEPT !.status = "PURGED"] \in TaskRow
      BY RowTypes, StatusNames
    <3> QED  BY <1>5, <3>1 DEF PurgeDone
  <2>2. outbox' \in [Event -> OutboxRow]
    <3>1. NoRow \in OutboxRow
      BY DEF NoRow, OutboxRow
    <3> QED  BY <1>5, <3>1 DEF PurgeDone
  <2> QED  BY <1>5, <2>1, <2>2 DEF PurgeDone
<1>6. ASSUME NEW e \in Event, NEW name \in Names, HolderStep(e, name)
      PROVE  LedgerTypeOK'
  <2>0. /\ e.task \in TaskIds /\ tasks[e.task] \in TaskRow
        /\ Unleased(e.task) \in TaskRow
        /\ Unleased(e.task).attempts = tasks[e.task].attempts
        /\ Unleased(e.task).gen = tasks[e.task].gen
    BY EventFields, UnleasedRow
  <2>1. CASE LeaseTask(e.task, e.gen, name)
    <3>1. [tasks[e.task] EXCEPT !.status = "RUNNING", !.owner = name, !.live = TRUE] \in TaskRow
      BY <2>0, RowTypes, StatusNames
    <3> QED  BY <2>0, <2>1, <3>1 DEF LeaseTask
  <2>2. CASE CompleteTask(e.task, e.gen, name)
    <3>1. [Unleased(e.task) EXCEPT !.status = "DONE"] \in TaskRow
      BY <2>0, RowTypes, StatusNames
    <3> QED  BY <2>0, <2>2, <3>1 DEF CompleteTask
  <2>3. CASE ReleaseForRecovery(e.task, e.gen, name)
    <3>1. [Unleased(e.task) EXCEPT !.status = "ENQUEUED"] \in TaskRow
      BY <2>0, RowTypes, StatusNames
    <3> QED  BY <2>0, <2>3, <3>1 DEF ReleaseForRecovery
  <2>4. CASE ScheduleRetry(e.task, e.gen, name) /\ e.gen + 1 < tasks[e.task].max
    <3>1. /\ tasks[e.task].attempts + 1 \in Generations
          /\ tasks[e.task].gen + 1 \in Generations
      <4>1. tasks[e.task].status = "RUNNING" /\ tasks[e.task].gen = e.gen
        BY <2>4 DEF ScheduleRetry, Fenced
      <4>2. tasks[e.task].attempts = tasks[e.task].gen
        BY <2>0, <4>1, RowCounts DEF Accounts
      <4>3. tasks[e.task].max \in 1..MaxAttempts /\ e.gen \in Nat
        BY <2>0, RowCounts, EventFields DEF Generations
      <4> QED  BY <2>4, <4>1, <4>2, <4>3, LedgerConstants DEF LedgerConstants, Generations
    <3>2. tasks' \in [TaskIds -> TaskRow]
      <4>1. [Unleased(e.task) EXCEPT !.status = "RETRY_SCHEDULED", !.attempts = @ + 1,
                                     !.gen = @ + 1, !.due = FALSE] \in TaskRow
        BY <2>0, <3>1, CountedRowTypes, StatusNames
      <4> QED  BY <2>0, <2>4, <4>1 DEF ScheduleRetry
    <3>3. outbox' \in [Event -> OutboxRow]
      <4>1. [task |-> e.task, gen |-> e.gen + 1] \in Event
        BY <2>0, <2>4, <3>1 DEF ScheduleRetry, Fenced, Event
      <4> QED  BY <2>4, <4>1, WithOutboxType DEF ScheduleRetry
    <3> QED  BY <2>4, <3>2, <3>3 DEF ScheduleRetry
  <2>5. CASE DeadLetterTask(e.task, e.gen, name)
    <3>1. tasks[e.task].attempts + 1 \in Generations
      <4>1. tasks[e.task].attempts = tasks[e.task].gen /\ tasks[e.task].gen < tasks[e.task].max
        <5>1. tasks[e.task].status = "RUNNING"
          BY <2>5 DEF DeadLetterTask, Fenced
        <5> QED  BY <2>0, <5>1, RowCounts DEF Accounts
      <4>2. tasks[e.task].max \in 1..MaxAttempts /\ tasks[e.task].gen \in Nat
        BY <2>0, RowCounts
      <4> QED  BY <4>1, <4>2, LedgerConstants DEF LedgerConstants, Generations
    <3>2. tasks' \in [TaskIds -> TaskRow]
      <4>1. [Unleased(e.task) EXCEPT !.status = "DEAD_LETTER", !.attempts = @ + 1] \in TaskRow
        BY <2>0, <3>1, CountedRowTypes, StatusNames
      <4> QED  BY <2>0, <2>5, <4>1 DEF DeadLetterTask
    <3>3. [task |-> e.task, gen |-> e.gen, replay |-> None] \in DeadLetterRow
      BY DEF Event, DeadLetterRow
    <3> QED  BY <2>5, <3>2, <3>3 DEF DeadLetterTask
  <2> QED  BY <1>6, <2>1, <2>2, <2>3, <2>4, <2>5 DEF HolderStep
<1>7. ASSUME NEW d \in Dispatchers, NEW batch \in SUBSET Event, ClaimReady(d, batch)
      PROVE  LedgerTypeOK'
  <2>1. tasks' \in [TaskIds -> TaskRow]
    <3>1. \A t \in TaskIds : [tasks[t] EXCEPT !.status = "ENQUEUED"] \in TaskRow
      BY RowTypes, StatusNames
    <3> QED  BY <1>7, <3>1 DEF ClaimReady
  <2>2. outbox' \in [Event -> OutboxRow]
    <3>1. \A e \in Event : [outbox[e] EXCEPT !.claim = d, !.fresh = TRUE] \in OutboxRow
      BY DEF OutboxRow
    <3> QED  BY <1>7, <3>1 DEF ClaimReady
  <2> QED  BY <1>7, <2>1, <2>2 DEF ClaimReady
<1>8. ASSUME NEW d \in Dispatchers, NEW e \in Event, MarkPublished(d, e) \/ RecordFailure(d, e)
      PROVE  LedgerTypeOK'
  <2>1. outbox' \in [Event -> OutboxRow]
    <3>1. [NoRow EXCEPT !.state = "published"] \in OutboxRow /\ PendingRow \in OutboxRow
      BY DEF PendingRow, NoRow, OutboxRow
    <3> QED  BY <1>8, <3>1 DEF MarkPublished, RecordFailure
  <2> QED  BY <1>8, <2>1 DEF MarkPublished, RecordFailure
<1>9. ASSUME NEW t \in TaskIds, BackoffElapses(t) \/ LeaseExpires(t)
      PROVE  LedgerTypeOK'
  <2>1. CASE BackoffElapses(t)
    <3>1. [tasks[t] EXCEPT !.due = TRUE] \in TaskRow
      BY RowTypes
    <3> QED  BY <2>1, <3>1 DEF BackoffElapses
  <2>2. CASE LeaseExpires(t)
    <3>1. [tasks[t] EXCEPT !.live = FALSE] \in TaskRow
      BY RowTypes
    <3> QED  BY <2>2, <3>1 DEF LeaseExpires
  <2> QED  BY <1>9, <2>1, <2>2
<1>10. ASSUME NEW e \in Event, ClaimExpires(e)
       PROVE  LedgerTypeOK'
  <2>1. outbox' \in [Event -> OutboxRow]
    <3>1. [outbox[e] EXCEPT !.fresh = FALSE] \in OutboxRow
      BY DEF OutboxRow
    <3> QED  BY <1>10, <3>1 DEF ClaimExpires
  <2> QED  BY <1>10, <2>1 DEF ClaimExpires
<1> QED
  BY <1>1, <1>2, <1>3, <1>4, <1>5, <1>6, <1>7, <1>8, <1>9, <1>10 DEF LedgerStep

\* What any transaction can do to one task: nothing that matters, one step along
\* its statuses, or be born, retried or given up.
SameCounts(t) ==
  /\ tasks'[t].gen = tasks[t].gen
  /\ tasks'[t].attempts = tasks[t].attempts
  /\ tasks'[t].max = tasks[t].max

StatusStep(t) ==
  \/ tasks'[t].status = tasks[t].status
  \/ tasks[t].status \in Waiting /\ tasks[t].due /\ tasks'[t].status = "ENQUEUED"
  \/ tasks[t].status = "ENQUEUED" /\ tasks'[t].status = "RUNNING" /\ Visible(CurrentEvent(t))
  \/ tasks[t].status = "RUNNING" /\ tasks'[t].status \in {"ENQUEUED", "DONE"}
  \/ tasks[t].status = "DONE" /\ tasks'[t].status = "PURGED"

Moves(t) == SameCounts(t) /\ StatusStep(t) /\ (tasks[t].due => tasks'[t].due)

Born(t) ==
  /\ tasks[t].status = "ABSENT" /\ tasks'[t].status = "PENDING"
  /\ tasks'[t].gen = 0 /\ tasks'[t].attempts = 0
  /\ outbox'[[task |-> t, gen |-> 0]].state = "pending"

Retried(t) ==
  /\ tasks[t].status = "RUNNING" /\ tasks'[t].status = "RETRY_SCHEDULED"
  /\ tasks'[t].gen = tasks[t].gen + 1 /\ tasks'[t].attempts = tasks[t].attempts + 1
  /\ tasks'[t].max = tasks[t].max /\ tasks[t].gen + 1 < tasks[t].max
  /\ outbox'[[task |-> t, gen |-> tasks[t].gen + 1]].state = "pending"

GivenUp(t) ==
  /\ tasks[t].status = "RUNNING" /\ tasks'[t].status = "DEAD_LETTER"
  /\ tasks'[t].gen = tasks[t].gen /\ tasks'[t].attempts = tasks[t].attempts + 1
  /\ tasks'[t].max = tasks[t].max /\ tasks'[t].due = tasks[t].due

TaskMove(t) == Moves(t) \/ Born(t) \/ Retried(t) \/ GivenUp(t)

\* A task whose row is not written does not move.
LEMMA SameRow ==
  ASSUME NEW t \in TaskIds, tasks'[t] = tasks[t]
  PROVE  TaskMove(t)
BY DEF TaskMove, Moves, SameCounts, StatusStep

LEMMA TaskMoves ==
  ASSUME LedgerTypeOK, Accounts, Unborn, LedgerStep, NEW t \in TaskIds
  PROVE  TaskMove(t)
<1> USE DEF LedgerTypeOK
<1>1. CASE UNCHANGED ledger
  BY <1>1, SameRow DEF ledger
<1>2. ASSUME NEW k \in Keys, NEW m \in AttemptLimits, InsertTask(k, m)
      PROVE  TaskMove(t)
  <2>1. PICK u \in TaskIds :
          /\ tasks[u].status = "ABSENT"
          /\ tasks' = [tasks EXCEPT ![u] = NewTask("PENDING", m, k, 0)]
          /\ outbox' = WithOutbox([task |-> u, gen |-> 0])
    BY <1>2 DEF InsertTask
  <2>2. CASE t = u
    <3>1. [task |-> t, gen |-> 0] \in Event
      BY FirstEvent
    <3>2. outbox[[task |-> t, gen |-> 0]].state = "absent"
      BY <2>1, <2>2, <3>1 DEF Unborn
    <3>3. outbox'[[task |-> t, gen |-> 0]].state = "pending"
      BY <2>1, <2>2, <3>1, <3>2 DEF WithOutbox, PendingRow, NoRow
    <3> QED  BY <2>1, <2>2, <3>3 DEF TaskMove, Born, NewTask
  <2> QED  BY <2>1, <2>2, SameRow
<1>3. ASSUME NEW k \in Keys, ResubmitTask(k)
      PROVE  TaskMove(t)
  BY <1>3, SameRow DEF ResubmitTask
<1>4. ASSUME NEW batch \in SUBSET Replayable, NEW m \in AttemptLimits,
             ReplayDeadLetters(batch, m)
      PROVE  TaskMove(t)
  <2>1. PICK id \in Injection(batch, {u \in TaskIds : tasks[u].status = "ABSENT"}) :
          /\ tasks' = [u \in TaskIds |->
               IF \E i \in batch : id[i] = u
               THEN NewTask("PENDING", m, None, CHOOSE i \in batch : id[i] = u)
               ELSE tasks[u]]
          /\ outbox' = [e \in Event |->
               IF e.gen = 0 /\ \E i \in batch : id[i] = e.task
               THEN PendingRow ELSE outbox[e]]
    BY <1>4 DEF ReplayDeadLetters
  <2>2. CASE \E i \in batch : id[i] = t
    <3>1. tasks[t].status = "ABSENT"
      BY <2>1, <2>2 DEF Injection
    <3>2. outbox'[[task |-> t, gen |-> 0]] = PendingRow
      BY <2>1, <2>2, FirstEvent
    <3>3. tasks'[t] = NewTask("PENDING", m, None, CHOOSE i \in batch : id[i] = t)
      BY <2>1, <2>2
    <3> QED  BY <3>1, <3>2, <3>3 DEF TaskMove, Born, NewTask, PendingRow, NoRow
  <2>3. CASE ~\E i \in batch : id[i] = t
    BY <2>1, <2>3, SameRow
  <2> QED  BY <2>2, <2>3
<1>5. CASE PurgeDone
  BY <1>5 DEF PurgeDone, TaskRow, TaskMove, Moves, SameCounts, StatusStep
<1>6. ASSUME NEW e \in Event, NEW name \in Names, Visible(e), HolderStep(e, name)
      PROVE  TaskMove(t)
  <2>0. e.task \in TaskIds /\ e.gen \in Generations
    BY EventFields
  <2>1. CASE t # e.task
    <3>1. tasks'[t] = tasks[t]
      BY <1>6, <2>1 DEF HolderStep, LeaseTask, CompleteTask, ReleaseForRecovery, ScheduleRetry,
                        DeadLetterTask
    <3> QED  BY <3>1, SameRow
  <2>2. CASE t = e.task /\ LeaseTask(e.task, e.gen, name)
    <3>1. e = CurrentEvent(t)
      BY <2>2, EventFields DEF LeaseTask, Leasable, CurrentEvent
    <3> QED
      BY <1>6, <2>2, <3>1 DEF LeaseTask, Leasable, TaskRow, TaskMove, Moves, SameCounts, StatusStep
  <2>3. CASE t = e.task /\ CompleteTask(e.task, e.gen, name)
    BY <2>3 DEF CompleteTask, Fenced, Unleased, TaskRow, TaskMove, Moves, SameCounts, StatusStep
  <2>4. CASE t = e.task /\ ReleaseForRecovery(e.task, e.gen, name)
    BY <2>4
       DEF ReleaseForRecovery, Fenced, Unleased, TaskRow, TaskMove, Moves, SameCounts, StatusStep
  <2>5. CASE t = e.task /\ ScheduleRetry(e.task, e.gen, name) /\ e.gen + 1 < tasks[e.task].max
    <3>1. tasks[t].status = "RUNNING" /\ tasks[t].gen = e.gen
      BY <2>5 DEF ScheduleRetry, Fenced
    <3>2. [task |-> t, gen |-> e.gen + 1] \in Event
      <4>1. e.gen + 1 \in Generations
        BY <2>0, <2>5, LedgerConstants DEF LedgerConstants, TaskRow, Generations
      <4> QED  BY <4>1 DEF Event
    <3>3. outbox[[task |-> t, gen |-> e.gen + 1]].state = "absent"
      BY <2>0, <3>1, <3>2 DEF Unborn, Generations
    <3>4. outbox'[[task |-> t, gen |-> e.gen + 1]].state = "pending"
      BY <2>5, <3>2, <3>3 DEF ScheduleRetry, WithOutbox, PendingRow, NoRow
    <3>5. /\ tasks'[t].status = "RETRY_SCHEDULED" /\ tasks'[t].max = tasks[t].max
          /\ tasks'[t].gen = tasks[t].gen + 1
          /\ tasks'[t].attempts = tasks[t].attempts + 1
      BY <2>5 DEF ScheduleRetry, Unleased, TaskRow
    <3> QED  BY <2>5, <3>1, <3>4, <3>5 DEF TaskMove, Retried
  <2>6. CASE t = e.task /\ DeadLetterTask(e.task, e.gen, name)
    BY <2>6 DEF DeadLetterTask, Fenced, Unleased, TaskRow, TaskMove, GivenUp
  <2> QED  BY <1>6, <2>1, <2>2, <2>3, <2>4, <2>5, <2>6 DEF HolderStep
<1>7. ASSUME NEW d \in Dispatchers, NEW batch \in SUBSET Event, ClaimReady(d, batch)
      PROVE  TaskMove(t)
  <2>1. CASE CurrentEvent(t) \in batch /\ tasks[t].status \in Waiting
    <3>1. tasks[t].due
      BY <1>7, <2>1 DEF ClaimReady, Claimable, CurrentEvent
    <3>2. tasks'[t] = [tasks[t] EXCEPT !.status = "ENQUEUED"]
      BY <1>7, <2>1 DEF ClaimReady
    <3> QED  BY <2>1, <3>1, <3>2 DEF TaskRow, TaskMove, Moves, SameCounts, StatusStep
  <2>2. CASE ~(CurrentEvent(t) \in batch /\ tasks[t].status \in Waiting)
    BY <1>7, <2>2, SameRow DEF ClaimReady
  <2> QED  BY <2>1, <2>2
<1>8. ASSUME NEW d \in Dispatchers, NEW e \in Event, MarkPublished(d, e) \/ RecordFailure(d, e)
      PROVE  TaskMove(t)
  BY <1>8, SameRow DEF MarkPublished, RecordFailure
<1>9. ASSUME NEW u \in TaskIds, BackoffElapses(u) \/ LeaseExpires(u)
      PROVE  TaskMove(t)
  <2>1. CASE BackoffElapses(u)
    BY <2>1 DEF BackoffElapses, TaskRow, TaskMove, Moves, SameCounts, StatusStep
  <2>2. CASE LeaseExpires(u)
    BY <2>2 DEF LeaseExpires, TaskRow, TaskMove, Moves, SameCounts, StatusStep
  <2> QED  BY <1>9, <2>1, <2>2
<1>10. ASSUME NEW e \in Event, ClaimExpires(e)
       PROVE  TaskMove(t)
  BY <1>10, SameRow DEF ClaimExpires
<1> QED
  BY <1>1, <1>2, <1>3, <1>4, <1>5, <1>6, <1>7, <1>8, <1>9, <1>10 DEF LedgerStep

\* What any transaction can do to one outbox row.
OutboxMove(e) ==
  \/ outbox'[e].state = outbox[e].state
  \/ /\ outbox'[e].state = "pending"
     /\ tasks'[e.task].status \in Waiting /\ tasks'[e.task].gen = e.gen
  \/ /\ outbox[e].state = "pending" /\ outbox'[e].state = "published"
     /\ Visible(e) /\ tasks' = tasks
  \/ outbox'[e].state = "absent" /\ tasks'[e.task].status = "PURGED"

LEMMA SameOutboxRow ==
  ASSUME NEW e \in Event, outbox'[e] = outbox[e]
  PROVE  OutboxMove(e)
BY DEF OutboxMove

LEMMA OutboxMoves ==
  ASSUME LedgerTypeOK, LedgerStep, NEW e \in Event
  PROVE  OutboxMove(e)
<1> USE DEF LedgerTypeOK
<1>1. CASE UNCHANGED ledger
  BY <1>1, SameOutboxRow DEF ledger
<1>2. ASSUME NEW k \in Keys, NEW m \in AttemptLimits, InsertTask(k, m)
      PROVE  OutboxMove(e)
  <2>1. PICK t \in TaskIds :
          /\ tasks' = [tasks EXCEPT ![t] = NewTask("PENDING", m, k, 0)]
          /\ outbox' = WithOutbox([task |-> t, gen |-> 0])
    BY <1>2 DEF InsertTask
  <2>2. CASE e = [task |-> t, gen |-> 0]
    BY <2>1, <2>2 DEF OutboxMove, WithOutbox, PendingRow, NoRow, NewTask, Waiting
  <2>3. CASE e # [task |-> t, gen |-> 0]
    BY <2>1, <2>3, SameOutboxRow DEF WithOutbox
  <2> QED  BY <2>2, <2>3
<1>3. ASSUME NEW k \in Keys, ResubmitTask(k)
      PROVE  OutboxMove(e)
  <2>1. PICK t \in TaskIds :
          outbox' = IF tasks[t].status \in Waiting THEN WithOutbox(CurrentEvent(t)) ELSE outbox
    BY <1>3 DEF ResubmitTask
  <2>2. tasks' = tasks
    BY <1>3 DEF ResubmitTask
  <2>3. CASE e = CurrentEvent(t) /\ tasks[t].status \in Waiting
    BY <2>1, <2>2, <2>3 DEF OutboxMove, WithOutbox, PendingRow, NoRow, CurrentEvent
  <2>4. CASE ~(e = CurrentEvent(t) /\ tasks[t].status \in Waiting)
    BY <2>1, <2>4, SameOutboxRow DEF WithOutbox
  <2> QED  BY <2>3, <2>4
<1>4. ASSUME NEW batch \in SUBSET Replayable, NEW m \in AttemptLimits,
             ReplayDeadLetters(batch, m)
      PROVE  OutboxMove(e)
  <2>1. PICK id \in Injection(batch, {u \in TaskIds : tasks[u].status = "ABSENT"}) :
          /\ tasks' = [u \in TaskIds |->
               IF \E i \in batch : id[i] = u
               THEN NewTask("PENDING", m, None, CHOOSE i \in batch : id[i] = u)
               ELSE tasks[u]]
          /\ outbox' = [f \in Event |->
               IF f.gen = 0 /\ \E i \in batch : id[i] = f.task
               THEN PendingRow ELSE outbox[f]]
    BY <1>4 DEF ReplayDeadLetters
  <2>2. CASE e.gen = 0 /\ \E i \in batch : id[i] = e.task
    <3>1. outbox'[e] = PendingRow
      BY <2>1, <2>2
    <3>2. tasks'[e.task] =
            NewTask("PENDING", m, None, CHOOSE i \in batch : id[i] = e.task)
      BY <2>1, <2>2, EventFields
    <3> QED  BY <2>2, <3>1, <3>2 DEF OutboxMove, PendingRow, NoRow, NewTask, Waiting
  <2>3. CASE ~(e.gen = 0 /\ \E i \in batch : id[i] = e.task)
    BY <2>1, <2>3, SameOutboxRow
  <2> QED  BY <2>2, <2>3
<1>5. CASE PurgeDone
  <2>1. CASE tasks[e.task].status = "DONE"
    <3>1. outbox'[e] = NoRow /\ tasks'[e.task] = [tasks[e.task] EXCEPT !.status = "PURGED"]
      BY <1>5, <2>1, EventFields DEF PurgeDone
    <3> QED  BY <3>1, EventFields DEF OutboxMove, NoRow, TaskRow
  <2>2. CASE tasks[e.task].status # "DONE"
    BY <1>5, <2>2, SameOutboxRow DEF PurgeDone
  <2> QED  BY <2>1, <2>2
<1>6. ASSUME NEW f \in Event, NEW name \in Names, HolderStep(f, name)
      PROVE  OutboxMove(e)
  <2>1. CASE ScheduleRetry(f.task, f.gen, name)
    <3>1. CASE e = [task |-> f.task, gen |-> f.gen + 1]
      <4>1. tasks'[f.task].status = "RETRY_SCHEDULED" /\ tasks'[f.task].gen = f.gen + 1
        BY <2>1, EventFields DEF ScheduleRetry, Fenced, Unleased, TaskRow
      <4> QED
        BY <2>1, <3>1, <4>1 DEF ScheduleRetry, OutboxMove, WithOutbox, PendingRow, NoRow, Waiting
    <3>2. CASE e # [task |-> f.task, gen |-> f.gen + 1]
      BY <2>1, <3>2, SameOutboxRow DEF ScheduleRetry, WithOutbox
    <3> QED  BY <3>1, <3>2
  <2>2. CASE ~ScheduleRetry(f.task, f.gen, name)
    BY <1>6, <2>2, SameOutboxRow
       DEF HolderStep, LeaseTask, CompleteTask, ReleaseForRecovery, DeadLetterTask
  <2> QED  BY <2>1, <2>2
<1>7. ASSUME NEW d \in Dispatchers, NEW batch \in SUBSET Event, ClaimReady(d, batch)
      PROVE  OutboxMove(e)
  BY <1>7 DEF ClaimReady, OutboxMove, OutboxRow
<1>8. ASSUME NEW d \in Dispatchers, NEW f \in Event, Visible(f), MarkPublished(d, f)
      PROVE  OutboxMove(e)
  BY <1>8 DEF MarkPublished, ClaimHeld, OutboxMove, NoRow
<1>9. ASSUME NEW d \in Dispatchers, NEW f \in Event, RecordFailure(d, f)
      PROVE  OutboxMove(e)
  BY <1>9 DEF RecordFailure, ClaimHeld, OutboxMove, PendingRow, NoRow
<1>10. ASSUME NEW t \in TaskIds, BackoffElapses(t) \/ LeaseExpires(t)
       PROVE  OutboxMove(e)
  BY <1>10, SameOutboxRow DEF BackoffElapses, LeaseExpires
<1>11. ASSUME NEW f \in Event, ClaimExpires(f)
       PROVE  OutboxMove(e)
  BY <1>11 DEF ClaimExpires, OutboxMove, OutboxRow
<1> QED
  BY <1>1, <1>2, <1>3, <1>4, <1>5, <1>6, <1>7, <1>8, <1>9, <1>10, <1>11 DEF LedgerStep

\* What any transaction can do to the archive and to the tasks' lineage.
SameLineage == \A t \in TaskIds : tasks'[t].origin = tasks[t].origin

NoneGivenUp ==
  \A t \in TaskIds : tasks'[t].status = "DEAD_LETTER" <=> tasks[t].status = "DEAD_LETTER"

ArchiveGrows(t) ==
  /\ GivenUp(t)
  /\ \A u \in TaskIds \ {t} : tasks'[u] = tasks[u]
  /\ deadLetters' = Append(deadLetters, [task |-> t, gen |-> tasks[t].gen, replay |-> None])

ArchiveMove ==
  \/ deadLetters' = deadLetters /\ SameLineage /\ NoneGivenUp
  \/ \E t \in TaskIds : ArchiveGrows(t) /\ SameLineage
  \/ \E batch \in SUBSET Replayable, m \in AttemptLimits : ReplayDeadLetters(batch, m)

LEMMA ArchiveMoves ==
  ASSUME LedgerTypeOK, Accounts, Unborn, LedgerStep
  PROVE  ArchiveMove
<1> USE DEF LedgerTypeOK
<1>1. CASE UNCHANGED ledger
  BY <1>1 DEF ledger, ArchiveMove, SameLineage, NoneGivenUp
<1>2. ASSUME NEW k \in Keys, NEW m \in AttemptLimits, InsertTask(k, m)
      PROVE  ArchiveMove
  BY <1>2 DEF InsertTask, NewTask, Unborn, ArchiveMove, SameLineage, NoneGivenUp
<1>3. ASSUME NEW k \in Keys, ResubmitTask(k)
      PROVE  ArchiveMove
  BY <1>3 DEF ResubmitTask, ArchiveMove, SameLineage, NoneGivenUp
<1>4. ASSUME NEW batch \in SUBSET Replayable, NEW m \in AttemptLimits,
             ReplayDeadLetters(batch, m)
      PROVE  ArchiveMove
  BY <1>4 DEF ArchiveMove
<1>5. CASE PurgeDone
  BY <1>5 DEF PurgeDone, TaskRow, ArchiveMove, SameLineage, NoneGivenUp
<1>6. ASSUME NEW e \in Event, NEW name \in Names, HolderStep(e, name)
      PROVE  ArchiveMove
  <2>0. e.task \in TaskIds
    BY EventFields
  <2>1. CASE LeaseTask(e.task, e.gen, name)
    BY <2>0, <2>1
       DEF LeaseTask, Leasable, TaskRow, ArchiveMove, SameLineage, NoneGivenUp
  <2>2. CASE CompleteTask(e.task, e.gen, name)
    BY <2>0, <2>2
       DEF CompleteTask, Fenced, Unleased, TaskRow, ArchiveMove, SameLineage, NoneGivenUp
  <2>3. CASE ReleaseForRecovery(e.task, e.gen, name)
    BY <2>0, <2>3
       DEF ReleaseForRecovery, Fenced, Unleased, TaskRow, ArchiveMove, SameLineage, NoneGivenUp
  <2>4. CASE ScheduleRetry(e.task, e.gen, name)
    BY <2>0, <2>4
       DEF ScheduleRetry, Fenced, Unleased, TaskRow, ArchiveMove, SameLineage, NoneGivenUp
  <2>5. CASE DeadLetterTask(e.task, e.gen, name)
    <3>1. GivenUp(e.task) /\ tasks[e.task].gen = e.gen
      BY <2>0, <2>5 DEF DeadLetterTask, Fenced, Unleased, TaskRow, GivenUp
    <3>2. \A u \in TaskIds \ {e.task} : tasks'[u] = tasks[u]
      BY <2>5 DEF DeadLetterTask
    <3>3. SameLineage
      BY <2>0, <2>5 DEF DeadLetterTask, Unleased, TaskRow, SameLineage
    <3> QED  BY <2>0, <2>5, <3>1, <3>2, <3>3 DEF DeadLetterTask, ArchiveMove, ArchiveGrows
  <2> QED  BY <1>6, <2>1, <2>2, <2>3, <2>4, <2>5 DEF HolderStep
<1>7. ASSUME NEW d \in Dispatchers, NEW batch \in SUBSET Event, ClaimReady(d, batch)
      PROVE  ArchiveMove
  <2>1. ASSUME NEW t \in TaskIds
        PROVE  /\ tasks'[t].origin = tasks[t].origin
               /\ tasks'[t].status = "DEAD_LETTER" <=> tasks[t].status = "DEAD_LETTER"
    BY <1>7 DEF ClaimReady, Waiting, TaskRow
  <2> QED  BY <1>7, <2>1 DEF ClaimReady, ArchiveMove, SameLineage, NoneGivenUp
<1>8. ASSUME NEW d \in Dispatchers, NEW e \in Event, MarkPublished(d, e) \/ RecordFailure(d, e)
      PROVE  ArchiveMove
  BY <1>8 DEF MarkPublished, RecordFailure, ArchiveMove, SameLineage, NoneGivenUp
<1>9. ASSUME NEW t \in TaskIds, BackoffElapses(t) \/ LeaseExpires(t)
      PROVE  ArchiveMove
  <2>1. CASE BackoffElapses(t)
    BY <2>1 DEF BackoffElapses, TaskRow, ArchiveMove, SameLineage, NoneGivenUp
  <2>2. CASE LeaseExpires(t)
    BY <2>2 DEF LeaseExpires, TaskRow, ArchiveMove, SameLineage, NoneGivenUp
  <2> QED  BY <1>9, <2>1, <2>2
<1>10. ASSUME NEW e \in Event, ClaimExpires(e)
       PROVE  ArchiveMove
  BY <1>10 DEF ClaimExpires, ArchiveMove, SameLineage, NoneGivenUp
<1> QED
  BY <1>1, <1>2, <1>3, <1>4, <1>5, <1>6, <1>7, <1>8, <1>9, <1>10 DEF LedgerStep

-----------------------------------------------------------------------------
(* What a transaction preserves                                            *)

\* What was enqueued, or settled, stays so.
LEMMA EnqueuedStable ==
  ASSUME LedgerTypeOK, NEW e \in Event, TaskMove(e.task), Enqueued(e)
  PROVE  Enqueued(e)'
<1>1. e.task \in TaskIds /\ e.gen \in Nat /\ tasks[e.task].gen \in Nat
  BY EventFields DEF LedgerTypeOK, TaskRow, Generations
<1>2. CASE Moves(e.task)
  BY <1>2 DEF Enqueued, Moves, SameCounts, StatusStep, Waiting
<1>3. CASE Retried(e.task)
  BY <1>1, <1>3 DEF Enqueued, Retried
<1>4. CASE GivenUp(e.task)
  BY <1>4 DEF Enqueued, GivenUp, Waiting
<1> QED  BY <1>2, <1>3, <1>4 DEF TaskMove, Born, Enqueued

LEMMA SettledStable ==
  ASSUME LedgerTypeOK, NEW e \in Event, TaskMove(e.task), Enqueued(e),
         Settled(e.task, e.gen)
  PROVE  Settled(e.task, e.gen)'
<1>1. e.task \in TaskIds /\ e.gen \in Nat /\ tasks[e.task].gen \in Nat
  BY EventFields DEF LedgerTypeOK, TaskRow, Generations
<1> QED
  BY <1>1 DEF Enqueued, Settled, Present, Terminal, TaskMove, Moves, SameCounts, StatusStep, Born,
         Retried, GivenUp, Waiting

LEMMA AccountsPreserved ==
  ASSUME LedgerTypeOK, LedgerTypeOK', Accounts, \A t \in TaskIds : TaskMove(t)
  PROVE  Accounts'
<1> SUFFICES ASSUME NEW t \in TaskIds
             PROVE  /\ tasks'[t].attempts =
                         tasks'[t].gen + (IF tasks'[t].status = "DEAD_LETTER" THEN 1 ELSE 0)
                    /\ tasks'[t].gen < tasks'[t].max
  BY DEF Accounts
<1>1. /\ tasks[t].gen \in Nat /\ tasks[t].max \in Nat
      /\ tasks'[t].max \in Nat \ {0}
      /\ tasks[t].attempts = tasks[t].gen + (IF tasks[t].status = "DEAD_LETTER" THEN 1 ELSE 0)
      /\ tasks[t].gen < tasks[t].max
  BY LedgerConstants DEF LedgerConstants, LedgerTypeOK, TaskRow, Generations, Accounts
<1>2. CASE Moves(t)
  BY <1>1, <1>2 DEF Moves, SameCounts, StatusStep, Waiting
<1>3. CASE Born(t)
  BY <1>1, <1>3 DEF Born
<1>4. CASE Retried(t)
  BY <1>1, <1>4 DEF Retried
<1>5. CASE GivenUp(t)
  BY <1>1, <1>5 DEF GivenUp
<1> QED  BY <1>2, <1>3, <1>4, <1>5 DEF TaskMove

LEMMA UnbornPreserved ==
  ASSUME LedgerTypeOK, LedgerTypeOK', Unborn, ArchiveMove,
         \A t \in TaskIds : TaskMove(t), \A e \in Event : OutboxMove(e)
  PROVE  Unborn'
<1>1. ASSUME NEW t \in TaskIds, tasks'[t].status = "ABSENT"
      PROVE  tasks[t].status = "ABSENT" /\ tasks'[t].gen = 0 /\ tasks'[t].origin = 0
  <2>1. tasks[t].status = "ABSENT" /\ tasks'[t].gen = tasks[t].gen
    BY <1>1 DEF TaskMove, Moves, SameCounts, StatusStep, Born, Retried, GivenUp, Waiting
  <2>2. tasks'[t].origin = tasks[t].origin
    <3>1. ASSUME NEW batch \in SUBSET Replayable, NEW m \in AttemptLimits,
                 ReplayDeadLetters(batch, m)
          PROVE  tasks'[t].origin = tasks[t].origin
      BY <1>1, <3>1 DEF ReplayDeadLetters, NewTask
    <3> QED  BY <3>1 DEF ArchiveMove, SameLineage
  <2> QED  BY <2>1, <2>2 DEF Unborn
<1>2. ASSUME NEW e \in Event,
             tasks'[e.task].status = "ABSENT" \/ tasks'[e.task].gen < e.gen
      PROVE  outbox'[e].state = "absent"
  <2>1. e.task \in TaskIds /\ e.gen \in Nat /\ tasks[e.task].gen \in Nat /\ tasks'[e.task].gen \in Nat
    BY EventFields DEF LedgerTypeOK, TaskRow, Generations
  <2>2. tasks[e.task].status = "ABSENT" \/ tasks[e.task].gen < e.gen
    <3>1. CASE tasks'[e.task].status = "ABSENT"
      BY <1>1, <2>1, <3>1
    <3>2. CASE tasks'[e.task].gen < e.gen
      <4>1. TaskMove(e.task)
        BY <2>1
      <4> QED
        BY <2>1, <3>2, <4>1 DEF TaskMove, Moves, SameCounts, Born, Retried, GivenUp
    <3> QED  BY <1>2, <3>1, <3>2
  <2>3. outbox[e].state = "absent"
    BY <2>2 DEF Unborn
  <2> QED  BY <1>2, <2>1, <2>3 DEF OutboxMove, Waiting
<1> QED  BY <1>1, <1>2 DEF Unborn

LEMMA DrivenPreserved ==
  ASSUME LedgerTypeOK, LedgerTypeOK', Driven, VisibleImpliesEnqueued,
         \A t \in TaskIds : TaskMove(t), \A e \in Event : OutboxMove(e),
         \A e \in Event : Visible(e) => Visible(e)'
  PROVE  Driven'
<1> SUFFICES ASSUME NEW t \in TaskIds
             PROVE  /\ tasks'[t].status \in Waiting => outbox'[CurrentEvent(t)'].state = "pending"
                    /\ tasks'[t].status = "ENQUEUED" =>
                         outbox'[CurrentEvent(t)'].state = "pending" \/ Visible(CurrentEvent(t))'
                    /\ tasks'[t].status = "RUNNING" => Visible(CurrentEvent(t))'
  BY DEF Driven
<1>1. CurrentEvent(t) \in Event /\ CurrentEvent(t)' \in Event
  BY DEF LedgerTypeOK, TaskRow, CurrentEvent, Event
<1>2. Visible(CurrentEvent(t)) => Enqueued(CurrentEvent(t))
  BY DEF Visible, VisibleImpliesEnqueued
<1>3. CASE Moves(t)
  <2>1. CurrentEvent(t)' = CurrentEvent(t)
    BY <1>3 DEF Moves, SameCounts, CurrentEvent
  <2>2. OutboxMove(CurrentEvent(t)) /\ CurrentEvent(t).task = t
    BY <1>1 DEF CurrentEvent
  <2>3. CASE tasks'[t].status \in Waiting
    <3>1. tasks[t].status \in Waiting /\ outbox[CurrentEvent(t)].state = "pending"
      BY <1>3, <2>3 DEF Moves, StatusStep, Waiting, Driven
    <3>2. ~Visible(CurrentEvent(t))
      BY <1>2, <3>1 DEF Enqueued, CurrentEvent
    <3> QED  BY <2>1, <2>2, <2>3, <3>1, <3>2 DEF OutboxMove, Waiting
  <2>4. CASE tasks'[t].status = "ENQUEUED"
    <3>1. outbox[CurrentEvent(t)].state = "pending" \/ Visible(CurrentEvent(t))
      BY <1>3, <2>4 DEF Moves, StatusStep, Waiting, Driven
    <3> QED  BY <1>1, <2>1, <2>2, <2>4, <3>1 DEF OutboxMove, Waiting
  <2>5. CASE tasks'[t].status = "RUNNING"
    <3>1. Visible(CurrentEvent(t))
      BY <1>3, <2>5 DEF Moves, StatusStep, Waiting, Driven
    <3> QED  BY <1>1, <2>1, <2>5, <3>1 DEF Waiting
  <2> QED  BY <2>3, <2>4, <2>5
<1>4. CASE Born(t)
  BY <1>4 DEF Born, CurrentEvent, Waiting
<1>5. CASE Retried(t)
  BY <1>5 DEF Retried, CurrentEvent, Waiting
<1>6. CASE GivenUp(t)
  BY <1>6 DEF GivenUp, Waiting
<1> QED  BY <1>3, <1>4, <1>5, <1>6 DEF TaskMove

LEMMA ArchivePreserved ==
  ASSUME LedgerTypeOK, LedgerTypeOK', Unborn, ArchiveMove, DeadLetterArchive,
         \A t \in TaskIds : TaskMove(t)
  PROVE  DeadLetterArchive'
<1> DEFINE Rows(t) == {i \in DOMAIN deadLetters : deadLetters[i].task = t}
           Single(t) == \E i \in Rows(t) : Rows(t) = {i} /\ deadLetters[i].gen = tasks[t].gen
           Filed(t) == IF tasks[t].status = "DEAD_LETTER" THEN Single(t) ELSE Rows(t) = {}
<1> SUFFICES ASSUME NEW t \in TaskIds, Filed(t)
             PROVE  Filed(t)'
  BY DEF DeadLetterArchive
<1>0. TaskMove(t)
  OBVIOUS
<1>1. CASE deadLetters' = deadLetters /\ NoneGivenUp
  <2>1. tasks[t].status = "DEAD_LETTER" => tasks'[t].gen = tasks[t].gen
    BY <1>0 DEF TaskMove, Moves, SameCounts, Born, Retried, GivenUp
  <2> QED  BY <1>1, <2>1 DEF NoneGivenUp
<1>2. ASSUME NEW u \in TaskIds, ArchiveGrows(u)
      PROVE  Filed(t)'
  <2> DEFINE n == Len(deadLetters) + 1
             row == [task |-> u, gen |-> tasks[u].gen, replay |-> None]
  <2>1. /\ deadLetters \in Seq(DeadLetterRow) /\ deadLetters' = Append(deadLetters, row)
        /\ n \in Nat
    BY <1>2 DEF ArchiveGrows, LedgerTypeOK
  <2>2. /\ DOMAIN deadLetters' = (DOMAIN deadLetters) \cup {n} /\ n \notin DOMAIN deadLetters
        /\ deadLetters'[n] = row
        /\ \A i \in DOMAIN deadLetters : deadLetters'[i] = deadLetters[i]
    BY <2>1
  <2>3. CASE t = u
    <3>1. Rows(t) = {}
      BY <1>2, <2>3 DEF ArchiveGrows, GivenUp
    <3>2. Rows(t)' = {n}
      BY <2>2, <2>3, <3>1
    <3>3. tasks'[t].status = "DEAD_LETTER" /\ deadLetters'[n].gen = tasks'[t].gen
      BY <1>2, <2>2, <2>3 DEF ArchiveGrows, GivenUp
    <3> QED  BY <3>2, <3>3
  <2>4. CASE t # u
    <3>1. Rows(t)' = Rows(t) /\ tasks'[t] = tasks[t]
      BY <1>2, <2>2, <2>4 DEF ArchiveGrows
    <3> QED  BY <2>2, <3>1
  <2> QED  BY <2>3, <2>4
<1>3. ASSUME NEW batch \in SUBSET Replayable, NEW m \in AttemptLimits,
             ReplayDeadLetters(batch, m)
      PROVE  Filed(t)'
  <2>1. /\ DOMAIN deadLetters' = DOMAIN deadLetters
        /\ \A i \in DOMAIN deadLetters :
             deadLetters'[i].task = deadLetters[i].task /\ deadLetters'[i].gen = deadLetters[i].gen
    <3>1. PICK id : deadLetters' = [i \in DOMAIN deadLetters |->
                      IF i \in batch THEN [deadLetters[i] EXCEPT !.replay = id[i]]
                      ELSE deadLetters[i]]
      BY <1>3 DEF ReplayDeadLetters
    <3>2. \A i \in DOMAIN deadLetters : deadLetters[i] \in DeadLetterRow
      BY DEF LedgerTypeOK
    <3> QED  BY <3>1, <3>2 DEF DeadLetterRow
  <2>2. Rows(t)' = Rows(t)
    BY <2>1
  <2>3. /\ tasks'[t].status = "DEAD_LETTER" <=> tasks[t].status = "DEAD_LETTER"
        /\ tasks[t].status = "DEAD_LETTER" => tasks'[t].gen = tasks[t].gen
    <3>1. PICK id \in Injection(batch, {v \in TaskIds : tasks[v].status = "ABSENT"}) :
            tasks' = [v \in TaskIds |->
              IF \E i \in batch : id[i] = v
              THEN NewTask("PENDING", m, None, CHOOSE i \in batch : id[i] = v)
              ELSE tasks[v]]
      BY <1>3 DEF ReplayDeadLetters
    <3>2. CASE \E i \in batch : id[i] = t
      <4>1. tasks[t].status = "ABSENT"
        BY <3>1, <3>2 DEF Injection
      <4>2. tasks'[t].status = "PENDING"
        BY <3>1, <3>2 DEF NewTask
      <4> QED  BY <4>1, <4>2
    <3>3. CASE ~\E i \in batch : id[i] = t
      BY <3>1, <3>3
    <3> QED  BY <3>2, <3>3
  <2> QED  BY <2>1, <2>2, <2>3
<1> QED  BY <1>1, <1>2, <1>3 DEF ArchiveMove

LEMMA LineagePreserved ==
  ASSUME LedgerTypeOK, LedgerTypeOK', Unborn, ArchiveMove, ReplayLineage
  PROVE  ReplayLineage'
<1>1. CASE deadLetters' = deadLetters /\ SameLineage
  <2>1. \A i \in DOMAIN deadLetters : deadLetters[i] \in DeadLetterRow
    BY DEF LedgerTypeOK
  <2> QED  BY <1>1, <2>1 DEF SameLineage, ReplayLineage, DeadLetterRow
<1>2. ASSUME NEW u \in TaskIds, ArchiveGrows(u), SameLineage
      PROVE  ReplayLineage'
  <2> DEFINE n == Len(deadLetters) + 1
             row == [task |-> u, gen |-> tasks[u].gen, replay |-> None]
  <2>1. deadLetters \in Seq(DeadLetterRow) /\ deadLetters' = Append(deadLetters, row)
    BY <1>2 DEF ArchiveGrows, LedgerTypeOK
  <2>2. /\ DOMAIN deadLetters' = (DOMAIN deadLetters) \cup {n} /\ n \notin DOMAIN deadLetters
        /\ deadLetters'[n] = row
        /\ \A i \in DOMAIN deadLetters : deadLetters'[i] = deadLetters[i]
    BY <2>1
  <2>3. \A i \in DOMAIN deadLetters : deadLetters[i].replay \in TaskIds \cup {None}
    <3>1. \A i \in DOMAIN deadLetters : deadLetters[i] \in DeadLetterRow
      BY <2>1
    <3> QED  BY <3>1 DEF DeadLetterRow
  <2>4. /\ row.replay = None
        /\ \A i \in DOMAIN deadLetters : deadLetters'[i].replay = deadLetters[i].replay
    BY <2>2
  <2> HIDE DEF row, n
  <2> QED  BY <1>2, <2>2, <2>3, <2>4 DEF SameLineage, ReplayLineage
<1>3. ASSUME NEW batch \in SUBSET Replayable, NEW m \in AttemptLimits,
             ReplayDeadLetters(batch, m)
      PROVE  ReplayLineage'
  <2>1. PICK id \in Injection(batch, {v \in TaskIds : tasks[v].status = "ABSENT"}) :
          /\ tasks' = [v \in TaskIds |->
               IF \E i \in batch : id[i] = v
               THEN NewTask("PENDING", m, None, CHOOSE i \in batch : id[i] = v)
               ELSE tasks[v]]
          /\ deadLetters' = [i \in DOMAIN deadLetters |->
               IF i \in batch THEN [deadLetters[i] EXCEPT !.replay = id[i]]
               ELSE deadLetters[i]]
    BY <1>3 DEF ReplayDeadLetters
  <2>2. /\ id \in [batch -> TaskIds]
        /\ \A i \in batch : tasks[id[i]].status = "ABSENT"
        /\ \A i, j \in batch : id[i] = id[j] => i = j
    BY <2>1 DEF Injection, IsInjective
  <2>3. /\ batch \subseteq DOMAIN deadLetters /\ \A i \in batch : deadLetters[i].replay = None
        /\ \A i \in DOMAIN deadLetters : i \in Nat \ {0} /\ deadLetters[i] \in DeadLetterRow
    BY DEF Replayable, LedgerTypeOK
  <2>4. ASSUME NEW i \in batch
        PROVE  deadLetters'[i].replay = id[i] /\ tasks'[id[i]].origin = i
    <3>1. (CHOOSE j \in batch : id[j] = id[i]) = i
      BY <2>2
    <3> QED  BY <2>1, <2>2, <2>3, <3>1 DEF DeadLetterRow, NewTask
  <2>5. ASSUME NEW t \in TaskIds, ~\E i \in batch : id[i] = t
        PROVE  tasks'[t] = tasks[t]
    BY <2>1, <2>5
  <2>6. ASSUME NEW i \in DOMAIN deadLetters, i \notin batch
        PROVE  deadLetters'[i] = deadLetters[i]
    BY <2>1, <2>6
  <2>7. DOMAIN deadLetters' = DOMAIN deadLetters
    BY <2>1
  <2>8. ASSUME NEW i \in DOMAIN deadLetters, deadLetters'[i].replay # None
        PROVE  tasks'[deadLetters'[i].replay].origin = i
    <3>1. CASE i \in batch
      BY <2>4, <3>1
    <3>2. CASE i \notin batch
      <4>1. /\ deadLetters[i].replay \in TaskIds
            /\ tasks[deadLetters[i].replay].origin = i
        BY <2>3, <2>6, <2>8, <3>2 DEF DeadLetterRow, ReplayLineage
      <4>2. tasks[deadLetters[i].replay].status # "ABSENT"
        BY <2>3, <4>1 DEF Unborn
      <4> QED  BY <2>2, <2>5, <2>6, <3>2, <4>1, <4>2
    <3> QED  BY <3>1, <3>2
  <2>9. ASSUME NEW t \in TaskIds, tasks'[t].origin # 0
        PROVE  /\ tasks'[t].origin \in DOMAIN deadLetters
               /\ deadLetters'[tasks'[t].origin].replay = t
    <3>1. CASE \E i \in batch : id[i] = t
      BY <2>3, <2>4, <3>1
    <3>2. CASE ~\E i \in batch : id[i] = t
      <4>1. /\ tasks'[t].origin = tasks[t].origin /\ tasks[t].origin \in DOMAIN deadLetters
            /\ deadLetters[tasks[t].origin].replay = t
        BY <2>5, <2>9, <3>2 DEF ReplayLineage
      <4>2. tasks[t].origin \notin batch
        BY <2>3, <4>1, LedgerConstants DEF LedgerConstants
      <4> QED  BY <2>6, <4>1, <4>2
    <3> QED  BY <3>1, <3>2
  <2> QED  BY <2>7, <2>8, <2>9 DEF ReplayLineage
<1> QED  BY <1>1, <1>2, <1>3 DEF ArchiveMove

\* Every transaction preserves what the ledger's invariant says.
LEMMA LedgerPreserved ==
  ASSUME LedgerInv, VisibleImpliesEnqueued, LedgerStep,
         \A e \in Event : Visible(e) => Visible(e)'
  PROVE  LedgerInv'
<1>1. LedgerTypeOK'
  BY LedgerType DEF LedgerInv
<1>2. \A t \in TaskIds : TaskMove(t)
  BY TaskMoves DEF LedgerInv
<1>3. \A e \in Event : OutboxMove(e)
  BY OutboxMoves DEF LedgerInv
<1>4. ArchiveMove
  BY ArchiveMoves DEF LedgerInv
<1>5. Accounts'
  BY <1>1, <1>2, AccountsPreserved DEF LedgerInv
<1>6. Unborn'
  BY <1>1, <1>2, <1>3, <1>4, UnbornPreserved DEF LedgerInv
<1>7. Driven'
  BY <1>1, <1>2, <1>3, DrivenPreserved DEF LedgerInv
<1>8. DeadLetterArchive'
  BY <1>1, <1>2, <1>4, ArchivePreserved DEF LedgerInv
<1>9. ReplayLineage'
  BY <1>1, <1>4, LineagePreserved DEF LedgerInv
<1> QED  BY <1>1, <1>5, <1>6, <1>7, <1>8, <1>9 DEF LedgerInv

-----------------------------------------------------------------------------
(* The stream                                                              *)

\* What happens to the stream while the ledger stands still.
RedisStep ==
  \/ UNCHANGED redis
  \/ \E e \in Event : Enqueued(e) /\ Xadd(e)
  \/ ReadGroup
  \/ \E m \in idle : AutoClaim(m)
  \/ \E m \in Nat : Touch(m)
  \/ \E m \in Entries : Settled(stream[m].task, stream[m].gen) /\ Xack(m)
  \/ \E m \in pel : IdleTimePasses(m)

\* Entries are only ever added, at the end.
StreamGrows ==
  /\ Len(stream) <= Len(stream')
  /\ \A m \in Entries : stream'[m] = stream[m]

LEMMA RedisMoves ==
  ASSUME RedisTypeOK(Event), RedisStep
  PROVE  /\ RedisTypeOK(Event)'
         /\ StreamGrows
         /\ delivered <= delivered'
<1> USE DEF RedisTypeOK, Entries, StreamGrows
<1>1. CASE UNCHANGED redis
  BY <1>1 DEF redis
<1>2. ASSUME NEW e \in Event, Xadd(e)
      PROVE  RedisTypeOK(Event)' /\ StreamGrows /\ delivered <= delivered'
  BY <1>2 DEF Xadd
<1>3. CASE ReadGroup
  BY <1>3 DEF ReadGroup, Undelivered
<1>4. ASSUME NEW m \in idle, AutoClaim(m)
      PROVE  RedisTypeOK(Event)' /\ StreamGrows /\ delivered <= delivered'
  BY <1>4 DEF AutoClaim
<1>5. ASSUME NEW m \in Nat, Touch(m)
      PROVE  RedisTypeOK(Event)' /\ StreamGrows /\ delivered <= delivered'
  BY <1>5 DEF Touch
<1>6. ASSUME NEW m \in Entries, Xack(m)
      PROVE  RedisTypeOK(Event)' /\ StreamGrows /\ delivered <= delivered'
  BY <1>6 DEF Xack
<1>7. ASSUME NEW m \in pel, IdleTimePasses(m)
      PROVE  RedisTypeOK(Event)' /\ StreamGrows /\ delivered <= delivered'
  BY <1>7 DEF IdleTimePasses
<1> QED  BY <1>1, <1>2, <1>3, <1>4, <1>5, <1>6, <1>7 DEF RedisStep

LEMMA VisibleStable ==
  ASSUME RedisTypeOK(Event), StreamGrows, NEW e, Visible(e)
  PROVE  Visible(e)'
<1>1. PICK m \in Entries : stream[m] = e
  BY DEF Visible
<1>2. m \in Entries' /\ stream'[m] = e
  <2>1. Len(stream) \in Nat /\ (Len(stream) <= Len(stream'))
    BY DEF RedisTypeOK, StreamGrows
  <2> QED  BY <1>1, <2>1 DEF StreamGrows, Entries
<1> QED  BY <1>2 DEF Visible

\* With the ledger standing still, the stream's invariant is preserved.
LEMMA StreamPreserved ==
  ASSUME StreamInv, RedisStep, UNCHANGED ledger
  PROVE  StreamInv'
<1>1. RedisTypeOK(Event)' /\ StreamGrows
  BY RedisMoves DEF StreamInv
<1>2. /\ \A e : Enqueued(e)' <=> Enqueued(e)
      /\ \A t, g : Settled(t, g)' <=> Settled(t, g)
  BY DEF ledger, Enqueued, Settled, Present
<1> USE DEF RedisTypeOK, StreamInv, VisibleImpliesEnqueued, AckedIsSettled, Entries, InFlight,
            Undelivered
<1>3. CASE UNCHANGED redis
  BY <1>1, <1>2, <1>3 DEF redis
<1>4. ASSUME NEW e \in Event, Enqueued(e), Xadd(e)
      PROVE  StreamInv'
  <2>1. /\ Len(stream') = Len(stream) + 1 /\ stream'[Len(stream) + 1] = e
        /\ \A m \in 1..Len(stream) : stream'[m] = stream[m]
        /\ delivered' = delivered /\ pel' = pel
    BY <1>4 DEF Xadd
  <2>2. VisibleImpliesEnqueued'
    BY <1>2, <1>4, <2>1
  <2>3. AckedIsSettled'
    BY <1>2, <2>1
  <2> QED  BY <1>1, <2>2, <2>3
<1>5. CASE ReadGroup
  BY <1>1, <1>2, <1>5 DEF ReadGroup
<1>6. ASSUME NEW m \in idle, AutoClaim(m)
      PROVE  StreamInv'
  BY <1>1, <1>2, <1>6 DEF AutoClaim
<1>7. ASSUME NEW m \in Nat, Touch(m)
      PROVE  StreamInv'
  BY <1>1, <1>2, <1>7 DEF Touch
<1>8. ASSUME NEW m \in Entries, Settled(stream[m].task, stream[m].gen), Xack(m)
      PROVE  StreamInv'
  BY <1>1, <1>2, <1>8 DEF Xack
<1>9. ASSUME NEW m \in pel, IdleTimePasses(m)
      PROVE  StreamInv'
  BY <1>1, <1>2, <1>9 DEF IdleTimePasses
<1> QED  BY <1>3, <1>4, <1>5, <1>6, <1>7, <1>8, <1>9 DEF RedisStep

\* With the stream standing still, a transaction preserves it too.
LEMMA StreamStable ==
  ASSUME StreamInv, LedgerTypeOK, \A t \in TaskIds : TaskMove(t), UNCHANGED redis
  PROVE  StreamInv'
<1>1. ASSUME NEW m \in Entries
      PROVE  stream[m] \in Event /\ TaskMove(stream[m].task) /\ Enqueued(stream[m])
  <2>1. stream[m] \in Event
    BY DEF StreamInv, RedisTypeOK, Entries
  <2> QED  BY <2>1, EventFields DEF StreamInv, VisibleImpliesEnqueued
<1>2. ASSUME NEW m \in Entries
      PROVE  Enqueued(stream[m])'
  <2>1. stream' = stream
    BY DEF redis
  <2> QED  BY <1>1, <2>1, EnqueuedStable DEF Enqueued
<1>3. ASSUME NEW m \in Entries, Settled(stream[m].task, stream[m].gen)
      PROVE  Settled(stream[m].task, stream[m].gen)'
  <2>1. stream' = stream
    BY DEF redis
  <2> QED  BY <1>1, <1>3, <2>1, SettledStable DEF Settled, Present
<1> QED
  BY <1>2, <1>3
     DEF StreamInv, RedisTypeOK, VisibleImpliesEnqueued, AckedIsSettled, Entries, InFlight,
         Undelivered, redis
=============================================================================
