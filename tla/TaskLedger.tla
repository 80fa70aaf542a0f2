------------------------------ MODULE TaskLedger ------------------------------
(***************************************************************************)
(* The durable half of the control plane: the PostgreSQL tables            *)
(* worker_tasks, task_outbox and worker_dead_letters, and every statement  *)
(* (or transaction) the program runs on them.  Each operator below is one  *)
(* transaction; the modules that extend this one decide who runs it, when, *)
(* and what happens to the reply.                                          *)
(*                                                                         *)
(* Time is abstracted to what a WHERE clause can see of it: a task is due  *)
(* or not (next_run_at <= NOW()), its lease is live or not                 *)
(* (lease_expires_at > NOW()), an outbox claim is fresh or not             *)
(* (claim_expires_at > NOW()).  A row is always written "not due": being   *)
(* written due is the same as BackoffElapses coming at once.               *)
(***************************************************************************)
EXTENDS Naturals, Sequences, Functions

CONSTANTS
  TaskIds,        \* values of worker_tasks.id, a serial: never used twice
  Keys,           \* idempotency keys that clients submit under
  Names,          \* values of worker_tasks.lease_owner
  Dispatchers,    \* outbox dispatcher processes
  AttemptLimits,  \* values of max_attempts that tasks are submitted with
  MaxAttempts,    \* a bound on them
  None            \* SQL NULL

ASSUME LedgerConstants ==
  /\ MaxAttempts \in Nat \ {0}
  /\ AttemptLimits \subseteq 1..MaxAttempts
  /\ None \notin TaskIds \cup Keys \cup Names \cup Dispatchers

VARIABLES
  tasks,          \* worker_tasks, by id
  outbox,         \* task_outbox, by (task, generation)
  deadLetters     \* worker_dead_letters, in the order of their ids

ledger == <<tasks, outbox, deadLetters>>

Generations == 0..MaxAttempts
Event == [task : TaskIds, gen : Generations]

Waiting == {"PENDING", "RETRY_SCHEDULED"}
Terminal == {"DONE", "DEAD_LETTER"}
\* ABSENT: the id is not issued yet.  PURGED: the row was deleted; its other
\* fields are never read again.
Statuses == {"ABSENT", "ENQUEUED", "RUNNING", "PURGED"} \cup Waiting \cup Terminal

TaskRow ==
  [status : Statuses, attempts : Generations, max : 1..MaxAttempts,
   gen : Generations, owner : Names \cup {None}, live : BOOLEAN,
   due : BOOLEAN, key : Keys \cup {None}, origin : Nat]
\* Without a claim, claim = None and fresh = FALSE.
OutboxRow ==
  [state : {"absent", "pending", "published"},
   claim : Dispatchers \cup {None}, fresh : BOOLEAN]
DeadLetterRow ==
  [task : TaskIds, gen : Generations, replay : TaskIds \cup {None}]

LedgerTypeOK ==
  /\ tasks \in [TaskIds -> TaskRow]
  /\ outbox \in [Event -> OutboxRow]
  /\ deadLetters \in Seq(DeadLetterRow)

NewTask(status, max, key, origin) ==
  [status |-> status, attempts |-> 0, max |-> max, gen |-> 0, owner |-> None,
   live |-> FALSE, due |-> FALSE, key |-> key, origin |-> origin]
NoRow == [state |-> "absent", claim |-> None, fresh |-> FALSE]
PendingRow == [NoRow EXCEPT !.state = "pending"]

Present(t) == tasks[t].status \notin {"ABSENT", "PURGED"}
CurrentEvent(t) == [task |-> t, gen |-> tasks[t].gen]

LedgerInit ==
  /\ tasks = [t \in TaskIds |-> NewTask("ABSENT", 1, None, 0)]
  /\ outbox = [e \in Event |-> NoRow]
  /\ deadLetters = << >>

\* INSERT INTO task_outbox ... ON CONFLICT (task_id, delivery_generation) DO NOTHING
WithOutbox(e) ==
  IF outbox[e].state = "absent" THEN [outbox EXCEPT ![e] = PendingRow] ELSE outbox

-----------------------------------------------------------------------------
(* Producers and operators                                                 *)

\* The key is new: the task row and its outbox row are written together.
InsertTask(k, max) ==
  /\ \A t \in TaskIds : Present(t) => tasks[t].key # k
  /\ \E t \in TaskIds :
       /\ tasks[t].status = "ABSENT"
       /\ tasks' = [tasks EXCEPT ![t] = NewTask("PENDING", max, k, 0)]
       /\ outbox' = WithOutbox([task |-> t, gen |-> 0])
  /\ UNCHANGED deadLetters

\* Mutant: the conflicting insert starts the task over.
ResubmitResets(k) ==
  /\ \E t \in TaskIds :
       /\ Present(t) /\ tasks[t].key = k
       /\ tasks' = [tasks EXCEPT ![t].status = "PENDING"]
       /\ outbox' = [outbox EXCEPT ![CurrentEvent(t)] = PendingRow]
  /\ UNCHANGED deadLetters

\* The key is known: the row keeps its state, whatever it is.
ResubmitTask(k) ==
  /\ \E t \in TaskIds :
       /\ Present(t) /\ tasks[t].key = k
       /\ outbox' = IF tasks[t].status \in Waiting
                    THEN WithOutbox(CurrentEvent(t)) ELSE outbox
  /\ UNCHANGED <<tasks, deadLetters>>

Replayable == {i \in DOMAIN deadLetters : deadLetters[i].replay = None}

\* Mutant: the archive rows are not marked replayed.
ReplayUnmarked(batch, max) ==
  /\ batch # {} /\ batch \subseteq Replayable
  /\ \E id \in Injection(batch, {t \in TaskIds : tasks[t].status = "ABSENT"}) :
       /\ tasks' = [t \in TaskIds |->
            IF \E i \in batch : id[i] = t
            THEN NewTask("PENDING", max, None, CHOOSE i \in batch : id[i] = t)
            ELSE tasks[t]]
       /\ outbox' = [e \in Event |->
            IF e.gen = 0 /\ \E i \in batch : id[i] = e.task
            THEN PendingRow ELSE outbox[e]]
  /\ UNCHANGED deadLetters

\* One transaction replays a batch: a new task and outbox row for every
\* selected dead letter, and the archive row marked with its successor.
ReplayDeadLetters(batch, max) ==
  /\ batch # {} /\ batch \subseteq Replayable
  /\ \E id \in Injection(batch, {t \in TaskIds : tasks[t].status = "ABSENT"}) :
       /\ tasks' = [t \in TaskIds |->
            IF \E i \in batch : id[i] = t
            THEN NewTask("PENDING", max, None, CHOOSE i \in batch : id[i] = t)
            ELSE tasks[t]]
       /\ outbox' = [e \in Event |->
            IF e.gen = 0 /\ \E i \in batch : id[i] = e.task
            THEN PendingRow ELSE outbox[e]]
       /\ deadLetters' = [i \in DOMAIN deadLetters |->
            IF i \in batch THEN [deadLetters[i] EXCEPT !.replay = id[i]]
            ELSE deadLetters[i]]

\* Mutant: the sweep takes every finished task.
PurgeTerminal ==
  LET old == {t \in TaskIds : tasks[t].status \in Terminal}
  IN /\ old # {}
     /\ tasks' = [t \in TaskIds |->
          IF t \in old THEN [tasks[t] EXCEPT !.status = "PURGED"] ELSE tasks[t]]
     /\ outbox' = [e \in Event |-> IF e.task \in old THEN NoRow ELSE outbox[e]]
     /\ UNCHANGED deadLetters

\* The cleanup daemon's sweep: leased_at is never written, so every DONE row
\* goes, its outbox rows with it (ON DELETE CASCADE), and its key is free again.
PurgeDone ==
  LET done == {t \in TaskIds : tasks[t].status = "DONE"}
  IN /\ done # {}
     /\ tasks' = [t \in TaskIds |->
          IF t \in done THEN [tasks[t] EXCEPT !.status = "PURGED"] ELSE tasks[t]]
     /\ outbox' = [e \in Event |-> IF e.task \in done THEN NoRow ELSE outbox[e]]
     /\ UNCHANGED deadLetters

-----------------------------------------------------------------------------
(* Leases                                                                  *)

\* Mutants: lease_expires_at is not looked at; an expired lease is never taken over.
LeasableWhileLive(t, g) ==
  tasks[t].gen = g /\ tasks[t].due /\ tasks[t].status \in {"ENQUEUED", "RUNNING"}
LeasableOnce(t, g) ==
  tasks[t].gen = g /\ tasks[t].due /\ tasks[t].status = "ENQUEUED"

Leasable(t, g) ==
  /\ tasks[t].gen = g
  /\ tasks[t].due
  /\ \/ tasks[t].status = "ENQUEUED"
     \/ tasks[t].status = "RUNNING" /\ ~tasks[t].live

LeaseTask(t, g, name) ==
  /\ Leasable(t, g)
  /\ tasks' = [tasks EXCEPT ![t] =
       [@ EXCEPT !.status = "RUNNING", !.owner = name, !.live = TRUE]]
  /\ UNCHANGED <<outbox, deadLetters>>

\* Mutant: the clause forgets lease_owner.
FencedByGeneration(t, g, name) == tasks[t].status = "RUNNING" /\ tasks[t].gen = g

\* The WHERE clause that guards every write of a lease holder.
Fenced(t, g, name) ==
  tasks[t].status = "RUNNING" /\ tasks[t].gen = g /\ tasks[t].owner = name

Renewable(t, g, name) == Fenced(t, g, name) /\ tasks[t].live

\* The row with its lease columns set to NULL.
Unleased(t) == [tasks[t] EXCEPT !.owner = None, !.live = FALSE]

CompleteTask(t, g, name) ==
  /\ Fenced(t, g, name)
  /\ tasks' = [tasks EXCEPT ![t] = [Unleased(t) EXCEPT !.status = "DONE"]]
  /\ UNCHANGED <<outbox, deadLetters>>

\* Mutant: the task is released to PENDING, as if it had never been enqueued.
ReleaseToPending(t, g, name) ==
  /\ Fenced(t, g, name)
  /\ tasks' = [tasks EXCEPT ![t] = [Unleased(t) EXCEPT !.status = "PENDING"]]
  /\ UNCHANGED <<outbox, deadLetters>>

ReleaseForRecovery(t, g, name) ==
  /\ Fenced(t, g, name)
  /\ tasks' = [tasks EXCEPT ![t] = [Unleased(t) EXCEPT !.status = "ENQUEUED"]]
  /\ UNCHANGED <<outbox, deadLetters>>

\* Mutant: the status keeps the name it had before migration 0001.
RetryUnderOldName(t, g, name) ==
  /\ Fenced(t, g, name)
  /\ tasks' = [tasks EXCEPT ![t] =
       [Unleased(t) EXCEPT !.status = "RETRYING", !.attempts = @ + 1,
                           !.gen = @ + 1, !.due = FALSE]]
  /\ outbox' = WithOutbox([task |-> t, gen |-> g + 1])
  /\ UNCHANGED deadLetters

ScheduleRetry(t, g, name) ==
  /\ Fenced(t, g, name)
  /\ tasks' = [tasks EXCEPT ![t] =
       [Unleased(t) EXCEPT !.status = "RETRY_SCHEDULED", !.attempts = @ + 1,
                           !.gen = @ + 1, !.due = FALSE]]
  /\ outbox' = WithOutbox([task |-> t, gen |-> g + 1])
  /\ UNCHANGED deadLetters

\* Mutants: the last attempt is not counted; the archive row is written even when
\* the fenced update matched no row.
DeadLetterUncounted(t, g, name) ==
  /\ Fenced(t, g, name)
  /\ tasks' = [tasks EXCEPT ![t] = [Unleased(t) EXCEPT !.status = "DEAD_LETTER"]]
  /\ deadLetters' = Append(deadLetters, [task |-> t, gen |-> g, replay |-> None])
  /\ UNCHANGED outbox
DeadLetterUnfenced(t, g, name) ==
  /\ tasks' = IF ~Fenced(t, g, name) THEN tasks
              ELSE [tasks EXCEPT ![t] =
                     [Unleased(t) EXCEPT !.status = "DEAD_LETTER", !.attempts = @ + 1]]
  /\ deadLetters' = Append(deadLetters, [task |-> t, gen |-> g, replay |-> None])
  /\ UNCHANGED outbox

DeadLetterTask(t, g, name) ==
  /\ Fenced(t, g, name)
  /\ tasks' = [tasks EXCEPT ![t] =
       [Unleased(t) EXCEPT !.status = "DEAD_LETTER", !.attempts = @ + 1]]
  /\ deadLetters' = Append(deadLetters, [task |-> t, gen |-> g, replay |-> None])
  /\ UNCHANGED outbox

\* is_terminal_or_stale: nothing is left to do for this delivery.
Settled(t, g) ==
  ~Present(t) \/ tasks[t].gen # g \/ tasks[t].status \in Terminal

-----------------------------------------------------------------------------
(* The outbox                                                              *)

\* Mutant: a claim is never taken over.
ClaimableOnce(e) ==
  /\ outbox[e].state = "pending" /\ outbox[e].claim = None
  /\ tasks[e.task].due /\ tasks[e.task].gen = e.gen
  /\ tasks[e.task].status \in Waiting \cup {"ENQUEUED"}

Claimable(e) ==
  /\ outbox[e].state = "pending"
  /\ ~outbox[e].fresh
  /\ tasks[e.task].due
  /\ tasks[e.task].gen = e.gen
  /\ tasks[e.task].status \in Waiting \cup {"ENQUEUED"}

\* Mutant: the batch is claimed and its tasks are left as they are.
ClaimWithoutEnqueue(d, batch) ==
  /\ batch # {} /\ \A e \in batch : Claimable(e)
  /\ outbox' = [e \in Event |->
       IF e \in batch THEN [outbox[e] EXCEPT !.claim = d, !.fresh = TRUE]
       ELSE outbox[e]]
  /\ UNCHANGED <<tasks, deadLetters>>

\* Claims the batch for d and moves its tasks to ENQUEUED, in one transaction.
ClaimReady(d, batch) ==
  /\ batch # {} /\ \A e \in batch : Claimable(e)
  /\ outbox' = [e \in Event |->
       IF e \in batch THEN [outbox[e] EXCEPT !.claim = d, !.fresh = TRUE]
       ELSE outbox[e]]
  /\ tasks' = [t \in TaskIds |->
       IF CurrentEvent(t) \in batch /\ tasks[t].status \in Waiting
       THEN [tasks[t] EXCEPT !.status = "ENQUEUED"] ELSE tasks[t]]
  /\ UNCHANGED deadLetters

\* d's claim token is still on the unpublished row.  A dispatcher holds one
\* batch at a time and forgets its tokens when it dies, so d stands for the token.
ClaimHeld(d, e) == outbox[e].state = "pending" /\ outbox[e].claim = d

MarkPublished(d, e) ==
  /\ ClaimHeld(d, e)
  /\ outbox' = [outbox EXCEPT ![e] = [NoRow EXCEPT !.state = "published"]]
  /\ UNCHANGED <<tasks, deadLetters>>

RecordFailure(d, e) ==
  /\ ClaimHeld(d, e)
  /\ outbox' = [outbox EXCEPT ![e] = PendingRow]
  /\ UNCHANGED <<tasks, deadLetters>>

-----------------------------------------------------------------------------
(* The clock                                                               *)

BackoffElapses(t) ==
  /\ Present(t) /\ ~tasks[t].due
  /\ tasks' = [tasks EXCEPT ![t].due = TRUE]
  /\ UNCHANGED <<outbox, deadLetters>>

LeaseExpires(t) ==
  /\ tasks[t].status = "RUNNING" /\ tasks[t].live
  /\ tasks' = [tasks EXCEPT ![t].live = FALSE]
  /\ UNCHANGED <<outbox, deadLetters>>

ClaimExpires(e) ==
  /\ outbox[e].fresh
  /\ outbox' = [outbox EXCEPT ![e].fresh = FALSE]
  /\ UNCHANGED <<tasks, deadLetters>>
=============================================================================
