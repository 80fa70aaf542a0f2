--------------------------- MODULE LifecycleProofs ---------------------------
(***************************************************************************)
(* ControlPlane implements TaskLifecycle: every step of the ledger is one  *)
(* step of the client's view of a task, or changes nothing a client sees.  *)
(* The invariant is needed where a client's view depends on more than the  *)
(* row: a failure is within the budget because attempts and generation     *)
(* agree, and a replay is of a dead task because archive and tasks do.     *)
(***************************************************************************)
EXTENDS ControlPlaneProofs

-----------------------------------------------------------------------------
(* The client's view                                                       *)

\* The task whose dead letter t replays.
Replayed(t) == IF tasks[t].origin = 0 THEN None ELSE deadLetters[tasks[t].origin].task

LEMMA PhaseNames ==
  ASSUME NEW t \in TaskIds, LedgerTypeOK
  PROVE  /\ tasks[t].status = "ABSENT" <=> Phase(t) = "none"
         /\ tasks[t].status \in Waiting \cup {"ENQUEUED"} <=> Phase(t) = "waiting"
         /\ tasks[t].status = "RUNNING" <=> Phase(t) = "running"
         /\ tasks[t].status = "DONE" <=> Phase(t) = "done"
         /\ tasks[t].status = "DEAD_LETTER" <=> Phase(t) = "dead"
         /\ tasks[t].status = "PURGED" <=> Phase(t) = "gone"
<1>1. tasks[t].status \in Statuses
  BY DEF LedgerTypeOK, TaskRow
<1> QED  BY <1>1 DEF Statuses, Waiting, Terminal, Phase, ClientView

\* The same of the state after a step.
LEMMA NextPhaseNames ==
  ASSUME NEW t \in TaskIds, LedgerTypeOK'
  PROVE  /\ tasks'[t].status = "ABSENT" <=> Phase(t)' = "none"
         /\ tasks'[t].status \in Waiting \cup {"ENQUEUED"} <=> Phase(t)' = "waiting"
         /\ tasks'[t].status = "RUNNING" <=> Phase(t)' = "running"
         /\ tasks'[t].status = "DONE" <=> Phase(t)' = "done"
         /\ tasks'[t].status = "DEAD_LETTER" <=> Phase(t)' = "dead"
         /\ tasks'[t].status = "PURGED" <=> Phase(t)' = "gone"
<1>1. tasks'[t].status \in Statuses
  BY DEF LedgerTypeOK, TaskRow
<1> QED  BY <1>1 DEF Statuses, Waiting, Terminal, Phase, ClientView

\* Archive rows keep their task, and origins stay: replayOf does not change.
LEMMA SameReplayed ==
  ASSUME ReplayLineage, NEW t \in TaskIds, tasks'[t].origin = tasks[t].origin,
         \A i \in DOMAIN deadLetters : deadLetters'[i].task = deadLetters[i].task
  PROVE  Replayed(t)' = Replayed(t)
BY DEF Replayed, ReplayLineage

\* What a client sees of t.
SameView(t) ==
  /\ Phase(t)' = Phase(t) /\ tasks'[t].attempts = tasks[t].attempts
  /\ tasks'[t].max = tasks[t].max /\ Replayed(t)' = Replayed(t)

LEMMA Stutters ==
  ASSUME \A t \in TaskIds : SameView(t)
  PROVE  UNCHANGED Lifecycle!vars
BY DEF SameView, Lifecycle!vars, Replayed

\* A row that is not written looks the same, as long as the archive keeps its tasks.
ArchiveKept == \A i \in DOMAIN deadLetters : deadLetters'[i].task = deadLetters[i].task

LEMMA RowNotWritten ==
  ASSUME ReplayLineage, ArchiveKept, NEW t \in TaskIds, tasks'[t] = tasks[t]
  PROVE  SameView(t)
<1>1. Replayed(t)' = Replayed(t)
  BY SameReplayed DEF ArchiveKept
<1> QED  BY <1>1 DEF SameView, Phase

\* A step that only changes phase and failures of one task.
LEMMA OneRow ==
  ASSUME ReplayLineage, ArchiveKept, NEW t \in TaskIds,
         \A u \in TaskIds \ {t} : tasks'[u] = tasks[u],
         tasks'[t].origin = tasks[t].origin, tasks'[t].max = tasks[t].max
  PROVE  /\ [u \in TaskIds |-> Phase(u)]' = [[u \in TaskIds |-> Phase(u)] EXCEPT ![t] = Phase(t)']
         /\ [u \in TaskIds |-> tasks[u].attempts]' =
              [[u \in TaskIds |-> tasks[u].attempts] EXCEPT ![t] = tasks'[t].attempts]
         /\ UNCHANGED [u \in TaskIds |-> tasks[u].max]
         /\ UNCHANGED [u \in TaskIds |-> Replayed(u)]
<1>1. \A u \in TaskIds \ {t} : SameView(u)
  BY RowNotWritten
<1>2. Replayed(t)' = Replayed(t)
  BY SameReplayed DEF ArchiveKept
<1> QED  BY <1>1, <1>2 DEF SameView

-----------------------------------------------------------------------------
(* The steps of a lease holder                                             *)

LEMMA HolderImplements ==
  ASSUME IInv, LedgerTypeOK', NEW e \in Event, NEW name \in Names, HolderStep(e, name)
  PROVE  [Lifecycle!Next]_Lifecycle!vars
<1> DEFINE t == e.task
<1>0. /\ t \in TaskIds /\ LedgerTypeOK /\ ReplayLineage /\ Accounts
      /\ tasks[t] \in TaskRow /\ tasks \in [TaskIds -> TaskRow]
  BY EventFields DEF IInv, LedgerInv, LedgerTypeOK
<1> HIDE DEF t
<1>1. ArchiveKept
  <2>1. CASE deadLetters' = deadLetters
    BY <2>1 DEF ArchiveKept
  <2>2. CASE DeadLetterTask(e.task, e.gen, name)
    BY <1>0, <2>2 DEF DeadLetterTask, ArchiveKept, LedgerTypeOK
  <2> QED  BY <2>1, <2>2
       DEF HolderStep, LeaseTask, CompleteTask, ReleaseForRecovery, ScheduleRetry
<1>2. \A u \in TaskIds \ {t} : tasks'[u] = tasks[u]
  BY <1>0 DEF t, HolderStep, LeaseTask, CompleteTask, ReleaseForRecovery, ScheduleRetry,
              DeadLetterTask
<1>3. tasks'[t].origin = tasks[t].origin /\ tasks'[t].max = tasks[t].max
  <2>1. CASE LeaseTask(t, e.gen, name)
    BY <1>0, <2>1 DEF LeaseTask, TaskRow
  <2>2. CASE CompleteTask(t, e.gen, name)
    BY <1>0, <2>2 DEF CompleteTask, Unleased, TaskRow
  <2>3. CASE ReleaseForRecovery(t, e.gen, name)
    BY <1>0, <2>3 DEF ReleaseForRecovery, Unleased, TaskRow
  <2>4. CASE ScheduleRetry(t, e.gen, name)
    BY <1>0, <2>4 DEF ScheduleRetry, Unleased, TaskRow
  <2>5. CASE DeadLetterTask(t, e.gen, name)
    BY <1>0, <2>5 DEF DeadLetterTask, Unleased, TaskRow
  <2> QED  BY <2>1, <2>2, <2>3, <2>4, <2>5 DEF HolderStep, t
<1>4. /\ [u \in TaskIds |-> Phase(u)]' = [[u \in TaskIds |-> Phase(u)] EXCEPT ![t] = Phase(t)']
      /\ [u \in TaskIds |-> tasks[u].attempts]' =
           [[u \in TaskIds |-> tasks[u].attempts] EXCEPT ![t] = tasks'[t].attempts]
      /\ UNCHANGED [u \in TaskIds |-> tasks[u].max]
      /\ UNCHANGED [u \in TaskIds |-> Replayed(u)]
  BY <1>0, <1>1, <1>2, <1>3, OneRow
<1>5. CASE LeaseTask(t, e.gen, name) /\ tasks[t].status = "ENQUEUED"
  <2>1. tasks'[t].status = "RUNNING" /\ tasks'[t].attempts = tasks[t].attempts
    BY <1>0, <1>5 DEF LeaseTask, TaskRow
  <2>2. Phase(t) = "waiting" /\ Phase(t)' = "running"
    BY <1>0, <1>5, <2>1, PhaseNames, NextPhaseNames
  <2>3. UNCHANGED [u \in TaskIds |-> tasks[u].attempts]
    BY <1>0, <1>4, <2>1
  <2>4. Lifecycle!Start(t)
    BY <1>0, <1>4, <2>2, <2>3 DEF Lifecycle!Start, Lifecycle!Move, Replayed
  <2> QED  BY <1>0, <2>4 DEF Lifecycle!Next
<1>6. CASE LeaseTask(t, e.gen, name) /\ tasks[t].status = "RUNNING"
  <2>1. tasks'[t].status = "RUNNING" /\ tasks'[t].attempts = tasks[t].attempts
    BY <1>0, <1>6 DEF LeaseTask, TaskRow
  <2>2. Phase(t) = Phase(t)'
    BY <1>6, <2>1 DEF Phase
  <2>3. SameView(t)
    BY <1>0, <1>1, <1>3, <2>1, <2>2, SameReplayed DEF SameView, ArchiveKept
  <2>4. \A u \in TaskIds : SameView(u)
    BY <1>0, <1>1, <1>2, <2>3, RowNotWritten
  <2> QED  BY <2>4, Stutters
<1>7. CASE CompleteTask(t, e.gen, name) \/ ReleaseForRecovery(t, e.gen, name)
  <2>1. tasks[t].status = "RUNNING" /\ tasks'[t].attempts = tasks[t].attempts
    <3>1. CASE CompleteTask(t, e.gen, name)
      BY <1>0, <3>1 DEF CompleteTask, Fenced, Unleased, TaskRow
    <3>2. CASE ReleaseForRecovery(t, e.gen, name)
      BY <1>0, <3>2 DEF ReleaseForRecovery, Fenced, Unleased, TaskRow
    <3> QED  BY <1>7, <3>1, <3>2
  <2>2. UNCHANGED [u \in TaskIds |-> tasks[u].attempts]
    BY <1>0, <1>4, <2>1
  <2>3. CASE CompleteTask(t, e.gen, name)
    <3>1. tasks'[t].status = "DONE"
      BY <1>0, <2>3 DEF CompleteTask, Unleased, TaskRow
    <3>2. Phase(t) = "running" /\ Phase(t)' = "done"
      BY <1>0, <2>1, <3>1, PhaseNames, NextPhaseNames
    <3>3. Lifecycle!Finish(t)
      BY <1>0, <1>4, <2>2, <3>2 DEF Lifecycle!Finish, Lifecycle!Move, Replayed
    <3> QED  BY <1>0, <3>3 DEF Lifecycle!Next
  <2>4. CASE ReleaseForRecovery(t, e.gen, name)
    <3>1. tasks'[t].status = "ENQUEUED"
      BY <1>0, <2>4 DEF ReleaseForRecovery, Unleased, TaskRow
    <3>2. Phase(t) = "running" /\ Phase(t)' = "waiting"
      BY <1>0, <2>1, <3>1, PhaseNames, NextPhaseNames
    <3>3. Lifecycle!Yield(t)
      BY <1>0, <1>4, <2>2, <3>2 DEF Lifecycle!Yield, Lifecycle!Move, Replayed
    <3> QED  BY <1>0, <3>3 DEF Lifecycle!Next
  <2> QED  BY <1>7, <2>3, <2>4
<1>8. CASE \/ ScheduleRetry(t, e.gen, name) /\ e.gen + 1 < tasks[t].max
           \/ DeadLetterTask(t, e.gen, name)
  <2>1. /\ tasks[t].status = "RUNNING" /\ tasks[t].gen = e.gen
        /\ tasks'[t].attempts = tasks[t].attempts + 1
    <3>1. CASE ScheduleRetry(t, e.gen, name)
      BY <1>0, <3>1 DEF ScheduleRetry, Fenced, Unleased, TaskRow
    <3>2. CASE DeadLetterTask(t, e.gen, name)
      BY <1>0, <3>2 DEF DeadLetterTask, Fenced, Unleased, TaskRow
    <3> QED  BY <1>8, <3>1, <3>2
  <2>2. tasks[t].attempts = tasks[t].gen /\ tasks[t].gen < tasks[t].max
    BY <1>0, <2>1, RowCounts DEF Accounts
  <2>3. tasks[t].attempts \in Nat /\ tasks[t].max \in Nat
    BY <1>0, <2>2, RowCounts
  <2>4. [u \in TaskIds |-> tasks[u].attempts]' =
          [[u \in TaskIds |-> tasks[u].attempts] EXCEPT ![t] = @ + 1]
    BY <1>0, <1>4, <2>1
  <2>5. CASE ScheduleRetry(t, e.gen, name) /\ e.gen + 1 < tasks[t].max
    <3>1. tasks'[t].status = "RETRY_SCHEDULED"
      BY <1>0, <2>5 DEF ScheduleRetry, Unleased, TaskRow
    <3>2. Phase(t) = "running" /\ Phase(t)' = "waiting"
      BY <1>0, <2>1, <3>1, PhaseNames, NextPhaseNames DEF Waiting
    <3>3. tasks[t].attempts + 1 < tasks[t].max
      BY <2>1, <2>2, <2>5
    <3>4. Lifecycle!Fail(t)
      BY <1>0, <1>4, <2>4, <3>2, <3>3 DEF Lifecycle!Fail, Lifecycle!Move, Replayed
    <3> QED  BY <1>0, <3>4 DEF Lifecycle!Next
  <2>6. CASE DeadLetterTask(t, e.gen, name)
    <3>1. tasks'[t].status = "DEAD_LETTER"
      BY <1>0, <2>6 DEF DeadLetterTask, Unleased, TaskRow
    <3>2. Phase(t) = "running" /\ Phase(t)' = "dead"
      BY <1>0, <2>1, <3>1, PhaseNames, NextPhaseNames
    <3>3. tasks[t].attempts + 1 <= tasks[t].max
      BY <2>2, <2>3
    <3>4. Lifecycle!Fail(t)
      BY <1>0, <1>4, <2>4, <3>2, <3>3 DEF Lifecycle!Fail, Lifecycle!Move, Replayed
    <3> QED  BY <1>0, <3>4 DEF Lifecycle!Next
  <2> QED  BY <1>8, <2>5, <2>6
<1>9. LeaseTask(t, e.gen, name) => tasks[t].status \in {"ENQUEUED", "RUNNING"}
  BY DEF LeaseTask, Leasable
<1> QED  BY <1>5, <1>6, <1>7, <1>8, <1>9 DEF HolderStep, t

-----------------------------------------------------------------------------
(* Submission, replay and cleanup                                          *)

LEMMA InsertImplements ==
  ASSUME IInv, LedgerTypeOK', NEW k \in Keys, NEW m \in AttemptLimits, InsertTask(k, m)
  PROVE  Lifecycle!Next
<1>0. /\ LedgerTypeOK /\ ReplayLineage /\ Accounts /\ Unborn
      /\ tasks \in [TaskIds -> TaskRow] /\ deadLetters' = deadLetters
  BY DEF IInv, LedgerInv, LedgerTypeOK, InsertTask
<1>1. PICK t \in TaskIds : /\ tasks[t].status = "ABSENT"
                           /\ tasks' = [tasks EXCEPT ![t] = NewTask("PENDING", m, k, 0)]
  BY DEF InsertTask
<1>2. /\ tasks'[t].status = "PENDING" /\ tasks'[t].attempts = 0
      /\ tasks'[t].max = m /\ tasks'[t].origin = 0
  BY <1>0, <1>1 DEF NewTask
<1>3. tasks[t].attempts = 0 /\ tasks[t].origin = 0
  BY <1>0, <1>1 DEF Accounts, Unborn
<1>4. \A u \in TaskIds \ {t} : SameView(u)
  <2>1. ArchiveKept /\ \A u \in TaskIds \ {t} : tasks'[u] = tasks[u]
    BY <1>0, <1>1 DEF ArchiveKept
  <2> QED  BY <1>0, <2>1, RowNotWritten
<1>5. Phase(t) = "none" /\ Phase(t)' = "waiting"
  BY <1>0, <1>1, <1>2, PhaseNames, NextPhaseNames DEF Waiting
<1>6. UNCHANGED [u \in TaskIds |-> Replayed(u)]
  <2>1. Replayed(t)' = Replayed(t)
    BY <1>2, <1>3 DEF Replayed
  <2> QED  BY <1>4, <2>1 DEF SameView
<1>7. Lifecycle!Submit(t, m)
  <2>1. UNCHANGED [u \in TaskIds |-> tasks[u].attempts]
    BY <1>2, <1>3, <1>4 DEF SameView
  <2>2. [u \in TaskIds |-> Phase(u)]' =
          [u \in TaskIds |-> IF u \in {t} THEN "waiting" ELSE [v \in TaskIds |-> Phase(v)][u]]
    BY <1>4, <1>5 DEF SameView
  <2>3. [u \in TaskIds |-> tasks[u].max]' =
          [u \in TaskIds |-> IF u \in {t} THEN m ELSE [v \in TaskIds |-> tasks[v].max][u]]
    BY <1>2, <1>4 DEF SameView
  <2> QED  BY <1>5, <1>6, <2>1, <2>2, <2>3 DEF Lifecycle!Submit, Lifecycle!Accept, Replayed
<1>8. m \in 1..MaxAttempts
  BY LedgerConstants DEF LedgerConstants
<1> QED  BY <1>7, <1>8 DEF Lifecycle!Next

LEMMA PurgeImplements ==
  ASSUME IInv, LedgerTypeOK', PurgeDone
  PROVE  Lifecycle!Next
<1> DEFINE old == {t \in TaskIds : tasks[t].status = "DONE"}
<1>0. /\ LedgerTypeOK /\ ReplayLineage /\ tasks \in [TaskIds -> TaskRow]
      /\ deadLetters' = deadLetters /\ old # {}
      /\ tasks' = [t \in TaskIds |->
           IF t \in old THEN [tasks[t] EXCEPT !.status = "PURGED"] ELSE tasks[t]]
  BY DEF IInv, LedgerInv, LedgerTypeOK, PurgeDone
<1>1. ArchiveKept
  BY <1>0 DEF ArchiveKept
<1>2. ASSUME NEW t \in TaskIds \ old
      PROVE  SameView(t)
  BY <1>0, <1>1, <1>2, RowNotWritten
<1>3. ASSUME NEW t \in old
      PROVE  /\ Phase(t) = "done" /\ Phase(t)' = "gone"
             /\ tasks'[t].attempts = tasks[t].attempts /\ tasks'[t].max = tasks[t].max
             /\ Replayed(t)' = Replayed(t)
  <2>1. /\ tasks'[t].status = "PURGED" /\ tasks'[t].origin = tasks[t].origin
        /\ tasks'[t].attempts = tasks[t].attempts /\ tasks'[t].max = tasks[t].max
    BY <1>0, <1>3 DEF TaskRow
  <2>2. Phase(t) = "done" /\ Phase(t)' = "gone"
    BY <1>0, <1>3, <2>1, PhaseNames, NextPhaseNames
  <2> QED  BY <1>0, <1>1, <1>3, <2>1, <2>2, SameReplayed DEF ArchiveKept
<1> HIDE DEF old
<1>4. old \in SUBSET TaskIds
  BY DEF old
<1>5. Lifecycle!Delete(old)
  <2>1. /\ UNCHANGED [u \in TaskIds |-> tasks[u].attempts]
        /\ UNCHANGED [u \in TaskIds |-> tasks[u].max]
        /\ UNCHANGED [u \in TaskIds |-> Replayed(u)]
    BY <1>2, <1>3 DEF SameView
  <2>2. [u \in TaskIds |-> Phase(u)]' =
          [u \in TaskIds |-> IF u \in old THEN "gone" ELSE [v \in TaskIds |-> Phase(v)][u]]
    BY <1>2, <1>3 DEF SameView
  <2> QED  BY <1>0, <1>3, <1>4, <2>1, <2>2 DEF Lifecycle!Delete, Replayed
<1> QED  BY <1>4, <1>5 DEF Lifecycle!Next

LEMMA ReplayImplements ==
  ASSUME IInv, LedgerInv', NEW batch \in SUBSET Replayable, NEW m \in AttemptLimits,
         ReplayDeadLetters(batch, m)
  PROVE  Lifecycle!Next
<1>0. /\ LedgerTypeOK /\ ReplayLineage /\ DeadLetterArchive /\ Accounts /\ Unborn
      /\ LedgerTypeOK' /\ ReplayLineage' /\ DeadLetterArchive'
  BY DEF IInv, LedgerInv
<1>1. PICK id \in Injection(batch, {t \in TaskIds : tasks[t].status = "ABSENT"}) :
        /\ tasks' = [t \in TaskIds |->
             IF \E i \in batch : id[i] = t
             THEN NewTask("PENDING", m, None, CHOOSE i \in batch : id[i] = t)
             ELSE tasks[t]]
        /\ deadLetters' = [i \in DOMAIN deadLetters |->
             IF i \in batch THEN [deadLetters[i] EXCEPT !.replay = id[i]]
             ELSE deadLetters[i]]
  BY DEF ReplayDeadLetters
<1> DEFINE new == {t \in TaskIds : \E i \in batch : id[i] = t}
<1>2. batch \subseteq DOMAIN deadLetters
  BY DEF Replayable
<1>3. deadLetters \in Seq(DeadLetterRow)
  BY <1>0 DEF LedgerTypeOK
<1>4. /\ ArchiveKept
      /\ DOMAIN deadLetters' = DOMAIN deadLetters /\ DOMAIN deadLetters \subseteq Nat \ {0}
      /\ \A i \in DOMAIN deadLetters : deadLetters[i] \in DeadLetterRow
  <2>1. \A i \in DOMAIN deadLetters : deadLetters[i] \in DeadLetterRow /\ i \in Nat \ {0}
    BY <1>3
  <2> QED  BY <1>1, <2>1 DEF ArchiveKept, DeadLetterRow
<1>5. ASSUME NEW t \in TaskIds \ new
      PROVE  SameView(t)
  <2>1. tasks'[t] = tasks[t]
    BY <1>1
  <2> QED  BY <1>0, <1>4, <2>1, RowNotWritten
<1>6. ASSUME NEW t \in new
      PROVE  /\ tasks[t].status = "ABSENT" /\ tasks[t].attempts = 0
             /\ tasks'[t].status = "PENDING" /\ tasks'[t].attempts = 0 /\ tasks'[t].max = m
             /\ tasks'[t].origin \in DOMAIN deadLetters
  <2>1. (CHOOSE i \in batch : id[i] = t) \in batch
    OBVIOUS
  <2>2. tasks'[t] = NewTask("PENDING", m, None, CHOOSE i \in batch : id[i] = t)
    BY <1>1
  <2>3. tasks[t].status = "ABSENT"
    BY DEF Injection
  <2>4. tasks[t].attempts = 0
    BY <1>0, <2>3 DEF Accounts, Unborn
  <2> QED  BY <1>2, <2>1, <2>2, <2>3, <2>4 DEF NewTask
<1> HIDE DEF new
<1>7. new \in SUBSET TaskIds
  BY DEF new
\* What a new task replays is a dead task.
<1>8. ASSUME NEW t \in new
      PROVE  /\ Replayed(t)' = deadLetters[tasks'[t].origin].task
             /\ Replayed(t)' \in TaskIds /\ Phase(Replayed(t)') = "dead"
  <2> DEFINE i == tasks'[t].origin
             u == deadLetters[i].task
  <2>1. i \in DOMAIN deadLetters /\ i # 0
    BY <1>4, <1>6
  <2>2. Replayed(t)' = u
    BY <1>4, <2>1 DEF Replayed, ArchiveKept
  <2>3. u \in TaskIds
    BY <1>4, <2>1 DEF DeadLetterRow
  <2>4. tasks[u].status = "DEAD_LETTER"
    BY <1>0, <2>1, <2>3 DEF DeadLetterArchive
  <2>5. Phase(u) = "dead"
    BY <1>0, <2>3, <2>4, PhaseNames
  <2> QED  BY <2>2, <2>3, <2>5
\* No other task replays the same.
<1>9. ASSUME NEW t \in new, NEW u \in TaskIds \ {t}
      PROVE  Replayed(u)' # Replayed(t)'
  <2>1. SUFFICES ASSUME Replayed(u)' = Replayed(t)'
                 PROVE  FALSE
    OBVIOUS
  <2> DEFINE i == tasks'[t].origin
             j == tasks'[u].origin
             v == deadLetters'[i].task
             rows == {n \in DOMAIN deadLetters' : deadLetters'[n].task = v}
  <2>2. i \in DOMAIN deadLetters' /\ i # 0 /\ t \in TaskIds
    BY <1>4, <1>6, <1>7
  <2>3. Replayed(t)' = v /\ v \in TaskIds
    BY <1>8, <2>2 DEF Replayed
  <2>4. j # 0
    BY <2>1, <2>3, LedgerConstants DEF Replayed, LedgerConstants
  <2>5. j \in DOMAIN deadLetters' /\ deadLetters'[j].replay = u
    BY <1>0, <2>4 DEF ReplayLineage
  <2>6. deadLetters'[j].task = v
    BY <2>1, <2>3, <2>4 DEF Replayed
  <2>7. i \in rows /\ j \in rows
    BY <2>2, <2>5, <2>6
  <2>8. \E n \in rows : rows = {n}
    BY <1>0, <2>3, <2>7 DEF DeadLetterArchive
  <2>9. deadLetters'[i].replay = t
    BY <1>0, <2>2 DEF ReplayLineage
  <2> QED  BY <2>5, <2>7, <2>8, <2>9
<1>10. Lifecycle!Accept(new, m)
  <2>1. \A t \in new : Phase(t) = "none" /\ Phase(t)' = "waiting"
    BY <1>0, <1>6, <1>7, PhaseNames, NextPhaseNames DEF Waiting
  <2>2. UNCHANGED [u \in TaskIds |-> tasks[u].attempts]
    BY <1>5, <1>6 DEF SameView
  <2>3. [u \in TaskIds |-> Phase(u)]' =
          [u \in TaskIds |-> IF u \in new THEN "waiting" ELSE [v \in TaskIds |-> Phase(v)][u]]
    BY <1>5, <2>1 DEF SameView
  <2>4. [u \in TaskIds |-> tasks[u].max]' =
          [u \in TaskIds |-> IF u \in new THEN m ELSE [v \in TaskIds |-> tasks[v].max][u]]
    BY <1>5, <1>6 DEF SameView
  <2> QED  BY <1>7, <2>1, <2>2, <2>3, <2>4 DEF Lifecycle!Accept
<1>11. Lifecycle!Replay(new, m)
  <2>1. \A t \in TaskIds \ new : Replayed(t)' = Replayed(t)
    BY <1>5 DEF SameView
  <2>2. \A t \in TaskIds : Replayed(t)' \in TaskIds \cup {None}
    <3>1. ASSUME NEW t \in TaskIds \ new
          PROVE  Replayed(t) \in TaskIds \cup {None}
      BY <1>0, <1>4 DEF Replayed, ReplayLineage, DeadLetterRow
    <3> QED  BY <1>8, <2>1, <3>1
  <2>3. \A t \in new : Replayed(t)' # None
    BY <1>8, LedgerConstants DEF LedgerConstants
  <2> DEFINE before == [u \in TaskIds |-> Replayed(u)]
             after == [u \in TaskIds |-> Replayed(u)']
  <2>4. after \in [TaskIds -> TaskIds \cup {None}]
    BY <2>2
  <2>5. \A t \in TaskIds :
          IF t \in new
          THEN /\ after[t] # None /\ [u \in TaskIds |-> Phase(u)][after[t]] = "dead"
               /\ \A u \in TaskIds \ {t} : after[u] # after[t]
          ELSE after[t] = before[t]
    BY <1>8, <1>9, <2>1, <2>3
  <2> QED  BY <1>10, <2>4, <2>5 DEF Lifecycle!Replay, Replayed
<1>12. m \in 1..MaxAttempts
  BY LedgerConstants DEF LedgerConstants
<1> QED  BY <1>7, <1>11, <1>12 DEF Lifecycle!Next

-----------------------------------------------------------------------------
(* The other steps change nothing a client sees                            *)

\* A row keeps its view if its phase stays and nothing else of it changes that a
\* client sees.
LEMMA RowKeepsView ==
  ASSUME ReplayLineage, deadLetters' = deadLetters, NEW t \in TaskIds,
         Phase(t)' = Phase(t), tasks'[t].attempts = tasks[t].attempts,
         tasks'[t].max = tasks[t].max, tasks'[t].origin = tasks[t].origin
  PROVE  SameView(t)
BY SameReplayed DEF SameView

LEMMA ClaimKeepsViews ==
  ASSUME IInv, LedgerTypeOK', NEW d \in Dispatchers, NEW batch \in SUBSET Event,
         ClaimReady(d, batch)
  PROVE  \A t \in TaskIds : SameView(t)
<1>0. LedgerTypeOK /\ ReplayLineage /\ deadLetters' = deadLetters
  BY DEF IInv, LedgerInv, ClaimReady
<1>1. SUFFICES ASSUME NEW t \in TaskIds
               PROVE  SameView(t)
  OBVIOUS
<1>2. CASE tasks'[t] = tasks[t]
  BY <1>0, <1>2, RowNotWritten DEF ArchiveKept
<1>3. CASE /\ tasks[t].status \in Waiting
           /\ tasks'[t] = [tasks[t] EXCEPT !.status = "ENQUEUED"]
  <2>1. /\ tasks'[t].status = "ENQUEUED" /\ tasks'[t].attempts = tasks[t].attempts
        /\ tasks'[t].max = tasks[t].max /\ tasks'[t].origin = tasks[t].origin
    BY <1>0, <1>3 DEF LedgerTypeOK, TaskRow
  <2>2. Phase(t) = "waiting" /\ Phase(t)' = "waiting"
    BY <1>0, <1>3, <2>1, PhaseNames, NextPhaseNames
  <2> QED  BY <1>0, <2>1, <2>2, RowKeepsView
<1> QED  BY <1>2, <1>3 DEF ClaimReady

LEMMA ClockKeepsViews ==
  ASSUME IInv, NEW t \in TaskIds, BackoffElapses(t) \/ LeaseExpires(t)
  PROVE  \A u \in TaskIds : SameView(u)
<1>0. /\ LedgerTypeOK /\ ReplayLineage /\ deadLetters' = deadLetters
      /\ \A u \in TaskIds \ {t} : tasks'[u] = tasks[u]
  <2>1. LedgerTypeOK /\ ReplayLineage /\ tasks \in [TaskIds -> TaskRow]
    BY DEF IInv, LedgerInv, LedgerTypeOK
  <2> QED  BY <2>1 DEF BackoffElapses, LeaseExpires
<1>1. /\ tasks'[t].status = tasks[t].status /\ tasks'[t].attempts = tasks[t].attempts
      /\ tasks'[t].max = tasks[t].max /\ tasks'[t].origin = tasks[t].origin
  <2>1. CASE BackoffElapses(t)
    BY <1>0, <2>1 DEF BackoffElapses, LedgerTypeOK, TaskRow
  <2>2. CASE LeaseExpires(t)
    BY <1>0, <2>2 DEF LeaseExpires, LedgerTypeOK, TaskRow
  <2> QED  BY <2>1, <2>2
<1>2. SameView(t)
  BY <1>0, <1>1, RowKeepsView DEF Phase
<1>3. \A u \in TaskIds \ {t} : SameView(u)
  BY <1>0, RowNotWritten DEF ArchiveKept
<1> QED  BY <1>2, <1>3

\* A transaction that writes neither tasks nor the archive.
LEMMA OutboxOnly ==
  ASSUME IInv, tasks' = tasks, deadLetters' = deadLetters
  PROVE  \A t \in TaskIds : SameView(t)
BY RowNotWritten DEF IInv, LedgerInv, ArchiveKept

-----------------------------------------------------------------------------
(* The theorem                                                             *)

LEMMA StepImplements ==
  ASSUME IInv, LedgerInv', LedgerStep
  PROVE  [Lifecycle!Next]_Lifecycle!vars
<1>0. LedgerTypeOK'
  BY DEF LedgerInv
<1>1. ASSUME NEW k \in Keys, NEW m \in AttemptLimits, InsertTask(k, m)
      PROVE  Lifecycle!Next
  BY <1>0, <1>1, InsertImplements
<1>2. ASSUME NEW batch \in SUBSET Replayable, NEW m \in AttemptLimits, ReplayDeadLetters(batch, m)
      PROVE  Lifecycle!Next
  BY <1>2, ReplayImplements
<1>3. CASE PurgeDone
  BY <1>0, <1>3, PurgeImplements
<1>4. ASSUME NEW e \in Event, NEW name \in Names, HolderStep(e, name)
      PROVE  [Lifecycle!Next]_Lifecycle!vars
  BY <1>0, <1>4, HolderImplements
<1>5. ASSUME NEW d \in Dispatchers, NEW batch \in SUBSET Event, ClaimReady(d, batch)
      PROVE  UNCHANGED Lifecycle!vars
  BY <1>0, <1>5, ClaimKeepsViews, Stutters
<1>6. ASSUME NEW t \in TaskIds, BackoffElapses(t) \/ LeaseExpires(t)
      PROVE  UNCHANGED Lifecycle!vars
  BY <1>6, ClockKeepsViews, Stutters
<1>7. ASSUME \/ UNCHANGED ledger
             \/ \E k \in Keys : ResubmitTask(k)
             \/ \E d \in Dispatchers, e \in Event : MarkPublished(d, e) \/ RecordFailure(d, e)
             \/ \E e \in Event : ClaimExpires(e)
      PROVE  UNCHANGED Lifecycle!vars
  <2>1. tasks' = tasks /\ deadLetters' = deadLetters
    BY <1>7 DEF ledger, ResubmitTask, MarkPublished, RecordFailure, ClaimExpires
  <2> QED  BY <2>1, OutboxOnly, Stutters
<1> QED  BY <1>1, <1>2, <1>3, <1>4, <1>5, <1>6, <1>7 DEF LedgerStep

LEMMA InitImplements == Init => Lifecycle!Init
<1> SUFFICES ASSUME Init
             PROVE  Lifecycle!Init
  OBVIOUS
<1>1. \A t \in TaskIds : tasks[t] = NewTask("ABSENT", 1, None, 0)
  BY DEF Init, LedgerInit
<1>2. \A t \in TaskIds : /\ Phase(t) = "none" /\ tasks[t].attempts = 0
                         /\ tasks[t].max = 1 /\ Replayed(t) = None
  BY <1>1 DEF NewTask, Phase, ClientView, Replayed
<1> QED  BY <1>2 DEF Lifecycle!Init, Replayed

\* The tables, the stream, the dispatchers and the workers together keep the
\* promise made to a client: every step is one of TaskLifecycle or not visible.
THEOREM ImplementsLifecycle == Spec => LifecycleSpec
<1>1. Init => Lifecycle!Init
  BY InitImplements
<1>2. IInv /\ [Next]_vars => [Lifecycle!Next]_Lifecycle!vars
  <2> SUFFICES ASSUME IInv, [Next]_vars
               PROVE  [Lifecycle!Next]_Lifecycle!vars
    OBVIOUS
  <2>1. Step /\ LedgerInv'
    BY NextStep, StepPreserves
  <2>2. LedgerStep
    BY <2>1 DEF Step, LedgerStep
  <2> QED  BY <2>1, <2>2, StepImplements
<1> QED  BY <1>1, <1>2, Invariance, PTL DEF Spec, LifecycleSpec, Lifecycle!Spec
=============================================================================
