----------------------------- MODULE MCMigrations -----------------------------
(***************************************************************************)
(* ControlPlane under fairness, with apply_migrations run again in a       *)
(* maintenance window: the script keeps no history, so every run executes  *)
(* 0001_control_plane.sql again.  The processes are started again after it.*)
(***************************************************************************)
EXTENDS MCLiveness

Maintenance ==
  /\ \A w \in Workers : worker[w].pc = "down"
  /\ \A d \in Dispatchers : dispatcher[d].pc = "down"

\* RUNNING rows go back to PENDING; then waiting tasks get the outbox row of their
\* generation, ON CONFLICT DO NOTHING.
ControlPlaneMigration ==
  /\ tasks' = [t \in TaskIds |->
       IF tasks[t].status = "RUNNING" THEN [Unleased(t) EXCEPT !.status = "PENDING"]
       ELSE tasks[t]]
  /\ outbox' = [e \in Event |->
       IF /\ tasks'[e.task].status \in Waiting
          /\ tasks'[e.task].gen = e.gen
          /\ outbox[e].state = "absent"
       THEN PendingRow ELSE outbox[e]]
  /\ UNCHANGED deadLetters

Migrate ==
  /\ Maintenance /\ ControlPlaneMigration
  /\ UNCHANGED <<redis, worker, dispatcher, faults>>

MigrationSpec ==
  /\ Init /\ faults = 0
  /\ [][LiveNext \/ Migrate]_liveVars
  /\ Fairness
  /\ \A d \in Dispatchers : WF_liveVars(DispatcherRestart(d) /\ UNCHANGED faults)
  /\ \A w \in Workers : WF_liveVars(Restart(w) /\ UNCHANGED faults)

\* implemented.md: a hard crash recovers via lease expiry and Redis reclaim.  So a
\* task that its holder left RUNNING is held by a worker again, or is finished.
HardCrashRecovers ==
  \A t \in TaskIds :
    tasks[t].status = "RUNNING" /\ ~Attended(t)
      ~> Attended(t) \/ tasks[t].status \in Terminal \cup {"PURGED"}
=============================================================================
