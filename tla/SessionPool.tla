----------------------------- MODULE SessionPool ------------------------------
(***************************************************************************)
(* The tables service_tokens and service_token_leases, and the statements  *)
(* that TokenRepository, the token refresh service and the two seeding     *)
(* scripts run on them.  Each operator is one transaction or, inside       *)
(* checkout_token, one statement: under READ COMMITTED every statement     *)
(* sees the rows committed before it began.                                *)
(*                                                                         *)
(* Timestamps are the facts compared with NOW(): "cooling" stands for      *)
(* cooldown_until > NOW(), "live" for lease_expires_at > NOW().  Which of  *)
(* several free sessions comes first (last_leased_at, id) is left open.    *)
(***************************************************************************)
EXTENDS Integers, FiniteSets

CONSTANTS
  Sessions,         \* the rows of service_tokens
  Names,            \* the worker ids that leases are taken under
  MaxConcurrency,   \* max_concurrency of each session
  MaxLeases         \* bound on lease rows and remembered leases at a time

ASSUME PoolConstants ==
  /\ MaxConcurrency \in [Sessions -> Nat \ {0}]
  /\ MaxLeases \in Nat

VARIABLES
  session,          \* service_tokens
  leases            \* service_token_leases

pool == <<session, leases>>

\* The first try runs under "<worker>", the second under "<worker>:failover".
Attempts == {"primary", "failover"}
Owners == Names \X Attempts

\* last_error by what the refresh service's LIKE patterns make of it: "auth" when
\* one of them matches.  login says whether token_value holds the email and the
\* password that a new login needs; the cookies of a login do not.
SessionRow ==
  [status : {"ACTIVE", "COOLDOWN", "REVOKED"}, cooling : BOOLEAN,
   error : {"none", "auth", "other"}, login : BOOLEAN]
LeaseRow == [id : 1..MaxLeases, session : Sessions, owner : Owners, live : BOOLEAN]

PoolTypeOK ==
  /\ session \in [Sessions -> SessionRow]
  /\ leases \subseteq LeaseRow

PoolInit ==
  /\ session \in [Sessions -> [status : {"ACTIVE"}, cooling : {FALSE},
                               error : {"none"}, login : BOOLEAN]]
  /\ leases = {}

-----------------------------------------------------------------------------
(* checkout_token                                                          *)

Live(s) == {l \in leases : l.session = s /\ l.live}
Open(s) == session[s].status = "ACTIVE" /\ ~session[s].cooling

\* Mutant: a session is free up to and including its limit.
OneSlotTooMany == {s \in Sessions : Open(s) /\ Cardinality(Live(s)) <= MaxConcurrency[s]}

\* What the SELECT finds when it begins.
FreeSessions == {s \in Sessions : Open(s) /\ Cardinality(Live(s)) < MaxConcurrency[s]}

SweepExpired == leases' = {l \in leases : l.live}

\* Mutant: the row is locked without looking at it again.
RecheckedNothing(s) == TRUE

\* FOR UPDATE evaluates the WHERE clause again on the newest version of the locked
\* row, but its subquery still counts the leases of the statement's snapshot.
StillOpen(s) == Open(s)

Taken(s, owner) == \E l \in leases : l.session = s /\ l.owner = owner

\* Mutant: no UNIQUE constraint.
InsertAnyway(s, owner, id) ==
  /\ leases' = leases \cup {[id |-> id, session |-> s, owner |-> owner, live |-> TRUE]}
  /\ UNCHANGED session

InsertLease(s, owner, id) ==
  /\ ~Taken(s, owner)
  /\ leases' = leases \cup {[id |-> id, session |-> s, owner |-> owner, live |-> TRUE]}
  /\ UNCHANGED session

-----------------------------------------------------------------------------
(* The end of a lease                                                      *)

\* Mutant: DELETE ... WHERE lease_owner = $2, whatever the id of the row.
DeletedByOwner(owner, id) == {l \in leases : l.owner = owner}

Deleted(owner, id) == {l \in leases : l.id = id /\ l.owner = owner}

\* Mutant: last_error = NULL, whatever the status.
ClearsError(s) == [session EXCEPT ![s].error = "none"]

\* A success clears last_error unless somebody else has meanwhile benched the session.
Succeeded(s) ==
  IF session[s].status = "ACTIVE" THEN [session EXCEPT ![s].error = "none"] ELSE session

RecordSuccess(s, owner, id) ==
  /\ session' = Succeeded(s)
  /\ leases' = leases \ Deleted(owner, id)

ReleaseLease(owner, id) ==
  /\ leases' = leases \ Deleted(owner, id)
  /\ UNCHANGED session

\* Whatever the status was, and with no look at the lease.
MarkCooldown(s, owner, id, error) ==
  /\ session' = [session EXCEPT ![s] =
       [@ EXCEPT !.status = "COOLDOWN", !.cooling = TRUE, !.error = error]]
  /\ leases' = leases \ Deleted(owner, id)

-----------------------------------------------------------------------------
(* Recovery, repair and seeding                                            *)

\* Mutant: only what the refresh service does not care for is recovered.
RestedUnlessAuth(s) ==
  session[s].status = "COOLDOWN" /\ ~session[s].cooling /\ session[s].error # "auth"

Rested(s) == session[s].status = "COOLDOWN" /\ ~session[s].cooling

RecoverExpiredCooldowns ==
  /\ \E s \in Sessions : Rested(s)
  /\ session' = [s \in Sessions |->
       IF Rested(s)
       THEN [session[s] EXCEPT !.status = "ACTIVE", !.error = "none"]
       ELSE session[s]]
  /\ UNCHANGED leases

\* The rows scan_and_triage_dead_tokens selects.
Dead(s) == session[s].status = "COOLDOWN" /\ session[s].error = "auth"

\* Mutant: a status that nothing else knows; the column has no CHECK.
Invalidated(s) ==
  /\ session' = [session EXCEPT ![s] = [@ EXCEPT !.status = "INVALID", !.error = "auth"]]
  /\ UNCHANGED leases

\* Both updates of the refresh service go by id alone.
Repaired(s) ==
  /\ session' = [session EXCEPT ![s] =
       [status |-> "ACTIVE", cooling |-> FALSE, error |-> "none", login |-> FALSE]]
  /\ UNCHANGED leases

Revoked(s) ==
  /\ session' = [session EXCEPT ![s] = [@ EXCEPT !.status = "REVOKED", !.error = "auth"]]
  /\ UNCHANGED leases

\* bulk_account_seeder: fresh cookies; cooldown_until and last_error stay.
RegisterAccount(s) ==
  /\ session' = [session EXCEPT ![s] = [@ EXCEPT !.status = "ACTIVE", !.login = FALSE]]
  /\ UNCHANGED leases

\* seed_test: an empty token_value, to keep the session out of use.
SeedRevoked(s) ==
  /\ session' = [session EXCEPT ![s] = [@ EXCEPT !.status = "REVOKED", !.login = FALSE]]
  /\ UNCHANGED leases

\* Time.
CooldownElapses(s) ==
  /\ session[s].cooling
  /\ session' = [session EXCEPT ![s].cooling = FALSE]
  /\ UNCHANGED leases

LeaseRunsOut(l) ==
  /\ l \in leases /\ l.live
  /\ leases' = (leases \ {l}) \cup {[l EXCEPT !.live = FALSE]}
  /\ UNCHANGED session
=============================================================================
