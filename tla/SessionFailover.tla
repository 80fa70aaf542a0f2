--------------------------- MODULE SessionFailover ----------------------------
(***************************************************************************)
(* The collectors (IngestionExecutor.collect, one page after another: a    *)
(* session, a second session after a session fault, then the recovery      *)
(* adapter), the loop that ends cooldowns and the token refresh service,   *)
(* over the session pool.  A collection may be cancelled, and a process    *)
(* may die, at any await.                                                  *)
(***************************************************************************)
EXTENDS SessionPool

CONSTANTS
  Collectors,       \* the worker_loop coroutines, over all processes
  CollectorName,    \* the worker_id each of them runs under
  HasRecovery       \* whether a recovery adapter (no session needed) is configured

ASSUME FailoverConstants ==
  /\ IsFiniteSet(Collectors)
  /\ CollectorName \in [Collectors -> Names]
  /\ HasRecovery \in BOOLEAN

VARIABLES
  collector,        \* where each collector is and the TokenLease it holds
  repairs           \* the rows the refresh service has selected and not yet handled

sessionVars == <<pool, collector, repairs>>

\* "choosing" is the SELECT of checkout_token between its snapshot and its row
\* lock; seen is what the snapshot offers.  id 0 is no lease.
CollectorState ==
  [pc : {"ready", "choosing", "using", "recovering"}, attempt : Attempts,
   seen : SUBSET Sessions, held : SUBSET Sessions, id : 0..MaxLeases]
Ready(attempt) ==
  [pc |-> "ready", attempt |-> attempt, seen |-> {}, held |-> {}, id |-> 0]
Recovering ==
  [pc |-> "recovering", attempt |-> "failover", seen |-> {}, held |-> {}, id |-> 0]

\* scan_and_triage_dead_tokens reads token_value together with the id.
Repair == [session : Sessions, login : BOOLEAN]

Init ==
  /\ PoolInit
  /\ collector = [c \in Collectors |-> Ready("primary")]
  /\ repairs = {}

Become(c, state) == collector' = [collector EXCEPT ![c] = state]
Owner(c) == <<CollectorName[c], collector[c].attempt>>
Uses(c, s) == collector[c].pc = "using" /\ s \in collector[c].held

\* BIGSERIAL never gives an id twice; here an id that is in no row and in nobody's
\* memory may come again, which nothing can tell.
FreshIds ==
  (1..MaxLeases) \ ({l.id : l \in leases} \cup {collector[c].id : c \in Collectors})

-----------------------------------------------------------------------------
(* The collector                                                           *)

\* checkout_token deletes what has expired and starts its SELECT.
BeginCheckout(c) ==
  /\ collector[c].pc = "ready"
  /\ SweepExpired
  /\ Become(c, [collector[c] EXCEPT !.pc = "choosing", !.seen = FreeSessions])
  /\ UNCHANGED <<session, repairs>>

\* It locks a session it has seen and commits a lease for it.
Checkout(c) ==
  /\ collector[c].pc = "choosing"
  /\ \E s \in collector[c].seen, id \in FreshIds :
       /\ StillOpen(s)
       /\ \A j \in FreshIds : id <= j
       /\ InsertLease(s, Owner(c), id)
       /\ Become(c, [collector[c] EXCEPT !.pc = "using", !.seen = {}, !.held = {s}, !.id = id])
  /\ UNCHANGED repairs

\* UNIQUE (token_id, lease_owner): the INSERT raises, which is no CollectionError.
CheckoutConflict(c) ==
  /\ collector[c].pc = "choosing"
  /\ \E s \in collector[c].seen : StillOpen(s) /\ Taken(s, Owner(c))
  /\ Become(c, Ready("primary"))
  /\ UNCHANGED <<pool, repairs>>

\* What follows a CollectionError: a session fault of the first session leads to a
\* second one, anything else to the recovery adapter or out of collect().
AfterError(c, fault) ==
  Become(c, IF fault /\ collector[c].attempt = "primary" THEN Ready("failover")
            ELSE IF HasRecovery THEN Recovering ELSE Ready("primary"))

\* No session is free, or SKIP LOCKED passes over the ones that are, because some
\* transaction is at that moment updating them: AuthenticationFailure, and no lease.
NoSession(c) ==
  /\ collector[c].pc = "choosing"
  /\ AfterError(c, TRUE)
  /\ UNCHANGED <<pool, repairs>>

CollectSucceeds(c) ==
  /\ \E s \in Sessions : Uses(c, s) /\ RecordSuccess(s, Owner(c), collector[c].id)
  /\ Become(c, Ready("primary"))
  /\ UNCHANGED repairs

\* AuthenticationFailure, whose failure_class matches '%auth%', or RateLimited.
SessionFails(c) ==
  /\ \E s \in Sessions, error \in {"auth", "other"} :
       Uses(c, s) /\ MarkCooldown(s, Owner(c), collector[c].id, error)
  /\ AfterError(c, TRUE)
  /\ UNCHANGED repairs

\* Any other CollectionError, or an exception that is none and leaves collect().
CollectFails(c) ==
  /\ collector[c].pc = "using"
  /\ ReleaseLease(Owner(c), collector[c].id)
  /\ AfterError(c, FALSE) \/ Become(c, Ready("primary"))
  /\ UNCHANGED repairs

\* The recovery adapter returns or raises.
RecoveryEnds(c) ==
  /\ collector[c].pc = "recovering"
  /\ Become(c, Ready("primary"))
  /\ UNCHANGED <<pool, repairs>>

\* CancelledError is no Exception, and the calls that end a lease may themselves
\* raise: whatever row the collector has stays behind.
Abandon(c) ==
  /\ collector[c] # Ready("primary")
  /\ Become(c, Ready("primary"))
  /\ UNCHANGED <<pool, repairs>>

-----------------------------------------------------------------------------
(* The daemons                                                             *)

RecoverCooldowns == RecoverExpiredCooldowns /\ UNCHANGED <<collector, repairs>>

ScanDead ==
  /\ repairs = {}
  /\ \E s \in Sessions : Dead(s)
  /\ repairs' = {[session |-> s, login |-> session[s].login] : s \in {s \in Sessions : Dead(s)}}
  /\ UNCHANGED <<pool, collector>>

\* programmatically_repair_session, its login and its update: without credentials
\* it returns, and a login that fails for whatever reason revokes the session.
RepairSession ==
  /\ \E r \in repairs :
       /\ repairs' = repairs \ {r}
       /\ IF r.login THEN Repaired(r.session) \/ Revoked(r.session) ELSE UNCHANGED pool
  /\ UNCHANGED collector

\* An error of the database ends the service in the middle of its list.
RefresherStops ==
  /\ repairs # {} /\ repairs' = {}
  /\ UNCHANGED <<pool, collector>>

\* The operator's scripts.
Seed(s) ==
  /\ RegisterAccount(s) \/ SeedRevoked(s)
  /\ UNCHANGED <<collector, repairs>>

CoolsDown(s) == CooldownElapses(s) /\ UNCHANGED <<collector, repairs>>
LeaseTimeout(l) == LeaseRunsOut(l) /\ UNCHANGED <<collector, repairs>>

CollectorStep(c) ==
  \/ BeginCheckout(c) \/ Checkout(c) \/ CheckoutConflict(c) \/ NoSession(c)
  \/ CollectSucceeds(c) \/ SessionFails(c) \/ CollectFails(c) \/ RecoveryEnds(c)

Next ==
  \/ \E c \in Collectors : CollectorStep(c) \/ Abandon(c)
  \/ RecoverCooldowns \/ ScanDead \/ RepairSession \/ RefresherStops
  \/ \E s \in Sessions : Seed(s) \/ CoolsDown(s)
  \/ \E l \in leases : LeaseTimeout(l)

Spec == Init /\ [][Next]_sessionVars

\* The recovery loop of some worker process keeps running and time passes; nothing
\* is asked of the collectors, the refresh service or the operator.
Fairness ==
  /\ WF_sessionVars(RecoverCooldowns)
  /\ \A s \in Sessions : WF_sessionVars(CoolsDown(s))

LiveSpec == Spec /\ Fairness

-----------------------------------------------------------------------------
(* Properties                                                              *)

TypeOK ==
  /\ PoolTypeOK
  /\ collector \in [Collectors -> CollectorState]
  /\ repairs \subseteq Repair

\* A session in cooldown has its reason in last_error, where the refresh service
\* looks for it, whatever other holders of the session report after the fault and
\* in whatever order: what record_success's CASE is there for.
CooldownHasReason ==
  \A s \in Sessions : session[s].status = "COOLDOWN" => session[s].error # "none"

\* A lease that has not expired leaves the table only when its holder gives it
\* back: no sweep, no late report of a collector that runs under the same worker
\* name and has lost its own lease, and no new start takes it away.
LiveLeaseKept ==
  [][\A l \in leases : l.live /\ (\A k \in leases' : k.id # l.id) =>
       \E c \in Collectors :
         collector[c].pc = "using" /\ collector[c].id = l.id /\ collector'[c].id # l.id]_sessionVars

\* A lease is granted on a session that is open at that moment, although the SELECT
\* that offered it began before another collector, the seeding or the refresh
\* service took the session out.
GrantedWhileOpen ==
  [][\A l \in leases' : (\A k \in leases : k.id # l.id) => Open(l.session)]_sessionVars

\* ARCHITECTURAL_BLUEPRINT.md: the token leasing "prevents duplicate leasing across
\* concurrent workers", so never more live leases than max_concurrency.
NoDuplicateLeasing == \A s \in Sessions : Cardinality(Live(s)) <= MaxConcurrency[s]

\* How far checkouts that overlap can miss it: a collector whose SELECT has seen a
\* free slot of a session may still take it, but only one, and live leases and such
\* collectors together go beyond max_concurrency by less than one per collector.
Choosers(s) == {c \in Collectors : collector[c].pc = "choosing" /\ s \in collector[c].seen}
BookedWithin(excess) ==
  \A s \in Sessions :
    Cardinality(Live(s)) + Cardinality(Choosers(s)) < MaxConcurrency[s] + excess
OverbookingBound == BookedWithin(Cardinality(Collectors))

\* ARCHITECTURAL_BLUEPRINT.md: a REVOKED session is "no longer valid for use and
\* should be removed from circulation"; only a new login makes it ACTIVE again, and
\* nothing else puts it back on the way there.
RevokedStaysOut ==
  [][\A s \in Sessions :
       session[s].status = "REVOKED" => session'[s].status # "COOLDOWN"]_sessionVars

\* ARCHITECTURAL_BLUEPRINT.md: cooldown transitions are timestamp-driven and
\* reversible, and tokens do not remain paused indefinitely.
CooldownEnds ==
  \A s \in Sessions : session[s].status = "COOLDOWN" ~> session[s].status # "COOLDOWN"

-----------------------------------------------------------------------------
(* Refinement                                                              *)

\* A session is fit when checkout_token may choose it, and its loans are the leases
\* that have not expired; overlapping checkouts find room for one loan less than one
\* per collector beyond max_concurrency.
Lending == INSTANCE SessionLending WITH
  Loan <- LeaseRow,
  Slots <- [s \in Sessions |-> MaxConcurrency[s] + Cardinality(Collectors) - 1],
  fit <- [s \in Sessions |-> Open(s)],
  loans <- [s \in Sessions |-> Live(s)]

\* The collectors, the daemons and the scripts together keep the promise that
\* SessionLending makes to a borrower: what checkout_token's re-check, the UNIQUE
\* constraint and the deletes by id and owner are there for.
LendingSpec == Lending!Spec
=============================================================================
