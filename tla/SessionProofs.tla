---------------------------- MODULE SessionProofs -----------------------------
(***************************************************************************)
(* Theorems of SessionFailover, for any sessions, collectors and names,    *)
(* names shared by several collectors included.  TypeOK /\                 *)
(* CooldownHasReason is inductive; the action properties rest on TypeOK;   *)
(* BookedWithin bounds the live leases together with the checkouts under   *)
(* way, and with LendInv it gives the refinement of SessionLending.        *)
(***************************************************************************)
EXTENDS SessionFailover, FiniteSetTheorems, TLAPS

\* What Become leaves in collector has the right type when the new state has.
LEMMA BecomeType ==
  ASSUME collector \in [Collectors -> CollectorState], NEW c \in Collectors,
         NEW state \in CollectorState, Become(c, state)
  PROVE  collector' \in [Collectors -> CollectorState]
BY DEF Become

LEMMA RestType ==
  /\ \A a \in Attempts : Ready(a) \in CollectorState
  /\ Recovering \in CollectorState
<1>1. MaxLeases \in Nat
  BY PoolConstants
<1> QED
  BY <1>1 DEF Ready, Recovering, CollectorState, Attempts

LEMMA AfterErrorType ==
  ASSUME collector \in [Collectors -> CollectorState], NEW c \in Collectors,
         NEW fault, AfterError(c, fault)
  PROVE  collector' \in [Collectors -> CollectorState]
<1>1. "primary" \in Attempts /\ "failover" \in Attempts
  BY DEF Attempts
<1> QED
  BY <1>1, RestType, BecomeType DEF AfterError

\* Deleting rows, whichever they are, keeps the type of the lease table.
LEMMA FewerLeases ==
  ASSUME leases \subseteq LeaseRow, NEW D, leases' = leases \ D
  PROVE  leases' \subseteq LeaseRow
OBVIOUS

-----------------------------------------------------------------------------
(* Steps                                                                   *)

\* The owner a collector leases under is one, and the id of a lease it uses is none
\* or one of a row.
LEMMA OwnerType ==
  ASSUME TypeOK, NEW c \in Collectors
  PROVE  /\ Owner(c) \in Owners
         /\ collector[c] \in CollectorState
         /\ collector[c].id \in 0..MaxLeases
BY FailoverConstants DEF TypeOK, Owner, Owners, CollectorState

LEMMA TypeStep == TypeOK /\ [Next]_sessionVars => TypeOK'
<1> SUFFICES ASSUME TypeOK, [Next]_sessionVars
             PROVE  TypeOK'
  OBVIOUS
<1> USE DEF TypeOK
<1>a. PoolTypeOK /\ collector \in [Collectors -> CollectorState] /\ repairs \subseteq Repair
  OBVIOUS
<1>b. "primary" \in Attempts /\ Ready("primary") \in CollectorState
  BY RestType DEF Attempts
<1>1. ASSUME NEW c \in Collectors, CollectorStep(c) \/ Abandon(c)
      PROVE  TypeOK'
  <2>a. Owner(c) \in Owners /\ collector[c] \in CollectorState
    BY OwnerType
  <2>b. repairs' \subseteq Repair
    BY <1>1 DEF CollectorStep, BeginCheckout, Checkout, CheckoutConflict, NoSession,
       CollectSucceeds, SessionFails, CollectFails, RecoveryEnds, Abandon
  <2>1. CASE BeginCheckout(c)
    <3>1. PoolTypeOK'
      BY <2>1 DEF BeginCheckout, SweepExpired, PoolTypeOK
    <3>2. FreeSessions \subseteq Sessions
      BY DEF FreeSessions
    <3>3. [collector[c] EXCEPT !.pc = "choosing", !.seen = FreeSessions] \in CollectorState
      BY <2>a, <3>2 DEF CollectorState
    <3>4. collector' \in [Collectors -> CollectorState]
      BY <2>1, <3>3, BecomeType DEF BeginCheckout
    <3> QED
      BY <3>1, <3>4, <2>b
  <2>2. CASE Checkout(c)
    <3>1. PICK s \in collector[c].seen, id \in FreshIds :
            /\ InsertLease(s, Owner(c), id)
            /\ Become(c, [collector[c] EXCEPT !.pc = "using", !.seen = {}, !.held = {s}, !.id = id])
      BY <2>2 DEF Checkout
    <3>2. s \in Sessions /\ id \in 1..MaxLeases
      BY <2>a DEF CollectorState, FreshIds
    <3>3. PoolTypeOK'
      <4>1. [id |-> id, session |-> s, owner |-> Owner(c), live |-> TRUE] \in LeaseRow
        BY <3>2, <2>a DEF LeaseRow
      <4>2. /\ leases' = leases \cup {[id |-> id, session |-> s, owner |-> Owner(c), live |-> TRUE]}
            /\ session' = session
        BY <3>1 DEF InsertLease
      <4> QED
        BY <4>1, <4>2 DEF PoolTypeOK
    <3>4. id \in 0..MaxLeases
      BY <3>2, PoolConstants
    <3>5. [collector[c] EXCEPT !.pc = "using", !.seen = {}, !.held = {s}, !.id = id]
            \in CollectorState
      BY <2>a, <3>2, <3>4 DEF CollectorState
    <3>6. collector' \in [Collectors -> CollectorState]
      BY <3>1, <3>5, BecomeType
    <3> QED
      BY <3>3, <3>6, <2>b
  <2>3. CASE CheckoutConflict(c) \/ RecoveryEnds(c) \/ Abandon(c)
    <3>1. PoolTypeOK'
      BY <2>3 DEF CheckoutConflict, RecoveryEnds, Abandon, pool, PoolTypeOK
    <3>2. collector' \in [Collectors -> CollectorState]
      BY <2>3, <1>b, BecomeType DEF CheckoutConflict, RecoveryEnds, Abandon
    <3> QED
      BY <3>1, <3>2, <2>b
  <2>4. CASE NoSession(c)
    <3>1. PoolTypeOK'
      BY <2>4 DEF NoSession, pool, PoolTypeOK
    <3>2. collector' \in [Collectors -> CollectorState]
      BY <2>4, AfterErrorType DEF NoSession
    <3> QED
      BY <3>1, <3>2, <2>b
  <2>5. CASE CollectSucceeds(c)
    <3>1. PICK s \in Sessions : RecordSuccess(s, Owner(c), collector[c].id)
      BY <2>5 DEF CollectSucceeds
    <3>2. leases' \subseteq LeaseRow
      BY <3>1, FewerLeases DEF RecordSuccess, PoolTypeOK
    <3>3. session' \in [Sessions -> SessionRow]
      BY <3>1 DEF RecordSuccess, Succeeded, SessionRow, PoolTypeOK
    <3>4. collector' \in [Collectors -> CollectorState]
      BY <2>5, <1>b, BecomeType DEF CollectSucceeds
    <3> QED
      BY <3>2, <3>3, <3>4, <2>b DEF PoolTypeOK
  <2>6. CASE SessionFails(c)
    <3>1. PICK s \in Sessions, error \in {"auth", "other"} :
            MarkCooldown(s, Owner(c), collector[c].id, error)
      BY <2>6 DEF SessionFails
    <3>2. leases' \subseteq LeaseRow
      BY <3>1, FewerLeases DEF MarkCooldown, PoolTypeOK
    <3>3. session' \in [Sessions -> SessionRow]
      BY <3>1 DEF MarkCooldown, SessionRow, PoolTypeOK
    <3>4. collector' \in [Collectors -> CollectorState]
      BY <2>6, AfterErrorType DEF SessionFails
    <3> QED
      BY <3>2, <3>3, <3>4, <2>b DEF PoolTypeOK
  <2>7. CASE CollectFails(c)
    <3>1. leases' \subseteq LeaseRow /\ session' = session
      BY <2>7, FewerLeases DEF CollectFails, ReleaseLease, PoolTypeOK
    <3>2. collector' \in [Collectors -> CollectorState]
      <4>1. CASE AfterError(c, FALSE)
        BY <4>1, AfterErrorType
      <4>2. CASE Become(c, Ready("primary"))
        BY <4>2, <1>b, BecomeType
      <4> QED
        BY <2>7, <4>1, <4>2 DEF CollectFails
    <3> QED
      BY <3>1, <3>2, <2>b DEF PoolTypeOK
  <2> QED
    BY <1>1, <2>1, <2>2, <2>3, <2>4, <2>5, <2>6, <2>7 DEF CollectorStep
<1>2. CASE RecoverCooldowns
  BY <1>2 DEF RecoverCooldowns, RecoverExpiredCooldowns, PoolTypeOK, SessionRow
<1>3. CASE ScanDead
  <2>1. repairs' \subseteq Repair
    BY <1>3 DEF ScanDead, Repair, PoolTypeOK, SessionRow
  <2> QED
    BY <1>3, <2>1 DEF ScanDead, pool, PoolTypeOK
<1>4. CASE RepairSession
  <2>1. PICK r \in repairs :
          /\ repairs' = repairs \ {r}
          /\ Repaired(r.session) \/ Revoked(r.session) \/ UNCHANGED pool
    BY <1>4 DEF RepairSession
  <2>2. r.session \in Sessions
    BY DEF Repair
  <2>3. PoolTypeOK'
    <3>1. CASE Repaired(r.session)
      BY <2>2, <3>1 DEF Repaired, PoolTypeOK, SessionRow
    <3>2. CASE Revoked(r.session)
      BY <2>2, <3>2 DEF Revoked, PoolTypeOK, SessionRow
    <3>3. CASE UNCHANGED pool
      BY <3>3 DEF pool, PoolTypeOK
    <3> QED
      BY <2>1, <3>1, <3>2, <3>3
  <2> QED
    BY <1>4, <2>1, <2>3 DEF RepairSession
<1>5. CASE RefresherStops
  BY <1>5 DEF RefresherStops, pool, PoolTypeOK
<1>6. ASSUME NEW s \in Sessions, Seed(s) \/ CoolsDown(s)
      PROVE  TypeOK'
  <2>1. session' \in [Sessions -> SessionRow]
    <3>1. /\ [session[s] EXCEPT !.status = "ACTIVE", !.login = FALSE] \in SessionRow
          /\ [session[s] EXCEPT !.status = "REVOKED", !.login = FALSE] \in SessionRow
          /\ [session[s] EXCEPT !.cooling = FALSE] \in SessionRow
      <4>1. session[s] \in SessionRow
        BY DEF PoolTypeOK
      <4> QED
        BY <4>1 DEF SessionRow
    <3>2. session \in [Sessions -> SessionRow]
      BY DEF PoolTypeOK
    <3> QED
      BY <1>6, <3>1, <3>2 DEF Seed, CoolsDown, RegisterAccount, SeedRevoked, CooldownElapses
  <2>2. leases' = leases
    BY <1>6 DEF Seed, CoolsDown, RegisterAccount, SeedRevoked, CooldownElapses
  <2> QED
    BY <1>6, <2>1, <2>2 DEF Seed, CoolsDown, PoolTypeOK
<1>7. ASSUME NEW l \in leases, LeaseTimeout(l)
      PROVE  TypeOK'
  BY <1>7 DEF LeaseTimeout, LeaseRunsOut, PoolTypeOK, LeaseRow
<1>8. CASE UNCHANGED sessionVars
  BY <1>8 DEF sessionVars, pool, PoolTypeOK
<1> QED
  BY <1>1, <1>2, <1>3, <1>4, <1>5, <1>6, <1>7, <1>8 DEF Next

\* The reason of a cooldown: a step that enters COOLDOWN writes one, and a step that
\* clears the error leaves the session ACTIVE.
LEMMA ReasonStep ==
  ASSUME TypeOK, CooldownHasReason, [Next]_sessionVars
  PROVE  CooldownHasReason'
<1> USE DEF CooldownHasReason
<1>a. session \in [Sessions -> SessionRow]
  BY DEF TypeOK, PoolTypeOK
<1>1. ASSUME NEW c \in Collectors, CollectorStep(c) \/ Abandon(c)
      PROVE  CooldownHasReason'
  <2>1. CASE CollectSucceeds(c)
    <3>1. PICK s \in Sessions : session' = Succeeded(s)
      BY <2>1 DEF CollectSucceeds, RecordSuccess
    <3> QED
      BY <3>1, <1>a DEF Succeeded, SessionRow
  <2>2. CASE SessionFails(c)
    <3>1. PICK s \in Sessions, error \in {"auth", "other"} :
            session' = [session EXCEPT ![s] =
              [@ EXCEPT !.status = "COOLDOWN", !.cooling = TRUE, !.error = error]]
      BY <2>2 DEF SessionFails, MarkCooldown
    <3> QED
      BY <3>1, <1>a DEF SessionRow
  <2>3. CASE ~CollectSucceeds(c) /\ ~SessionFails(c)
    <3>1. session' = session
      BY <1>1, <2>3 DEF CollectorStep, Abandon, BeginCheckout, Checkout, InsertLease,
         CheckoutConflict, NoSession, CollectFails, ReleaseLease, RecoveryEnds, pool
    <3> QED
      BY <3>1
  <2> QED
    BY <2>1, <2>2, <2>3
<1>2. CASE RecoverCooldowns
  BY <1>2, <1>a DEF RecoverCooldowns, RecoverExpiredCooldowns, SessionRow
<1>3. CASE ScanDead \/ RefresherStops \/ UNCHANGED sessionVars
  BY <1>3 DEF ScanDead, RefresherStops, sessionVars, pool
<1>4. CASE RepairSession
  <2>1. PICK r \in repairs : Repaired(r.session) \/ Revoked(r.session) \/ UNCHANGED pool
    BY <1>4 DEF RepairSession
  <2>2. r.session \in Sessions
    BY DEF TypeOK, Repair
  <2>3. CASE Repaired(r.session)
    BY <2>2, <2>3, <1>a DEF Repaired, SessionRow
  <2>4. CASE Revoked(r.session)
    BY <2>2, <2>4, <1>a DEF Revoked, SessionRow
  <2>5. CASE UNCHANGED pool
    BY <2>5 DEF pool
  <2> QED
    BY <2>1, <2>3, <2>4, <2>5
<1>5. ASSUME NEW s \in Sessions, Seed(s) \/ CoolsDown(s)
      PROVE  CooldownHasReason'
  <2>1. CASE RegisterAccount(s)
    BY <2>1, <1>a DEF RegisterAccount, SessionRow
  <2>2. CASE SeedRevoked(s)
    BY <2>2, <1>a DEF SeedRevoked, SessionRow
  <2>3. CASE CooldownElapses(s)
    BY <2>3, <1>a DEF CooldownElapses, SessionRow
  <2> QED
    BY <1>5, <2>1, <2>2, <2>3 DEF Seed, CoolsDown
<1>6. ASSUME NEW l \in leases, LeaseTimeout(l)
      PROVE  CooldownHasReason'
  BY <1>6 DEF LeaseTimeout, LeaseRunsOut
<1> QED
  BY <1>1, <1>2, <1>3, <1>4, <1>5, <1>6 DEF Next

\* Only collectors and time change the lease table.
LEMMA OthersLeaveLeases ==
  ASSUME \/ RecoverCooldowns \/ ScanDead \/ RepairSession \/ RefresherStops
         \/ (\E s \in Sessions : Seed(s) \/ CoolsDown(s)) \/ UNCHANGED sessionVars
  PROVE  leases' = leases
BY DEF RecoverCooldowns, RecoverExpiredCooldowns, ScanDead, RepairSession, Repaired,
   Revoked, RefresherStops, Seed, RegisterAccount, SeedRevoked, CoolsDown,
   CooldownElapses, sessionVars, pool

\* A live row that goes has the id its collector holds, and that collector forgets it.
LEMMA LeaseStep ==
  ASSUME TypeOK, [Next]_sessionVars, NEW l \in leases, l.live,
         \A k \in leases' : k.id # l.id
  PROVE  \E c \in Collectors :
           collector[c].pc = "using" /\ collector[c].id = l.id /\ collector'[c].id # l.id
<1>a. /\ collector \in [Collectors -> CollectorState]
      /\ l.id \in 1..MaxLeases /\ MaxLeases \in Nat
  BY PoolConstants DEF TypeOK, PoolTypeOK, LeaseRow
<1>b. l.id # 0 /\ leases' # leases /\ l \notin leases'
  BY <1>a
<1>1. PICK c \in Collectors : CollectorStep(c) \/ Abandon(c)
  <2>1. ASSUME NEW k \in leases, LeaseTimeout(k)
        PROVE  FALSE
    <3>1. k = l /\ [l EXCEPT !.live = FALSE] \in leases'
      BY <2>1, <1>b DEF LeaseTimeout, LeaseRunsOut
    <3>2. [l EXCEPT !.live = FALSE].id = l.id
      BY DEF TypeOK, PoolTypeOK, LeaseRow
    <3> QED
      BY <3>1, <3>2
  <2> QED
    BY <2>1, <1>b, OthersLeaveLeases DEF Next
<1>2. CASE CollectSucceeds(c) \/ SessionFails(c) \/ CollectFails(c)
  <2>1. leases' = leases \ Deleted(Owner(c), collector[c].id)
    BY <1>2 DEF CollectSucceeds, SessionFails, CollectFails, RecordSuccess, MarkCooldown,
       ReleaseLease
  <2>4. collector[c].pc = "using"
    BY <1>2 DEF CollectSucceeds, SessionFails, CollectFails, Uses
  <2>2. collector[c].id = l.id
    BY <2>1, <1>b DEF Deleted
  <2>3. collector'[c].id = 0
    <3>1. PICK state \in {Ready("primary"), Ready("failover"), Recovering} : Become(c, state)
      BY <1>2 DEF CollectSucceeds, SessionFails, CollectFails, AfterError
    <3>2. state.id = 0
      BY DEF Ready, Recovering
    <3> QED
      BY <1>a, <3>1, <3>2 DEF Become
  <2>5. collector'[c].id # l.id
    BY <2>3, <1>b
  <2> QED
    BY <2>2, <2>4, <2>5, Zenon
<1>3. CASE ~(CollectSucceeds(c) \/ SessionFails(c) \/ CollectFails(c))
  <2>1. l \in leases'
    <3>1. CASE BeginCheckout(c)
      BY <3>1 DEF BeginCheckout, SweepExpired
    <3>2. CASE Checkout(c)
      BY <3>2 DEF Checkout, InsertLease
    <3>3. CASE CheckoutConflict(c) \/ NoSession(c) \/ RecoveryEnds(c) \/ Abandon(c)
      BY <3>3 DEF CheckoutConflict, NoSession, RecoveryEnds, Abandon, pool
    <3> QED
      BY <1>1, <1>3, <3>1, <3>2, <3>3 DEF CollectorStep
  <2> QED
    BY <2>1, <1>b
<1> QED
  BY <1>2, <1>3

\* A row that appears was inserted by a checkout, whose row lock saw the session open.
LEMMA GrantStep ==
  ASSUME TypeOK, [Next]_sessionVars, NEW l \in leases', \A k \in leases : k.id # l.id
  PROVE  Open(l.session)
<1>1. CASE \E c \in Collectors : Checkout(c)
  <2>1. PICK s \in Sessions, c \in Collectors, id \in FreshIds :
          StillOpen(s) /\ InsertLease(s, Owner(c), id)
    BY <1>1, OwnerType DEF Checkout, CollectorState
  <2>2. l.session = s
    BY <2>1 DEF InsertLease
  <2> QED
    BY <2>1, <2>2 DEF StillOpen
<1>2. ASSUME NEW k \in leases, LeaseTimeout(k)
      PROVE  FALSE
  <2>1. l = [k EXCEPT !.live = FALSE]
    BY <1>2 DEF LeaseTimeout, LeaseRunsOut
  <2>2. [k EXCEPT !.live = FALSE].id = k.id
    BY DEF TypeOK, PoolTypeOK, LeaseRow
  <2> QED
    BY <2>1, <2>2
<1>3. ASSUME NEW c \in Collectors, CollectorStep(c) \/ Abandon(c), ~Checkout(c)
      PROVE  FALSE
  <2>1. leases' \subseteq leases
    <3>1. CASE BeginCheckout(c)
      BY <3>1 DEF BeginCheckout, SweepExpired
    <3>2. CASE CollectSucceeds(c) \/ SessionFails(c) \/ CollectFails(c)
      BY <3>2 DEF CollectSucceeds, SessionFails, CollectFails, RecordSuccess, MarkCooldown,
         ReleaseLease
    <3>3. CASE CheckoutConflict(c) \/ NoSession(c) \/ RecoveryEnds(c) \/ Abandon(c)
      BY <3>3 DEF CheckoutConflict, NoSession, RecoveryEnds, Abandon, pool
    <3> QED
      BY <1>3, <3>1, <3>2, <3>3 DEF CollectorStep
  <2> QED
    BY <2>1
<1>4. leases' # leases
  OBVIOUS
<1> QED
  BY <1>1, <1>2, <1>3, <1>4, OthersLeaveLeases DEF Next

-----------------------------------------------------------------------------
(* Overbooking                                                             *)

\* What the bound counts is finite.
LEMMA Counts ==
  ASSUME IsFiniteSet(leases), NEW s \in Sessions
  PROVE  /\ IsFiniteSet(Live(s)) /\ Cardinality(Live(s)) \in Nat
         /\ IsFiniteSet(Choosers(s)) /\ Cardinality(Choosers(s)) \in Nat
         /\ Cardinality(Choosers(s)) <= Cardinality(Collectors)
         /\ Cardinality(Collectors) \in Nat
         /\ MaxConcurrency[s] \in Nat \ {0}
<1>1. Live(s) \subseteq leases /\ Choosers(s) \subseteq Collectors
  BY DEF Live, Choosers
<1>2. IsFiniteSet(Collectors)
  BY FailoverConstants
<1>3. MaxConcurrency[s] \in Nat \ {0}
  BY PoolConstants
<1> QED  BY <1>1, <1>2, <1>3, FS_Subset, FS_CardinalityType

\* A row more makes the count one more at most.
LEMMA OneMore ==
  ASSUME NEW S, IsFiniteSet(S), NEW x
  PROVE  IsFiniteSet(S \cup {x}) /\ Cardinality(S \cup {x}) <= Cardinality(S) + 1
<1>1. Cardinality(S) \in Nat
  BY FS_CardinalityType
<1>2. /\ IsFiniteSet(S \cup {x})
      /\ Cardinality(S \cup {x}) = IF x \in S THEN Cardinality(S) ELSE Cardinality(S) + 1
  BY FS_AddElement, Zenon
<1> QED  BY <1>1, <1>2

\* A collector that goes on to anything but a SELECT leaves the choosers.
LEMMA LeavesChoosers ==
  ASSUME collector \in [Collectors -> CollectorState], NEW c \in Collectors, NEW state,
         state.pc # "choosing", Become(c, state)
  PROVE  \A s \in Sessions : Choosers(s)' = Choosers(s) \ {c}
BY DEF Become, Choosers

\* A step either begins a checkout, completes one, or gives nobody a lease or a
\* choice.
LEMMA FewerClaims ==
  ASSUME TypeOK, [Next]_sessionVars,
         \A c \in Collectors : ~BeginCheckout(c) /\ ~Checkout(c)
  PROVE  /\ \A s \in Sessions : Live(s)' \subseteq Live(s) /\ Choosers(s)' \subseteq Choosers(s)
         /\ \E x : leases' \subseteq leases \cup {x}
<1>a. collector \in [Collectors -> CollectorState]
  BY DEF TypeOK
<1>b. Ready("primary").pc # "choosing" /\ Ready("failover").pc # "choosing"
      /\ Recovering.pc # "choosing"
  BY DEF Ready, Recovering
<1>1. ASSUME NEW c \in Collectors, CollectorStep(c) \/ Abandon(c)
      PROVE  /\ \A s \in Sessions : Live(s)' \subseteq Live(s) /\ Choosers(s)' \subseteq Choosers(s)
             /\ \E x : leases' \subseteq leases \cup {x}
  <2>1. leases' \subseteq leases
    <3>1. CASE CollectSucceeds(c) \/ SessionFails(c) \/ CollectFails(c)
      BY <3>1 DEF CollectSucceeds, SessionFails, CollectFails, RecordSuccess, MarkCooldown,
         ReleaseLease
    <3>2. CASE CheckoutConflict(c) \/ NoSession(c) \/ RecoveryEnds(c) \/ Abandon(c)
      BY <3>2 DEF CheckoutConflict, NoSession, RecoveryEnds, Abandon, pool
    <3> QED  BY <1>1, <3>1, <3>2 DEF CollectorStep
  <2>2. PICK state \in {Ready("primary"), Ready("failover"), Recovering} : Become(c, state)
    BY <1>1 DEF CollectorStep, CheckoutConflict, NoSession, CollectSucceeds, SessionFails,
       CollectFails, RecoveryEnds, Abandon, AfterError
  <2>3. \A s \in Sessions : Choosers(s)' \subseteq Choosers(s)
    BY <1>a, <1>b, <2>2, LeavesChoosers
  <2> QED  BY <2>1, <2>3 DEF Live
<1>2. ASSUME NEW l \in leases, LeaseTimeout(l)
      PROVE  /\ \A s \in Sessions : Live(s)' \subseteq Live(s) /\ Choosers(s)' \subseteq Choosers(s)
             /\ \E x : leases' \subseteq leases \cup {x}
  <2>1. /\ leases' = (leases \ {l}) \cup {[l EXCEPT !.live = FALSE]}
        /\ collector' = collector
    BY <1>2 DEF LeaseTimeout, LeaseRunsOut
  <2>2. ~[l EXCEPT !.live = FALSE].live
    BY DEF TypeOK, PoolTypeOK, LeaseRow
  <2>3. \A s \in Sessions : Live(s)' \subseteq Live(s)
    BY <2>1, <2>2 DEF Live
  <2>4. \A s \in Sessions : Choosers(s)' \subseteq Choosers(s)
    BY <2>1 DEF Choosers
  <2>5. leases' \subseteq leases \cup {[l EXCEPT !.live = FALSE]}
    BY <2>1
  <2> QED  BY <2>3, <2>4, <2>5
<1>3. ASSUME \/ RecoverCooldowns \/ ScanDead \/ RepairSession \/ RefresherStops
             \/ (\E s \in Sessions : Seed(s) \/ CoolsDown(s)) \/ UNCHANGED sessionVars
      PROVE  /\ \A s \in Sessions : Live(s)' \subseteq Live(s) /\ Choosers(s)' \subseteq Choosers(s)
             /\ \E x : leases' \subseteq leases \cup {x}
  <2>1. leases' = leases
    BY <1>3, OthersLeaveLeases
  <2>2. collector' = collector
    BY <1>3 DEF RecoverCooldowns, ScanDead, RepairSession, RefresherStops, Seed, CoolsDown,
       sessionVars
  <2> QED  BY <2>1, <2>2 DEF Live, Choosers
<1> QED  BY <1>1, <1>2, <1>3 DEF Next

\* A SELECT counts fewer live leases than there are slots, and the other collectors
\* that may still take one are no more than those that overlap with it.
LEMMA BeginKeepsBound ==
  ASSUME TypeOK, IsFiniteSet(leases), NEW excess \in Nat, BookedWithin(excess),
         NEW c \in Collectors, BeginCheckout(c),
         \A s \in Sessions : Cardinality(Choosers(s)') <= excess
  PROVE  IsFiniteSet(leases') /\ BookedWithin(excess)'
<1>1. /\ leases' = {l \in leases : l.live} /\ collector[c].pc = "ready"
      /\ collector' = [collector EXCEPT ![c] =
           [collector[c] EXCEPT !.pc = "choosing", !.seen = FreeSessions]]
  BY DEF BeginCheckout, SweepExpired, Become
<1>2. IsFiniteSet(leases')
  BY <1>1, FS_Subset
<1>3. ASSUME NEW s \in Sessions
      PROVE  Cardinality(Live(s)') + Cardinality(Choosers(s)') < MaxConcurrency[s] + excess
  <2>1. Live(s)' = Live(s)
    BY <1>1 DEF Live
  <2>2. /\ Cardinality(Live(s)) \in Nat /\ MaxConcurrency[s] \in Nat \ {0}
        /\ Cardinality(Live(s)) + Cardinality(Choosers(s)) < MaxConcurrency[s] + excess
    BY Counts DEF BookedWithin
  <2>3. Cardinality(Choosers(s)') \in Nat
    <3>1. Choosers(s)' \subseteq Collectors
      BY DEF Choosers
    <3> QED  BY <3>1, FailoverConstants, FS_Subset, FS_CardinalityType
  <2>4. CASE s \in FreeSessions
    <3>1. Cardinality(Live(s)) < MaxConcurrency[s]
      BY <2>4 DEF FreeSessions
    <3>2. Cardinality(Choosers(s)') <= excess
      OBVIOUS
    <3> QED  BY <2>1, <2>2, <2>3, <3>1, <3>2
  <2>5. CASE s \notin FreeSessions
    <3>1. Choosers(s)' = Choosers(s)
      <4>1. collector \in [Collectors -> CollectorState]
        BY DEF TypeOK
      <4> QED  BY <1>1, <2>5, <4>1 DEF Choosers, CollectorState
    <3> QED  BY <2>1, <2>2, <3>1
  <2> QED  BY <2>4, <2>5
<1> QED  BY <1>2, <1>3 DEF BookedWithin

\* Who takes a slot no longer may.
LEMMA CheckoutKeepsBound ==
  ASSUME TypeOK, IsFiniteSet(leases), NEW excess \in Nat, BookedWithin(excess),
         NEW c \in Collectors, Checkout(c)
  PROVE  IsFiniteSet(leases') /\ BookedWithin(excess)'
<1>1. PICK s \in collector[c].seen, id \in FreshIds :
        /\ InsertLease(s, Owner(c), id)
        /\ Become(c, [collector[c] EXCEPT !.pc = "using", !.seen = {}, !.held = {s}, !.id = id])
  BY DEF Checkout
<1> DEFINE row == [id |-> id, session |-> s, owner |-> Owner(c), live |-> TRUE]
<1>2. leases' = leases \cup {row} /\ row.session = s
  BY <1>1 DEF InsertLease
<1>3. collector \in [Collectors -> CollectorState] /\ collector[c].pc = "choosing"
  BY DEF TypeOK, Checkout
<1>4. \A r \in Sessions : Choosers(r)' = Choosers(r) \ {c}
  <2>1. [collector[c] EXCEPT !.pc = "using", !.seen = {}, !.held = {s}, !.id = id].pc # "choosing"
    BY <1>3 DEF CollectorState
  <2> QED  BY <1>1, <1>3, <2>1, LeavesChoosers
<1> HIDE DEF row
<1>5. IsFiniteSet(leases')
  BY <1>2, FS_AddElement
<1>6. ASSUME NEW r \in Sessions
      PROVE  Cardinality(Live(r)') + Cardinality(Choosers(r)') < MaxConcurrency[r] + excess
  <2>1. /\ IsFiniteSet(Live(r)) /\ Cardinality(Live(r)) \in Nat
        /\ IsFiniteSet(Choosers(r)) /\ Cardinality(Choosers(r)) \in Nat
        /\ MaxConcurrency[r] \in Nat
        /\ Cardinality(Live(r)) + Cardinality(Choosers(r)) < MaxConcurrency[r] + excess
    BY Counts DEF BookedWithin
  <2>2. Cardinality(Choosers(r)') <= Cardinality(Choosers(r))
        /\ Cardinality(Choosers(r)') \in Nat
    BY <1>4, <2>1, FS_Subset, FS_CardinalityType
  <2>3. CASE r = s
    <3>1. Live(r)' \subseteq Live(r) \cup {row}
      BY <1>2 DEF Live
    <3>2. /\ Cardinality(Live(r)') <= Cardinality(Live(r)) + 1
          /\ Cardinality(Live(r)') \in Nat
      <4>1. /\ IsFiniteSet(Live(r) \cup {row})
            /\ Cardinality(Live(r) \cup {row}) <= Cardinality(Live(r)) + 1
        BY <2>1, OneMore
      <4> QED  BY <2>1, <3>1, <4>1, FS_Subset, FS_CardinalityType
    <3>3. Cardinality(Choosers(r)') = Cardinality(Choosers(r)) - 1
      <4>1. c \in Choosers(r)
        BY <1>3, <2>3 DEF Choosers
      <4> QED  BY <1>4, <2>1, <4>1, FS_RemoveElement
    <3> QED  BY <2>1, <2>2, <3>2, <3>3
  <2>4. CASE r # s
    <3>1. Live(r)' = Live(r)
      BY <1>2, <2>4 DEF Live
    <3> QED  BY <2>1, <2>2, <3>1
  <2> QED  BY <2>3, <2>4
<1> QED  BY <1>5, <1>6 DEF BookedWithin

\* Of all the collectors, excess at most choose the same session at a time.
OverlapWithin(excess) == \A s \in Sessions : Cardinality(Choosers(s)) <= excess

\* As long as that is so, the bound holds from one step to the next.
LEMMA BookingStep ==
  ASSUME NEW excess \in Nat, TypeOK, IsFiniteSet(leases), BookedWithin(excess),
         [Next]_sessionVars, OverlapWithin(excess)'
  PROVE  IsFiniteSet(leases') /\ BookedWithin(excess)'
<1>1. CASE \E c \in Collectors : BeginCheckout(c)
  BY <1>1, BeginKeepsBound DEF OverlapWithin
<1>2. CASE \E c \in Collectors : Checkout(c)
  BY <1>2, CheckoutKeepsBound
<1>3. CASE \A c \in Collectors : ~BeginCheckout(c) /\ ~Checkout(c)
  <2>1. /\ \A s \in Sessions : Live(s)' \subseteq Live(s) /\ Choosers(s)' \subseteq Choosers(s)
        /\ \E x : leases' \subseteq leases \cup {x}
    BY <1>3, FewerClaims
  <2>2. IsFiniteSet(leases')
    <3>1. PICK x : leases' \subseteq leases \cup {x}
      BY <2>1
    <3> QED  BY <3>1, FS_AddElement, FS_Subset
  <2>3. ASSUME NEW s \in Sessions
        PROVE  Cardinality(Live(s)') + Cardinality(Choosers(s)') < MaxConcurrency[s] + excess
    <3>1. /\ IsFiniteSet(Live(s)) /\ Cardinality(Live(s)) \in Nat
          /\ IsFiniteSet(Choosers(s)) /\ Cardinality(Choosers(s)) \in Nat
          /\ MaxConcurrency[s] \in Nat
          /\ Cardinality(Live(s)) + Cardinality(Choosers(s)) < MaxConcurrency[s] + excess
      BY Counts DEF BookedWithin
    <3>2. /\ Cardinality(Live(s)') \in Nat /\ Cardinality(Choosers(s)') \in Nat
          /\ Cardinality(Live(s)') <= Cardinality(Live(s))
          /\ Cardinality(Choosers(s)') <= Cardinality(Choosers(s))
      BY <2>1, <3>1, FS_Subset, FS_CardinalityType
    <3> QED  BY <3>1, <3>2
  <2> QED  BY <2>2, <2>3 DEF BookedWithin
<1> QED  BY <1>1, <1>2, <1>3

\* No lease, no checkout.
LEMMA NothingBooked ==
  ASSUME Init, NEW excess \in Nat
  PROVE  IsFiniteSet(leases) /\ BookedWithin(excess)
<1>1. leases = {} /\ IsFiniteSet(leases)
  BY FS_EmptySet DEF Init, PoolInit
<1>2. ASSUME NEW s \in Sessions
      PROVE  Cardinality(Live(s)) + Cardinality(Choosers(s)) < MaxConcurrency[s] + excess
  <2>1. Live(s) = {} /\ Choosers(s) = {}
    BY <1>1 DEF Live, Choosers, Init, Ready
  <2> QED  BY <2>1, FS_EmptySet, PoolConstants
<1> QED  BY <1>1, <1>2 DEF BookedWithin

-----------------------------------------------------------------------------
(* Theorems                                                                *)

\* In every reachable state of the pool, the collectors and the refresh service the
\* types hold and a session in cooldown has its reason (mark_cooldown, record_success).
THEOREM SessionInvariance == Spec => [](TypeOK /\ CooldownHasReason)
<1>1. Init => TypeOK /\ CooldownHasReason
  <2> SUFFICES ASSUME Init
               PROVE  TypeOK /\ CooldownHasReason
    OBVIOUS
  <2>1. collector \in [Collectors -> CollectorState]
    BY RestType DEF Init, Attempts
  <2>2. PoolTypeOK /\ CooldownHasReason
    BY DEF Init, PoolInit, PoolTypeOK, SessionRow, CooldownHasReason
  <2> QED
    BY <2>1, <2>2 DEF Init, TypeOK
<1>2. TypeOK /\ CooldownHasReason /\ [Next]_sessionVars => (TypeOK /\ CooldownHasReason)'
  BY TypeStep, ReasonStep
<1> QED
  BY <1>1, <1>2, PTL DEF Spec

\* Type correctness of the session pool's clients, any number of them.
THEOREM SessionTypes == Spec => []TypeOK
BY SessionInvariance, PTL

\* A success reported late never wipes the reason of another holder's cooldown, in
\* whatever order the reports arrive.
THEOREM ReasonsAreKept == Spec => []CooldownHasReason
BY SessionInvariance, PTL

\* Only its holder ends a live lease: neither the sweep of checkout_token nor a report
\* under the same worker name removes the row of another.
THEOREM LiveLeasesAreKept == Spec => LiveLeaseKept
<1>1. TypeOK /\ [Next]_sessionVars =>
        [\A l \in leases : l.live /\ (\A k \in leases' : k.id # l.id) =>
           \E c \in Collectors :
             collector[c].pc = "using" /\ collector[c].id = l.id /\ collector'[c].id # l.id]_sessionVars
  BY LeaseStep
<1> QED
  BY <1>1, SessionTypes, PTL DEF Spec, LiveLeaseKept

\* checkout_token never leases out a session that was taken out between its snapshot
\* and its row lock.
THEOREM GrantsAreCurrent == Spec => GrantedWhileOpen
<1>1. TypeOK /\ [Next]_sessionVars =>
        [\A l \in leases' : (\A k \in leases : k.id # l.id) => Open(l.session)]_sessionVars
  BY GrantStep
<1> QED
  BY <1>1, SessionTypes, PTL DEF Spec, GrantedWhileOpen

\* Overlapping checkouts overbook a session, but never by as many leases as there
\* are collectors.
THEOREM OverbookingIsBounded == Spec => []OverbookingBound
<1> DEFINE BookInv == IsFiniteSet(leases) /\ OverbookingBound
<1>1. Cardinality(Collectors) \in Nat
  BY FailoverConstants, FS_CardinalityType
<1>2. Init => BookInv
  BY <1>1, NothingBooked DEF OverbookingBound
<1>3. TypeOK /\ BookInv /\ [Next]_sessionVars => BookInv'
  <2> SUFFICES ASSUME TypeOK, BookInv, [Next]_sessionVars PROVE BookInv'
    OBVIOUS
  <2>1. OverlapWithin(Cardinality(Collectors))'
    BY <1>1, FailoverConstants, FS_Subset DEF OverlapWithin, Choosers
  <2> QED  BY <1>1, <2>1, BookingStep DEF OverbookingBound
<1> QED  BY <1>2, <1>3, SessionTypes, PTL DEF Spec

\* While no two collectors are between their SELECT and their row lock for the same
\* session, checkout_token keeps max_concurrency: the lock it lacks is all it lacks.
THEOREM SlotsAreKeptInTurn == Spec /\ []OverlapWithin(1) => []NoDuplicateLeasing
<1> DEFINE BookInv == IsFiniteSet(leases) /\ BookedWithin(1)
<1>1. Init => BookInv
  BY NothingBooked
<1>2. TypeOK /\ BookInv /\ [Next]_sessionVars /\ OverlapWithin(1)' => BookInv'
  BY BookingStep
<1>3. BookInv => NoDuplicateLeasing
  <2> SUFFICES ASSUME BookInv, NEW s \in Sessions
               PROVE  Cardinality(Live(s)) <= MaxConcurrency[s]
    BY DEF NoDuplicateLeasing
  <2> QED  BY Counts DEF BookedWithin
<1> QED  BY <1>1, <1>2, <1>3, SessionTypes, PTL DEF Spec

-----------------------------------------------------------------------------
(* Lending                                                                 *)

\* UNIQUE (token_id, lease_owner).
OneLeasePerOwner ==
  \A l, m \in leases : l.session = m.session /\ l.owner = m.owner => l = m

\* A row with the id a collector works under is a lease of the session it works with.
RowIsHeld ==
  \A c \in Collectors : collector[c].pc = "using" =>
    \A l \in leases : l.id = collector[c].id => collector[c].held = {l.session}

\* The end of a collection, whatever it reports: rows of its owner and id go, and no
\* session becomes open.
Ends(c) ==
  /\ collector[c].pc = "using"
  /\ leases' = leases \ Deleted(Owner(c), collector[c].id)
  /\ \/ \A s \in Sessions : Open(s)' = Open(s)
     \/ \E s \in collector[c].held :
          ~Open(s)' /\ \A r \in Sessions \ {s} : Open(r)' = Open(r)

\* What a step does to the leases: it grants one, lets one run out, ends a
\* collection, or leaves every live row where it is.
LEMMA LeaseCases ==
  ASSUME TypeOK, [Next]_sessionVars
  PROVE  \/ \E c \in Collectors : Checkout(c)
         \/ \E l \in leases : LeaseTimeout(l)
         \/ \E c \in Collectors : Ends(c) /\ collector'[c].pc # "using"
              /\ \A d \in Collectors \ {c} : collector'[d] = collector[d]
         \/ /\ leases' = leases \/ SweepExpired
            /\ \A c \in Collectors : collector'[c].pc = "using" => collector'[c] = collector[c]
<1>a. /\ collector \in [Collectors -> CollectorState]
      /\ session \in [Sessions -> SessionRow]
  BY DEF TypeOK, PoolTypeOK
<1>b. \A state \in {Ready("primary"), Ready("failover"), Recovering} : state.pc # "using"
  BY DEF Ready, Recovering
<1>1. ASSUME NEW c \in Collectors,
             CollectSucceeds(c) \/ SessionFails(c) \/ CollectFails(c)
      PROVE  Ends(c) /\ collector'[c].pc # "using"
              /\ \A d \in Collectors \ {c} : collector'[d] = collector[d]
  <2>1. PICK state \in {Ready("primary"), Ready("failover"), Recovering} : Become(c, state)
    BY <1>1 DEF CollectSucceeds, SessionFails, CollectFails, AfterError
  <2>2. collector'[c].pc # "using" /\ \A d \in Collectors \ {c} : collector'[d] = collector[d]
    BY <1>a, <1>b, <2>1 DEF Become
  <2>3. CASE CollectSucceeds(c)
    <3>1. PICK s \in Sessions : Uses(c, s) /\ RecordSuccess(s, Owner(c), collector[c].id)
      BY <2>3 DEF CollectSucceeds
    <3>2. \A r \in Sessions :
            session'[r].status = session[r].status /\ session'[r].cooling = session[r].cooling
      BY <1>a, <3>1 DEF RecordSuccess, Succeeded, SessionRow
    <3> QED  BY <2>2, <3>1, <3>2 DEF Ends, Uses, RecordSuccess, Open
  <2>4. CASE SessionFails(c)
    <3>1. PICK s \in Sessions, error \in {"auth", "other"} :
            Uses(c, s) /\ MarkCooldown(s, Owner(c), collector[c].id, error)
      BY <2>4 DEF SessionFails
    <3>2. session'[s].status = "COOLDOWN" /\ \A r \in Sessions \ {s} : session'[r] = session[r]
      BY <1>a, <3>1 DEF MarkCooldown, SessionRow
    <3> QED  BY <2>2, <3>1, <3>2 DEF Ends, Uses, MarkCooldown, Open
  <2>5. CASE CollectFails(c)
    BY <2>2, <2>5 DEF CollectFails, ReleaseLease, Ends, Open
  <2> QED  BY <1>1, <2>3, <2>4, <2>5
<1>2. ASSUME NEW c \in Collectors, BeginCheckout(c)
      PROVE  /\ SweepExpired
             /\ \A d \in Collectors : collector'[d].pc = "using" => collector'[d] = collector[d]
  <2>1. collector'[c].pc = "choosing" /\ \A d \in Collectors \ {c} : collector'[d] = collector[d]
    BY <1>a, <1>2 DEF BeginCheckout, Become, CollectorState
  <2> QED  BY <1>2, <2>1 DEF BeginCheckout
<1>3. ASSUME NEW c \in Collectors,
             CheckoutConflict(c) \/ NoSession(c) \/ RecoveryEnds(c) \/ Abandon(c)
      PROVE  /\ leases' = leases
             /\ \A d \in Collectors : collector'[d].pc = "using" => collector'[d] = collector[d]
  <2>1. PICK state \in {Ready("primary"), Ready("failover"), Recovering} : Become(c, state)
    BY <1>3 DEF CheckoutConflict, NoSession, RecoveryEnds, Abandon, AfterError
  <2>2. collector'[c].pc # "using" /\ \A d \in Collectors \ {c} : collector'[d] = collector[d]
    BY <1>a, <1>b, <2>1 DEF Become
  <2> QED  BY <1>3, <2>2 DEF CheckoutConflict, NoSession, RecoveryEnds, Abandon, pool
<1>4. ASSUME \/ RecoverCooldowns \/ ScanDead \/ RepairSession \/ RefresherStops
             \/ (\E s \in Sessions : Seed(s) \/ CoolsDown(s)) \/ UNCHANGED sessionVars
      PROVE  leases' = leases /\ collector' = collector
  <2>1. collector' = collector
    BY <1>4 DEF RecoverCooldowns, ScanDead, RepairSession, RefresherStops, Seed, CoolsDown,
       sessionVars
  <2> QED  BY <1>4, <2>1, OthersLeaveLeases
<1> QED  BY <1>1, <1>2, <1>3, <1>4 DEF Next, CollectorStep

LendInv == OneLeasePerOwner /\ RowIsHeld

\* A row that is not of a lease in use may come, and any may go.
LEMMA LendStep ==
  ASSUME TypeOK, LendInv, [Next]_sessionVars
  PROVE  LendInv'
<1>1. CASE \E c \in Collectors : Checkout(c)
  <2>1. PICK c \in Collectors : Checkout(c)
    BY <1>1
  <2>2. PICK s \in collector[c].seen, id \in FreshIds :
          /\ InsertLease(s, Owner(c), id)
          /\ Become(c, [collector[c] EXCEPT !.pc = "using", !.seen = {}, !.held = {s}, !.id = id])
    BY <2>1 DEF Checkout
  <2>3. PICK row : /\ row = [id |-> id, session |-> s, owner |-> Owner(c), live |-> TRUE]
                   /\ leases' = leases \cup {row}
    BY <2>2 DEF InsertLease
  <2>4. /\ \A l \in leases : ~(l.session = s /\ l.owner = Owner(c)) /\ l.id # id
        /\ \A d \in Collectors : collector[d].id # id
    BY <2>2 DEF InsertLease, Taken, FreshIds
  <2>5. OneLeasePerOwner'
    <3>1. \A l \in leases' : l \in leases \/ l = row
      BY <2>3
    <3>2. row.session = s /\ row.owner = Owner(c)
      BY <2>3
    <3> QED  BY <2>4, <3>1, <3>2 DEF LendInv, OneLeasePerOwner
  <2>6. collector \in [Collectors -> CollectorState]
    BY DEF TypeOK
  <2>7. /\ collector'[c].held = {s} /\ collector'[c].id = id
        /\ \A d \in Collectors \ {c} : collector'[d] = collector[d]
    BY <2>2, <2>6 DEF Become, CollectorState
  <2>8. RowIsHeld'
    BY <2>3, <2>4, <2>7 DEF LendInv, RowIsHeld
  <2> QED  BY <2>5, <2>8 DEF LendInv
<1>2. ASSUME NEW k \in leases, LeaseTimeout(k)
      PROVE  LendInv'
  <2>1. PICK row : /\ row = [k EXCEPT !.live = FALSE]
                   /\ leases' = (leases \ {k}) \cup {row}
                   /\ collector' = collector
    BY <1>2 DEF LeaseTimeout, LeaseRunsOut
  <2>2. row.id = k.id /\ row.session = k.session /\ row.owner = k.owner
    BY <2>1 DEF TypeOK, PoolTypeOK, LeaseRow
  <2>3. \A l \in leases' : l \in leases \ {k} \/ l = row
    BY <2>1
  <2>4. OneLeasePerOwner'
    <3>1. \A l \in leases \ {k} : ~(l.session = k.session /\ l.owner = k.owner)
      BY DEF LendInv, OneLeasePerOwner
    <3> QED  BY <2>2, <2>3, <3>1 DEF LendInv, OneLeasePerOwner
  <2>5. RowIsHeld'
    <3> SUFFICES ASSUME NEW d \in Collectors, collector[d].pc = "using",
                        NEW l \in leases', l.id = collector[d].id
                 PROVE  collector[d].held = {l.session}
      BY <2>1 DEF RowIsHeld
    <3>1. PICK m \in leases : m.id = l.id /\ m.session = l.session
      BY <2>2, <2>3
    <3> QED  BY <3>1 DEF LendInv, RowIsHeld
  <2> QED  BY <2>4, <2>5 DEF LendInv
<1>3. ASSUME leases' \subseteq leases,
             \A c \in Collectors : collector'[c].pc = "using" => collector'[c] = collector[c]
      PROVE  LendInv'
  BY <1>3 DEF LendInv, OneLeasePerOwner, RowIsHeld
<1>4. CASE \E c \in Collectors : Ends(c) /\ collector'[c].pc # "using"
              /\ \A d \in Collectors \ {c} : collector'[d] = collector[d]
  BY <1>3, <1>4 DEF Ends
<1> QED  BY <1>1, <1>2, <1>3, <1>4, LeaseCases DEF SweepExpired

\* The borrower's view.
Fit == [s \in Sessions |-> Open(s)]
Loans == [s \in Sessions |-> Live(s)]

\* A row that goes, and with it nothing else, is one loan that ends.
LEMMA LoanEnds ==
  ASSUME PoolTypeOK, NEW l \in leases, l.live, Loans' = [s \in Sessions |-> Live(s) \ {l}]
  PROVE  /\ l.session \in Sessions /\ l \in Loans[l.session]
         /\ Loans' = [Loans EXCEPT ![l.session] = @ \ {l}]
<1>1. l.session \in Sessions
  BY DEF PoolTypeOK, LeaseRow
<1>2. \A s \in Sessions \ {l.session} : Live(s) \ {l} = Live(s)
  BY DEF Live
<1> QED  BY <1>1, <1>2 DEF Loans, Live

\* What a step is to a borrower, when a session has at most excess - 1 slots more than
\* max_concurrency: a loan begins or ends, or the sessions are judged anew.
LoanBegins(excess, s) ==
  /\ Fit[s]
  /\ Cardinality(Loans[s]) < MaxConcurrency[s] + excess - 1
  /\ \E loan \in LeaseRow :
       /\ \A other \in Loans[s] : other.owner # loan.owner
       /\ Loans' = [Loans EXCEPT ![s] = @ \cup {loan}]
  /\ UNCHANGED Fit

LoanEnded(s) ==
  /\ \E loan \in Loans[s] : Loans' = [Loans EXCEPT ![s] = @ \ {loan}]
  /\ Fit' \in {Fit, [Fit EXCEPT ![s] = FALSE]}

LEMMA CheckoutLends ==
  ASSUME TypeOK, IsFiniteSet(leases), NEW excess \in Nat, BookedWithin(excess),
         NEW c \in Collectors, Checkout(c)
  PROVE  \E s \in Sessions : LoanBegins(excess, s)
<1>1. PICK s \in collector[c].seen, id \in FreshIds :
        StillOpen(s) /\ InsertLease(s, Owner(c), id)
  BY DEF Checkout
<1>2. /\ s \in Sessions /\ id \in 1..MaxLeases /\ Owner(c) \in Owners
      /\ collector[c].pc = "choosing"
  BY OwnerType DEF CollectorState, FreshIds, Checkout
<1>3. PICK row : /\ row = [id |-> id, session |-> s, owner |-> Owner(c), live |-> TRUE]
                 /\ leases' = leases \cup {row} /\ session' = session
  BY <1>1 DEF InsertLease
<1>4. row \in LeaseRow
  BY <1>2, <1>3 DEF LeaseRow
<1>5. row.session = s /\ row.owner = Owner(c) /\ row.live
  BY <1>3
<1>6. Loans' = [Loans EXCEPT ![s] = @ \cup {row}]
  <2>1. \A r \in Sessions : Live(r)' = IF r = s THEN Live(s) \cup {row} ELSE Live(r)
    BY <1>3, <1>5 DEF Live
  <2> QED  BY <1>2, <2>1 DEF Loans
<1>7. Fit[s] /\ UNCHANGED Fit
  BY <1>1, <1>2, <1>3 DEF StillOpen, Fit, Open
<1>8. \A other \in Loans[s] : other.owner # row.owner
  BY <1>1, <1>2, <1>5 DEF InsertLease, Taken, Loans, Live
<1>9. Cardinality(Loans[s]) < MaxConcurrency[s] + excess - 1
  <2>1. c \in Choosers(s)
    BY <1>2 DEF Choosers
  <2>2. /\ IsFiniteSet(Choosers(s)) /\ Cardinality(Choosers(s)) \in Nat
        /\ Cardinality(Live(s)) \in Nat /\ MaxConcurrency[s] \in Nat
        /\ Cardinality(Live(s)) + Cardinality(Choosers(s)) < MaxConcurrency[s] + excess
    BY <1>2, Counts DEF BookedWithin
  <2>3. Cardinality(Choosers(s)) # 0
    BY <2>1, <2>2, FS_EmptySet
  <2> QED  BY <1>2, <2>2, <2>3 DEF Loans
<1> QED  BY <1>2, <1>4, <1>6, <1>7, <1>8, <1>9 DEF LoanBegins

LEMMA TimeoutEnds ==
  ASSUME TypeOK, NEW l \in leases, LeaseTimeout(l)
  PROVE  \E s \in Sessions : LoanEnded(s)
<1>1. PICK row : /\ row = [l EXCEPT !.live = FALSE] /\ l.live
                 /\ leases' = (leases \ {l}) \cup {row} /\ session' = session
  BY DEF LeaseTimeout, LeaseRunsOut
<1>2. ~row.live
  BY <1>1 DEF TypeOK, PoolTypeOK, LeaseRow
<1>3. Loans' = [s \in Sessions |-> Live(s) \ {l}]
  BY <1>1, <1>2 DEF Loans, Live
<1>4. Fit' = Fit
  BY <1>1 DEF Fit, Open
<1> QED  BY <1>1, <1>3, <1>4, LoanEnds DEF TypeOK, LoanEnded

\* The collector has at most one row, of the session it works with.
LEMMA EndEnds ==
  ASSUME TypeOK, LendInv, NEW c \in Collectors, Ends(c)
  PROVE  (\E s \in Sessions : LoanEnded(s)) \/ UNCHANGED Loans
<1> DEFINE D == Deleted(Owner(c), collector[c].id)
<1>1. \A l \in D : l \in leases /\ l.owner = Owner(c) /\ collector[c].held = {l.session}
  BY DEF Deleted, LendInv, RowIsHeld, Ends
<1>2. leases' = leases \ D
  BY DEF Ends
<1> HIDE DEF D
<1>3. CASE \A l \in D : ~l.live
  BY <1>2, <1>3 DEF Loans, Live
<1>4. ASSUME NEW l \in D, l.live
      PROVE  \E s \in Sessions : LoanEnded(s)
  <2>1. \A m \in D : m = l
    <3> SUFFICES ASSUME NEW m \in D PROVE m = l
      OBVIOUS
    <3>1. {l.session} = {m.session}
      BY <1>1
    <3> QED  BY <1>1, <3>1 DEF LendInv, OneLeasePerOwner
  <2>2. leases' = leases \ {l}
    BY <1>2, <1>4, <2>1
  <2>3. Loans' = [s \in Sessions |-> Live(s) \ {l}]
    BY <2>2 DEF Loans, Live
  <2>4. /\ l.session \in Sessions /\ l \in Loans[l.session]
        /\ Loans' = [Loans EXCEPT ![l.session] = @ \ {l}]
    BY <1>1, <1>4, <2>3, LoanEnds DEF TypeOK
  <2>5. Fit' = Fit \/ Fit' = [Fit EXCEPT ![l.session] = FALSE]
    <3>1. CASE \A s \in Sessions : Open(s)' = Open(s)
      BY <3>1 DEF Fit
    <3>2. CASE \E s \in collector[c].held :
                 ~Open(s)' /\ \A r \in Sessions \ {s} : Open(r)' = Open(r)
      <4>1. ~Open(l.session)' /\ \A r \in Sessions \ {l.session} : Open(r)' = Open(r)
        BY <1>1, <3>2
      <4>2. \A r \in Sessions : Fit'[r] = IF r = l.session THEN FALSE ELSE Fit[r]
        BY <4>1 DEF Fit, Open
      <4>3. Fit' = [Fit EXCEPT ![l.session] = FALSE]
        BY <2>4, <4>2 DEF Fit
      <4> QED  BY <4>3
    <3> QED  BY <3>1, <3>2 DEF Ends
  <2> QED  BY <2>4, <2>5 DEF LoanEnded
<1> QED  BY <1>3, <1>4

\* Every step is one of these.
LEMMA BorrowersView ==
  ASSUME TypeOK, LendInv, IsFiniteSet(leases), NEW excess \in Nat, BookedWithin(excess),
         [Next]_sessionVars
  PROVE  \/ \E s \in Sessions : LoanBegins(excess, s) \/ LoanEnded(s)
         \/ Fit' \in [Sessions -> BOOLEAN] /\ UNCHANGED Loans
<1>1. Fit' \in [Sessions -> BOOLEAN]
  BY DEF Fit, Open
<1>2. CASE leases' = leases \/ SweepExpired
  <2>1. UNCHANGED Loans
    BY <1>2 DEF SweepExpired, Loans, Live
  <2> QED  BY <1>1, <2>1
<1> QED  BY <1>1, <1>2, LeaseCases, CheckoutLends, TimeoutEnds, EndEnds

\* No lease at first.
LEMMA NothingLent ==
  ASSUME Init
  PROVE  LendInv /\ Fit \in [Sessions -> BOOLEAN] /\ Loans = [s \in Sessions |-> {}]
<1>1. leases = {} /\ \A c \in Collectors : collector[c].pc = "ready"
  BY DEF Init, PoolInit, Ready
<1>2. LendInv
  BY <1>1 DEF LendInv, OneLeasePerOwner, RowIsHeld
<1>3. Loans = [s \in Sessions |-> {}]
  BY <1>1 DEF Loans, Live
<1> QED  BY <1>2, <1>3 DEF Fit, Open

\* What the abstract lease table needs is kept, whoever runs under whatever name.
LEMMA LendInvariance == Spec => []LendInv
<1>1. Init => LendInv
  BY NothingLent
<1> QED  BY <1>1, LendStep, SessionTypes, PTL DEF Spec

\* SessionLending counts as SessionFailover does.
LEMMA SameCount == \A S : Lending!Cardinality(S) = Cardinality(S)
BY DEF Lending!Cardinality, Cardinality

\* The pool, the collectors, the daemons and the scripts implement SessionLending with
\* one slot less than one per collector beyond max_concurrency, for any sessions,
\* names and number of collectors.
THEOREM ImplementsLending == Spec => LendingSpec
<1> DEFINE n == Cardinality(Collectors)
           Book == IsFiniteSet(leases) /\ BookedWithin(n)
<1>1. n \in Nat
  BY FailoverConstants, FS_CardinalityType
<1>2. Init => Lending!Init
  BY NothingLent DEF Lending!Init, Fit, Loans
<1>3. TypeOK /\ LendInv /\ Book /\ [Next]_sessionVars => [Lending!Next]_Lending!vars
  <2> HIDE DEF n
  <2> SUFFICES ASSUME TypeOK, LendInv, Book, [Next]_sessionVars PROVE Lending!Next
    OBVIOUS
  <2>1. \/ \E s \in Sessions : LoanBegins(n, s) \/ LoanEnded(s)
        \/ Fit' \in [Sessions -> BOOLEAN] /\ UNCHANGED Loans
    BY <1>1, BorrowersView
  <2>2. ASSUME NEW s \in Sessions, LoanBegins(n, s) PROVE Lending!Lend(s)
    BY <2>2, SameCount DEF LoanBegins, Lending!Lend, Fit, Loans, n
  <2>3. ASSUME NEW s \in Sessions, LoanEnded(s) PROVE Lending!End(s)
    BY <2>3 DEF LoanEnded, Lending!End, Fit, Loans
  <2>4. ASSUME Fit' \in [Sessions -> BOOLEAN], UNCHANGED Loans PROVE Lending!Judge
    BY <2>4 DEF Lending!Judge, Fit, Loans
  <2> QED  BY <2>1, <2>2, <2>3, <2>4 DEF Lending!Next
<1>4. Init => Book
  BY <1>1, NothingBooked
<1>5. TypeOK /\ Book /\ [Next]_sessionVars => Book'
  <2> SUFFICES ASSUME TypeOK, Book, [Next]_sessionVars PROVE Book'
    OBVIOUS
  <2>1. OverlapWithin(n)'
    BY <1>1, FailoverConstants, FS_Subset DEF OverlapWithin, Choosers
  <2> HIDE DEF n
  <2> QED  BY <1>1, <2>1, BookingStep
<1> HIDE DEF Book
<1> QED  BY <1>2, <1>3, <1>4, <1>5, SessionTypes, LendInvariance, PTL
         DEF Spec, LendingSpec, Lending!Spec

\* The same promise with max_concurrency slots.
InTurn == INSTANCE SessionLending WITH
  Loan <- LeaseRow, Slots <- MaxConcurrency, fit <- Fit, loans <- Loans

LEMMA SameCountInTurn == \A S : InTurn!Cardinality(S) = Cardinality(S)
BY DEF InTurn!Cardinality, Cardinality

\* While no two collectors are between their SELECT and their row lock for the same
\* session, the pool lends every session at most max_concurrency times: to a borrower
\* it is then one queue at a counter.
THEOREM LendsInTurn == Spec /\ []OverlapWithin(1) => InTurn!Spec
<1> DEFINE Book == IsFiniteSet(leases) /\ BookedWithin(1)
<1>1. Init => InTurn!Init
  BY NothingLent DEF InTurn!Init
<1>2. TypeOK /\ LendInv /\ Book /\ [Next]_sessionVars => [InTurn!Next]_InTurn!vars
  <2> SUFFICES ASSUME TypeOK, LendInv, Book, [Next]_sessionVars PROVE InTurn!Next
    OBVIOUS
  <2>1. \/ \E s \in Sessions : LoanBegins(1, s) \/ LoanEnded(s)
        \/ Fit' \in [Sessions -> BOOLEAN] /\ UNCHANGED Loans
    BY BorrowersView
  <2>2. ASSUME NEW s \in Sessions, LoanBegins(1, s) PROVE InTurn!Lend(s)
    <3>1. MaxConcurrency[s] + 1 - 1 = MaxConcurrency[s]
      BY PoolConstants
    <3> QED  BY <2>2, <3>1, SameCountInTurn DEF LoanBegins, InTurn!Lend
  <2>3. ASSUME NEW s \in Sessions, LoanEnded(s) PROVE InTurn!End(s)
    BY <2>3 DEF LoanEnded, InTurn!End
  <2>4. ASSUME Fit' \in [Sessions -> BOOLEAN], UNCHANGED Loans PROVE InTurn!Judge
    BY <2>4 DEF InTurn!Judge
  <2> QED  BY <2>1, <2>2, <2>3, <2>4 DEF InTurn!Next
<1>3. Init => Book
  BY NothingBooked
<1>4. TypeOK /\ Book /\ [Next]_sessionVars /\ OverlapWithin(1)' => Book'
  BY BookingStep
<1> HIDE DEF Book
<1> QED  BY <1>1, <1>2, <1>3, <1>4, SessionTypes, LendInvariance, PTL DEF Spec, InTurn!Spec
=============================================================================
