----------------------------- MODULE Acquisition -----------------------------
(***************************************************************************)
(* IngestionExecutor.collect in worker.py: a task is planned, and then     *)
(* collected page by page, each page by the primary adapter, once more by  *)
(* it after a session fault, and by the recovery adapter after that.       *)
(*                                                                         *)
(* The source is a list of pages; a cursor is the number of the page it    *)
(* stands for.  What the pages hold is left out, and what sessions are     *)
(* leased and cooled down on the way is the part of SessionFailover.       *)
(***************************************************************************)
EXTENDS CapabilityPlanner, Sequences

CONSTANTS
  Tasks,        \* the tasks: [type |-> ..., payload |-> ...]
  Environments, \* COLLECTOR_PAGE_SIZE, COLLECTOR_MAX_PAGES and ENABLE_BROWSER_RECOVERY
                \* as they may be set
  OtherRoutes,  \* routes of an injected planner to other executors, beside the legacy one
  Last          \* how many pages of results the source has

ASSUME AcquisitionConstants ==
  /\ \A e \in Environments :
       e.page_size \in Nat \ {0} /\ e.max_pages \in Nat \ {0} /\ e.recovery \in BOOLEAN
  /\ Last \in Nat \ {0}

\* Tasks are stored as JSONB.  str() of something else than a string is left out:
\* keyword and product of a legacy task are strings.
ASSUME PayloadsAreJson ==
  \A t \in Tasks :
    /\ \A key \in DOMAIN t.payload \ {"params"} : t.payload[key] \in JsonValue
    /\ Get(t.payload, "params") # Null =>
         \A n \in DOMAIN t.payload["params"] : t.payload["params"][n] \in JsonValue
    /\ t.type = "X_KEYWORD_SEARCH" =>
         OptionalString(Get(t.payload, "search_keyword")) /\ OptionalString(Get(t.payload, "product"))

\* Routes are sorted by priority and id; the id stands for the place in the list, too.
ASSUME RoutesInOrder ==
  /\ IsFiniteSet(OtherRoutes)
  /\ \A a \in OtherRoutes :
       a.priority \in Int /\ a.id \in Nat \ {1} /\ a.executor # "LEGACY_SOURCE_ADAPTER"
  /\ \A a, b \in OtherRoutes : a.id = b.id => a = b

\* xingestion/contracts/capabilities.v1.json: max_pages is from 1 to 10 and has a default.
ASSUME PagesOfContract ==
  \A c \in DOMAIN Catalog \cap {"SEARCH_TWEETS@1"} :
    /\ "max_pages" \in DOMAIN Catalog[c].inputs
    /\ LET spec == Catalog[c].inputs["max_pages"]
       IN spec.type = "integer" /\ ~spec.nullable /\ spec.default # None /\ spec.range \subseteq 1..10

\* A cursor a client brings along names a page of the source.
ASSUME CursorsArePages ==
  \A t \in Tasks :
    LET c == Get(t.payload, "cursor")
    IN IsString(c) => c.str = "" \/ (c.str \in DOMAIN Digits /\ Digits[c.str] \in 1..Last)

VARIABLES
  task,        \* the task
  settings,    \* what Settings.from_env made of the environment
  pc,          \* where collect() stands
  plan,        \* the AcquisitionPlan
  cursor,      \* the next page, or None
  pageNumber,  \* how many pages the loop has done
  collected,   \* the pages the primary adapter has answered with, in their order
  recovered    \* whether the last batch is the recovery adapter's

vars == <<task, settings, pc, plan, cursor, pageNumber, collected, recovered>>

-----------------------------------------------------------------------------
\* Planning

\* Settings.from_env: positive numbers, a page size of at most 20, any number of
\* pages.
FromEnv(e) == [ collector_page_size |-> Least(e.page_size, 20),
                collector_max_pages |-> e.max_pages,
                browser_recovery_enabled |-> e.recovery ]

\* task_payload.setdefault("max_pages", settings.collector_max_pages)
WithSetting(payload, n) ==
  [key \in DOMAIN payload \cup {"max_pages"} |->
     IF key \in DOMAIN payload THEN payload[key] ELSE IntVal(n)]

Payload == IF task.type = "X_KEYWORD_SEARCH" THEN WithSetting(task.payload, settings.collector_max_pages)
           ELSE task.payload

\* request_from_task
AcceptsTask ==
  \/ task.type = "CAPABILITY_REQUEST" /\ AcceptsCapabilityPayload(Payload)
  \/ task.type = "X_KEYWORD_SEARCH" /\ AcceptsLegacyPayload(Payload)

Request == IF task.type = "X_KEYWORD_SEARCH" THEN FromLegacyPayload(Payload)
           ELSE FromCapabilityPayload(Payload)

\* The planner of IngestionExecutor.__init__.
Routes == {LegacyRoute(Least(settings.collector_page_size, 20), settings.collector_max_pages)}
            \cup OtherRoutes

CanPlan == AcceptsTask /\ Plannable(Routes, Request)

\* A cursor of a payload names a page; an empty one is none.
PageOf(c) == IF c = Null THEN None ELSE IF c.str = "" THEN None ELSE Digits[c.str]

Init ==
  /\ task \in Tasks
  /\ \E e \in Environments : settings = FromEnv(e)
  /\ pc = "planning"
  /\ plan = None
  /\ cursor = None
  /\ pageNumber = 0
  /\ collected = <<>>
  /\ recovered = FALSE

\* A request that breaks the contract, has no route, or whose route needs
\* another executor is a PermanentTaskFailure.
StartCollecting ==
  /\ pc = "planning"
  /\ IF CanPlan /\ Plan(Routes, Request).route.executor = "LEGACY_SOURCE_ADAPTER"
     THEN /\ plan' = Plan(Routes, Request)
          /\ cursor' = PageOf(Request.cursor)
          /\ pc' = "requesting"
     ELSE /\ pc' = "failed"
          /\ UNCHANGED <<plan, cursor>>
  /\ UNCHANGED <<task, settings, pageNumber, collected, recovered>>

-----------------------------------------------------------------------------
\* Adapters

\* TwikitSearchAdapter.collect: what each error of the library is raised as.
\* No session at all is an AuthenticationFailure of the checkout.  An answer that
\* cannot be read, or a database error, is no CollectionError.
SessionErrors == {"NoSession", "BadCookies", "Unauthorized", "Forbidden", "AccountLocked",
                  "AccountSuspended", "TooManyRequests"}
CollectionErrors == SessionErrors \cup {"RequestTimeout", "ServerError", "TwitterException", "OSError"}
OtherErrors == {"KeyError", "DatabaseError"}

\* The page a request asks for, and the cursor its answer ends with.
Asked(c) == IF c = None THEN 1 ELSE c
After(p) == IF p < Last THEN p + 1 ELSE None

\* Mutant: the cursor stays where it was.
StuckReceive(next) ==
  /\ pageNumber' = pageNumber + 1
  /\ pc' = IF next = None \/ pageNumber + 1 >= plan.max_pages THEN "done" ELSE "requesting"
  /\ UNCHANGED <<task, settings, plan, cursor>>

\* Mutant: the page is not counted.
UncountedReceive(next) ==
  /\ cursor' = next
  /\ pc' = IF next = None \/ pageNumber + 1 >= plan.max_pages THEN "done" ELSE "requesting"
  /\ UNCHANGED <<task, settings, plan, pageNumber>>

\* A batch: the loop ends without a next cursor or after max_pages.
Receive(next) ==
  /\ cursor' = next
  /\ pageNumber' = pageNumber + 1
  /\ pc' = IF next = None \/ pageNumber + 1 >= plan.max_pages THEN "done" ELSE "requesting"
  /\ UNCHANGED <<task, settings, plan>>

GoTo(place) ==
  /\ pc' = place
  /\ UNCHANGED <<task, settings, plan, cursor, pageNumber, collected, recovered>>

\* The library returns a page and the cursor of the next.
PrimaryAnswers ==
  /\ pc \in {"requesting", "failover"}
  /\ collected' = Append(collected, Asked(cursor))
  /\ UNCHANGED recovered
  /\ Receive(After(Asked(cursor)))

\* Mutant: every session fault is followed by another request.
AfterAnyFailure(error) ==
  IF error \in SessionErrors THEN (IF pc = "requesting" THEN "failover" ELSE "requesting")
  ELSE IF error \in CollectionErrors /\ settings.browser_recovery_enabled THEN "recovering"
  ELSE "failed"

\* A session fault is answered by one failover to another session; any other
\* CollectionError, or a second one, by the recovery adapter if there is one.
AfterFailure(error) ==
  IF pc = "requesting" /\ error \in SessionErrors THEN "failover"
  ELSE IF error \in CollectionErrors /\ settings.browser_recovery_enabled THEN "recovering"
  ELSE "failed"

PrimaryFails(error) ==
  /\ pc \in {"requesting", "failover"}
  /\ GoTo(AfterFailure(error))

\* PlaywrightSearchAdapter.collect opens the live search page, so it starts at
\* the top whatever the cursor, and has no next one.
RecoveryAnswers ==
  /\ pc = "recovering"
  /\ recovered' = TRUE
  /\ UNCHANGED collected
  /\ Receive(None)

RecoveryFails ==
  /\ pc = "recovering"
  /\ GoTo("failed")

Next ==
  \/ StartCollecting
  \/ PrimaryAnswers
  \/ \E error \in CollectionErrors \cup OtherErrors : PrimaryFails(error)
  \/ RecoveryAnswers
  \/ RecoveryFails

Spec == Init /\ [][Next]_vars /\ WF_vars(Next)

-----------------------------------------------------------------------------
\* The request of a collection: collect() passes on a query, a product, a number
\* of pages, a page size and a cursor.  Nothing else the client asked for is
\* ignored: leaving it to the contract's defaults gives the same request.
Passed == {"query", "product", "max_pages"}
NothingIgnored ==
  plan # None =>
    LET params == plan.request.params
        filled == NormalParams([n \in DOMAIN params \cap Passed |-> params[n]],
                               Catalog[plan.request.capability].inputs)
    IN \A n \in DOMAIN params : params[n] = Null \/ (n \in DOMAIN filled /\ filled[n] = params[n])

\* No more pages and no larger pages than the contract, the route and the
\* settings allow, and fewer than were asked for only with a warning.
WithinLimits ==
  plan # None =>
    /\ pageNumber <= plan.max_pages
    /\ plan.max_pages <= settings.collector_max_pages
    /\ plan.page_size <= settings.collector_page_size
    /\ plan.max_pages < plan.request.params["max_pages"].int
         <=> "MAX_PAGES_CLAMPED_TO_ROUTE" \in plan.warnings
    /\ plan.request.params["max_pages"] \in {IntVal(n) : n \in 1..10}

\* A request that was planned can be stored as a task of its own and is then
\* planned in the same way: validation changes nothing the second time.
PlanIsRepeatable ==
  plan # None =>
    LET payload == ToTaskPayload(plan.request)
    IN /\ AcceptsCapabilityPayload(payload)
       /\ Plannable(Routes, FromCapabilityPayload(payload))
       /\ Plan(Routes, FromCapabilityPayload(payload)) = plan

\* CURSOR_PROGRESSION: each page is the one after the page before, the first is
\* the page asked for, and next_cursor reports the page to go on with.  Only a
\* batch of the recovery adapter, which knows no cursors, is not a next page, and
\* nothing is collected after it.
CursorProgression ==
  /\ collected # <<>> =>
       /\ collected[1] = Asked(PageOf(plan.request.cursor))
       /\ \A i \in 1..Len(collected) - 1 : collected[i + 1] = collected[i] + 1
       /\ ~recovered => cursor = After(collected[Len(collected)])
  /\ recovered => pc = "done" /\ cursor = None

\* How many answers a collection can still wait for: of each page it has left, one
\* of the primary adapter, one after the failover and one of the recovery adapter.
AnswersSpent == [requesting |-> 0, failover |-> 1, recovering |-> 2]
StepsLeft ==
  IF pc = "planning" THEN 3 * 10 + 1
  ELSE IF pc \in DOMAIN AnswersSpent THEN 3 * (plan.max_pages - pageNumber) - AnswersSpent[pc]
  ELSE 0

\* Whatever the adapters answer and however often sessions fail, each step of
\* collect() uses up what is left of it: a task is at most 30 requests.
RequestsRunOut == [][StepsLeft' \in 0..(StepsLeft - 1)]_vars

\* A collection ends, whatever the adapters answer.
CollectEnds == <>(pc \in {"done", "failed"})
=============================================================================
