-------------------------- MODULE AcquisitionProofs --------------------------
(***************************************************************************)
(* What the runs of MCAcquisition show of a few payloads and pages, for    *)
(* every contract, route, payload and source: validating a request twice   *)
(* changes nothing, a stored request is planned as it was, no filter is    *)
(* ignored, pages follow each other, there are never more of them, nor     *)
(* larger ones, than the contract, the route and the settings allow, and   *)
(* no order of errors and failovers makes a collection go on for ever.     *)
(***************************************************************************)
EXTENDS Acquisition, FiniteSetTheorems, WellFoundedInduction, TLAPS

-----------------------------------------------------------------------------
\* Validation

\* A string is not null, and stripping it again changes nothing.
LEMMA Stripped ==
  ASSUME NEW v, IsString(v)
  PROVE  /\ IsString(Strip(v)) /\ Strip(v) # Null /\ v # Null
         /\ DOMAIN Strip(v) = DOMAIN v
         /\ Strip(v).str = v.str
         /\ "int" \in DOMAIN v => Strip(v).int = v.int
         /\ Strip(Strip(v)) = Strip(v)
<1>1. DOMAIN Strip(v) = DOMAIN v
  BY DEF Strip
<1>2. "str" \in DOMAIN v
  BY DEF IsString
<1>3. DOMAIN Null = {"null"}
  BY DEF Null
<1>4. Strip(v) # Null /\ v # Null
  BY <1>1, <1>2, <1>3
<1>5. Strip(v).str = v.str /\ ("int" \in DOMAIN v => Strip(v).int = v.int)
  BY <1>2 DEF Strip
<1>6. Strip(Strip(v)) = Strip(v)
  BY DEF Strip
<1> QED
  BY <1>1, <1>2, <1>4, <1>5, <1>6 DEF IsString

\* What _validate_input returns it accepts, and returns as it is.
LEMMA NormalIsAccepted ==
  ASSUME NEW v, NEW spec, AcceptsInput(v, spec), spec.nonempty => spec.enum = {}
  PROVE  /\ AcceptsInput(NormalInput(v, spec), spec)
         /\ NormalInput(NormalInput(v, spec), spec) = NormalInput(v, spec)
<1>1. CASE ~(IsString(v) /\ spec.nonempty)
  BY <1>1 DEF NormalInput
<1>2. CASE IsString(v) /\ spec.nonempty
  <2>1. NormalInput(v, spec) = Strip(v) /\ NormalInput(Strip(v), spec) = Strip(v)
    BY <1>2, Stripped DEF NormalInput
  <2>2. AcceptsInput(Strip(v), spec)
    BY <1>2, Stripped DEF AcceptsInput, IsOfType, IsString, IsInteger, IsBoolean
  <2> QED
    BY <2>1, <2>2
<1> QED
  BY <1>1, <1>2

\* The same of validate_params, defaults included.
LEMMA NormalParamsAreAccepted ==
  ASSUME NEW c \in DOMAIN Catalog, NEW params, AcceptsParams(params, Catalog[c].inputs)
  PROVE  LET inputs == Catalog[c].inputs
             normal == NormalParams(params, inputs)
         IN /\ AcceptsParams(normal, inputs)
            /\ NormalParams(normal, inputs) = normal
            /\ normal # Null
<1> DEFINE inputs == Catalog[c].inputs
           Defaulted == {n \in DOMAIN inputs : inputs[n].default # None}
           normal == NormalParams(params, inputs)
<1>1. /\ "null" \notin DOMAIN inputs
      /\ \A n \in DOMAIN inputs :
           /\ inputs[n].default # None =>
                AcceptsInput(inputs[n].default, inputs[n])
                  /\ NormalInput(inputs[n].default, inputs[n]) = inputs[n].default
           /\ inputs[n].nonempty => inputs[n].enum = {}
  BY ContractIsSound
<1>2. /\ DOMAIN params \subseteq DOMAIN inputs
      /\ \A n \in DOMAIN inputs \ DOMAIN params :
           inputs[n].default # None \/ ~inputs[n].required
      /\ \A n \in DOMAIN params : AcceptsInput(params[n], inputs[n])
  BY DEF AcceptsParams
<1>3. normal = [n \in DOMAIN params \cup Defaulted |->
                  IF n \in DOMAIN params THEN NormalInput(params[n], inputs[n])
                  ELSE inputs[n].default]
  BY DEF NormalParams
<1> HIDE DEF normal
<1>4. DOMAIN normal = DOMAIN params \cup Defaulted
  BY <1>3
<1>5. ASSUME NEW n \in DOMAIN normal
      PROVE  /\ AcceptsInput(normal[n], inputs[n])
             /\ NormalInput(normal[n], inputs[n]) = normal[n]
  <2>1. CASE n \in DOMAIN params
    <3>1. normal[n] = NormalInput(params[n], inputs[n])
      BY <1>3, <1>4, <2>1
    <3>2. n \in DOMAIN inputs /\ AcceptsInput(params[n], inputs[n])
      BY <1>2, <2>1
    <3> QED
      BY <3>1, <3>2, <1>1, NormalIsAccepted
  <2>2. CASE n \notin DOMAIN params
    BY <1>1, <1>3, <1>4, <2>2
  <2> QED
    BY <2>1, <2>2
<1>6. AcceptsParams(normal, inputs)
  <2>1. DOMAIN normal \subseteq DOMAIN inputs
    BY <1>2, <1>4
  <2>2. \A n \in DOMAIN inputs \ DOMAIN normal :
          inputs[n].default # None \/ ~inputs[n].required
    BY <1>2, <1>4
  <2> QED
    BY <2>1, <2>2, <1>5 DEF AcceptsParams
<1>7. NormalParams(normal, inputs) = normal
  <2>1. NormalParams(normal, inputs)
          = [n \in DOMAIN normal \cup Defaulted |->
               IF n \in DOMAIN normal THEN NormalInput(normal[n], inputs[n])
               ELSE inputs[n].default]
    BY DEF NormalParams
  <2>2. DOMAIN normal \cup Defaulted = DOMAIN normal
    BY <1>4
  <2>3. NormalParams(normal, inputs) = [n \in DOMAIN normal |-> normal[n]]
    BY <2>1, <2>2, <1>5
  <2> QED
    BY <2>3, <1>3
<1>8. normal # Null
  <2>1. "null" \in DOMAIN Null
    BY DEF Null
  <2>2. "null" \notin DOMAIN normal
    BY <1>1, <1>2, <1>4
  <2> QED
    BY <2>1, <2>2
<1> QED
  BY <1>6, <1>7, <1>8 DEF normal

\* A request is the record of its four parts.
IsRequest(r) ==
  r = [capability |-> r.capability, params |-> r.params, cursor |-> r.cursor,
       page_size |-> r.page_size]

\* A validated request is one that is accepted, and is left as it is.
LEMMA ValidatedIsAccepted ==
  ASSUME NEW r, IsRequest(r), AcceptsRequest(r)
  PROVE  /\ IsRequest(Validated(r))
         /\ AcceptsRequest(Validated(r))
         /\ Validated(Validated(r)) = Validated(r)
         /\ Validated(r).params # Null
         /\ Validated(r).page_size = r.page_size
         /\ Validated(r).cursor = r.cursor
<1> DEFINE inputs == Catalog[r.capability].inputs
           v == Validated(r)
           normal == NormalParams(r.params, inputs)
<1>1. r.capability \in DOMAIN Catalog /\ AcceptsParams(r.params, inputs)
  BY DEF AcceptsRequest
<1>2. v = [capability |-> r.capability, params |-> normal, cursor |-> r.cursor,
           page_size |-> r.page_size]
  BY DEF Validated, IsRequest
<1>3. /\ AcceptsParams(normal, inputs)
      /\ NormalParams(normal, inputs) = normal
      /\ normal # Null
  BY <1>1, NormalParamsAreAccepted
<1> HIDE DEF v, normal
<1>4. IsRequest(v)
  BY <1>2 DEF IsRequest
<1>5. AcceptsRequest(v)
  BY <1>1, <1>2, <1>3 DEF AcceptsRequest
<1>6. Validated(v) = v
  BY <1>2, <1>3 DEF Validated
<1> QED
  BY <1>2, <1>3, <1>4, <1>5, <1>6 DEF v

\* to_task_payload and request_from_task are inverse to each other on requests
\* with a string or nothing for a cursor.
LEMMA PayloadRoundTrip ==
  ASSUME NEW r, IsRequest(r), r.params # Null, OptionalString(r.cursor)
  PROVE  /\ AcceptsCapabilityPayload(ToTaskPayload(r))
         /\ FromCapabilityPayload(ToTaskPayload(r)) = r
<1> DEFINE p == ToTaskPayload(r)
<1>1. p = [capability |-> StrVal(r.capability), params |-> r.params, cursor |-> r.cursor,
           page_size |-> IF r.page_size = None THEN Null ELSE IntVal(r.page_size)]
  BY DEF ToTaskPayload
<1> HIDE DEF p
<1>2. /\ Get(p, "params") = r.params /\ p["params"] = r.params
      /\ Get(p, "cursor") = r.cursor
      /\ Get(p, "capability") = StrVal(r.capability)
      /\ Get(p, "page_size") = IF r.page_size = None THEN Null ELSE IntVal(r.page_size)
  BY <1>1 DEF Get
<1>3. ASSUME NEW n
      PROVE  IntVal(n) # Null /\ IsInteger(IntVal(n)) /\ IntVal(n).int = n
  <2>1. DOMAIN IntVal(n) = {"int"} /\ DOMAIN Null = {"null"}
    BY DEF IntVal, Null
  <2> QED
    BY <2>1 DEF IntVal, IsInteger
<1>4. GetOr(p, "capability", StrVal("")).str = r.capability
  <2>1. ASSUME NEW s PROVE StrVal(s).str = s
    BY DEF StrVal
  <2>2. DOMAIN StrVal(r.capability) = {"str", "padded"} /\ DOMAIN Null = {"null"}
        /\ DOMAIN IntVal(0) = {"int"} /\ DOMAIN [bool |-> FALSE] = {"bool"}
    BY DEF StrVal, Null, IntVal
  <2>3. Falsy(StrVal(r.capability)) => StrVal(r.capability) = StrVal("")
    BY <2>2 DEF Falsy
  <2> QED
    BY <1>2, <2>1, <2>3 DEF GetOr
<1>5. /\ OptionalInteger(Get(p, "page_size"))
      /\ SizeOf(Get(p, "page_size")) = r.page_size
  BY <1>2, <1>3 DEF OptionalInteger, SizeOf
<1>6. AcceptsCapabilityPayload(p)
  <2>1. GetOr(p, "correlation_id", Null) = Null
    BY <1>1 DEF GetOr, Get, Falsy
  <2> QED
    BY <1>2, <1>5, <2>1 DEF AcceptsCapabilityPayload, OptionalString
<1>7. FromCapabilityPayload(p) = r
  BY <1>2, <1>4, <1>5 DEF FromCapabilityPayload, IsRequest
<1> QED
  BY <1>6, <1>7 DEF p

-----------------------------------------------------------------------------
\* Routes

\* What sorted(...)[0] finds: the routes come one after the other, and so each set
\* of them has a first one.
LEMMA PrecedesIsOrder ==
  ASSUME NEW a, NEW b, NEW c,
         a.priority \in Int, b.priority \in Int, c.priority \in Int,
         a.id \in Nat, b.id \in Nat, c.id \in Nat
  PROVE  /\ Precedes(a, b) /\ Precedes(b, c) => Precedes(a, c)
         /\ a.id # b.id => Precedes(a, b) \/ Precedes(b, a)
BY DEF Precedes

\* By contradiction: of the sets without a first route, take one none of whose
\* subsets is one, and leave out a route.
LEMMA FirstRoute ==
  ASSUME NEW S, IsFiniteSet(S), S # {},
         \A a \in S : a.priority \in Int /\ a.id \in Nat,
         \A a, b \in S : a.id = b.id => a = b
  PROVE  Preferred(S) \in S
<1> DEFINE First(a, U) == a \in U /\ \A b \in U \ {a} : Precedes(a, b)
           Bad == {U \in SUBSET S : U # {} /\ ~\E a \in U : First(a, U)}
<1>1. SUFFICES ASSUME Bad # {} PROVE FALSE
  <2>1. S \notin Bad
    BY <1>1
  <2>2. \E a \in S : \A b \in S \ {a} : Precedes(a, b)
    BY <2>1
  <2> QED  BY <2>2 DEF Preferred
<1>2. PICK U \in Bad : \A V \in Bad : ~(<<V, U>> \in StrictSubsetOrdering(S))
  <2>1. IsWellFoundedOn(StrictSubsetOrdering(S), SUBSET S)
    <3>1. IsWellFoundedOn(StrictSubsetOrdering(S), FiniteSubsetsOf(S))
      BY FS_StrictSubsetOrderingWellFounded
    <3>2. FiniteSubsetsOf(S) = SUBSET S
      BY FS_FiniteSubsetsOfFinite
    <3> QED  BY <3>1, <3>2
  <2>2. Bad \subseteq SUBSET S
    OBVIOUS
  <2> HIDE DEF Bad
  <2> QED  BY <1>1, <2>1, <2>2, WFMin
<1>3. PICK x \in U : TRUE
  OBVIOUS
<1> DEFINE V == U \ {x}
<1>4. V \notin Bad
  <2>1. V \in SUBSET S /\ U \in SUBSET S /\ V # U /\ V \subseteq U
    BY <1>3
  <2>2. <<V, U>> \in StrictSubsetOrdering(S)
    BY <2>1 DEF StrictSubsetOrdering
  <2> QED  BY <1>2, <2>2
<1>5. CASE V = {}
  <2>1. First(x, U)
    BY <1>3, <1>5
  <2> QED  BY <1>3, <2>1
<1>6. CASE V # {}
  <2>1. PICK m \in V : First(m, V)
    BY <1>4, <1>6
  <2>2. /\ m \in S /\ x \in S /\ m # x /\ U \subseteq S
        /\ m.id # x.id
    BY <1>3, <2>1
  <2>3. CASE Precedes(m, x)
    <3>1. First(m, U)
      BY <2>1, <2>3
    <3> QED  BY <2>1, <3>1
  <2>4. CASE Precedes(x, m)
    <3>1. \A b \in U \ {x} : Precedes(x, b)
      <4> TAKE b \in U \ {x}
      <4>1. b = m \/ Precedes(m, b)
        BY <2>1
      <4>2. b \in S
        BY <2>2
      <4> QED  BY <2>2, <2>4, <4>1, <4>2, PrecedesIsOrder
    <3>2. First(x, U)
      BY <1>3, <3>1
    <3> QED  BY <1>3, <3>2
  <2> QED  BY <2>2, <2>3, <2>4, PrecedesIsOrder
<1> QED  BY <1>5, <1>6

-----------------------------------------------------------------------------
\* The invariant

\* The plan is the plan of the task, and a page is asked for only under one.
IsPlan(p) ==
  /\ CanPlan /\ p = Plan(Routes, Request)
  /\ p.route.executor = "LEGACY_SOURCE_ADAPTER"
Planned == IsPlan(plan)
PlanOfTask ==
  /\ plan = None \/ Planned
  /\ pc \in {"requesting", "failover", "recovering"} => Planned
  /\ pc = "planning" => collected = <<>>
  /\ pc \in {"planning", "requesting", "failover", "recovering", "done", "failed"}

\* Until the recovery adapter ends the collection, the next page to ask for is
\* the one the request names, or the one after the last.
PagesInOrder ==
  /\ collected \in Seq(Nat)
  /\ CursorProgression
  /\ pc = "planning" => ~recovered
  /\ pc \in {"requesting", "failover", "recovering"} =>
       /\ ~recovered
       /\ IF collected = <<>> THEN cursor = PageOf(plan.request.cursor) ELSE cursor # None

\* The loop has a page to go as long as it runs.
PagesLeft ==
  /\ pageNumber \in Nat
  /\ pc = "planning" => pageNumber = 0
  /\ plan # None => pageNumber <= plan.max_pages
  /\ pc \in {"requesting", "failover", "recovering"} => pageNumber < plan.max_pages

OrderInv == task \in Tasks /\ PlanOfTask /\ PagesInOrder

IInv ==
  /\ settings \in {FromEnv(e) : e \in Environments}
  /\ OrderInv
  /\ PagesLeft

\* The parts of a request that was accepted.
LEMMA RequestOfTask ==
  ASSUME CanPlan
  PROVE  /\ IsRequest(Request) /\ OptionalString(Request.cursor)
         /\ AcceptsRequest(Request)
<1>1. IsRequest(Request)
  BY DEF Request, FromLegacyPayload, FromCapabilityPayload, IsRequest
<1>2. OptionalString(Request.cursor)
  BY DEF CanPlan, AcceptsTask, AcceptsCapabilityPayload, AcceptsLegacyPayload, Request,
         FromLegacyPayload, FromCapabilityPayload
<1>3. AcceptsRequest(Request)
  BY DEF CanPlan, Plannable
<1> QED
  BY <1>1, <1>2, <1>3

\* The cursor of a plan is the cursor of its request.
LEMMA PlannedRequest ==
  ASSUME CanPlan
  PROVE  /\ Plan(Routes, Request).request = Validated(Request)
         /\ Plan(Routes, Request).request.cursor = Request.cursor
<1>1. Plan(Routes, Request).request = Validated(Request)
  BY DEF Plan
<1>2. Validated(Request).cursor = Request.cursor
  BY RequestOfTask, ValidatedIsAccepted
<1> QED
  BY <1>1, <1>2

\* The page a collection starts with is a number.
LEMMA FirstPage ==
  ASSUME CanPlan, task \in Tasks
  PROVE  Asked(PageOf(Request.cursor)) \in Nat
<1> DEFINE c == Get(task.payload, "cursor")
<1>1. Request.cursor = c
  <2>1. Get(Payload, "cursor") = c
    BY DEF Payload, WithSetting, Get
  <2> QED
    BY <2>1 DEF Request, FromLegacyPayload, FromCapabilityPayload
<1>2. c = Null \/ IsString(c)
  BY <1>1, RequestOfTask DEF OptionalString
<1>3. IsString(c) => c.str = "" \/ c.str \in DOMAIN Digits
  BY CursorsArePages
<1> HIDE DEF c
<1>4. CASE c = Null \/ c.str = ""
  BY <1>1, <1>4 DEF PageOf, Asked
<1>5. CASE c # Null /\ c.str # ""
  <2>1. PageOf(c) = Digits[c.str] /\ Digits[c.str] \in Nat
    BY <1>2, <1>3, <1>5, DigitsAreNumbers DEF PageOf
  <2> QED
    BY <1>1, <2>1 DEF Asked
<1> QED
  BY <1>4, <1>5

\* A JSON value is of one of four kinds.
LEMMA JsonKinds ==
  ASSUME NEW v \in JsonValue
  PROVE  /\ IsInteger(v) => v \in [int : Int] /\ v.int \in Int /\ v = IntVal(v.int)
         /\ NormalInput(v, [nonempty |-> TRUE]) \in JsonValue
<1>1. CASE v \in [null : {TRUE}]
  BY <1>1 DEF IsInteger, IsString, NormalInput, JsonValue
<1>2. CASE v \in [int : Int]
  BY <1>2 DEF IsInteger, IsString, NormalInput, IntVal, JsonValue
<1>3. CASE v \in [bool : BOOLEAN]
  BY <1>3 DEF IsInteger, IsString, NormalInput, JsonValue
<1>4. CASE v \in [str : STRING, padded : BOOLEAN]
  BY <1>4 DEF IsInteger, IsString, NormalInput, Strip, JsonValue
<1> QED  BY <1>1, <1>2, <1>3, <1>4, Zenon DEF JsonValue

LEMMA NormalIsJson ==
  ASSUME NEW v \in JsonValue, NEW spec
  PROVE  NormalInput(v, spec) \in JsonValue
BY JsonKinds DEF NormalInput

\* The page limit and the page size of a request are integers, and what else it
\* asks for, query and product aside, are JSON values.
Filters(params) == DOMAIN params \ {"query", "product"}

LEMMA RequestIsJson ==
  ASSUME CanPlan, task \in Tasks, settings.collector_max_pages \in Nat
  PROVE  /\ \A n \in Filters(Request.params) : Request.params[n] \in JsonValue
         /\ Request.page_size \in Int \cup {None}
<1> DEFINE p == Payload
<1>1. /\ \A key \in DOMAIN task.payload \ {"params"} : task.payload[key] \in JsonValue
      /\ Get(task.payload, "params") # Null =>
           \A n \in DOMAIN task.payload["params"] : task.payload["params"][n] \in JsonValue
  BY PayloadsAreJson
<1>2. Null \in JsonValue /\ \A n \in Int : IntVal(n) \in JsonValue
  BY DEF JsonValue, Null, IntVal
<1>4. CASE task.type = "CAPABILITY_REQUEST"
  <2>1. /\ Payload = task.payload /\ Request = FromCapabilityPayload(Payload)
        /\ AcceptsCapabilityPayload(Payload)
    BY <1>4 DEF Payload, Request, CanPlan, AcceptsTask
  <2>2. Request.params = task.payload["params"] /\ Get(task.payload, "params") # Null
    BY <2>1 DEF FromCapabilityPayload, AcceptsCapabilityPayload
  <2>3. Request.page_size \in Int \cup {None}
    <3>1. Get(task.payload, "page_size") \in JsonValue
      BY <1>1, <1>2 DEF Get
    <3>2. Request.page_size = SizeOf(Get(task.payload, "page_size"))
      BY <2>1 DEF FromCapabilityPayload
    <3>3. OptionalInteger(Get(task.payload, "page_size"))
      BY <2>1 DEF AcceptsCapabilityPayload
    <3> QED  BY <3>1, <3>2, <3>3, JsonKinds DEF OptionalInteger, SizeOf
  <2> QED  BY <1>1, <2>2, <2>3 DEF Filters
<1>5. CASE task.type = "X_KEYWORD_SEARCH"
  <2> HIDE DEF p
  <2>1. /\ p = WithSetting(task.payload, settings.collector_max_pages)
        /\ Request = FromLegacyPayload(p) /\ AcceptsLegacyPayload(p)
    BY <1>5 DEF p, Payload, Request, CanPlan, AcceptsTask
  <2>2. "max_pages" \in DOMAIN p /\ \A key \in DOMAIN p \ {"params"} : p[key] \in JsonValue
    BY <1>1, <1>2, <2>1 DEF WithSetting
  <2>3. ASSUME NEW v \in JsonValue, PositiveNumber(v)
        PROVE  Number(v) \in Int
    <3>1. CASE IsInteger(v)
      BY <3>1, JsonKinds DEF Number
    <3>2. CASE ~IsInteger(v) /\ IsBoolean(v)
      BY <3>2 DEF Number
    <3>3. CASE ~IsInteger(v) /\ ~IsBoolean(v)
      BY <2>3, <3>3, DigitsAreNumbers DEF PositiveNumber, ReadsAsNumber, Number
    <3> QED  BY <3>1, <3>2, <3>3
  <2>4. Request.page_size \in Int \cup {None}
    <3>1. Get(p, "page_size") # Null => p["page_size"] \in JsonValue
      BY <2>2 DEF Get
    <3> QED  BY <2>1, <2>3, <3>1 DEF FromLegacyPayload, AcceptsLegacyPayload
  <2>5. Number(p["max_pages"]) \in Int
    BY <2>1, <2>2, <2>3 DEF AcceptsLegacyPayload
  <2>6. /\ DOMAIN Request.params = {"query", "product", "max_pages"}
        /\ Request.params["max_pages"] = IntVal(Number(p["max_pages"]))
    BY <2>1 DEF FromLegacyPayload
  <2> QED  BY <1>2, <2>4, <2>5, <2>6 DEF Filters
<1> QED  BY <1>4, <1>5 DEF CanPlan, AcceptsTask

\* So are those of a validated one, defaults included.
LEMMA ValidatedIsJson ==
  ASSUME NEW r, AcceptsRequest(r), IsRequest(r),
         \A n \in Filters(r.params) : r.params[n] \in JsonValue
  PROVE  \A n \in Filters(Validated(r).params) :
           Validated(r).params[n] \in JsonValue
<1> DEFINE inputs == Catalog[r.capability].inputs
<1>1. /\ Validated(r).params = NormalParams(r.params, inputs)
      /\ r.capability \in DOMAIN Catalog /\ DOMAIN r.params \subseteq DOMAIN inputs
  BY DEF Validated, IsRequest, AcceptsRequest, AcceptsParams
<1>2. \A n \in DOMAIN inputs : inputs[n].default \in JsonValue \cup {None}
  BY <1>1, ContractIsJson
<1> HIDE DEF inputs
<1> QED  BY <1>1, <1>2, NormalIsJson DEF NormalParams, Filters

\* A collection is planned on the one route to the legacy adapter.
LEMMA LegacyPlan ==
  ASSUME NEW p, IsPlan(p)
  PROVE  /\ p.route = LegacyRoute(Least(settings.collector_page_size, 20),
                                      settings.collector_max_pages)
         /\ p.route \in Candidates(Routes, Validated(Request))
<1> DEFINE S == Candidates(Routes, Validated(Request))
           legacy == LegacyRoute(Least(settings.collector_page_size, 20),
                                 settings.collector_max_pages)
<1>1. legacy.id = 1 /\ legacy.priority = 100
  BY DEF LegacyRoute
<1> HIDE DEF legacy
<1>2. Routes = {legacy} \cup OtherRoutes /\ S \subseteq Routes
  BY DEF Routes, Candidates, legacy
<1>3. S # {} /\ p.route = Preferred(S)
  BY DEF IsPlan, CanPlan, Plannable, Plan
<1> HIDE DEF S
<1>4. IsFiniteSet(S)
  BY <1>2, RoutesInOrder, FS_AddElement, FS_Subset
<1>5. /\ \A a \in S : a.priority \in Int /\ a.id \in Nat
      /\ \A a, b \in S : a.id = b.id => a = b
  BY <1>1, <1>2, RoutesInOrder
<1>6. p.route \in S
  BY <1>3, <1>4, <1>5, FirstRoute
<1>7. p.route = legacy
  BY <1>2, <1>6, RoutesInOrder DEF IsPlan
<1> QED  BY <1>6, <1>7 DEF S, legacy

LEMMA InitInOrder == Init => OrderInv
<1> SUFFICES ASSUME Init PROVE OrderInv
  OBVIOUS
<1>1. PlanOfTask
  BY DEF Init, PlanOfTask
<1>2. PagesInOrder
  BY DEF Init, PagesInOrder, CursorProgression
<1> QED
  BY <1>1, <1>2 DEF Init, OrderInv

\* What a plan depends on does not change.
LEMMA SamePlan ==
  ASSUME task' = task, settings' = settings
  PROVE  /\ CanPlan' = CanPlan
         /\ Plan(Routes, Request)' = Plan(Routes, Request)
<1>1. Payload' = Payload
  BY DEF Payload
<1>2. Routes' = Routes
  BY DEF Routes
<1>3. Request' = Request
  BY <1>1 DEF Request
<1>4. AcceptsTask' = AcceptsTask
  BY <1>1 DEF AcceptsTask
<1>5. CanPlan' = CanPlan
  BY <1>2, <1>3, <1>4 DEF CanPlan, Plannable
<1> QED
  BY <1>2, <1>3, <1>5

LEMMA StartKeepsOrder ==
  ASSUME OrderInv, StartCollecting
  PROVE  OrderInv'
<1>1. /\ task' = task /\ settings' = settings /\ collected' = collected /\ collected = <<>>
      /\ recovered' = recovered /\ ~recovered
  BY DEF StartCollecting, OrderInv, PlanOfTask, PagesInOrder
<1>2. CASE CanPlan /\ Plan(Routes, Request).route.executor = "LEGACY_SOURCE_ADAPTER"
  <2>1. plan' = Plan(Routes, Request) /\ cursor' = PageOf(Request.cursor) /\ pc' = "requesting"
    BY <1>2 DEF StartCollecting
  <2>2. Planned'
    BY <1>1, <1>2, <2>1, SamePlan DEF Planned, IsPlan
  <2>3. cursor' = PageOf(plan'.request.cursor)
    BY <1>2, <2>1, PlannedRequest
  <2>4. PlanOfTask'
    BY <2>1, <2>2, <1>1 DEF PlanOfTask
  <2>5. PagesInOrder'
    BY <1>1, <2>1, <2>3 DEF PagesInOrder, CursorProgression
  <2> QED
    BY <1>1, <2>4, <2>5 DEF OrderInv
<1>3. CASE ~(CanPlan /\ Plan(Routes, Request).route.executor = "LEGACY_SOURCE_ADAPTER")
  <2>1. pc' = "failed" /\ UNCHANGED <<plan, cursor>>
    BY <1>3 DEF StartCollecting
  <2>2. Planned' = Planned
    BY <1>1, <2>1, SamePlan DEF Planned, IsPlan
  <2> QED
    BY <1>1, <2>1, <2>2 DEF OrderInv, PlanOfTask, PagesInOrder, CursorProgression
<1> QED
  BY <1>2, <1>3

\* A page by the primary adapter.
LEMMA PageKeepsOrder ==
  ASSUME OrderInv, PrimaryAnswers
  PROVE  OrderInv'
<1> DEFINE p == Asked(cursor)
           n == Len(collected)
<1>1. /\ collected' = Append(collected, p)
      /\ cursor' = After(p) /\ recovered' = recovered
      /\ pc' = IF After(p) = None \/ pageNumber + 1 >= plan.max_pages THEN "done" ELSE "requesting"
      /\ UNCHANGED <<task, settings, plan>>
  BY DEF PrimaryAnswers, Receive
<1>2. Planned /\ Planned' /\ plan.request.cursor = Request.cursor
  BY <1>1, SamePlan, PlannedRequest DEF Planned, IsPlan, PrimaryAnswers, OrderInv, PlanOfTask
<1>3. PlanOfTask'
  BY <1>1, <1>2 DEF PlanOfTask
<1>4. PagesInOrder'
  <2>1. /\ collected \in Seq(Nat)
        /\ CursorProgression
        /\ ~recovered
        /\ IF collected = <<>> THEN cursor = PageOf(plan.request.cursor) ELSE cursor # None
    BY DEF OrderInv, PagesInOrder, PrimaryAnswers
  <2>2. p \in Nat
    <3>1. CASE collected = <<>>
      BY <3>1, <2>1, <1>2, FirstPage DEF OrderInv, Planned, IsPlan
    <3>2. CASE collected # <<>>
      <4>1. cursor = After(collected[n]) /\ cursor # None /\ collected[n] \in Nat
        BY <3>2, <2>1 DEF CursorProgression
      <4> QED
        BY <4>1 DEF After, Asked
    <3> QED
      BY <3>1, <3>2
  <2>3. collected' \in Seq(Nat) /\ collected' # <<>> /\ Len(collected') = n + 1
        /\ collected'[n + 1] = p /\ \A i \in 1..n : collected'[i] = collected[i]
    BY <1>1, <2>1, <2>2
  <2>6. ~recovered'
    BY <1>1, <2>1
  <2>7. pc' # "planning" /\ (pc' # "done" => cursor' # None)
    BY <1>1
  <2>8. SUFFICES CursorProgression'
    BY <2>3, <2>6, <2>7 DEF PagesInOrder
  <2>4. CASE collected = <<>>
    <3>1. n = 0 /\ p = Asked(PageOf(plan.request.cursor))
      BY <2>1, <2>4
    <3> QED
      BY <1>1, <2>3, <2>6, <3>1 DEF CursorProgression
  <2>5. CASE collected # <<>>
    <3>1. /\ n \in Nat \ {0}
          /\ collected[1] = Asked(PageOf(plan.request.cursor))
          /\ \A i \in 1..n - 1 : collected[i + 1] = collected[i] + 1
          /\ cursor = After(collected[n]) /\ cursor # None
      BY <2>1, <2>5 DEF CursorProgression
    <3>2. p = collected[n] + 1
      BY ONLY <3>1 DEF After, Asked
    <3>3. \A i \in 1..n : collected'[i + 1] = collected'[i] + 1
      <4> TAKE i \in 1..n
      <4>1. CASE i = n
        BY <4>1, <2>3, <3>1, <3>2
      <4>2. CASE i # n
        <5>1. i \in 1..n - 1 /\ i + 1 \in 1..n
          BY <4>2, <3>1
        <5> QED
          BY <5>1, <2>3, <3>1
      <4> QED
        BY <4>1, <4>2
    <3>4. collected'[1] = Asked(PageOf(plan'.request.cursor))
      BY <1>1, <2>3, <3>1
    <3>5. Len(collected') - 1 = n /\ cursor' = After(collected'[Len(collected')])
      BY <1>1, <2>3, <3>1
    <3> QED
      BY <2>3, <2>6, <3>3, <3>4, <3>5 DEF CursorProgression, After
  <2> QED
    BY <2>4, <2>5
<1> QED
  BY <1>1, <1>3, <1>4 DEF OrderInv, PagesInOrder

\* A page by the recovery adapter.
LEMMA RecoveryKeepsPlan ==
  ASSUME OrderInv, RecoveryAnswers
  PROVE  OrderInv'
<1>1. /\ pc = "recovering" /\ collected' = collected /\ recovered' = TRUE
      /\ cursor' = None /\ pc' = "done" /\ UNCHANGED <<task, settings, plan>>
  BY DEF RecoveryAnswers, Receive
<1>2. Planned /\ Planned'
  BY <1>1, SamePlan DEF Planned, IsPlan, OrderInv, PlanOfTask
<1> QED
  BY <1>1, <1>2 DEF OrderInv, PlanOfTask, PagesInOrder, CursorProgression

\* A failure only moves on to another adapter.
LEMMA FailureKeepsOrder ==
  ASSUME OrderInv, (\E error \in CollectionErrors \cup OtherErrors : PrimaryFails(error)) \/ RecoveryFails
  PROVE  OrderInv'
<1>1. /\ pc \in {"requesting", "failover", "recovering"}
      /\ pc' \in {"failover", "failed", "recovering"}
      /\ UNCHANGED <<task, settings, plan, cursor, pageNumber, collected, recovered>>
  BY DEF PrimaryFails, RecoveryFails, AfterFailure, GoTo
<1>2. Planned /\ Planned'
  BY <1>1, SamePlan DEF Planned, IsPlan, OrderInv, PlanOfTask
<1> QED
  BY <1>1, <1>2 DEF OrderInv, PlanOfTask, PagesInOrder, CursorProgression

LEMMA NextInOrder == OrderInv /\ [Next]_vars => OrderInv'
<1> SUFFICES ASSUME OrderInv, [Next]_vars PROVE OrderInv'
  OBVIOUS
<1>1. CASE StartCollecting
  BY <1>1, StartKeepsOrder
<1>2. CASE PrimaryAnswers
  BY <1>2, PageKeepsOrder
<1>3. CASE RecoveryAnswers
  BY <1>3, RecoveryKeepsPlan
<1>4. CASE (\E error \in CollectionErrors \cup OtherErrors : PrimaryFails(error)) \/ RecoveryFails
  BY <1>4, FailureKeepsOrder
<1>5. CASE UNCHANGED vars
  <2>1. Planned' = Planned
    BY <1>5, SamePlan DEF vars, Planned, IsPlan
  <2> QED
    BY <1>5, <2>1 DEF vars, OrderInv, PlanOfTask, PagesInOrder, CursorProgression
<1> QED
  BY <1>1, <1>2, <1>3, <1>4, <1>5 DEF Next

-----------------------------------------------------------------------------
\* Limits

LEMMA SettingsType ==
  ASSUME settings \in {FromEnv(e) : e \in Environments}
  PROVE  /\ settings.collector_page_size \in 1..20
         /\ settings.collector_max_pages \in Nat \ {0}
<1>1. PICK e \in Environments : settings = FromEnv(e)
  OBVIOUS
<1>2. e.page_size \in Nat \ {0} /\ e.max_pages \in Nat \ {0}
  BY AcquisitionConstants
<1> QED  BY <1>1, <1>2 DEF FromEnv, Least

\* What a route allows is the smaller of the two, and a number.
LEMMA ClampedIsLeast ==
  ASSUME NEW m \in Int, NEW n \in Nat
  PROVE  /\ Clamped(m, n) \in Int /\ Clamped(m, n) <= n /\ Clamped(m, n) <= m
         /\ Clamped(m, n) = m \/ Clamped(m, n) = n
BY NoneIsNoValue DEF Clamped, Least

\* The validated request of a collection is one of the search contract, and asks
\* for 1 to 10 pages.
LEMMA PagesAskedFor ==
  ASSUME task \in Tasks, settings \in {FromEnv(e) : e \in Environments},
         NEW p, IsPlan(p)
  PROVE  /\ p.request = Validated(Request)
         /\ "max_pages" \in DOMAIN p.request.params
         /\ p.request.params["max_pages"].int \in 1..10
         /\ p.request.params["max_pages"] = IntVal(p.request.params["max_pages"].int)
<1> DEFINE c == Request.capability
           inputs == Catalog[c].inputs
           params == Validated(Request).params
           v == params["max_pages"]
<1>1. /\ CanPlan /\ IsRequest(Request) /\ AcceptsRequest(Request)
      /\ p.request = Validated(Request)
  BY RequestOfTask, PlannedRequest DEF IsPlan
<1>2. /\ c \in DOMAIN Catalog /\ AcceptsParams(Request.params, inputs)
      /\ params = NormalParams(Request.params, inputs)
      /\ Validated(Request).capability = c
  BY <1>1 DEF AcceptsRequest, Validated, IsRequest
<1>3. c = "SEARCH_TWEETS@1"
  BY <1>2, LegacyPlan DEF Candidates, LegacyRoute
<1>4. /\ "max_pages" \in DOMAIN inputs
      /\ inputs["max_pages"].type = "integer" /\ ~inputs["max_pages"].nullable
      /\ inputs["max_pages"].default # None /\ inputs["max_pages"].range \subseteq 1..10
  BY <1>2, <1>3, PagesOfContract
<1>5. "max_pages" \in DOMAIN params
  BY <1>2, <1>4 DEF NormalParams
<1>6. AcceptsInput(v, inputs["max_pages"])
  <2>1. AcceptsParams(params, inputs)
    BY <1>2, NormalParamsAreAccepted
  <2> QED  BY <1>5, <2>1 DEF AcceptsParams
<1>7. v \in JsonValue
  <2>1. "max_pages" \in Filters(params)
    BY <1>5 DEF Filters
  <2>2. settings.collector_max_pages \in Nat
    BY SettingsType
  <2> QED  BY <1>1, <2>1, <2>2, RequestIsJson, ValidatedIsJson
<1> HIDE DEF c, inputs, params, v
<1>8. IsInteger(v) /\ v.int \in inputs["max_pages"].range
  BY <1>4, <1>6 DEF AcceptsInput, IsOfType
<1>9. v.int \in 1..10 /\ v = IntVal(v.int)
  BY <1>4, <1>7, <1>8, JsonKinds
<1> QED  BY <1>1, <1>5, <1>9 DEF v, params

\* The limits of a plan.
LEMMA PlanLimits ==
  ASSUME task \in Tasks, settings \in {FromEnv(e) : e \in Environments},
         NEW p, IsPlan(p)
  PROVE  /\ p.max_pages \in Nat \ {0}
         /\ p.max_pages <= settings.collector_max_pages
         /\ p.page_size <= settings.collector_page_size
         /\ p.max_pages < p.request.params["max_pages"].int
              <=> "MAX_PAGES_CLAMPED_TO_ROUTE" \in p.warnings
<1> DEFINE r == Validated(Request)
           page_size == IF r.page_size = None THEN Catalog[r.capability].default_page_size
                        ELSE r.page_size
           pages == r.params["max_pages"].int
           size == Clamped(page_size, p.route.maximum_page_size)
           limit == Clamped(pages, p.route.maximum_pages)
<1>1. /\ "max_pages" \in DOMAIN r.params /\ pages \in 1..10 /\ p.request = r
  BY PagesAskedFor
<1>2. /\ p.page_size = size /\ p.max_pages = limit
      /\ p.warnings = (IF size < page_size THEN {"PAGE_SIZE_CLAMPED_TO_ROUTE"} ELSE {})
                         \cup (IF limit < pages THEN {"MAX_PAGES_CLAMPED_TO_ROUTE"} ELSE {})
  <2>1. p = Plan(Routes, Request)
    BY DEF IsPlan
  <2> QED  BY <1>1, <2>1 DEF Plan
<1>3. /\ settings.collector_page_size \in 1..20 /\ settings.collector_max_pages \in Nat \ {0}
      /\ p.route.maximum_pages = settings.collector_max_pages
      /\ p.route.maximum_page_size = settings.collector_page_size
  BY SettingsType, LegacyPlan DEF LegacyRoute, Least
<1>4. page_size \in Int
  <2>1. /\ r.page_size = Request.page_size /\ r.capability \in DOMAIN Catalog
    BY RequestOfTask, ValidatedIsAccepted DEF AcceptsRequest, IsPlan
  <2>2. r.page_size \in Int \cup {None}
    BY <1>3, <2>1, RequestIsJson DEF IsPlan
  <2> QED  BY <2>1, <2>2, ContractIsJson
<1> HIDE DEF page_size, pages, r
<1>5. /\ limit \in Nat \ {0} /\ limit <= settings.collector_max_pages
      /\ size <= settings.collector_page_size
  <2>1. settings.collector_page_size \in Nat /\ settings.collector_max_pages \in Nat
    BY <1>3
  <2>2. /\ limit \in Int /\ limit <= settings.collector_max_pages
        /\ limit = pages \/ limit = settings.collector_max_pages
    BY <1>1, <1>3, <2>1, ClampedIsLeast
  <2>3. size <= settings.collector_page_size
    BY <1>3, <1>4, <2>1, ClampedIsLeast
  <2> QED  BY <1>1, <1>3, <2>2, <2>3
<1>6. limit < pages <=> "MAX_PAGES_CLAMPED_TO_ROUTE" \in p.warnings
  BY <1>2
<1>7. p.request.params["max_pages"].int = pages
  BY <1>1 DEF pages
<1> QED  BY <1>2, <1>5, <1>6, <1>7

\* Each page takes one away, and the loop ends with the last.
LEMMA PagesLeftStep ==
  ASSUME IInv, [Next]_vars, PlanOfTask'
  PROVE  /\ PagesLeft'
         /\ settings' \in {FromEnv(e) : e \in Environments}
<1>1. /\ task' = task /\ settings' = settings /\ task \in Tasks
      /\ settings \in {FromEnv(e) : e \in Environments}
      /\ pageNumber \in Nat
      /\ pc = "planning" => pageNumber = 0
      /\ plan # None => pageNumber <= plan.max_pages
      /\ pc \in {"requesting", "failover", "recovering"} => pageNumber < plan.max_pages
  BY DEF Next, StartCollecting, PrimaryAnswers, PrimaryFails, RecoveryAnswers, RecoveryFails,
         Receive, GoTo, vars, IInv, OrderInv, PagesLeft
<1>2. \A p : IsPlan(p) => p.max_pages \in Nat \ {0}
  BY <1>1, PlanLimits
<1>3. CASE StartCollecting
  <2>1. pageNumber' = pageNumber /\ pageNumber = 0 /\ pc' \in {"requesting", "failed"}
    BY <1>1, <1>3 DEF StartCollecting
  <2>2. CASE pc' = "requesting"
    <3>1. plan' = Plan(Routes, Request) /\ IsPlan(plan')
      BY <1>3, <2>2 DEF StartCollecting, IsPlan
    <3> QED  BY <1>1, <1>2, <2>1, <2>2, <3>1 DEF PagesLeft
  <2>3. CASE pc' = "failed"
    <3>1. plan' = plan
      BY <1>3, <2>3 DEF StartCollecting
    <3> QED  BY <1>1, <2>1, <2>3, <3>1 DEF PagesLeft
  <2> QED  BY <2>1, <2>2, <2>3
<1>4. CASE PrimaryAnswers \/ RecoveryAnswers
  <2>1. /\ pageNumber' = pageNumber + 1 /\ plan' = plan
        /\ pc' = "done" \/ (pc' = "requesting" /\ ~(pageNumber + 1 >= plan.max_pages))
        /\ Planned /\ pageNumber < plan.max_pages
    BY <1>1, <1>4 DEF PrimaryAnswers, RecoveryAnswers, Receive, IInv, OrderInv, PlanOfTask
  <2>2. plan.max_pages \in Nat \ {0}
    BY <1>2, <2>1 DEF Planned
  <2> QED  BY <1>1, <2>1, <2>2 DEF PagesLeft
<1>5. CASE (\E error \in CollectionErrors \cup OtherErrors : PrimaryFails(error)) \/ RecoveryFails
  <2>1. /\ pageNumber' = pageNumber /\ plan' = plan
        /\ pc \in {"requesting", "failover", "recovering"}
        /\ pc' \in {"failover", "failed", "recovering"}
    BY <1>5 DEF PrimaryFails, RecoveryFails, AfterFailure, GoTo
  <2> QED  BY <1>1, <2>1 DEF PagesLeft
<1>6. CASE UNCHANGED vars
  BY <1>1, <1>6 DEF vars, PagesLeft
<1> QED  BY <1>3, <1>4, <1>5, <1>6 DEF Next

\* Every reachable state satisfies the invariant.
THEOREM Invariant == Spec => []IInv
<1>1. Init => IInv
  BY InitInOrder DEF Init, IInv, PagesLeft
<1>2. IInv /\ [Next]_vars => IInv'
  BY NextInOrder, PagesLeftStep DEF IInv, OrderInv
<1> QED  BY <1>1, <1>2, PTL DEF Spec

\* A request that was planned can be stored as a task of its own, and is then
\* planned in the same way, whatever the contract and the routes.
THEOREM PlansAreRepeatable == Spec => []PlanIsRepeatable
<1>1. IInv => PlanIsRepeatable
  <2> SUFFICES ASSUME IInv, plan # None
               PROVE  LET payload == ToTaskPayload(plan.request)
                      IN /\ AcceptsCapabilityPayload(payload)
                         /\ Plannable(Routes, FromCapabilityPayload(payload))
                         /\ Plan(Routes, FromCapabilityPayload(payload)) = plan
    BY DEF PlanIsRepeatable
  <2> DEFINE v == Validated(Request)
             payload == ToTaskPayload(v)
  <2>1. CanPlan /\ plan = Plan(Routes, Request)
    BY DEF IInv, OrderInv, PlanOfTask, Planned, IsPlan
  <2>2. plan.request = v
    BY <2>1, PlannedRequest
  <2>3. /\ IsRequest(v) /\ AcceptsRequest(v) /\ Validated(v) = v
        /\ v.params # Null /\ OptionalString(v.cursor)
    BY <2>1, RequestOfTask, ValidatedIsAccepted
  <2>4. AcceptsCapabilityPayload(payload) /\ FromCapabilityPayload(payload) = v
    BY <2>3, PayloadRoundTrip
  <2>5. Plannable(Routes, v)
    BY <2>1, <2>3 DEF CanPlan, Plannable
  <2>6. Plan(Routes, v) = Plan(Routes, Request)
    BY <2>3 DEF Plan
  <2> QED
    BY <2>1, <2>2, <2>4, <2>5, <2>6
<1> QED
  BY <1>1, Invariant, PTL

\* Every collection runs through the pages in their order, from the one the
\* request names, and reports the one to go on with; nothing follows a recovery.
THEOREM PagesFollowEachOther == Spec => []CursorProgression
<1>1. IInv => CursorProgression
  BY DEF IInv, OrderInv, PagesInOrder
<1> QED
  BY <1>1, Invariant, PTL
\* Nothing the client asked for is ignored: what collect() does not pass on is null
\* or what the contract has for it anyway, whatever the contract and the routes.
THEOREM NothingIsIgnored == Spec => []NothingIgnored
<1>1. IInv => NothingIgnored
  <2> SUFFICES ASSUME IInv, plan # None PROVE NothingIgnored
    BY DEF NothingIgnored
  <2> DEFINE params == plan.request.params
             inputs == Catalog[plan.request.capability].inputs
             Defaulted == {n \in DOMAIN inputs : inputs[n].default # None}
             passed == [n \in DOMAIN params \cap Passed |-> params[n]]
             filled == NormalParams(passed, inputs)
  <2>1. /\ Planned /\ task \in Tasks /\ settings \in {FromEnv(e) : e \in Environments}
        /\ plan.request = Validated(Request)
    BY PlannedRequest DEF IInv, OrderInv, PlanOfTask, Planned, IsPlan
  <2>2. /\ IsRequest(Request) /\ AcceptsRequest(Request)
        /\ AcceptsRequest(plan.request) /\ Validated(plan.request) = plan.request
        /\ IsRequest(plan.request)
    BY <2>1, RequestOfTask, ValidatedIsAccepted DEF Planned, IsPlan
  <2>3. /\ DOMAIN params \subseteq DOMAIN inputs
        /\ NormalParams(params, inputs) = params
    BY <2>2 DEF AcceptsRequest, AcceptsParams, Validated, IsRequest
  <2>4. \A n \in DOMAIN params \ Passed : params[n] = Null \/ params[n] = inputs[n].default
    <3>1. plan.route.inputs = Passed /\ plan.route \in Candidates(Routes, plan.request)
      BY <2>1, LegacyPlan DEF Planned, LegacyRoute, Passed
    <3>2. RouteSupports(plan.route, inputs, params)
      BY <3>1 DEF Candidates
    <3> QED  BY <3>1, <3>2 DEF RouteSupports, Passed
  <2>5. \A n \in DOMAIN params \ Passed : params[n] # None
    <3>1. \A n \in Filters(Request.params) : Request.params[n] \in JsonValue
      BY <2>1, SettingsType, RequestIsJson DEF Planned, IsPlan
    <3>2. \A n \in Filters(params) : params[n] \in JsonValue
      BY <2>1, <2>2, <3>1, ValidatedIsJson
    <3> QED  BY <3>2, NoneIsNoValue DEF Filters, Passed
  <2> HIDE DEF params, inputs
  <2>6. filled = [n \in (DOMAIN params \cap Passed) \cup Defaulted |->
                    IF n \in DOMAIN params \cap Passed THEN NormalInput(params[n], inputs[n])
                    ELSE inputs[n].default]
    BY DEF NormalParams
  <2>7. ASSUME NEW n \in DOMAIN params
        PROVE  params[n] = Null \/ (n \in DOMAIN filled /\ filled[n] = params[n])
    <3>1. CASE n \in Passed
      <4>1. params[n] = NormalInput(params[n], inputs[n])
        BY <2>3 DEF NormalParams
      <4> QED  BY <2>6, <3>1, <4>1
    <3>2. CASE n \notin Passed /\ params[n] # Null
      <4>1. params[n] = inputs[n].default /\ n \in Defaulted
        BY <2>3, <2>4, <2>5, <3>2
      <4> QED  BY <2>6, <3>2, <4>1
    <3> QED  BY <3>1, <3>2
  <2> QED  BY <2>7 DEF NothingIgnored, params, inputs
<1> QED  BY <1>1, Invariant, PTL

\* A collection never exceeds the smallest of the limits of the contract, the route
\* and the settings, and is cut short of what was asked for only with a warning.
THEOREM LimitsAreKept == Spec => []WithinLimits
<1>1. IInv => WithinLimits
  <2> SUFFICES ASSUME IInv, plan # None PROVE WithinLimits
    BY DEF WithinLimits
  <2>1. /\ IsPlan(plan) /\ task \in Tasks /\ settings \in {FromEnv(e) : e \in Environments}
        /\ pageNumber <= plan.max_pages
    BY DEF IInv, OrderInv, PlanOfTask, Planned, PagesLeft
  <2>2. plan.request.params["max_pages"] \in {IntVal(n) : n \in 1..10}
    BY <2>1, PagesAskedFor
  <2> QED  BY <2>1, <2>2, PlanLimits DEF WithinLimits
<1> QED  BY <1>1, Invariant, PTL
\* A plan is for at most the ten pages of the contract.
LEMMA PlanIsShort ==
  ASSUME IInv, NEW p, IsPlan(p)
  PROVE  p.max_pages \in 1..10
<1>1. task \in Tasks /\ settings \in {FromEnv(e) : e \in Environments}
  BY DEF IInv, OrderInv
<1> DEFINE pages == p.request.params["max_pages"].int
<1>2. pages \in 1..10 /\ p.max_pages \in Nat \ {0}
  BY <1>1, PagesAskedFor, PlanLimits
<1>3. p.max_pages <= pages
  <2>1. /\ p.max_pages = Clamped(Validated(Request).params["max_pages"].int, p.route.maximum_pages)
        /\ p.request = Validated(Request)
    BY <1>1, PagesAskedFor DEF IsPlan, Plan
  <2>2. p.route.maximum_pages \in Nat
    BY <1>1, SettingsType, LegacyPlan DEF LegacyRoute
  <2> QED  BY <1>2, <2>1, <2>2, ClampedIsLeast
<1> QED  BY <1>2, <1>3

\* A batch leaves at least the three answers of its page behind, a failure the
\* answer that failed.
LEMMA OneAnswerLess ==
  ASSUME IInv, Next
  PROVE  StepsLeft' \in 0..(StepsLeft - 1)
<1>a. /\ AnswersSpent["requesting"] = 0 /\ AnswersSpent["failover"] = 1
      /\ AnswersSpent["recovering"] = 2
      /\ DOMAIN AnswersSpent = {"requesting", "failover", "recovering"}
  BY DEF AnswersSpent
<1>b. /\ pageNumber \in Nat
      /\ pc = "planning" => pageNumber = 0
      /\ pc \in {"requesting", "failover", "recovering"} =>
           pageNumber < plan.max_pages /\ plan.max_pages \in 1..10
  BY PlanIsShort DEF IInv, PagesLeft, OrderInv, PlanOfTask, Planned
<1>1. CASE StartCollecting
  <2>1. StepsLeft = 31
    BY <1>1 DEF StartCollecting, StepsLeft
  <2>2. CASE pc' = "requesting"
    <3>1. IsPlan(plan') /\ pageNumber' = 0
      BY <1>1, <1>b, <2>2 DEF StartCollecting, IsPlan
    <3>2. plan'.max_pages \in 1..10
      BY <3>1, PlanIsShort
    <3>3. StepsLeft' = 3 * plan'.max_pages
      BY <1>a, <2>2, <3>1, <3>2 DEF StepsLeft, AnswersSpent
    <3> QED  BY <2>1, <3>2, <3>3
  <2>3. CASE pc' = "failed"
    <3>1. StepsLeft' = 0
      BY <2>3 DEF StepsLeft, AnswersSpent
    <3> QED  BY <2>1, <3>1
  <2> QED  BY <1>1, <2>2, <2>3 DEF StartCollecting
<1>2. CASE PrimaryAnswers \/ RecoveryAnswers
  <2>1. /\ pc \in {"requesting", "failover", "recovering"}
        /\ pageNumber' = pageNumber + 1 /\ plan' = plan
        /\ pc' = "done" \/ (pc' = "requesting" /\ ~(pageNumber + 1 >= plan.max_pages))
    BY <1>2 DEF PrimaryAnswers, RecoveryAnswers, Receive
  <2>2. /\ StepsLeft = 3 * (plan.max_pages - pageNumber) - AnswersSpent[pc]
        /\ AnswersSpent[pc] \in 0..2
    BY <1>a, <2>1 DEF StepsLeft
  <2>3. StepsLeft' = 0 \/ StepsLeft' = 3 * (plan.max_pages - (pageNumber + 1))
    BY <1>a, <1>b, <2>1 DEF StepsLeft, AnswersSpent
  <2> QED  BY <1>b, <2>1, <2>2, <2>3
<1>3. CASE (\E error \in CollectionErrors \cup OtherErrors : PrimaryFails(error)) \/ RecoveryFails
  <2>1. /\ pageNumber' = pageNumber /\ plan' = plan
        /\ \/ pc = "requesting" /\ pc' \in {"failover", "recovering", "failed"}
           \/ pc = "failover" /\ pc' \in {"recovering", "failed"}
           \/ pc = "recovering" /\ pc' = "failed"
    BY <1>3 DEF PrimaryFails, RecoveryFails, AfterFailure, GoTo
  <2>2. StepsLeft = 3 * (plan.max_pages - pageNumber) - AnswersSpent[pc]
    BY <1>a, <2>1 DEF StepsLeft
  <2>3. \/ pc' = "failed" /\ StepsLeft' = 0
        \/ /\ pc' \in {"failover", "recovering"}
           /\ StepsLeft' = 3 * (plan.max_pages - pageNumber) - AnswersSpent[pc']
    BY <1>a, <2>1 DEF StepsLeft, AnswersSpent
  <2> QED  BY <1>a, <1>b, <2>1, <2>2, <2>3
<1> QED  BY <1>1, <1>2, <1>3 DEF Next

\* Whatever the adapters answer, each step of collect() takes one away from at most
\* 31: what is left of its termination is that adapters answer at all.
THEOREM RequestsAreBounded == Spec => RequestsRunOut
<1>1. IInv /\ [Next]_vars => [StepsLeft' \in 0..(StepsLeft - 1)]_vars
  BY OneAnswerLess
<1> QED  BY <1>1, Invariant, PTL DEF Spec, RequestsRunOut
=============================================================================
