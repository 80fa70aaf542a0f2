-------------------------- MODULE CapabilityPlanner --------------------------
(***************************************************************************)
(* capabilities.py: how a task's payload becomes a request, how a request  *)
(* is validated against the capability contract, and which route and which *)
(* limits it is planned with.  Operators only: what raises a               *)
(* CapabilityContractError in the code is a predicate that fails here.     *)
(*                                                                         *)
(* A JSON value is a record named for its type, so that values of two      *)
(* types are never equal: [int |-> 2], [bool |-> TRUE], [null |-> TRUE]    *)
(* and [str |-> "OpenAI", padded |-> FALSE], a string with or without      *)
(* white space around it.                                                  *)
(***************************************************************************)
EXTENDS Integers, FiniteSets

CONSTANTS
  Catalog,  \* the contract of each capability: its inputs and its page sizes
  Digits,   \* the number a string of digits stands for
  Dates,    \* the strings that are ISO dates
  None

Null == [null |-> TRUE]
IntVal(n) == [int |-> n]
StrVal(s) == [str |-> s, padded |-> FALSE]
JsonValue == [null : {TRUE}] \cup [int : Int] \cup [bool : BOOLEAN]
               \cup [str : STRING, padded : BOOLEAN]

ASSUME NoneIsNoValue == None \notin JsonValue /\ None \notin Nat

IsString(v) == "str" \in DOMAIN v
IsInteger(v) == "int" \in DOMAIN v
IsBoolean(v) == "bool" \in DOMAIN v

IsOfType(v, type) ==
  \/ type = "string" /\ IsString(v)
  \/ type = "integer" /\ IsInteger(v)
  \/ type = "boolean" /\ IsBoolean(v)

\* payload.get(key)
Get(payload, key) == IF key \in DOMAIN payload THEN payload[key] ELSE Null

Strip(v) == [v EXCEPT !.padded = FALSE]
Least(m, n) == IF m < n THEN m ELSE n

-----------------------------------------------------------------------------
\* _validate_input: which values a field accepts, and what it makes of them.

AcceptsInput(v, spec) ==
  IF v = Null THEN spec.nullable
  ELSE /\ IsOfType(v, spec.type)
       /\ spec.enum # {} => v \in spec.enum
       /\ IsString(v) /\ spec.nonempty => v.str # ""
       /\ IsString(v) /\ spec.date => v.str \in Dates /\ (v.padded => spec.nonempty)
       /\ IsInteger(v) => v.int \in spec.range

NormalInput(v, spec) == IF IsString(v) /\ spec.nonempty THEN Strip(v) ELSE v

\* What is expected of a contract document: a default is a value its own field
\* accepts as it is, and a choice has no white space to be stripped of.
ASSUME ContractIsSound ==
  \A c \in DOMAIN Catalog :
    LET inputs == Catalog[c].inputs IN
      /\ "null" \notin DOMAIN inputs
      /\ \A n \in DOMAIN inputs :
           /\ inputs[n].default # None =>
                AcceptsInput(inputs[n].default, inputs[n])
                  /\ NormalInput(inputs[n].default, inputs[n]) = inputs[n].default
           /\ inputs[n].nonempty => inputs[n].enum = {}

ASSUME ContractIsJson ==
  \A c \in DOMAIN Catalog :
    /\ Catalog[c].default_page_size \in Nat
    /\ \A n \in DOMAIN Catalog[c].inputs : Catalog[c].inputs[n].default \in JsonValue \cup {None}

ASSUME DigitsAreNumbers == \A s \in DOMAIN Digits : Digits[s] \in Nat

\* CapabilitySpec.validate_params: no unknown input, none missing that is
\* required, every one acceptable; defaults are filled in.
AcceptsParams(params, inputs) ==
  /\ DOMAIN params \subseteq DOMAIN inputs
  /\ \A name \in DOMAIN inputs \ DOMAIN params :
       inputs[name].default # None \/ ~inputs[name].required
  /\ \A name \in DOMAIN params : AcceptsInput(params[name], inputs[name])

NormalParams(params, inputs) ==
  [name \in DOMAIN params \cup {n \in DOMAIN inputs : inputs[n].default # None} |->
     IF name \in DOMAIN params THEN NormalInput(params[name], inputs[name])
     ELSE inputs[name].default]

\* CapabilityRequest.__post_init__ and CapabilityCatalog.validate.
AcceptsRequest(r) ==
  /\ r.page_size # None => r.page_size > 0
  /\ r.capability \in DOMAIN Catalog
  /\ r.page_size # None => r.page_size <= Catalog[r.capability].maximum_page_size
  /\ AcceptsParams(r.params, Catalog[r.capability].inputs)

Validated(r) == [r EXCEPT !.params = NormalParams(@, Catalog[r.capability].inputs)]

-----------------------------------------------------------------------------
\* Mutant: an input the route does not know is ignored.
SupportsAnything(route, inputs, params) == DOMAIN params \subseteq DOMAIN inputs

\* _route_supports_params: an input the route does not know is harmless when it
\* is null or its default.
RouteSupports(route, inputs, params) ==
  route.inputs # {} =>
    \A name \in DOMAIN params \ route.inputs :
      params[name] = Null \/ params[name] = inputs[name].default

\* CapabilityPlanner.plan, of a validated request.
Candidates(routes, r) ==
  {route \in routes :
     /\ route.enabled
     /\ route.capability = r.capability
     /\ route.products = {} \/ Get(r.params, "product") \in route.products \cup {Null}
     /\ RouteSupports(route, Catalog[r.capability].inputs, r.params)}

Precedes(a, b) == a.priority < b.priority \/ (a.priority = b.priority /\ a.id < b.id)

Preferred(routes) == CHOOSE a \in routes : \A b \in routes \ {a} : Precedes(a, b)

Plannable(routes, r) == AcceptsRequest(r) /\ Candidates(routes, Validated(r)) # {}

\* Mutant: the smaller limit of the contract and the route is not taken.
Unclamped(wanted, limit) == wanted

\* What a route allows of what is wanted.
Clamped(wanted, limit) == IF limit = None THEN wanted ELSE Least(wanted, limit)

Plan(routes, request) ==
  LET r == Validated(request)
      route == Preferred(Candidates(routes, r))
      page_size == IF r.page_size = None THEN Catalog[r.capability].default_page_size
                   ELSE r.page_size
      pages == IF "max_pages" \in DOMAIN r.params THEN r.params["max_pages"].int ELSE 1
      size == Clamped(page_size, route.maximum_page_size)
      limit == Clamped(pages, route.maximum_pages)
  IN [ request |-> r, route |-> route, page_size |-> size, max_pages |-> limit,
       warnings |-> (IF size < page_size THEN {"PAGE_SIZE_CLAMPED_TO_ROUTE"} ELSE {})
                    \cup (IF limit < pages THEN {"MAX_PAGES_CLAMPED_TO_ROUTE"} ELSE {}) ]

\* legacy_search_planner: one route over the session-backed adapters.
LegacyRoute(maximum_page_size, maximum_pages) ==
  [ id |-> 1, capability |-> "SEARCH_TWEETS@1", executor |-> "LEGACY_SOURCE_ADAPTER",
    priority |-> 100, enabled |-> TRUE, products |-> {StrVal("Latest")},
    inputs |-> {"query", "product", "max_pages"},
    maximum_page_size |-> maximum_page_size, maximum_pages |-> maximum_pages ]

-----------------------------------------------------------------------------
\* request_from_task: the payload of a task is a function of the keys it has.

\* `payload.get(key) or default`: null, zero, FALSE and "" are replaced.
Falsy(v) == v = Null \/ v \in {IntVal(0), [bool |-> FALSE], StrVal("")}
GetOr(payload, key, default) ==
  IF Falsy(Get(payload, key)) THEN default ELSE Get(payload, key)

\* _legacy_positive_integer: what int() reads, and only if it is positive.
ReadsAsNumber(v) ==
  \/ IsInteger(v) \/ IsBoolean(v)
  \/ IsString(v) /\ v.str \in DOMAIN Digits
Number(v) ==
  IF IsInteger(v) THEN v.int
  ELSE IF IsBoolean(v) THEN (IF v.bool THEN 1 ELSE 0)
  ELSE Digits[v.str]
PositiveNumber(v) == ReadsAsNumber(v) /\ Number(v) > 0

\* _optional_string and _optional_integer
OptionalString(v) == v = Null \/ IsString(v)
OptionalInteger(v) == v = Null \/ IsInteger(v)

\* A CAPABILITY_REQUEST payload.  Its params are a function, or null when the
\* payload has none or something else in their place.  The worker has a correlation
\* id of its own for one that is missing; nothing depends on which it is.
AcceptsCapabilityPayload(p) ==
  /\ Get(p, "params") # Null
  /\ OptionalString(Get(p, "cursor"))
  /\ OptionalInteger(Get(p, "page_size"))
  /\ OptionalString(GetOr(p, "correlation_id", Null))

SizeOf(v) == IF v = Null THEN None ELSE v.int

FromCapabilityPayload(p) ==
  [ capability |-> GetOr(p, "capability", StrVal("")).str, params |-> p["params"],
    cursor |-> Get(p, "cursor"), page_size |-> SizeOf(Get(p, "page_size")) ]

\* The compatibility translation of an X_KEYWORD_SEARCH payload.  max_pages is
\* there: the worker has put its own default in.
AcceptsLegacyPayload(p) ==
  /\ PositiveNumber(p["max_pages"])
  /\ OptionalString(Get(p, "cursor"))
  /\ Get(p, "page_size") # Null => PositiveNumber(p["page_size"])

FromLegacyPayload(p) ==
  [ capability |-> "SEARCH_TWEETS@1",
    params |-> [ query |-> Strip(GetOr(p, "search_keyword", StrVal(""))),
                 product |-> GetOr(p, "product", StrVal("Latest")),
                 max_pages |-> IntVal(Number(p["max_pages"])) ],
    cursor |-> Get(p, "cursor"),
    page_size |-> IF Get(p, "page_size") = Null THEN None ELSE Number(p["page_size"]) ]

\* Mutant: the page size is left out.
ShortPayload(r) ==
  [ capability |-> StrVal(r.capability), params |-> r.params, cursor |-> r.cursor ]

\* CapabilityRequest.to_task_payload
ToTaskPayload(r) ==
  [ capability |-> StrVal(r.capability), params |-> r.params, cursor |-> r.cursor,
    page_size |-> IF r.page_size = None THEN Null ELSE IntVal(r.page_size) ]
=============================================================================
