---------------------------- MODULE MCAcquisition ----------------------------
(***************************************************************************)
(* Acquisition with the contract of contracts/capabilities.v1.json (one    *)
(* input of each kind) and the payloads a client may submit: every input   *)
(* missing, null, its default, another good value and a bad one.           *)
(***************************************************************************)
EXTENDS Acquisition, TLC

Field(type) ==
  [ type |-> type, required |-> FALSE, nullable |-> FALSE, default |-> None, enum |-> {},
    range |-> Nat, nonempty |-> FALSE, date |-> FALSE ]
SearchInputs ==
  [ query |-> [Field("string") EXCEPT !.required = TRUE, !.nonempty = TRUE],
    product |-> [Field("string") EXCEPT !.default = StrVal("Latest"),
                   !.enum = {StrVal("Latest"), StrVal("Top"), StrVal("Media")}],
    max_pages |-> [Field("integer") EXCEPT !.default = IntVal(2), !.range = 1..10],
    include_replies |-> [Field("boolean") EXCEPT !.default = [bool |-> TRUE]],
    since |-> [Field("string") EXCEPT !.nullable = TRUE, !.date = TRUE],
    from_user |-> [Field("string") EXCEPT !.nullable = TRUE] ]
SearchCatalog ==
  "SEARCH_TWEETS@1" :> [inputs |-> SearchInputs, default_page_size |-> 20, maximum_page_size |-> 200]

Numerals == ("1" :> 1) @@ ("2" :> 2) @@ ("3" :> 3) @@ ("250" :> 250)
CalendarDates == {"2026-01-01"}
Padded(s) == [str |-> s, padded |-> TRUE]
Present(choice) == [key \in {k \in DOMAIN choice : choice[k] # None} |-> choice[key]]

SearchParams ==
  { Present(choice) : choice \in
      [ query : {StrVal("text"), Padded("text"), Padded(""), Null},
        product : {None, StrVal("Latest"), StrVal("Top"), StrVal("Best")},
        max_pages : {None, IntVal(0), IntVal(1), IntVal(3), IntVal(11), [bool |-> TRUE]},
        include_replies : {None, [bool |-> TRUE], [bool |-> FALSE]},
        since : {None, StrVal("2026-01-01"), StrVal("soon")},
        from_user : {None, Null, StrVal("someone")} ] }
OddParams == { Null, [product |-> StrVal("Latest")],
               [query |-> IntVal(1)], [query |-> StrVal("text"), unknown |-> Null] }
CapabilityTasks ==
  { [type |-> "CAPABILITY_REQUEST", payload |-> [capability |-> StrVal("SEARCH_TWEETS@1"), params |-> p]] :
      p \in SearchParams }
SizedTasks ==
  { [type |-> "CAPABILITY_REQUEST", payload |-> Present(choice)] : choice \in
      [ capability : {StrVal("SEARCH_TWEETS@1")},
        params : {[query |-> Padded("text"), product |-> v] : v \in {StrVal("Latest"), StrVal("Top")}},
        cursor : {None, StrVal("2")}, page_size : {None, IntVal(15), IntVal(201)} ] }
OddTasks ==
  { [type |-> "CAPABILITY_REQUEST", payload |-> Present(choice)] : choice \in
      [ capability : {None, StrVal("SEARCH_TWEETS@1"), StrVal("SEARCH_USERS@1")},
        params : OddParams \cup {[query |-> StrVal("text")]},
        cursor : {None, Null, StrVal(""), IntVal(1)},
        page_size : {Null, IntVal(0), IntVal(200), StrVal("15")},
        correlation_id : {None, IntVal(7)} ] }
LegacyTasks ==
  { [type |-> "X_KEYWORD_SEARCH", payload |-> Present(choice)] : choice \in
      [ search_keyword : {None, StrVal(""), Padded(""), Padded("text")},
        product : {None, StrVal(""), StrVal("Top")},
        max_pages : {None, Null, IntVal(0), IntVal(3), StrVal("2"), StrVal("many"), [bool |-> TRUE]},
        cursor : {None, StrVal("3"), IntVal(2)},
        page_size : {None, Null, IntVal(5), StrVal("250"), StrVal("big")} ] }

OtherTasks == {[type |-> "X_USER_LOOKUP", payload |-> [search_keyword |-> StrVal("text")]]}
\* Collections of several pages, from the first or a later one.
PagedTasks ==
  { [type |-> "CAPABILITY_REQUEST", payload |-> Present(choice)] : choice \in
      [ capability : {StrVal("SEARCH_TWEETS@1")},
        params : {[query |-> StrVal("text"), max_pages |-> IntVal(n)] : n \in 1..4},
        cursor : {None, StrVal(""), StrVal("2"), StrVal("3")} ] }
AllTasks == CapabilityTasks \cup SizedTasks \cup OddTasks \cup LegacyTasks \cup OtherTasks \cup PagedTasks

\* The protocol runtime's route, planned beside the legacy one.
RuntimeRoute ==
  [ id |-> 2, capability |-> "SEARCH_TWEETS@1", executor |-> "XREV_PROTOCOL_RUNTIME",
    priority |-> 200, enabled |-> TRUE, products |-> {}, inputs |-> {},
    maximum_page_size |-> None, maximum_pages |-> None ]
TwoRoutes == {RuntimeRoute, [RuntimeRoute EXCEPT !.id = 3, !.priority = 50, !.enabled = FALSE]}

SomeEnvironments ==
  { [page_size |-> 20, max_pages |-> 1, recovery |-> TRUE],
    [page_size |-> 50, max_pages |-> 3, recovery |-> FALSE],
    [page_size |-> 5, max_pages |-> 11, recovery |-> TRUE] }
=============================================================================
