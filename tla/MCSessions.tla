------------------------------ MODULE MCSessions ------------------------------
(***************************************************************************)
(* SessionFailover with the same max_concurrency for every session, and    *)
(* with worker names that are a collector's own or shared by all (each     *)
(* process numbers its workers from worker-1).                             *)
(***************************************************************************)
EXTENDS SessionFailover

CONSTANTS Slots

EqualConcurrency == [s \in Sessions |-> Slots]
SharedName == [c \in Collectors |-> CHOOSE n \in Names : TRUE]
OwnName == [c \in Collectors |-> c]
=============================================================================
