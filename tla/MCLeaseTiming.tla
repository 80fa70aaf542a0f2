---------------------------- MODULE MCLeaseTiming ----------------------------
(***************************************************************************)
(* LeaseTiming for short times, accepted or refused, with and without room *)
(* for late heartbeats, and for the reclaim interval of two minutes that   *)
(* is used when none is set.                                               *)
(***************************************************************************)
EXTENDS LeaseTiming

Env(l, h, r, n) == [lease |-> l, heartbeat |-> h, reclaim |-> r, late |-> n]
AllEnvironments ==
  { Env(1, 1, None, 0) }
    \cup { Env(l, h, r, n) : l \in 1..3, h \in {None} \cup 1..6, r \in 1..10, n \in 0..2 }
=============================================================================
