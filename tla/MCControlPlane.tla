---------------------------- MODULE MCControlPlane ----------------------------
(***************************************************************************)
(* ControlPlane, with the invariant of its proofs, and with every worker   *)
(* under a name of its own.                                                *)
(***************************************************************************)
EXTENDS ControlPlaneInvariant, TLC

OwnName == [w \in Workers |-> w]

Symmetry ==
  Permutations(TaskIds) \cup Permutations(Workers) \cup Permutations(Dispatchers)
=============================================================================
