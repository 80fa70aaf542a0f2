--------------------------- MODULE SessionLending ----------------------------
(***************************************************************************)
(* What the session pool promises its borrowers: a session is lent while   *)
(* it is fit for use and has a slot to spare, to one loan of an owner at a *)
(* time; loans end one by one, and nothing that is done to a session takes *)
(* a loan away, except that the loan's end may itself report the session   *)
(* unfit.  Cooldowns, logins, sweeps and lease ids are not visible.        *)
(***************************************************************************)
EXTENDS Naturals, FiniteSets

CONSTANTS
  Sessions,
  Loan,       \* records with the owner of the loan
  Slots       \* loans a session may have at a time

VARIABLES
  fit,        \* the sessions that may be lent
  loans       \* of each session

vars == <<fit, loans>>

Init ==
  /\ fit \in [Sessions -> BOOLEAN]
  /\ loans = [s \in Sessions |-> {}]

Lend(s) ==
  /\ fit[s]
  /\ Cardinality(loans[s]) < Slots[s]
  /\ \E loan \in Loan :
       /\ \A other \in loans[s] : other.owner # loan.owner
       /\ loans' = [loans EXCEPT ![s] = @ \cup {loan}]
  /\ UNCHANGED fit

End(s) ==
  /\ \E loan \in loans[s] : loans' = [loans EXCEPT ![s] = @ \ {loan}]
  /\ fit' \in {fit, [fit EXCEPT ![s] = FALSE]}

\* Sessions are benched, repaired, revoked and seeded, whoever has borrowed them.
Judge == fit' \in [Sessions -> BOOLEAN] /\ UNCHANGED loans

Next == (\E s \in Sessions : Lend(s) \/ End(s)) \/ Judge

Spec == Init /\ [][Next]_vars
=============================================================================
