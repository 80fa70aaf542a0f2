--------------------------- MODULE MCObservations ---------------------------
(***************************************************************************)
(* Observations with captures that differ in their text, their likes and   *)
(* the hour they were made in, so that buckets are shared, left, joined    *)
(* and emptied.                                                            *)
(***************************************************************************)
EXTENDS Observations

AnyText == SUBSET Keywords

Capture(words, likes, hour) == [words |-> words, likes |-> likes, hour |-> hour]
Captures ==
  { Capture({1, 2}, 0, 1), Capture({1}, 1, 2) }
OneCapture == { Capture({1}, 0, 1) }
=============================================================================
