----------------------------- MODULE RedisStream -----------------------------
(***************************************************************************)
(* The Redis stream and its one consumer group, as RedisStreamQueue, the   *)
(* outbox dispatcher and the lease guard use it.  An entry's id is its     *)
(* place in the stream.  Which consumer owns a pending entry is left out:  *)
(* no code reads a consumer's own backlog, so the owner decides nothing.   *)
(* The stream is never trimmed.                                            *)
(***************************************************************************)
EXTENDS Naturals, Sequences

VARIABLES
  stream,         \* the entries, in the order of XADD
  delivered,      \* the group's last-delivered id
  pel,            \* ids delivered and not acknowledged
  idle            \* those of them idle for min_idle_time or longer

RedisTypeOK(Contents) ==
  /\ stream \in Seq(Contents)
  /\ delivered \in 0..Len(stream)
  /\ pel \subseteq 1..delivered
  /\ idle \subseteq pel

redis == <<stream, delivered, pel, idle>>

RedisInit ==
  /\ stream = << >>
  /\ delivered = 0
  /\ pel = {}
  /\ idle = {}

Entries == 1..Len(stream)
Undelivered == (delivered + 1)..Len(stream)
\* An entry some consumer will still be given.
InFlight(m) == m \in Undelivered \cup pel
Visible(e) == \E m \in Entries : stream[m] = e

Xadd(e) ==
  /\ stream' = Append(stream, e)
  /\ UNCHANGED <<delivered, pel, idle>>

\* XREADGROUP ... COUNT 1 with id ">": the next entry nobody was given yet.
ReadGroup ==
  /\ Undelivered # {}
  /\ delivered' = delivered + 1
  /\ pel' = pel \cup {delivered + 1}
  /\ UNCHANGED <<stream, idle>>

\* XAUTOCLAIM from 0-0 with COUNT 1: the oldest entry idle long enough.
AutoClaim(m) ==
  /\ m \in idle /\ \A n \in idle : m <= n
  /\ idle' = idle \ {m}
  /\ UNCHANGED <<stream, delivered, pel>>

\* XCLAIM with min_idle_time 0 and idle 0: a pending entry is touched, an
\* acknowledged one is not found and nothing changes.
Touch(m) ==
  /\ idle' = idle \ {m}
  /\ UNCHANGED <<stream, delivered, pel>>

Xack(m) ==
  /\ pel' = pel \ {m}
  /\ idle' = idle \ {m}
  /\ UNCHANGED <<stream, delivered>>

IdleTimePasses(m) ==
  /\ m \in pel \ idle
  /\ idle' = idle \cup {m}
  /\ UNCHANGED <<stream, delivered, pel>>
=============================================================================
