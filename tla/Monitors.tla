------------------------------ MODULE Monitors ------------------------------
(***************************************************************************)
(* The two daemons that read what the workers store: analytics_alerts.py,  *)
(* which scans the hourly rollups of a keyword for spikes, and             *)
(* analytics_briefs.py, which has the posts of the last hour summarised.   *)
(*                                                                         *)
(* Time passes in ticks, Hour of them to an hour.  The feed is the         *)
(* sequence of the ingestion times of posts with one keyword: the rollup   *)
(* of a clock hour counts those of that hour.  Both daemons may be late.   *)
(* Neither is restarted: main() of analytics_briefs.py briefs at once, so  *)
(* that a second run of it would look back over the first one's hour.      *)
(***************************************************************************)
EXTENDS Integers, Sequences, FiniteSets

CONSTANTS
  Hour,          \* ticks in an hour: BRIEF_POLL_INTERVAL_SECONDS
  ScanInterval,  \* ALERT_SCAN_INTERVAL in ticks
  Threshold,     \* ALERT_VELOCITY_THRESHOLD
  Top,           \* the LIMIT of a brief
  MaxTime,       \* bound on the time
  MaxPosts       \* bound on the posts

ASSUME MonitorConstants ==
  /\ Hour \in Nat \ {0} /\ ScanInterval \in Nat \ {0} /\ Top \in Nat \ {0}
  /\ Threshold \in Nat /\ MaxTime \in Nat /\ MaxPosts \in Nat

VARIABLES
  now,       \* NOW()
  feed,      \* when each post was ingested
  nextScan,  \* when the alert daemon scans again
  scan,      \* the last scan: the posts of the hour before it, and whether it wrote
             \* an alert
  briefer,   \* the brief daemon: waiting or calling, since when, for which posts
  nextBrief, \* when it starts again
  briefs     \* the calls so far: since when, which posts, and whether the answer
             \* came and is in executive_briefs_history

vars == <<now, feed, nextScan, scan, briefer, nextBrief, briefs>>

-----------------------------------------------------------------------------
Posts == 1..Len(feed)

\* date_trunc('hour', t)
Truncated(t) == (t \div Hour) * Hour

\* Mutant: the scan reaches back to the start of the hour before.
InTruncatedHours == {p \in Posts : Truncated(feed[p]) >= Truncated(now - Hour)}

\* The posts of the rows a scan adds up: rollups whose hour began at most an hour
\* ago.
InRollups == {p \in Posts : Truncated(feed[p]) >= now - Hour}

\* The posts of the last hour, by their own time.
LastHour == {p \in Posts : feed[p] >= now - Hour}

Waiting == [pc |-> "waiting", since |-> 0, posts |-> {}]
Call(answered) == [since |-> briefer.since, posts |-> briefer.posts, answered |-> answered]

Init ==
  /\ now = 0 /\ feed = <<>>
  /\ nextScan = 0 /\ scan = [posts |-> {}, alert |-> FALSE]
  /\ briefer = Waiting
  /\ nextBrief = 0 /\ briefs = <<>>

Tick ==
  /\ now < MaxTime
  /\ now' = now + 1
  /\ UNCHANGED <<feed, nextScan, scan, briefer, nextBrief, briefs>>

\* A worker stores a post that is new.  The worker's own clock stamps it, a moment
\* before the commit that shows it; the model takes the two for one.
Ingest ==
  /\ Len(feed) < MaxPosts
  /\ feed' = Append(feed, now)
  /\ UNCHANGED <<now, nextScan, scan, briefer, nextBrief, briefs>>

-----------------------------------------------------------------------------
\* process_velocity_spike_detection, which inserts an alert at every scan that
\* finds a spike, and the wait after it.  A database error ends the scan.
Scan ==
  /\ now >= nextScan
  /\ nextScan' = now + ScanInterval
  /\ LET found == [posts |-> LastHour, alert |-> Cardinality(InRollups) > Threshold]
     IN scan' \in {scan, found}
  /\ UNCHANGED <<now, feed, briefer, nextBrief, briefs>>

\* generate_and_archive_executive_brief: the query.  With no post it waits again.
BeginBrief ==
  /\ briefer.pc = "waiting" /\ now >= nextBrief
  /\ IF LastHour = {}
     THEN nextBrief' = now + Hour /\ UNCHANGED briefer
     ELSE /\ \E chosen \in SUBSET LastHour :
               /\ Cardinality(chosen) = IF Cardinality(LastHour) < Top
                                        THEN Cardinality(LastHour) ELSE Top
               /\ briefer' = [pc |-> "calling", since |-> now, posts |-> chosen]
          /\ UNCHANGED nextBrief
  /\ UNCHANGED <<now, feed, nextScan, scan, briefs>>

\* Mutant: the next brief is due an hour after this one began.
EndBriefOnTheHour(answered) ==
  /\ briefer.pc = "calling" /\ now > briefer.since
  /\ briefs' = Append(briefs, Call(answered))
  /\ nextBrief' = briefer.since + Hour
  /\ briefer' = Waiting
  /\ UNCHANGED <<now, feed, nextScan, scan>>

\* The answer of the language model is archived; an error is logged.  Then the
\* daemon waits an hour.
EndBrief(answered) ==
  /\ briefer.pc = "calling" /\ now > briefer.since
  /\ briefs' = Append(briefs, Call(answered))
  /\ nextBrief' = now + Hour
  /\ briefer' = Waiting
  /\ UNCHANGED <<now, feed, nextScan, scan>>

\* A database error in the query ends the daemon.
BrieferDies ==
  /\ briefer.pc = "waiting" /\ now >= nextBrief
  /\ briefer' = [Waiting EXCEPT !.pc = "dead"]
  /\ UNCHANGED <<now, feed, nextScan, scan, nextBrief, briefs>>

Next ==
  \/ Tick \/ Ingest \/ Scan
  \/ BeginBrief \/ (\E answered \in BOOLEAN : EndBrief(answered)) \/ BrieferDies

Spec == Init /\ [][Next]_vars

-----------------------------------------------------------------------------
\* An alert is never false: more posts than the threshold came in during the hour
\* before it.
AlertsAreTrue ==
  scan.alert => Cardinality(scan.posts) > Threshold

\* No post is in two briefs of one daemon that is not restarted: none looks back to
\* where the one before began.
BriefedOnce ==
  \A i, j \in 1..Len(briefs) : i < j => briefs[i].posts \cap briefs[j].posts = {}
=============================================================================
