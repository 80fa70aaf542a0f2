--------------------------- MODULE MonitorProofs ----------------------------
(***************************************************************************)
(* Theorems of Monitors, for hours, scan intervals, thresholds and limits  *)
(* of any size, and for any time and number of posts: alerts are true, and *)
(* no post is in two briefs.                                               *)
(***************************************************************************)
EXTENDS Monitors, FiniteSetTheorems, TLAPS

-----------------------------------------------------------------------------
(* The invariant                                                           *)

\* A look back: at the posts of the hour before since.
Looked(b) ==
  /\ b.since \in Nat /\ b.since <= now
  /\ \A p \in b.posts : p \in Posts /\ b.since - Hour <= feed[p] /\ feed[p] <= b.since

\* The feed is stored in the course of time, and each brief looked back from its
\* own beginning.
History ==
  /\ now \in Nat /\ nextBrief \in Nat
  /\ feed \in Seq(0..now)
  /\ briefs \in Seq([since : Nat, posts : SUBSET Posts, answered : BOOLEAN])
  /\ \A i \in 1..Len(briefs) : Looked(briefs[i])

\* The next brief begins more than an hour after the beginning of each before it,
\* since the daemon waits for an hour after its end.
Apart ==
  /\ \A i, j \in 1..Len(briefs) : i < j => briefs[i].since + Hour < briefs[j].since
  /\ \A i \in 1..Len(briefs) : briefs[i].since + Hour < nextBrief
  /\ briefer.pc = "calling" =>
       Looked(briefer) /\ nextBrief <= briefer.since

MonitorInv == History /\ Apart /\ AlertsAreTrue

-----------------------------------------------------------------------------
(* Facts about sequences and time                                          *)

\* A sequence over a set is one over every larger set.
LEMMA SeqOverMore ==
  ASSUME NEW S, NEW T, S \subseteq T, NEW s \in Seq(S)
  PROVE  s \in Seq(T)
OBVIOUS

\* The hour of a post begins no later than the post comes in.
LEMMA HourBegan ==
  ASSUME NEW t \in Nat
  PROVE  Truncated(t) \in Int /\ Truncated(t) <= t
<1>1. Hour \in Nat \ {0}
  BY MonitorConstants
<1>2. t \div Hour \in Int /\ Hour * (t \div Hour) <= t
  BY <1>1
<1> QED  BY <1>1, <1>2 DEF Truncated

\* Whatever a scan counts came in during the last hour, so it never counts more
\* than there are.
LEMMA RollupsAreRecent ==
  ASSUME History
  PROVE  Cardinality(InRollups) <= Cardinality(LastHour)
         /\ Cardinality(InRollups) \in Nat /\ Cardinality(LastHour) \in Nat
<1>1. InRollups \subseteq LastHour
  <2>1. ASSUME NEW p \in Posts, Truncated(feed[p]) >= now - Hour
        PROVE  feed[p] >= now - Hour
    <3>1. feed[p] \in Nat
      BY DEF History, Posts
    <3>2. Truncated(feed[p]) \in Int /\ Truncated(feed[p]) <= feed[p]
      BY <3>1, HourBegan
    <3> QED  BY <2>1, <3>1, <3>2, MonitorConstants DEF History
  <2> QED  BY <2>1 DEF InRollups, LastHour
<1>2. IsFiniteSet(LastHour)
  <2>1. Len(feed) \in Nat
    BY DEF History
  <2>2. IsFiniteSet(1..Len(feed))
    BY <2>1, FS_Interval
  <2> QED  BY <2>2, FS_Subset DEF LastHour, Posts
<1> QED  BY <1>1, <1>2, FS_Subset, FS_CardinalityType

\* A look back is not changed by time that passes and posts that come in.
LEMMA StillLooked ==
  ASSUME NEW b, Looked(b), now \in Nat, now' \in Nat, now <= now',
         Posts \subseteq Posts', \A p \in Posts : feed'[p] = feed[p]
  PROVE  Looked(b)'
BY DEF Looked

-----------------------------------------------------------------------------
(* Steps                                                                   *)

LEMMA TimePasses ==
  ASSUME MonitorInv, Tick
  PROVE  MonitorInv'
<1>1. /\ now' = now + 1 /\ now \in Nat
      /\ UNCHANGED <<feed, nextScan, scan, briefer, nextBrief, briefs>>
  BY DEF Tick, MonitorInv, History
<1>2. Posts' = Posts /\ feed \in Seq(0..now)
  BY <1>1 DEF Posts, MonitorInv, History
<1>3. feed \in Seq(0..now')
  <2>1. 0..now \subseteq 0..now'
    BY <1>1
  <2> QED  BY <1>2, <2>1, SeqOverMore
<1>4. ASSUME NEW b, Looked(b)
      PROVE  Looked(b)'
  BY <1>1, <1>2, <1>4, StillLooked
<1>5. History'
  BY <1>1, <1>2, <1>3, <1>4 DEF MonitorInv, History
<1>6. Apart'
  BY <1>1, <1>4 DEF MonitorInv, Apart
<1> QED  BY <1>1, <1>5, <1>6 DEF MonitorInv, AlertsAreTrue

LEMMA PostStored ==
  ASSUME MonitorInv, Ingest
  PROVE  MonitorInv'
<1>1. /\ feed' = Append(feed, now) /\ now \in Nat /\ feed \in Seq(0..now)
      /\ UNCHANGED <<now, nextScan, scan, briefer, nextBrief, briefs>>
  BY DEF Ingest, MonitorInv, History
<1>2. /\ feed' \in Seq(0..now) /\ Len(feed') = Len(feed) + 1 /\ Len(feed) \in Nat
      /\ \A p \in 1..Len(feed) : feed'[p] = feed[p]
  BY <1>1
<1>3. Posts \subseteq Posts'
  BY <1>2 DEF Posts
<1>4. ASSUME NEW b, Looked(b)
      PROVE  Looked(b)'
  BY <1>1, <1>2, <1>3, <1>4, StillLooked DEF Posts
<1>5. History'
  <2>1. [since : Nat, posts : SUBSET Posts, answered : BOOLEAN]
          \subseteq [since : Nat, posts : SUBSET Posts', answered : BOOLEAN]
    BY <1>3
  <2>2. briefs \in Seq([since : Nat, posts : SUBSET Posts', answered : BOOLEAN])
    BY <2>1, SeqOverMore DEF MonitorInv, History
  <2> QED  BY <1>1, <1>2, <1>4, <2>2 DEF MonitorInv, History
<1>6. Apart'
  BY <1>1, <1>4 DEF MonitorInv, Apart
<1> QED  BY <1>1, <1>5, <1>6 DEF MonitorInv, AlertsAreTrue

LEMMA ScanKeeps ==
  ASSUME MonitorInv, Scan
  PROVE  MonitorInv'
<1>1. UNCHANGED <<now, feed, briefer, nextBrief, briefs>>
  BY DEF Scan
<1>2. History' /\ Apart'
  <2>1. Posts' = Posts
    BY <1>1 DEF Posts
  <2>2. \A b : Looked(b)' <=> Looked(b)
    BY <1>1, <2>1 DEF Looked
  <2> QED  BY <1>1, <2>1, <2>2 DEF MonitorInv, History, Apart
<1>3. AlertsAreTrue'
  <2>1. scan' = scan \/ scan' = [posts |-> LastHour, alert |-> Cardinality(InRollups) > Threshold]
    BY DEF Scan
  <2>2. CASE scan' = scan
    BY <2>2 DEF MonitorInv, AlertsAreTrue
  <2>3. CASE scan' = [posts |-> LastHour, alert |-> Cardinality(InRollups) > Threshold]
    <3>1. scan'.posts = LastHour /\ (scan'.alert => Cardinality(InRollups) > Threshold)
      BY <2>3, Zenon
    <3>2. Cardinality(InRollups) > Threshold => Cardinality(LastHour) > Threshold
      BY RollupsAreRecent, MonitorConstants DEF MonitorInv
    <3> QED  BY <3>1, <3>2 DEF AlertsAreTrue
  <2> QED  BY <2>1, <2>2, <2>3
<1> QED  BY <1>2, <1>3 DEF MonitorInv

LEMMA BriefBegins ==
  ASSUME MonitorInv, BeginBrief
  PROVE  MonitorInv'
<1>1. /\ UNCHANGED <<now, feed, nextScan, scan, briefs>>
      /\ briefer.pc = "waiting" /\ now >= nextBrief
  BY DEF BeginBrief
<1>2. now \in Nat /\ nextBrief \in Nat /\ Hour \in Nat /\ feed \in Seq(0..now)
  BY MonitorConstants DEF MonitorInv, History
<1>3. Posts' = Posts
  BY <1>1 DEF Posts
<1>4. \A b : Looked(b)' <=> Looked(b)
  BY <1>1, <1>3 DEF Looked
<1>5. CASE nextBrief' = now + Hour /\ UNCHANGED briefer
  <2>1. History'
    BY <1>1, <1>2, <1>3, <1>4, <1>5 DEF MonitorInv, History
  <2>2. nextBrief <= nextBrief' /\ nextBrief' \in Nat
    BY <1>1, <1>2, <1>5
  <2>3. \A i \in 1..Len(briefs) : briefs[i].since \in Nat
    BY DEF MonitorInv, History, Looked
  <2>4. \A i \in 1..Len(briefs) : briefs[i].since + Hour < nextBrief'
    BY <1>2, <2>2, <2>3 DEF MonitorInv, Apart
  <2>5. Apart'
    BY <1>1, <1>5, <2>4 DEF MonitorInv, Apart
  <2> QED  BY <1>1, <2>1, <2>5 DEF MonitorInv, AlertsAreTrue
<1>6. CASE \E chosen \in SUBSET LastHour :
             briefer' = [pc |-> "calling", since |-> now, posts |-> chosen]
           /\ UNCHANGED nextBrief
  <2>1. PICK chosen \in SUBSET LastHour :
          /\ briefer' = [pc |-> "calling", since |-> now, posts |-> chosen]
          /\ UNCHANGED nextBrief
    BY <1>6
  <2>2. \A p \in chosen : p \in Posts /\ now - Hour <= feed[p] /\ feed[p] <= now
    BY <1>2 DEF LastHour, Posts
  <2>3. Looked(briefer)'
    BY <1>1, <1>2, <1>3, <2>1, <2>2 DEF Looked
  <2>4. History'
    BY <1>1, <1>2, <1>3, <1>4, <2>1 DEF MonitorInv, History
  <2>5. Apart'
    BY <1>1, <2>1, <2>3 DEF MonitorInv, Apart
  <2> QED  BY <1>1, <2>4, <2>5 DEF MonitorInv, AlertsAreTrue
<1> QED  BY <1>5, <1>6 DEF BeginBrief

LEMMA BriefEnds ==
  ASSUME MonitorInv, NEW answered \in BOOLEAN, EndBrief(answered)
  PROVE  MonitorInv'
<1> DEFINE b == Call(answered)
           n == Len(briefs)
<1>1. /\ UNCHANGED <<now, feed, nextScan, scan>>
      /\ briefer.pc = "calling" /\ now > briefer.since
      /\ briefs' = Append(briefs, b) /\ nextBrief' = now + Hour /\ briefer' = Waiting
  BY DEF EndBrief
<1>2. /\ now \in Nat /\ nextBrief \in Nat /\ Hour \in Nat
      /\ Looked(briefer) /\ nextBrief <= briefer.since /\ briefer.since \in Nat
      /\ n \in Nat
  BY <1>1, MonitorConstants DEF MonitorInv, History, Apart, Looked
<1>3. Posts' = Posts
  BY <1>1 DEF Posts
<1>4. \A c : Looked(c)' <=> Looked(c)
  BY <1>1, <1>3 DEF Looked
<1>5. /\ b.since = briefer.since /\ b.posts = briefer.posts
      /\ b \in [since : Nat, posts : SUBSET Posts, answered : BOOLEAN]
  BY <1>2 DEF Call, Looked
<1>6. Looked(b)
  BY <1>2, <1>5 DEF Looked
<1> HIDE DEF b
<1>7. /\ briefs' \in Seq([since : Nat, posts : SUBSET Posts, answered : BOOLEAN])
      /\ Len(briefs') = n + 1 /\ briefs'[n + 1] = b
      /\ \A i \in 1..n : briefs'[i] = briefs[i]
  BY <1>1, <1>5 DEF MonitorInv, History
<1>8. \A i \in 1..n : briefs[i].since \in Nat /\ briefs[i].since + Hour < nextBrief
  BY DEF MonitorInv, History, Apart, Looked
<1>9. \A i \in 1..n + 1 : i = n + 1 \/ i \in 1..n
  BY <1>2
<1>10. History'
  <2>1. ASSUME NEW i \in 1..n + 1
        PROVE  Looked(briefs[i])'
    <3>1. Looked(briefs'[i])
      BY <1>6, <1>7, <1>9 DEF MonitorInv, History
    <3> QED  BY <1>1, <1>3, <3>1 DEF Looked
  <2> QED  BY <1>1, <1>2, <1>3, <1>7, <2>1 DEF MonitorInv, History
<1>11. Apart'
  <2>1. \A i \in 1..n + 1 : briefs'[i].since + Hour < nextBrief'
    BY <1>1, <1>2, <1>5, <1>7, <1>8, <1>9
  <2>2. ASSUME NEW i \in 1..n + 1, NEW j \in 1..n + 1, i < j
        PROVE  briefs'[i].since + Hour < briefs'[j].since
    <3>1. i \in 1..n
      BY <2>2, <1>2
    <3>2. CASE j = n + 1
      BY <3>1, <3>2, <1>2, <1>5, <1>7, <1>8
    <3>3. CASE j \in 1..n
      BY <2>2, <3>1, <3>3, <1>7 DEF MonitorInv, Apart
    <3> QED  BY <3>2, <3>3, <1>9
  <2>3. briefer'.pc # "calling"
    BY <1>1 DEF Waiting
  <2> QED  BY <1>7, <2>1, <2>2, <2>3 DEF Apart
<1> QED  BY <1>1, <1>10, <1>11 DEF MonitorInv, AlertsAreTrue

LEMMA DeathKeeps ==
  ASSUME MonitorInv, BrieferDies \/ UNCHANGED vars
  PROVE  MonitorInv'
<1>1. /\ UNCHANGED <<now, feed, scan, nextBrief, briefs>>
      /\ briefer' = briefer \/ briefer'.pc # "calling"
  BY DEF BrieferDies, vars, Waiting
<1>2. Posts' = Posts
  BY <1>1 DEF Posts
<1>3. \A b : Looked(b)' <=> Looked(b)
  BY <1>1, <1>2 DEF Looked
<1> QED  BY <1>1, <1>2, <1>3 DEF MonitorInv, History, Apart, AlertsAreTrue

-----------------------------------------------------------------------------
(* Theorems                                                                *)

\* The daemons, the feed and the briefs so far stay as the invariant says.
THEOREM Invariance == Spec => []MonitorInv
<1>1. Init => MonitorInv
  BY DEF Init, MonitorInv, History, Apart, AlertsAreTrue, Waiting
<1>2. MonitorInv /\ [Next]_vars => MonitorInv'
  BY TimePasses, PostStored, ScanKeeps, BriefBegins, BriefEnds, DeathKeeps DEF Next
<1> QED  BY <1>1, <1>2, PTL DEF Spec

\* An alert is never false: the posts it counts by whole rollups all came in during
\* the hour before the scan.
THEOREM AlertsAreNeverFalse == Spec => []AlertsAreTrue
<1>1. MonitorInv => AlertsAreTrue
  BY DEF MonitorInv
<1> QED  BY <1>1, Invariance, PTL

\* No post is summarised twice, however long a call of the language model takes and
\* however late the daemon is.
THEOREM BriefsAreDisjoint == Spec => []BriefedOnce
<1>1. MonitorInv => BriefedOnce
  <2> SUFFICES ASSUME MonitorInv, NEW i \in 1..Len(briefs), NEW j \in 1..Len(briefs), i < j,
                      NEW p \in briefs[i].posts, p \in briefs[j].posts
               PROVE  FALSE
    BY DEF BriefedOnce
  <2>1. /\ feed[p] <= briefs[i].since /\ briefs[j].since - Hour <= feed[p]
        /\ briefs[i].since \in Nat /\ briefs[j].since \in Nat
        /\ p \in Posts
    <3>1. Looked(briefs[i]) /\ Looked(briefs[j])
      BY DEF MonitorInv, History
    <3> QED  BY <3>1 DEF Looked
  <2>2. feed[p] \in Nat
    BY <2>1 DEF MonitorInv, History, Posts
  <2>3. briefs[i].since + Hour < briefs[j].since
    BY DEF MonitorInv, Apart
  <2> QED  BY <2>1, <2>2, <2>3, MonitorConstants
<1> QED  BY <1>1, Invariance, PTL
=============================================================================
