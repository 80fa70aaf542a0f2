---------------------------- MODULE Observations ----------------------------
(***************************************************************************)
(* The analytics tables of analytics_parser.py, as concurrent transactions *)
(* of READ COMMITTED isolation write them: the canonical feed (one row per *)
(* source object), the observations (one row per delivery and object), the *)
(* keyword contributions of every object and the hourly rollups rebuilt    *)
(* from them.  The cleanup daemon retires old feed rows.                   *)
(*                                                                         *)
(* A writer is one upsert_insight_record call.  Its statements up to the   *)
(* rollups touch rows of one object only, under the lock of that object's  *)
(* feed row, so they are one step; each rollup bucket is then read and     *)
(* written in two steps of its own, and all it wrote shows at its commit.  *)
(***************************************************************************)
EXTENDS Naturals, FiniteSets

CONSTANTS
  Objects,     \* platform object ids
  Keywords,    \* words, numbered in their sort order
  Hours,       \* hourly windows, numbered
  Texts,       \* the keyword sets of the texts an object may carry
  Likes,       \* engagement counts
  Documents,   \* what may be captured of an object
  Deliveries,  \* (task, generation) pairs, of which observation keys are made
  Writers,     \* concurrent persist_documents calls
  None         \* an absent row

VARIABLES
  feed,           \* social_insights_feed by object
  observations,   \* social_ingestion_observations: the likes of each key
  contributions,  \* keyword_rollup_contributions by object and keyword
  rollups,        \* keyword_hourly_rollups by bucket
  writer          \* the transactions

vars == <<feed, observations, contributions, rollups, writer>>

Bucket == [hour : Hours, word : Keywords]
FeedRow == [words : Texts, likes : Likes, hour : Hours]
Contribution == [hour : Hours, likes : Likes]

\* A rollup is kept as what its tweet_count and engagement_likes_sum range over:
\* the objects it counts, with the likes they contribute.  No row counts nothing.
Rollup == [Objects -> Likes \cup {None}]
NoRow == [o \in Objects |-> None]
TweetCount(r) == Cardinality({o \in Objects : r[o] # None})

ASSUME ObservationConstants ==
  /\ IsFiniteSet(Writers)
  /\ Keywords \subseteq Nat /\ Hours \subseteq Nat /\ Likes \subseteq Nat
  /\ Texts \subseteq SUBSET Keywords
  /\ Documents \subseteq FeedRow
  /\ None \notin Objects \cup Deliveries \cup Likes \cup FeedRow \cup Contribution \cup Bucket \cup Rollup

\* What a transaction has done and has yet to do; what it wrote of a bucket, it
\* has locked.  "solo" is history: no other transaction has been open since this
\* one stored its document.
Transaction == [
  pc : {"idle", "aggregating", "writing"},
  object : Objects \cup {None},
  row : FeedRow \cup {None},
  key : Deliveries \cup {None},
  observed : Likes \cup {None},
  todo : SUBSET Bucket,
  at : Bucket \cup {None},
  seen : Rollup,
  written : [Bucket -> Rollup \cup {None}],
  solo : BOOLEAN ]

NoContribution == [k \in Keywords |-> None]
NothingWritten == [b \in Bucket |-> None]
Idle == [ pc |-> "idle", object |-> None, row |-> None, key |-> None, observed |-> None,
          todo |-> {}, at |-> None, seen |-> NoRow, written |-> NothingWritten, solo |-> FALSE ]

Open(w) == writer[w].pc # "idle"
Held(w) == {b \in Bucket : writer[w].written[b] # None}
Larger(m, n) == IF m < n THEN n ELSE m

TypeOK ==
  /\ feed \in [Objects -> FeedRow \cup {None}]
  /\ observations \in [Deliveries -> [Objects -> Likes \cup {None}]]
  /\ contributions \in [Objects -> [Keywords -> Contribution \cup {None}]]
  /\ rollups \in [Bucket -> Rollup]
  /\ writer \in [Writers -> Transaction]

Init ==
  /\ feed = [o \in Objects |-> None]
  /\ observations = [d \in Deliveries |-> [o \in Objects |-> None]]
  /\ contributions = [o \in Objects |-> NoContribution]
  /\ rollups = [b \in Bucket |-> NoRow]
  /\ writer = [w \in Writers |-> Idle]

-----------------------------------------------------------------------------
\* The statements under the feed row's lock.

\* Mutants: the likes are added up, and the likes are the latest.
AddedMerged(o, doc) ==
  IF feed[o] = None THEN doc
  ELSE [doc EXCEPT !.likes = @ + feed[o].likes, !.hour = feed[o].hour]
LatestMerged(o, doc) ==
  IF feed[o] = None THEN doc ELSE [doc EXCEPT !.hour = feed[o].hour]

\* INSERT INTO social_insights_feed ... ON CONFLICT DO UPDATE: the text is the
\* latest writer's, the likes are the largest, the first hour stays.
Merged(o, doc) ==
  IF feed[o] = None THEN doc
  ELSE [doc EXCEPT !.likes = Larger(@, feed[o].likes), !.hour = feed[o].hour]

\* Mutant: words no longer in the text are not deleted.
KeptContributed(o, row) ==
  [k \in Keywords |->
     IF contributions[o][k] # None
     THEN [contributions[o][k] EXCEPT !.likes = Larger(@, row.likes)]
     ELSE IF k \in row.words THEN [hour |-> row.hour, likes |-> row.likes]
     ELSE None]

\* A contribution already there keeps its window and the larger count; those of
\* words no longer in the text are deleted.
Contributed(o, row) ==
  [k \in Keywords |->
     IF k \notin row.words THEN None
     ELSE IF contributions[o][k] = None THEN [hour |-> row.hour, likes |-> row.likes]
     ELSE [contributions[o][k] EXCEPT !.likes = Larger(@, row.likes)]]

\* Mutant: only the buckets of the new words are rebuilt.
NewAffected(o, row) == {b \in Bucket : b.word \in row.words /\ b.hour = row.hour}

\* Mutant: only the buckets of the old contributions are rebuilt.
OldAffected(o, row) ==
  {b \in Bucket : contributions[o][b.word] # None /\ contributions[o][b.word].hour = b.hour}

\* The buckets to rebuild: those of the old contributions and of the new words.
Affected(o, row) ==
  {b \in Bucket : \/ /\ contributions[o][b.word] # None
                     /\ contributions[o][b.word].hour = b.hour
                  \/ /\ b.word \in row.words
                     /\ b.hour = row.hour}

\* sorted(affected, key=lambda item: (item[1], item[0])): by window, then word.
Before(b, c) == b.hour < c.hour \/ (b.hour = c.hour /\ b.word < c.word)

Store(w, o, d, doc) ==
  /\ ~Open(w)
  /\ \A v \in Writers : Open(v) => writer[v].object # o
  /\ LET row == Merged(o, doc)
         alone == \A v \in Writers : ~Open(v)
     IN writer' = [v \in Writers |->
          IF v = w
          THEN [ pc |-> "aggregating", object |-> o, row |-> row,
                 key |-> d, observed |-> doc.likes, todo |-> Affected(o, row),
                 at |-> None, seen |-> NoRow, written |-> NothingWritten, solo |-> alone ]
          ELSE [writer[v] EXCEPT !.solo = FALSE]]
  /\ UNCHANGED <<feed, observations, contributions, rollups>>

-----------------------------------------------------------------------------
\* _rebuild_rollup_bucket

Counted(table, b) ==
  [o \in Objects |-> IF table[o][b.word] # None /\ table[o][b.word].hour = b.hour
                     THEN table[o][b.word].likes ELSE None]

\* What the transaction reads: the committed rows, and its own.
View(w) == [contributions EXCEPT ![writer[w].object] = Contributed(writer[w].object, writer[w].row)]

\* Mutant: the buckets are rebuilt in the order a set happens to give.
UnsortedAggregate(w) ==
  /\ writer[w].pc = "aggregating"
  /\ \E b \in writer[w].todo :
       writer' = [writer EXCEPT ![w] =
         [writer[w] EXCEPT !.pc = "writing", !.at = b,
                             !.todo = writer[w].todo \ {b}, !.seen = Counted(View(w), b)]]
  /\ UNCHANGED <<feed, observations, contributions, rollups>>

\* SELECT COUNT(*), SUM(engagement_likes): of the next bucket in order.  It
\* takes no lock, and what it saw is written by a later statement.
Aggregate(w) ==
  /\ writer[w].pc = "aggregating"
  /\ \E b \in writer[w].todo :
       /\ \A c \in writer[w].todo \ {b} : Before(b, c)
       /\ writer' = [writer EXCEPT ![w] =
            [writer[w] EXCEPT !.pc = "writing", !.at = b,
                             !.todo = writer[w].todo \ {b}, !.seen = Counted(View(w), b)]]
  /\ UNCHANGED <<feed, observations, contributions, rollups>>

\* A DELETE that finds no committed row changes nothing and takes no lock.
DeletesNothing(w) == writer[w].seen = NoRow /\ rollups[writer[w].at] = NoRow

\* Transaction w must wait for v to end before it may write its bucket.
Waits(w, v) ==
  /\ v # w
  /\ writer[w].pc = "writing"
  /\ ~DeletesNothing(w)
  /\ writer[w].at \in Held(v)

WriteRollup(w) ==
  /\ writer[w].pc = "writing"
  /\ \A v \in Writers : ~Waits(w, v)
  /\ writer' = [writer EXCEPT ![w] =
       [writer[w] EXCEPT !.pc = "aggregating", !.at = None, !.seen = NoRow,
                 !.written[writer[w].at] = IF DeletesNothing(w) THEN None ELSE writer[w].seen]]
  /\ UNCHANGED <<feed, observations, contributions, rollups>>

-----------------------------------------------------------------------------
\* The transaction ends.  ON CONFLICT (observation_key) DO NOTHING: the first
\* observation of a delivery stays.
Commit(w) ==
  LET t == writer[w] IN
  /\ t.pc = "aggregating"
  /\ t.todo = {}
  /\ feed' = [feed EXCEPT ![t.object] = t.row]
  /\ contributions' = View(w)
  /\ observations' = [observations EXCEPT ![t.key][t.object] = IF @ = None THEN t.observed ELSE @]
  /\ rollups' = [b \in Bucket |-> IF b \in Held(w) THEN t.written[b] ELSE rollups[b]]
  /\ writer' = [writer EXCEPT ![w] = Idle]

\* A crash of the worker, a lost connection, a foreign key that no longer
\* holds, a deadlock the database breaks: nothing of the transaction stays.
Abort(w) ==
  /\ Open(w)
  /\ writer' = [writer EXCEPT ![w] = Idle]
  /\ UNCHANGED <<feed, observations, contributions, rollups>>

\* DELETE FROM social_insights_feed WHERE ingested_at < cutoff, by the cleanup
\* daemon: it waits for the rows writers have locked; observations and
\* contributions go with their object (ON DELETE CASCADE), rollups stay.
Retire(old) ==
  /\ old # {}
  /\ \A o \in old : feed[o] # None
  /\ \A o \in old, p \in Objects \ old : feed[p] # None => feed[p].hour >= feed[o].hour
  /\ \A v \in Writers : Open(v) => writer[v].object \notin old
  /\ feed' = [o \in Objects |-> IF o \in old THEN None ELSE feed[o]]
  /\ observations' = [d \in Deliveries |->
        [o \in Objects |-> IF o \in old THEN None ELSE observations[d][o]]]
  /\ contributions' = [o \in Objects |-> IF o \in old THEN NoContribution ELSE contributions[o]]
  /\ writer' = [v \in Writers |-> [writer[v] EXCEPT !.solo = FALSE]]
  /\ UNCHANGED rollups

Next ==
  \/ \E w \in Writers :
       \/ \E o \in Objects, d \in Deliveries, doc \in Documents : Store(w, o, d, doc)
       \/ Aggregate(w)
       \/ WriteRollup(w)
       \/ Commit(w)
       \/ Abort(w)
  \/ \E old \in SUBSET Objects : Retire(old)

Spec == Init /\ [][Next]_vars

-----------------------------------------------------------------------------
\* The contributions of an object are those of its stored text, in the window
\* it was first seen in and with its stored likes, whichever transactions
\* changed the text: none is left over, none keeps an older count.
ContributionsMatchFeed ==
  \A o \in Objects, k \in Keywords :
    contributions[o][k] = IF feed[o] # None /\ k \in feed[o].words
                          THEN [hour |-> feed[o].hour, likes |-> feed[o].likes]
                          ELSE None

\* "Engagement counters use observed maxima": no observation of an object that
\* is kept exceeds the likes of its feed row, in whatever order they arrive.
MaximumObserved ==
  \A d \in Deliveries, o \in Objects :
    observations[d][o] # None => feed[o] # None /\ observations[d][o] <= feed[o].likes

\* Writers that rebuild the same buckets do not wait for each other in a ring:
\* however many of them there are, never is every one of a group of writers
\* waiting for another of the group.
NoDeadlock ==
  \A group \in (SUBSET Writers) \ {{}} : \E w \in group : \A v \in group : ~Waits(w, v)

\* A transaction that met no other while it was open leaves exact every bucket
\* whose contributions it changed, however wrong the bucket was before.
SoloRebuildExact ==
  [][\A w \in Writers : Commit(w) /\ writer[w].solo =>
       \A b \in Bucket : Counted(contributions, b) # Counted(contributions', b) =>
         rollups'[b] = Counted(contributions', b)]_vars

\* "Rebuild them from canonical objects": once no transaction is open, a bucket
\* counts at least the contributions there are.  Two rebuilds of a bucket that
\* overlap break it.
NoContributionLost ==
  (\A w \in Writers : ~Open(w)) =>
    \A b \in Bucket : TweetCount(rollups[b]) >= TweetCount(Counted(contributions, b))

\* The buckets a transaction rebuilds, and those it has begun with.
Rebuilds(w) == Affected(writer[w].object, writer[w].row)
Begun(w) == Rebuilds(w) \ writer[w].todo

\* No two open transactions have begun with the same bucket: what a lock on the
\* bucket, taken before its SELECT, would bring about.
RebuildsInTurn == \A w, v \in Writers :
  w # v /\ Open(w) /\ Open(v) => Begun(w) \cap Begun(v) = {}

\* Nothing but an overlap of two rebuilds of one bucket loses a contribution:
\* where there is never one, NoContributionLost holds throughout, whatever
\* transactions interleave on other buckets, abort, change a text or retire rows.
LossNeedsOverlap == []RebuildsInTurn => []NoContributionLost
=============================================================================
