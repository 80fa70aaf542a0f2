-------------------------- MODULE ObservationProofs --------------------------
(***************************************************************************)
(* Theorems about Observations, for all objects, texts, deliveries and any *)
(* number of writers: the types, that the contributions are those of the   *)
(* stored text, that the likes are the largest observed, that writers wait *)
(* for each other in one direction only, that a transaction that met no    *)
(* other leaves the buckets it changed exact, and that no contribution is  *)
(* lost unless two rebuilds of a bucket overlap.                           *)
(***************************************************************************)
EXTENDS Observations, FiniteSetTheorems, WellFoundedInduction, TLAPS

\* The contributions a feed row is worth.
Keyed(row) ==
  [k \in Keywords |-> IF k \in row.words THEN [hour |-> row.hour, likes |-> row.likes] ELSE None]

\* The contributions of every object follow its feed row.
Matched == \A o \in Objects :
  contributions[o] = IF feed[o] = None THEN NoContribution ELSE Keyed(feed[o])

\* A row that may replace the stored one: as many likes, the same window.
Extends(o, row) ==
  feed[o] # None => feed[o].likes <= row.likes /\ feed[o].hour = row.hour

\* An open transaction holds the row of its object, with counts that are no
\* smaller than the committed ones and than what it observed.
Pending(w) ==
  Open(w) =>
    /\ writer[w].object \in Objects
    /\ writer[w].row \in FeedRow
    /\ writer[w].key \in Deliveries
    /\ writer[w].observed \in Likes
    /\ writer[w].observed <= writer[w].row.likes
    /\ Extends(writer[w].object, writer[w].row)

OneWriterPerObject == \A w, v \in Writers :
  w # v /\ Open(w) /\ Open(v) => writer[w].object # writer[v].object

\* Locks are taken in bucket order: what is held comes before what is written,
\* and that before what is left to do.
Ordered(w) ==
  /\ \A b \in Held(w), c \in writer[w].todo : Before(b, c)
  /\ writer[w].pc = "writing" =>
       /\ writer[w].at \in Bucket
       /\ \A b \in Held(w) : Before(b, writer[w].at)
       /\ \A c \in writer[w].todo : Before(writer[w].at, c)

\* A transaction that has met no other has yet to rebuild, or has rebuilt from
\* what it sees now, every bucket that its contributions change.
Rebuilt(w, b) ==
  IF b \in Held(w) THEN writer[w].written[b] = Counted(View(w), b)
  ELSE rollups[b] = NoRow /\ Counted(View(w), b) = NoRow

Undisturbed(w) ==
  Open(w) /\ writer[w].solo =>
    /\ \A v \in Writers \ {w} : ~Open(v)
    /\ writer[w].pc = "writing" => writer[w].seen = Counted(View(w), writer[w].at)
    /\ \A b \in Bucket : Counted(contributions, b) # Counted(View(w), b) =>
         \/ b \in writer[w].todo
         \/ writer[w].pc = "writing" /\ b = writer[w].at
         \/ Rebuilt(w, b)

IInv ==
  /\ TypeOK
  /\ Matched
  /\ MaximumObserved
  /\ OneWriterPerObject
  /\ \A w \in Writers : Pending(w) /\ Ordered(w) /\ Undisturbed(w)

-----------------------------------------------------------------------------
\* The rows the helpers build.

LEMMA NoneIsNoRow ==
  /\ None \notin FeedRow
  /\ None \notin Contribution
  /\ None \notin Objects
  /\ None \notin Bucket
  /\ None \notin Likes
  /\ None \notin Rollup
BY ObservationConstants

LEMMA NoRowType == NoRow \in Rollup
BY DEF NoRow, Rollup

LEMMA KeyedType ==
  ASSUME NEW row \in FeedRow
  PROVE  Keyed(row) \in [Keywords -> Contribution \cup {None}]
BY DEF Keyed, FeedRow, Contribution

LEMMA CountedType ==
  ASSUME NEW table \in [Objects -> [Keywords -> Contribution \cup {None}]], NEW b \in Bucket
  PROVE  Counted(table, b) \in Rollup
<1>1. b.word \in Keywords
  BY DEF Bucket
<1>2. ASSUME NEW o \in Objects, table[o][b.word] # None
      PROVE  table[o][b.word].likes \in Likes
  BY <1>1, <1>2 DEF Contribution
<1> QED BY <1>2 DEF Counted, Rollup

\* What a document is merged into: at least as many likes as either.
LEMMA MergedRow ==
  ASSUME TypeOK, NEW o \in Objects, NEW doc \in FeedRow
  PROVE  /\ Merged(o, doc) \in FeedRow
         /\ doc.likes <= Merged(o, doc).likes
         /\ feed[o] # None => /\ feed[o].likes <= Merged(o, doc).likes
                              /\ feed[o].hour = Merged(o, doc).hour
<1>1. doc.likes \in Nat /\ doc.likes \in Likes
  BY ObservationConstants DEF FeedRow
<1>2. CASE feed[o] = None
  BY <1>1, <1>2 DEF Merged
<1>3. CASE feed[o] # None
  <2>1. feed[o] \in FeedRow
    BY <1>3 DEF TypeOK
  <2>2. feed[o].likes \in Nat /\ feed[o].likes \in Likes /\ feed[o].hour \in Hours
    BY <2>1, ObservationConstants DEF FeedRow
  <2>3. Larger(doc.likes, feed[o].likes) \in Likes
    BY <1>1, <2>2 DEF Larger
  <2>4. /\ Merged(o, doc).likes = Larger(doc.likes, feed[o].likes)
        /\ Merged(o, doc).hour = feed[o].hour
        /\ Merged(o, doc) \in FeedRow
    BY <1>3, <2>2, <2>3 DEF Merged, FeedRow
  <2> QED BY <1>1, <2>2, <2>4 DEF Larger
<1> QED BY <1>2, <1>3

\* The upsert and the delete of contributions together give those of the row.
LEMMA ContributedIsKeyed ==
  ASSUME TypeOK, Matched, NEW o \in Objects, NEW row \in FeedRow, Extends(o, row)
  PROVE  Contributed(o, row) = Keyed(row)
<1>1. SUFFICES ASSUME NEW k \in Keywords, k \in row.words, contributions[o][k] # None
               PROVE  [contributions[o][k] EXCEPT !.likes = Larger(@, row.likes)]
                        = [hour |-> row.hour, likes |-> row.likes]
  BY DEF Contributed, Keyed
<1>2. feed[o] # None
  BY <1>1 DEF Matched, NoContribution
<1>3. feed[o] \in FeedRow
  BY <1>2 DEF TypeOK
<1>4. contributions[o][k] = [hour |-> feed[o].hour, likes |-> feed[o].likes]
  BY <1>1, <1>2 DEF Matched, Keyed
<1>5. feed[o].likes \in Nat /\ row.likes \in Nat
  BY <1>3, ObservationConstants DEF FeedRow
<1>6. feed[o].likes <= row.likes /\ feed[o].hour = row.hour
  BY <1>2 DEF Extends
<1>7. Larger(feed[o].likes, row.likes) = row.likes
  BY <1>5, <1>6 DEF Larger
<1> QED BY <1>4, <1>6, <1>7

-----------------------------------------------------------------------------
\* Each step keeps the types of the transactions.

LEMMA IdleType == Idle \in Transaction
BY NoRowType DEF Idle, Transaction, NothingWritten

LEMMA InitType == Init => TypeOK
<1> SUFFICES ASSUME Init PROVE TypeOK
  OBVIOUS
<1>1. NoRow \in Rollup /\ NoContribution \in [Keywords -> Contribution \cup {None}]
  BY NoRowType DEF NoContribution
<1> QED BY <1>1, IdleType DEF Init, TypeOK

LEMMA SoloType ==
  ASSUME NEW t \in Transaction
  PROVE  [t EXCEPT !.solo = FALSE] \in Transaction
BY DEF Transaction

LEMMA AggregatingType ==
  ASSUME NEW t \in Transaction, NEW b \in Bucket, NEW r \in Rollup
  PROVE  [t EXCEPT !.pc = "writing", !.at = b, !.todo = @ \ {b}, !.seen = r] \in Transaction
BY DEF Transaction

LEMMA WritingType ==
  ASSUME NEW t \in Transaction, NEW b \in Bucket, NEW r \in Rollup \cup {None}
  PROVE  [t EXCEPT !.pc = "aggregating", !.at = None, !.seen = NoRow, !.written[b] = r]
           \in Transaction
<1>1. t.written \in [Bucket -> Rollup \cup {None}]
  BY DEF Transaction
<1>2. [t.written EXCEPT ![b] = r] \in [Bucket -> Rollup \cup {None}]
  BY <1>1
<1>3. ASSUME NEW W \in [Bucket -> Rollup \cup {None}]
      PROVE  [t EXCEPT !.pc = "aggregating", !.at = None, !.seen = NoRow, !.written = W]
               \in Transaction
  BY NoRowType DEF Transaction
<1> QED BY <1>2, <1>3

\* What an open transaction sees: its own contributions, the committed ones of
\* the other objects.
LEMMA ViewIsKeyed ==
  ASSUME TypeOK, Matched, NEW w \in Writers, Open(w), Pending(w)
  PROVE  /\ View(w) \in [Objects -> [Keywords -> Contribution \cup {None}]]
         /\ View(w)[writer[w].object] = Keyed(writer[w].row)
         /\ \A o \in Objects : o # writer[w].object => View(w)[o] = contributions[o]
<1>1. /\ writer[w].object \in Objects
      /\ writer[w].row \in FeedRow
      /\ Extends(writer[w].object, writer[w].row)
  BY DEF Pending
<1>2. Contributed(writer[w].object, writer[w].row) = Keyed(writer[w].row)
  BY <1>1, ContributedIsKeyed
<1>3. Keyed(writer[w].row) \in [Keywords -> Contribution \cup {None}]
  BY <1>1, KeyedType
<1>4. contributions \in [Objects -> [Keywords -> Contribution \cup {None}]]
  BY DEF TypeOK
<1> QED BY <1>1, <1>2, <1>3, <1>4 DEF View

-----------------------------------------------------------------------------
\* Each step, with the types of what it leaves behind.

LEMMA StoreStep ==
  ASSUME NEW w \in Writers, NEW o \in Objects, NEW d \in Deliveries, NEW doc \in FeedRow,
         TypeOK, Store(w, o, d, doc)
  PROVE  /\ writer' \in [Writers -> Transaction]
         /\ \A v \in Writers \ {w} : writer'[v] = [writer[v] EXCEPT !.solo = FALSE]
         /\ writer'[w] = [ pc |-> "aggregating", object |-> o, row |-> Merged(o, doc),
                 key |-> d, observed |-> doc.likes, todo |-> Affected(o, Merged(o, doc)),
                 at |-> None, seen |-> NoRow, written |-> NothingWritten,
                 solo |-> \A v \in Writers : ~Open(v) ]
<1> DEFINE row == Merged(o, doc)
           alone == \A v \in Writers : ~Open(v)
           t == [ pc |-> "aggregating", object |-> o, row |-> row, key |-> d,
                  observed |-> doc.likes, todo |-> Affected(o, row), at |-> None,
                  seen |-> NoRow, written |-> NothingWritten, solo |-> alone ]
<1>1. row \in FeedRow /\ doc.likes \in Likes
  BY MergedRow DEF FeedRow
<1>2. NoRow \in Rollup /\ Affected(o, row) \in SUBSET Bucket
  BY NoRowType DEF Affected
<1>3. NothingWritten \in [Bucket -> Rollup \cup {None}]
  BY DEF NothingWritten
<1>4. alone \in BOOLEAN
  OBVIOUS
<1>5. writer' = [v \in Writers |-> IF v = w THEN t ELSE [writer[v] EXCEPT !.solo = FALSE]]
  BY DEF Store
<1> HIDE DEF row, alone
<1>6. t \in Transaction
  BY <1>1, <1>2, <1>3, <1>4 DEF Transaction
<1>7. \A v \in Writers : [writer[v] EXCEPT !.solo = FALSE] \in Transaction
  BY SoloType DEF TypeOK
<1> HIDE DEF t
<1>8. writer' \in [Writers -> Transaction]
  BY <1>5, <1>6, <1>7
<1>9. writer'[w] = t /\ \A v \in Writers \ {w} : writer'[v] = [writer[v] EXCEPT !.solo = FALSE]
  BY <1>5
<1> QED BY <1>8, <1>9 DEF t, row, alone

LEMMA AggregateStep ==
  ASSUME NEW w \in Writers, TypeOK, Matched, Pending(w), Aggregate(w)
  PROVE  \E b \in writer[w].todo :
           /\ b \in Bucket
           /\ \A c \in writer[w].todo \ {b} : Before(b, c)
           /\ writer' \in [Writers -> Transaction]
           /\ writer' = [writer EXCEPT ![w] =
                [writer[w] EXCEPT !.pc = "writing", !.at = b,
                     !.todo = writer[w].todo \ {b}, !.seen = Counted(View(w), b)]]
<1>1. PICK b \in writer[w].todo :
        /\ \A c \in writer[w].todo \ {b} : Before(b, c)
        /\ writer' = [writer EXCEPT ![w] =
             [writer[w] EXCEPT !.pc = "writing", !.at = b,
                     !.todo = writer[w].todo \ {b}, !.seen = Counted(View(w), b)]]
  BY DEF Aggregate
<1>2. writer[w] \in Transaction /\ Open(w)
  BY DEF TypeOK, Aggregate, Open
<1>3. b \in Bucket
  BY <1>1, <1>2 DEF Transaction
<1>4. Counted(View(w), b) \in Rollup
  BY <1>2, <1>3, ViewIsKeyed, CountedType
<1> DEFINE t == [writer[w] EXCEPT !.pc = "writing", !.at = b,
                     !.todo = writer[w].todo \ {b}, !.seen = Counted(View(w), b)]
<1>5. t \in Transaction
  BY <1>2, <1>3, <1>4, AggregatingType
<1>6. writer' = [writer EXCEPT ![w] = t]
  BY <1>1
<1> HIDE DEF t
<1>7. writer' \in [Writers -> Transaction]
  BY <1>5, <1>6 DEF TypeOK
<1> QED BY <1>1, <1>3, <1>7

LEMMA WriteStep ==
  ASSUME NEW w \in Writers, TypeOK, WriteRollup(w), writer[w].at \in Bucket
  PROVE  /\ writer' \in [Writers -> Transaction]
         /\ writer' = [writer EXCEPT ![w] =
              [writer[w] EXCEPT !.pc = "aggregating", !.at = None, !.seen = NoRow,
                 !.written[writer[w].at] = IF DeletesNothing(w) THEN None ELSE writer[w].seen]]
<1> DEFINE r == IF DeletesNothing(w) THEN None ELSE writer[w].seen
           t == [writer[w] EXCEPT !.pc = "aggregating", !.at = None, !.seen = NoRow,
                                  !.written[writer[w].at] = r]
<1>1. writer[w] \in Transaction
  BY DEF TypeOK
<1>2. r \in Rollup \cup {None}
  BY <1>1 DEF Transaction
<1>3. writer' = [writer EXCEPT ![w] =
              [writer[w] EXCEPT !.pc = "aggregating", !.at = None, !.seen = NoRow,
                 !.written[writer[w].at] = IF DeletesNothing(w) THEN None ELSE writer[w].seen]]
  <2> HIDE DEF t, r
  <2> QED BY DEF WriteRollup
<1> HIDE DEF r
<1>4. t \in Transaction
  BY <1>1, <1>2, WritingType
<1>5. writer' = [writer EXCEPT ![w] = t]
  BY <1>3 DEF r
<1> HIDE DEF t
<1>6. writer' \in [Writers -> Transaction]
  BY <1>4, <1>5 DEF TypeOK
<1> QED BY <1>3, <1>6

\* The fields of a transaction that is no longer alone.
LEMMA SoloFields ==
  ASSUME NEW t \in Transaction, NEW u, u = [t EXCEPT !.solo = FALSE]
  PROVE  /\ u.solo = FALSE
         /\ u.pc = t.pc /\ u.at = t.at /\ u.todo = t.todo /\ u.seen = t.seen
         /\ u.object = t.object /\ u.row = t.row /\ u.key = t.key /\ u.observed = t.observed
         /\ u.written = t.written
BY DEF Transaction

-----------------------------------------------------------------------------
\* What most steps leave alone.

\* A step that writes no table keeps what is said of the tables.
LEMMA KeptTables ==
  ASSUME IInv, UNCHANGED <<feed, observations, contributions, rollups>>,
         writer' \in [Writers -> Transaction]
  PROVE  TypeOK' /\ Matched' /\ MaximumObserved'
BY DEF IInv, TypeOK, Matched, MaximumObserved

LEMMA SameView ==
  ASSUME contributions' = contributions, NEW v \in Writers,
         writer'[v].object = writer[v].object, writer'[v].row = writer[v].row
  PROVE  View(v)' = View(v)
BY DEF View, Contributed

LEMMA SamePending ==
  ASSUME NEW v \in Writers, Pending(v), Open(v)' => Open(v),
         writer'[v].object = writer[v].object, writer'[v].row = writer[v].row,
         writer'[v].key = writer[v].key, writer'[v].observed = writer[v].observed,
         Open(v) => feed'[writer[v].object] = feed[writer[v].object]
  PROVE  Pending(v)'
BY DEF Pending, Extends

LEMMA SameOrder ==
  ASSUME NEW v \in Writers, Ordered(v), writer'[v].pc = writer[v].pc,
         writer'[v].at = writer[v].at, writer'[v].todo = writer[v].todo,
         writer'[v].written = writer[v].written
  PROVE  Ordered(v)'
BY DEF Ordered, Held

\* A transaction that ends has nothing left to say.
LEMMA IdleFacts ==
  ASSUME NEW v \in Writers, writer'[v] = Idle
  PROVE  ~Open(v)' /\ Pending(v)' /\ Ordered(v)' /\ Undisturbed(v)'
<1>1. writer'[v].pc = "idle" /\ writer'[v].todo = {}
  BY DEF Idle
<1> QED BY <1>1 DEF Open, Pending, Ordered, Undisturbed

\* Only the buckets to rebuild count something new.
LEMMA AffectedBuckets ==
  ASSUME NEW o \in Objects, NEW row \in FeedRow, NEW b \in Bucket,
         contributions \in [Objects -> [Keywords -> Contribution \cup {None}]],
         NEW table, table = [contributions EXCEPT ![o] = Keyed(row)],
         Counted(contributions, b) # Counted(table, b)
  PROVE  b \in Affected(o, row)
<1>1. b.word \in Keywords
  BY DEF Bucket
<1>2. PICK p \in Objects : Counted(contributions, b)[p] # Counted(table, b)[p]
  <2>1. Counted(contributions, b) = [p \in Objects |-> Counted(contributions, b)[p]]
    BY DEF Counted
  <2>2. Counted(table, b) = [p \in Objects |-> Counted(table, b)[p]]
    BY DEF Counted
  <2> QED BY <2>1, <2>2
<1>3. ASSUME p # o PROVE FALSE
  <2>1. table[p] = contributions[p]
    BY <1>3
  <2> QED BY <1>2, <2>1 DEF Counted
<1>4. table[o] = Keyed(row)
  OBVIOUS
<1>5. ASSUME b.word \notin row.words \/ b.hour # row.hour
      PROVE  Counted(table, b)[o] = None
  <2>1. CASE b.word \notin row.words
    <3>1. table[o][b.word] = None
      BY <1>1, <1>4, <2>1 DEF Keyed
    <3> QED BY <3>1 DEF Counted
  <2>2. CASE b.word \in row.words /\ b.hour # row.hour
    <3>1. table[o][b.word] = [hour |-> row.hour, likes |-> row.likes]
      BY <1>1, <1>4, <2>2 DEF Keyed
    <3>2. table[o][b.word].hour # b.hour
      BY <3>1, <2>2
    <3> QED BY <3>2 DEF Counted
  <2> QED BY <1>5, <2>1, <2>2
<1>6. ASSUME contributions[o][b.word] = None \/ contributions[o][b.word].hour # b.hour
      PROVE  Counted(contributions, b)[o] = None
  BY <1>6 DEF Counted
<1> QED BY <1>2, <1>3, <1>5, <1>6 DEF Affected

-----------------------------------------------------------------------------
\* One lemma for each action: it keeps the invariant.

LEMMA StoreKeeps ==
  ASSUME IInv, NEW w \in Writers, NEW o \in Objects, NEW d \in Deliveries,
         NEW doc \in FeedRow, Store(w, o, d, doc)
  PROVE  IInv'
<1> USE DEF IInv
<1>0. PICK row : row = Merged(o, doc)
  OBVIOUS
<1>1. /\ UNCHANGED <<feed, observations, contributions, rollups>>
      /\ ~Open(w)
      /\ \A v \in Writers : Open(v) => writer[v].object # o
  BY DEF Store
<1>2. /\ writer' \in [Writers -> Transaction]
      /\ \A v \in Writers \ {w} : writer'[v] = [writer[v] EXCEPT !.solo = FALSE]
      /\ writer'[w] = [ pc |-> "aggregating", object |-> o, row |-> row,
                 key |-> d, observed |-> doc.likes, todo |-> Affected(o, row),
                 at |-> None, seen |-> NoRow, written |-> NothingWritten,
                 solo |-> \A v \in Writers : ~Open(v) ]
  BY <1>0, StoreStep
<1>3. row \in FeedRow /\ doc.likes \in Likes /\ doc.likes <= row.likes /\ Extends(o, row)
  BY <1>0, MergedRow DEF Extends, FeedRow
<1>4. /\ writer'[w].pc = "aggregating" /\ writer'[w].object = o /\ writer'[w].row = row
      /\ writer'[w].key = d /\ writer'[w].observed = doc.likes
      /\ writer'[w].todo = Affected(o, row) /\ writer'[w].written = NothingWritten
      /\ writer'[w].solo = \A v \in Writers : ~Open(v)
  BY <1>2
<1>5. ASSUME NEW v \in Writers \ {w}
      PROVE  /\ writer'[v].solo = FALSE
             /\ writer'[v].pc = writer[v].pc /\ writer'[v].at = writer[v].at
             /\ writer'[v].todo = writer[v].todo /\ writer'[v].written = writer[v].written
             /\ writer'[v].object = writer[v].object /\ writer'[v].row = writer[v].row
             /\ writer'[v].key = writer[v].key /\ writer'[v].observed = writer[v].observed
  <2>1. writer[v] \in Transaction /\ writer'[v] = [writer[v] EXCEPT !.solo = FALSE]
    BY <1>2 DEF TypeOK
  <2> QED BY <2>1, SoloFields
<1>6. TypeOK' /\ Matched' /\ MaximumObserved'
  BY <1>1, <1>2, KeptTables
<1>7. Extends(o, row)'
  BY <1>1, <1>3 DEF Extends
<1>8. OneWriterPerObject'
  <2>1. ASSUME NEW v \in Writers \ {w}, Open(v)'
        PROVE  Open(v) /\ writer'[v].object = writer[v].object /\ writer'[v].object # o
    BY <1>1, <1>5, <2>1 DEF Open
  <2> QED BY <1>4, <2>1 DEF OneWriterPerObject
<1>9. ASSUME NEW v \in Writers PROVE Pending(v)'
  <2>1. CASE v = w
    BY <1>3, <1>4, <1>7, <2>1 DEF Pending
  <2>2. CASE v # w
    BY <1>1, <1>5, <2>2, SamePending DEF Open
  <2> QED BY <2>1, <2>2
<1>10. ASSUME NEW v \in Writers PROVE Ordered(v)'
  <2>1. CASE v = w
    <3>1. Held(w)' = {}
      BY <1>4 DEF Held, NothingWritten
    <3> QED BY <1>4, <2>1, <3>1 DEF Ordered
  <2>2. CASE v # w
    BY <1>5, <2>2, SameOrder
  <2> QED BY <2>1, <2>2
<1>11. ASSUME NEW v \in Writers PROVE Undisturbed(v)'
  <2>1. CASE v # w
    BY <1>5, <2>1 DEF Undisturbed
  <2>2. CASE v = w
    <3>1. SUFFICES ASSUME writer'[w].solo
                   PROVE  /\ \A u \in Writers \ {w} : ~Open(u)'
                          /\ \A b \in Bucket :
                               Counted(contributions', b) # Counted(View(w)', b) =>
                                 b \in writer'[w].todo
      BY <1>4, <2>2 DEF Undisturbed
    <3>2. \A u \in Writers \ {w} : ~Open(u)'
      BY <1>4, <1>5, <3>1 DEF Open
    <3>3. contributions \in [Objects -> [Keywords -> Contribution \cup {None}]]
      BY DEF TypeOK
    <3>4. View(w)' = [contributions EXCEPT ![o] = Contributed(o, row)]
      BY <1>1, <1>4 DEF View, Contributed
    <3>5. View(w)' = [contributions EXCEPT ![o] = Keyed(row)]
      BY <1>3, <3>4, ContributedIsKeyed
    <3>6. ASSUME NEW b \in Bucket, Counted(contributions, b) # Counted(View(w)', b)
          PROVE  b \in Affected(o, row)
      BY <1>3, <3>3, <3>5, <3>6, AffectedBuckets
    <3> QED BY <1>1, <1>4, <3>2, <3>6
  <2> QED BY <2>1, <2>2
<1> QED BY <1>6, <1>8, <1>9, <1>10, <1>11

LEMMA AggregateKeeps ==
  ASSUME IInv, NEW w \in Writers, Aggregate(w)
  PROVE  IInv'
<1> USE DEF IInv
<1>1. /\ UNCHANGED <<feed, observations, contributions, rollups>>
      /\ writer[w].pc = "aggregating"
  BY DEF Aggregate
<1>2. PICK b \in writer[w].todo :
        /\ b \in Bucket
        /\ \A c \in writer[w].todo \ {b} : Before(b, c)
        /\ writer' \in [Writers -> Transaction]
        /\ writer' = [writer EXCEPT ![w] =
             [writer[w] EXCEPT !.pc = "writing", !.at = b,
                  !.todo = writer[w].todo \ {b}, !.seen = Counted(View(w), b)]]
  BY AggregateStep
<1>3. writer \in [Writers -> Transaction]
  BY DEF TypeOK
<1>4. \A v \in Writers \ {w} : writer'[v] = writer[v]
  BY <1>2, <1>3
<1>5. /\ writer'[w].pc = "writing" /\ writer'[w].at = b
      /\ writer'[w].todo = writer[w].todo \ {b} /\ writer'[w].seen = Counted(View(w), b)
      /\ writer'[w].object = writer[w].object /\ writer'[w].row = writer[w].row
      /\ writer'[w].key = writer[w].key /\ writer'[w].observed = writer[w].observed
      /\ writer'[w].written = writer[w].written /\ writer'[w].solo = writer[w].solo
  <2>1. writer'[w] = [writer[w] EXCEPT !.pc = "writing", !.at = b,
                        !.todo = writer[w].todo \ {b}, !.seen = Counted(View(w), b)]
    BY <1>2, <1>3
  <2>2. writer[w] \in Transaction
    BY <1>3
  <2> HIDE DEF IInv
  <2> QED BY <2>1, <2>2 DEF Transaction
<1>6. TypeOK' /\ Matched' /\ MaximumObserved'
  BY <1>1, <1>2, KeptTables
<1>7. \A v \in Writers : /\ Open(v)' <=> Open(v)
                         /\ writer'[v].object = writer[v].object
                         /\ writer'[v].row = writer[v].row
  BY <1>1, <1>4, <1>5 DEF Open
<1>8. OneWriterPerObject'
  BY <1>7 DEF OneWriterPerObject
<1>9. ASSUME NEW v \in Writers PROVE Pending(v)'
  <2>1. writer'[v].key = writer[v].key /\ writer'[v].observed = writer[v].observed
    BY <1>4, <1>5
  <2> QED BY <1>1, <1>7, <2>1, SamePending
<1>10. ASSUME NEW v \in Writers PROVE Ordered(v)'
  <2>1. CASE v = w
    <3>1. Held(w)' = Held(w)
      BY <1>5 DEF Held
    <3> QED BY <1>1, <1>2, <1>5, <2>1, <3>1 DEF Ordered
  <2>2. CASE v # w
    BY <1>4, <2>2, SameOrder
  <2> QED BY <2>1, <2>2
<1>11. ASSUME NEW v \in Writers PROVE Undisturbed(v)'
  <2>1. View(v)' = View(v)
    BY <1>1, <1>7, SameView
  <2>2. CASE v = w
    <3>1. \A c \in Bucket : Rebuilt(w, c)' <=> Rebuilt(w, c)
      BY <1>1, <1>5, <2>1, <2>2 DEF Rebuilt, Held
    <3>2. SUFFICES ASSUME writer[w].solo, Open(w)
                   PROVE  Undisturbed(w)'
      BY <1>5, <1>7, <2>2 DEF Undisturbed
    <3>3. \A u \in Writers \ {w} : ~Open(u)'
      BY <1>7, <3>2 DEF Undisturbed
    <3>4. \A c \in Bucket : Counted(contributions, c) # Counted(View(w), c) =>
            c \in writer[w].todo \/ Rebuilt(w, c)
      BY <1>1, <3>2 DEF Undisturbed
    <3>5. \A c \in Bucket : Counted(contributions', c) # Counted(View(w)', c) =>
            c \in writer'[w].todo \/ c = writer'[w].at \/ Rebuilt(w, c)'
      BY <1>1, <1>5, <2>1, <2>2, <3>1, <3>4
    <3>6. writer'[w].seen = Counted(View(w)', writer'[w].at)
      BY <1>5, <2>1, <2>2
    <3> QED BY <1>5, <3>3, <3>5, <3>6 DEF Undisturbed
  <2>3. CASE v # w
    <3>1. ~(Open(v)' /\ writer'[v].solo)
      BY <1>1, <1>4, <1>7, <2>3 DEF Undisturbed, Open
    <3> QED BY <3>1 DEF Undisturbed
  <2> QED BY <2>2, <2>3
<1> QED BY <1>6, <1>8, <1>9, <1>10, <1>11

LEMMA WriteKeeps ==
  ASSUME IInv, NEW w \in Writers, WriteRollup(w)
  PROVE  IInv'
<1> USE DEF IInv
<1>1. /\ UNCHANGED <<feed, observations, contributions, rollups>>
      /\ writer[w].pc = "writing" /\ Open(w)
  BY DEF WriteRollup, Open
<1>2. PICK b \in Bucket : b = writer[w].at
  BY <1>1 DEF Ordered
<1>3. PICK r : r = IF DeletesNothing(w) THEN None ELSE writer[w].seen
  OBVIOUS
<1>4. /\ writer' \in [Writers -> Transaction]
      /\ writer' = [writer EXCEPT ![w] =
           [writer[w] EXCEPT !.pc = "aggregating", !.at = None, !.seen = NoRow, !.written[b] = r]]
  BY <1>2, <1>3, WriteStep
<1>5. writer \in [Writers -> Transaction]
  BY DEF TypeOK
<1>6. \A v \in Writers \ {w} : writer'[v] = writer[v]
  BY <1>4, <1>5
<1>7. /\ writer'[w].pc = "aggregating" /\ writer'[w].todo = writer[w].todo
      /\ writer'[w].written[b] = r
      /\ \A c \in Bucket \ {b} : writer'[w].written[c] = writer[w].written[c]
      /\ writer'[w].object = writer[w].object /\ writer'[w].row = writer[w].row
      /\ writer'[w].key = writer[w].key /\ writer'[w].observed = writer[w].observed
      /\ writer'[w].solo = writer[w].solo
  <2>1. writer'[w] = [writer[w] EXCEPT !.pc = "aggregating", !.at = None, !.seen = NoRow,
                                       !.written[b] = r]
    BY <1>4, <1>5
  <2>2. writer[w] \in Transaction
    BY <1>5
  <2> HIDE DEF IInv
  <2> QED BY <2>1, <2>2 DEF Transaction
<1>8. TypeOK' /\ Matched' /\ MaximumObserved'
  BY <1>1, <1>4, KeptTables
<1>9. \A v \in Writers : /\ Open(v)' <=> Open(v)
                         /\ writer'[v].object = writer[v].object
                         /\ writer'[v].row = writer[v].row
  BY <1>1, <1>6, <1>7 DEF Open
<1>10. OneWriterPerObject'
  BY <1>9 DEF OneWriterPerObject
<1>11. ASSUME NEW v \in Writers PROVE Pending(v)'
  <2>1. writer'[v].key = writer[v].key /\ writer'[v].observed = writer[v].observed
    BY <1>6, <1>7
  <2> QED BY <1>1, <1>9, <2>1, SamePending
<1>12. ASSUME NEW v \in Writers PROVE Ordered(v)'
  <2>1. CASE v = w
    <3>1. Held(w)' \subseteq Held(w) \cup {b}
      BY <1>7 DEF Held
    <3>2. \A c \in writer[w].todo : Before(b, c)
      BY <1>1, <1>2 DEF Ordered
    <3>3. \A h \in Held(w), c \in writer[w].todo : Before(h, c)
      BY DEF Ordered
    <3> QED BY <1>7, <2>1, <3>1, <3>2, <3>3 DEF Ordered
  <2>2. CASE v # w
    BY <1>6, <2>2, SameOrder
  <2> QED BY <2>1, <2>2
<1>13. ASSUME NEW v \in Writers PROVE Undisturbed(v)'
  <2>1. View(v)' = View(v)
    BY <1>1, <1>9, SameView
  <2>2. CASE v = w
    <3>1. SUFFICES ASSUME writer[w].solo
                   PROVE  Undisturbed(w)'
      BY <1>7, <2>2 DEF Undisturbed
    <3>2. \A u \in Writers \ {w} : ~Open(u)'
      BY <1>1, <1>9, <3>1 DEF Undisturbed
    <3>3. \A c \in Bucket : Counted(contributions, c) # Counted(View(w), c) =>
            c \in writer[w].todo \/ c = b \/ Rebuilt(w, c)
      BY <1>1, <1>2, <3>1 DEF Undisturbed
    <3>4. \A c \in Bucket \ {b} : Rebuilt(w, c) => Rebuilt(w, c)'
      BY <1>1, <1>7, <2>1, <2>2 DEF Rebuilt, Held
    <3>5. Rebuilt(w, b)'
      <4>1. writer[w].seen = Counted(View(w), b)
        BY <1>1, <1>2, <3>1 DEF Undisturbed
      <4>2. writer[w].seen \in Rollup
        BY <1>5 DEF Transaction
      <4>3. CASE DeletesNothing(w)
        <5>1. b \notin Held(w)'
          BY <1>3, <1>7, <4>3 DEF Held
        <5>2. rollups'[b] = NoRow /\ Counted(View(w)', b) = NoRow
          BY <1>1, <1>2, <2>1, <2>2, <4>1, <4>3 DEF DeletesNothing
        <5> QED BY <5>1, <5>2 DEF Rebuilt
      <4>4. CASE ~DeletesNothing(w)
        <5>1. writer'[w].written[b] = writer[w].seen
          BY <1>3, <1>7, <4>4
        <5>2. b \in Held(w)'
          BY <4>2, <5>1, NoneIsNoRow DEF Held
        <5> QED BY <2>1, <2>2, <4>1, <5>1, <5>2 DEF Rebuilt
      <4> QED BY <4>3, <4>4
    <3>6. \A c \in Bucket : Counted(contributions', c) # Counted(View(w)', c) =>
            c \in writer'[w].todo \/ Rebuilt(w, c)'
      BY <1>1, <1>7, <2>1, <2>2, <3>3, <3>4, <3>5
    <3> QED BY <1>7, <3>2, <3>6 DEF Undisturbed
  <2>3. CASE v # w
    <3>1. ~(Open(v)' /\ writer'[v].solo)
      BY <1>1, <1>6, <1>9, <2>3 DEF Undisturbed
    <3> QED BY <3>1 DEF Undisturbed
  <2> QED BY <2>2, <2>3
<1> QED BY <1>8, <1>10, <1>11, <1>12, <1>13

LEMMA CommitKeeps ==
  ASSUME IInv, NEW w \in Writers, Commit(w)
  PROVE  IInv'
<1> USE DEF IInv
<1>1. PICK o \in Objects, d \in Deliveries, row \in FeedRow :
        o = writer[w].object /\ d = writer[w].key /\ row = writer[w].row
  BY DEF Pending, Open, Commit
<1>2. /\ Open(w) /\ writer[w].observed \in Likes /\ writer[w].observed <= row.likes
      /\ Extends(o, row)
  BY <1>1 DEF Pending, Open, Commit
<1>3. /\ feed' = [feed EXCEPT ![o] = row]
      /\ contributions' = View(w)
      /\ observations' = [observations EXCEPT ![d][o] = IF @ = None THEN writer[w].observed ELSE @]
      /\ rollups' = [b \in Bucket |-> IF b \in Held(w) THEN writer[w].written[b] ELSE rollups[b]]
      /\ writer' = [writer EXCEPT ![w] = Idle]
  BY <1>1 DEF Commit
<1>4. /\ feed \in [Objects -> FeedRow \cup {None}]
      /\ observations \in [Deliveries -> [Objects -> Likes \cup {None}]]
      /\ rollups \in [Bucket -> Rollup]
      /\ writer \in [Writers -> Transaction]
  BY DEF TypeOK
<1>5. /\ View(w) \in [Objects -> [Keywords -> Contribution \cup {None}]]
      /\ View(w)[o] = Keyed(row)
      /\ \A p \in Objects : p # o => View(w)[p] = contributions[p]
  BY <1>1, <1>2, ViewIsKeyed
<1>6. /\ feed' \in [Objects -> FeedRow \cup {None}] /\ feed'[o] = row
      /\ \A p \in Objects : p # o => feed'[p] = feed[p]
  BY <1>3, <1>4
<1>7. /\ observations' \in [Deliveries -> [Objects -> Likes \cup {None}]]
      /\ \A e \in Deliveries, p \in Objects :
           observations'[e][p] = IF e = d /\ p = o /\ observations[d][o] = None
                                 THEN writer[w].observed ELSE observations[e][p]
  <2>1. \A e \in Deliveries : e # d => observations'[e] = observations[e]
    BY <1>3, <1>4
  <2>2. observations'[d] = [observations[d] EXCEPT ![o] = IF @ = None THEN writer[w].observed ELSE @]
    BY <1>3, <1>4
  <2>3. observations[d] \in [Objects -> Likes \cup {None}]
    BY <1>4
  <2>4. /\ observations'[d] \in [Objects -> Likes \cup {None}]
        /\ \A p \in Objects : observations'[d][p] =
             IF p = o /\ observations[d][o] = None THEN writer[w].observed ELSE observations[d][p]
    BY <1>2, <2>2, <2>3
  <2>5. observations' = [e \in Deliveries |-> observations'[e]]
    BY <1>3, <1>4
  <2>6. \A e \in Deliveries : observations'[e] \in [Objects -> Likes \cup {None}]
    BY <1>4, <2>1, <2>4
  <2>7. observations' \in [Deliveries -> [Objects -> Likes \cup {None}]]
    BY <2>5, <2>6
  <2> QED BY <2>1, <2>4, <2>7
<1>8. rollups' \in [Bucket -> Rollup]
  <2>1. \A b \in Held(w) : writer[w].written[b] \in Rollup
    BY <1>4 DEF Held, Transaction
  <2> QED BY <1>3, <1>4, <2>1
<1>9. writer' \in [Writers -> Transaction] /\ writer'[w] = Idle
      /\ \A v \in Writers \ {w} : writer'[v] = writer[v]
  BY <1>3, <1>4, IdleType
<1>10. TypeOK'
  BY <1>3, <1>5, <1>6, <1>7, <1>8, <1>9 DEF TypeOK
<1>11. Matched'
  BY <1>3, <1>5, <1>6, NoneIsNoRow DEF Matched
<1>12. MaximumObserved'
  <2> SUFFICES ASSUME NEW e \in Deliveries, NEW p \in Objects, observations'[e][p] # None
               PROVE  feed'[p] # None /\ observations'[e][p] <= feed'[p].likes
    BY DEF MaximumObserved
  <2>1. CASE p # o
    BY <1>6, <1>7, <2>1 DEF MaximumObserved
  <2>2. CASE p = o /\ observations[e][o] = None
    BY <1>2, <1>6, <1>7, <2>2, NoneIsNoRow
  <2>3. CASE p = o /\ observations[e][o] # None
    <3>1. observations'[e][p] = observations[e][o]
      BY <1>7, <2>3
    <3>2. feed[o] # None /\ observations[e][o] <= feed[o].likes
      BY <2>3 DEF MaximumObserved
    <3>3. feed[o].likes <= row.likes
      BY <1>2, <3>2 DEF Extends
    <3>4. feed[o] \in FeedRow /\ observations[e][o] \in Likes
      BY <1>4, <2>3, <3>2
    <3>5. feed[o].likes \in Nat /\ row.likes \in Nat /\ observations[e][o] \in Nat
      BY <3>4, ObservationConstants DEF FeedRow
    <3> QED BY <1>6, <2>3, <3>1, <3>2, <3>3, <3>5, NoneIsNoRow
  <2> QED BY <2>1, <2>2, <2>3
<1>13. ~Open(w)' /\ Pending(w)' /\ Ordered(w)' /\ Undisturbed(w)'
  BY <1>9, IdleFacts
<1>14. OneWriterPerObject'
  BY <1>9, <1>13 DEF OneWriterPerObject, Open
<1>15. ASSUME NEW v \in Writers \ {w} PROVE Pending(v)' /\ Ordered(v)' /\ Undisturbed(v)'
  <2>1. ASSUME Open(v) PROVE feed'[writer[v].object] = feed[writer[v].object]
    BY <1>1, <1>2, <1>6, <2>1 DEF OneWriterPerObject, Pending
  <2>2. writer'[v] = writer[v] /\ Pending(v) /\ Ordered(v) /\ (Open(v)' <=> Open(v))
    BY <1>9 DEF Open
  <2>3. Pending(v)'
    BY <2>1, <2>2, SamePending
  <2>4. Ordered(v)'
    BY <2>2, SameOrder
  <2>5. ~(Open(v)' /\ writer'[v].solo)
    BY <1>2, <2>2 DEF Undisturbed
  <2> QED BY <2>3, <2>4, <2>5 DEF Undisturbed
<1> QED BY <1>10, <1>11, <1>12, <1>13, <1>14, <1>15

LEMMA AbortKeeps ==
  ASSUME IInv, NEW w \in Writers, Abort(w)
  PROVE  IInv'
<1> USE DEF IInv
<1>1. /\ UNCHANGED <<feed, observations, contributions, rollups>>
      /\ Open(w) /\ writer' = [writer EXCEPT ![w] = Idle]
  BY DEF Abort
<1>2. writer' \in [Writers -> Transaction] /\ writer'[w] = Idle
      /\ \A v \in Writers \ {w} : writer'[v] = writer[v]
  BY <1>1, IdleType DEF TypeOK
<1>3. TypeOK' /\ Matched' /\ MaximumObserved'
  BY <1>1, <1>2, KeptTables
<1>4. ~Open(w)' /\ Pending(w)' /\ Ordered(w)' /\ Undisturbed(w)'
  BY <1>2, IdleFacts
<1>5. OneWriterPerObject'
  BY <1>2, <1>4 DEF OneWriterPerObject, Open
<1>6. ASSUME NEW v \in Writers \ {w} PROVE Pending(v)' /\ Ordered(v)' /\ Undisturbed(v)'
  <2>1. writer'[v] = writer[v] /\ Pending(v) /\ Ordered(v) /\ (Open(v)' <=> Open(v))
    BY <1>2 DEF Open
  <2>2. Pending(v)'
    BY <1>1, <2>1, SamePending
  <2>3. Ordered(v)'
    BY <2>1, SameOrder
  <2>4. ~(Open(v)' /\ writer'[v].solo)
    BY <1>1, <2>1 DEF Undisturbed
  <2> QED BY <2>2, <2>3, <2>4 DEF Undisturbed
<1> QED BY <1>3, <1>4, <1>5, <1>6

LEMMA RetireKeeps ==
  ASSUME IInv, NEW old \in SUBSET Objects, Retire(old)
  PROVE  IInv'
<1> USE DEF IInv
<1>1. /\ feed' = [o \in Objects |-> IF o \in old THEN None ELSE feed[o]]
      /\ observations' = [d \in Deliveries |->
           [o \in Objects |-> IF o \in old THEN None ELSE observations[d][o]]]
      /\ contributions' = [o \in Objects |-> IF o \in old THEN NoContribution ELSE contributions[o]]
      /\ writer' = [v \in Writers |-> [writer[v] EXCEPT !.solo = FALSE]]
      /\ rollups' = rollups
      /\ \A v \in Writers : Open(v) => writer[v].object \notin old
  BY DEF Retire
<1>2. /\ writer' \in [Writers -> Transaction]
      /\ \A v \in Writers : writer'[v] = [writer[v] EXCEPT !.solo = FALSE]
  BY <1>1, SoloType DEF TypeOK
<1>3. ASSUME NEW v \in Writers
      PROVE  /\ writer'[v].solo = FALSE
             /\ writer'[v].pc = writer[v].pc /\ writer'[v].at = writer[v].at
             /\ writer'[v].todo = writer[v].todo /\ writer'[v].written = writer[v].written
             /\ writer'[v].object = writer[v].object /\ writer'[v].row = writer[v].row
             /\ writer'[v].key = writer[v].key /\ writer'[v].observed = writer[v].observed
  <2>1. writer[v] \in Transaction /\ writer'[v] = [writer[v] EXCEPT !.solo = FALSE]
    BY <1>2 DEF TypeOK
  <2> QED BY <2>1, SoloFields
<1>4. TypeOK'
  <2>1. NoContribution \in [Keywords -> Contribution \cup {None}]
    BY DEF NoContribution
  <2> QED BY <1>1, <1>2, <2>1 DEF TypeOK
<1>5. Matched'
  BY <1>1 DEF Matched
<1>6. MaximumObserved'
  BY <1>1 DEF MaximumObserved
<1>7. \A v \in Writers : Open(v)' <=> Open(v)
  BY <1>3 DEF Open
<1>8. OneWriterPerObject'
  <2>1. \A v \in Writers : writer'[v].object = writer[v].object
    BY <1>3
  <2> QED BY <1>7, <2>1 DEF OneWriterPerObject
<1>9. ASSUME NEW v \in Writers PROVE Pending(v)' /\ Ordered(v)' /\ Undisturbed(v)'
  <2>1. ASSUME Open(v) PROVE feed'[writer[v].object] = feed[writer[v].object]
    BY <1>1, <2>1 DEF Pending
  <2>2. Pending(v)'
    BY <1>3, <1>7, <2>1, SamePending
  <2>3. Ordered(v)'
    BY <1>3, SameOrder
  <2> QED BY <1>3, <2>2, <2>3 DEF Undisturbed
<1> QED BY <1>4, <1>5, <1>6, <1>8, <1>9

-----------------------------------------------------------------------------
\* The invariant holds initially and every step keeps it.

LEMMA InitInv == Init => IInv
<1> SUFFICES ASSUME Init PROVE IInv
  OBVIOUS
<1>1. TypeOK
  BY InitType
<1>2. Matched /\ MaximumObserved
  BY DEF Init, Matched, MaximumObserved
<1>3. \A w \in Writers : writer[w].pc = "idle" /\ writer[w].todo = {}
  BY DEF Init, Idle
<1> QED BY <1>1, <1>2, <1>3
     DEF IInv, OneWriterPerObject, Pending, Ordered, Undisturbed, Open

LEMMA NextInv == IInv /\ [Next]_vars => IInv'
<1> SUFFICES ASSUME IInv, [Next]_vars PROVE IInv'
  OBVIOUS
<1>1. CASE UNCHANGED vars
  <2>1. TypeOK' /\ Matched' /\ MaximumObserved' /\ OneWriterPerObject'
    BY <1>1 DEF vars, IInv, TypeOK, Matched, MaximumObserved, OneWriterPerObject, Open
  <2>2. ASSUME NEW w \in Writers PROVE Pending(w)' /\ Ordered(w)'
    BY <1>1 DEF vars, IInv, Pending, Ordered, Open, Extends, Held
  <2>3. ASSUME NEW w \in Writers PROVE Undisturbed(w)'
    <3>1. View(w)' = View(w)
      BY <1>1, SameView DEF vars
    <3> QED BY <1>1, <3>1 DEF vars, IInv, Undisturbed, Rebuilt, Held, Open
  <2> QED BY <2>1, <2>2, <2>3 DEF IInv
<1>2. ASSUME NEW w \in Writers, NEW o \in Objects, NEW d \in Deliveries, NEW doc \in FeedRow,
             Store(w, o, d, doc)
      PROVE  IInv'
  BY <1>2, StoreKeeps
<1>3. ASSUME NEW w \in Writers, Aggregate(w) PROVE IInv'
  BY <1>3, AggregateKeeps
<1>4. ASSUME NEW w \in Writers, WriteRollup(w) PROVE IInv'
  BY <1>4, WriteKeeps
<1>5. ASSUME NEW w \in Writers, Commit(w) PROVE IInv'
  BY <1>5, CommitKeeps
<1>6. ASSUME NEW w \in Writers, Abort(w) PROVE IInv'
  BY <1>6, AbortKeeps
<1>7. ASSUME NEW old \in SUBSET Objects, Retire(old) PROVE IInv'
  BY <1>7, RetireKeeps
<1> QED BY <1>1, <1>2, <1>3, <1>4, <1>5, <1>6, <1>7, ObservationConstants DEF Next

\* The invariant of every proof below.
THEOREM Invariant == Spec => []IInv
<1>1. Init => IInv
  BY InitInv
<1>2. IInv /\ [Next]_vars => IInv'
  BY NextInv
<1> QED BY <1>1, <1>2, PTL DEF Spec

\* Every row and every transaction of the analytics tables has its type; the
\* count of a feed row is one that was observed, not a sum.
THEOREM TypeCorrect == Spec => []TypeOK
<1>1. IInv => TypeOK
  BY DEF IInv
<1> QED BY <1>1, Invariant, PTL

\* upsert_insight_record keeps the contributions of every object those of its
\* stored text, window and likes, whatever transactions changed the text and
\* whatever the cleanup daemon removed.
THEOREM ContributionsFollow == Spec => []ContributionsMatchFeed
<1>1. IInv => ContributionsMatchFeed
  BY DEF IInv, Matched, ContributionsMatchFeed, NoContribution, Keyed
<1> QED BY <1>1, Invariant, PTL

\* The feed never shows fewer likes than a kept observation of the object.
THEOREM MaximumKept == Spec => []MaximumObserved
<1>1. IInv => MaximumObserved
  BY DEF IInv
<1> QED BY <1>1, Invariant, PTL

\* Whoever waits for a bucket waits for a holder that waits, if it does, for a
\* later one.
WaitsGoUp ==
  \A w, v \in Writers :
    Waits(w, v) /\ (\E u \in Writers : Waits(v, u)) => Before(writer[w].at, writer[v].at)

\* Rebuilding buckets in sorted order makes waiting one-directional, for any
\* number of writers.  NoRingOfWriters says what that is good for.
THEOREM WaitingIsOrdered == Spec => []WaitsGoUp
<1>1. IInv => WaitsGoUp
  BY DEF IInv, Ordered, WaitsGoUp, Waits
<1> QED BY <1>1, Invariant, PTL

\* Sorting by window and word puts no bucket before itself.
LEMMA BeforeIsOrder ==
  ASSUME NEW a \in Bucket, NEW b \in Bucket, NEW c \in Bucket
  PROVE  /\ ~Before(a, a)
         /\ Before(a, b) /\ Before(b, c) => Before(a, c)
<1>1. \A x \in Bucket : x.hour \in Nat /\ x.word \in Nat
  BY ObservationConstants DEF Bucket
<1> QED  BY <1>1 DEF Before

\* Of finitely many writers, some one is at a bucket that is before none of the
\* others'.  By contradiction: of the groups without such a writer, take one none
\* of whose subsets is one, and leave out a writer.
LEMMA LastBucket ==
  ASSUME NEW S, IsFiniteSet(S), S # {}, NEW at, \A w \in S : at[w] \in Bucket
  PROVE  \E m \in S : \A w \in S : ~Before(at[m], at[w])
<1> DEFINE Last(m, U) == m \in U /\ \A w \in U : ~Before(at[m], at[w])
           Bad == {U \in SUBSET S : U # {} /\ ~\E m \in U : Last(m, U)}
<1>1. SUFFICES ASSUME Bad # {} PROVE FALSE
  <2>1. S \notin Bad
    BY <1>1
  <2> QED  BY <2>1
<1>2. PICK U \in Bad : \A V \in Bad : ~(<<V, U>> \in StrictSubsetOrdering(S))
  <2>1. IsWellFoundedOn(StrictSubsetOrdering(S), SUBSET S)
    <3>1. IsWellFoundedOn(StrictSubsetOrdering(S), FiniteSubsetsOf(S))
      BY FS_StrictSubsetOrderingWellFounded
    <3>2. FiniteSubsetsOf(S) = SUBSET S
      BY FS_FiniteSubsetsOfFinite
    <3> QED  BY <3>1, <3>2
  <2>2. Bad \subseteq SUBSET S
    OBVIOUS
  <2> HIDE DEF Bad
  <2> QED  BY <1>1, <2>1, <2>2, WFMin
<1>3. PICK x \in U : TRUE
  OBVIOUS
<1> DEFINE V == U \ {x}
<1>4. V \notin Bad
  <2>1. <<V, U>> \in StrictSubsetOrdering(S)
    BY <1>3 DEF StrictSubsetOrdering
  <2> QED  BY <1>2, <2>1
<1>5. \A a, b, c \in Bucket :
        /\ ~Before(a, a)
        /\ Before(a, b) /\ Before(b, c) => Before(a, c)
  BY BeforeIsOrder
<1>6. CASE V = {}
  <2>1. Last(x, U)
    BY <1>3, <1>5, <1>6
  <2> QED  BY <1>3, <2>1
<1>7. CASE V # {}
  <2>1. PICK m \in V : Last(m, V)
    BY <1>4, <1>7
  <2>2. U \subseteq S /\ U = V \cup {x} /\ at[m] \in Bucket /\ at[x] \in Bucket
    BY <1>3
  <2>3. CASE Before(at[m], at[x])
    <3>1. ASSUME NEW w \in U PROVE ~Before(at[x], at[w])
      <4>1. CASE w = x
        BY <1>5, <2>2, <4>1
      <4>2. CASE w # x
        <5>1. at[w] \in Bucket /\ ~Before(at[m], at[w])
          BY <2>1, <2>2, <4>2
        <5> QED  BY <1>5, <2>2, <2>3, <5>1
      <4> QED  BY <4>1, <4>2
    <3> QED  BY <1>3, <3>1
  <2>4. CASE ~Before(at[m], at[x])
    <3>1. Last(m, U)
      BY <2>1, <2>2, <2>4
    <3> QED  BY <2>1, <3>1
  <2> QED  BY <2>3, <2>4
<1> QED  BY <1>6, <1>7

\* No group of writers, of whatever size, waits for itself: the one at the last
\* bucket would wait for a writer at a later one.
THEOREM NoRingOfWriters == Spec => []NoDeadlock
<1>1. IInv => NoDeadlock
  <2> SUFFICES ASSUME IInv, NEW group \in (SUBSET Writers) \ {{}},
                      \A w \in group : \E v \in group : Waits(w, v)
               PROVE  FALSE
    BY DEF NoDeadlock
  <2> DEFINE at == [w \in group |-> writer[w].at]
  <2>1. IsFiniteSet(group) /\ group # {}
    BY ObservationConstants, FS_Subset
  <2>2. \A w \in group : at[w] = writer[w].at /\ at[w] \in Bucket
    BY DEF IInv, Ordered, Waits
  <2> HIDE DEF at
  <2>3. PICK m \in group : \A w \in group : ~Before(at[m], at[w])
    BY <2>1, <2>2, LastBucket
  <2>4. PICK v \in group : Waits(m, v)
    OBVIOUS
  <2>5. Before(writer[m].at, writer[v].at)
    <3>1. writer[m].at \in Held(v)
      BY <2>4 DEF Waits
    <3>2. writer[v].pc = "writing" /\ v \in Writers
      BY DEF Waits
    <3>3. Ordered(v)
      BY <3>2 DEF IInv
    <3> QED  BY <3>1, <3>2, <3>3 DEF Ordered
  <2> QED  BY <2>2, <2>3, <2>5
<1> QED BY <1>1, Invariant, PTL

\* A transaction that met no other leaves what it changed exact.
THEOREM SoloIsExact == Spec => SoloRebuildExact
<1> DEFINE Exact == \A w \in Writers : Commit(w) /\ writer[w].solo =>
             \A b \in Bucket : Counted(contributions, b) # Counted(contributions', b) =>
               rollups'[b] = Counted(contributions', b)
<1>1. ASSUME IInv PROVE Exact
  <2> SUFFICES ASSUME NEW w \in Writers, Commit(w), writer[w].solo, NEW b \in Bucket,
                      Counted(contributions, b) # Counted(contributions', b)
               PROVE  rollups'[b] = Counted(contributions', b)
    OBVIOUS
  <2>1. /\ writer[w].pc = "aggregating" /\ writer[w].todo = {} /\ Open(w)
        /\ contributions' = View(w)
        /\ rollups'[b] = IF b \in Held(w) THEN writer[w].written[b] ELSE rollups[b]
    BY DEF Commit, Open
  <2>2. Undisturbed(w)
    BY <1>1 DEF IInv
  <2>3. Rebuilt(w, b)
    BY <2>1, <2>2 DEF Undisturbed
  <2> QED BY <2>1, <2>3 DEF Rebuilt
<1>2. IInv /\ [Next]_vars => [Exact]_vars
  BY <1>1
<1>3. [][Exact]_vars => SoloRebuildExact
  BY PTL DEF SoloRebuildExact
<1> HIDE DEF Exact
<1> QED BY <1>2, <1>3, Invariant, PTL DEF Spec

-----------------------------------------------------------------------------
\* Rebuilds that take turns.  Two transactions that both have begun to rebuild a
\* bucket make it short (NoContributionLost fails in the run of MCOverlap); what
\* follows shows that nothing else does.

\* A row counts at least the contributions to a bucket, each with its likes.
Covers(r, table, b) ==
  \A o \in Objects : Counted(table, b)[o] # None => r[o] = Counted(table, b)[o]

RollupsCover == \A b \in Bucket : Covers(rollups[b], contributions, b)

\* What a transaction has rebuilt covers what there will be when it commits; where
\* it has found nothing to write there is nothing to count.
Rebuilding(w) ==
  Open(w) =>
    /\ writer[w].todo \cup Held(w) \subseteq Rebuilds(w)
    /\ writer[w].pc = "writing" =>
         writer[w].at \in Rebuilds(w) /\ Covers(writer[w].seen, View(w), writer[w].at)
    /\ \A b \in Begun(w) :
         \/ writer[w].pc = "writing" /\ b = writer[w].at
         \/ Covers(IF b \in Held(w) THEN writer[w].written[b] ELSE NoRow, View(w), b)

CoverInv == RollupsCover /\ \A w \in Writers : Rebuilding(w)

\* A row covers a table that lacks some of the contributions as well.
LEMMA CoversFewer ==
  ASSUME NEW r, NEW t, NEW u, NEW b, Covers(r, t, b),
         \A o \in Objects : Counted(u, b)[o] # None => Counted(u, b)[o] = Counted(t, b)[o]
  PROVE  Covers(r, u, b)
BY DEF Covers

\* Where no row is enough, every row is.
LEMMA CoversNothing ==
  ASSUME NEW t, NEW b, Covers(NoRow, t, b)
  PROVE  \A r : Covers(r, t, b)
BY DEF Covers, NoRow

\* A transaction that no step touches, over contributions that stay.
LEMMA SameRebuilding ==
  ASSUME NEW v \in Writers, Rebuilding(v), contributions' = contributions, Open(v)' => Open(v),
         writer'[v].object = writer[v].object, writer'[v].row = writer[v].row,
         writer'[v].pc = writer[v].pc, writer'[v].at = writer[v].at,
         writer'[v].todo = writer[v].todo, writer'[v].seen = writer[v].seen,
         writer'[v].written = writer[v].written
  PROVE  Rebuilding(v)'
<1>1. View(v)' = View(v) /\ Held(v)' = Held(v) /\ Rebuilds(v)' = Rebuilds(v)
  BY SameView DEF Held, Rebuilds, Affected
<1>2. Begun(v)' = Begun(v)
  BY <1>1 DEF Begun
<1> QED  BY <1>1, <1>2 DEF Rebuilding

\* A transaction that loses no contribution of its own object, while those of the
\* others stay or go.
LEMMA FewerToRebuild ==
  ASSUME IInv, NEW v \in Writers, Rebuilding(v), Open(v),
         writer'[v].object = writer[v].object, writer'[v].row = writer[v].row,
         writer'[v].pc = writer[v].pc, writer'[v].at = writer[v].at,
         writer'[v].todo = writer[v].todo, writer'[v].seen = writer[v].seen,
         writer'[v].written = writer[v].written,
         DOMAIN contributions' = Objects,
         contributions'[writer[v].object] = contributions[writer[v].object],
         \A b \in Begun(v), p \in Objects :
           Counted(contributions', b)[p] # None =>
             Counted(contributions', b)[p] = Counted(contributions, b)[p]
  PROVE  Rebuilding(v)'
<1> DEFINE o == writer[v].object
           X == Contributed(o, writer[v].row)
<1>1. /\ o \in Objects /\ DOMAIN contributions = Objects
      /\ writer[v].pc = "writing" => writer[v].at \notin writer[v].todo
  <2>1. Pending(v) /\ Ordered(v) /\ TypeOK
    BY DEF IInv
  <2>2. writer[v].pc = "writing" => ~Before(writer[v].at, writer[v].at)
    BY <2>1, BeforeIsOrder DEF Ordered
  <2> QED  BY <2>1, <2>2 DEF Pending, Ordered, TypeOK
<1>2. /\ View(v) = [contributions EXCEPT ![o] = X]
      /\ View(v)' = [contributions' EXCEPT ![o] = X]
  BY DEF View, Contributed
<1>3. Rebuilds(v)' = Rebuilds(v) /\ Held(v)' = Held(v)
  BY DEF Rebuilds, Affected, Held
<1>4. Begun(v)' = Begun(v)
  BY <1>3 DEF Begun
<1> HIDE DEF X
<1>5. ASSUME NEW b \in Begun(v), NEW r, Covers(r, View(v), b)
      PROVE  Covers(r, View(v)', b)
  <2>1. ASSUME NEW p \in Objects, Counted(View(v)', b)[p] # None
        PROVE  Counted(View(v)', b)[p] = Counted(View(v), b)[p]
    <3>1. CASE p = o
      <4>1. View(v)'[p] = X /\ View(v)[p] = X
        BY <1>1, <1>2, <3>1
      <4> QED  BY <4>1 DEF Counted
    <3>2. CASE p # o
      <4>1. View(v)'[p] = contributions'[p] /\ View(v)[p] = contributions[p]
        BY <1>1, <1>2, <3>2
      <4>2. /\ Counted(View(v)', b)[p] = Counted(contributions', b)[p]
            /\ Counted(View(v), b)[p] = Counted(contributions, b)[p]
        BY <4>1 DEF Counted
      <4> QED  BY <2>1, <4>2
    <3> QED  BY <3>1, <3>2
  <2> QED  BY <1>5, <2>1, CoversFewer
<1>6. ASSUME writer[v].pc = "writing"
      PROVE  writer[v].at \in Rebuilds(v) /\ Covers(writer[v].seen, View(v)', writer[v].at)
  <2>1. writer[v].at \in Begun(v) /\ Covers(writer[v].seen, View(v), writer[v].at)
    BY <1>1, <1>6 DEF Rebuilding, Begun
  <2> QED  BY <1>5, <2>1 DEF Begun
<1>7. ASSUME NEW b \in Begun(v), ~(writer[v].pc = "writing" /\ b = writer[v].at)
      PROVE  Covers(IF b \in Held(v) THEN writer[v].written[b] ELSE NoRow, View(v)', b)
  BY <1>5, <1>7 DEF Rebuilding
<1>8. writer[v].todo \cup Held(v) \subseteq Rebuilds(v)
  BY DEF Rebuilding
<1> QED  BY <1>3, <1>4, <1>6, <1>7, <1>8 DEF Rebuilding

-----------------------------------------------------------------------------
\* One lemma for each action.

LEMMA StoreCovers ==
  ASSUME IInv, CoverInv, NEW w \in Writers, NEW o \in Objects, NEW d \in Deliveries,
         NEW doc \in FeedRow, Store(w, o, d, doc)
  PROVE  CoverInv'
<1>1. UNCHANGED <<feed, observations, contributions, rollups>>
  BY DEF Store
<1>2. /\ \A v \in Writers \ {w} : writer'[v] = [writer[v] EXCEPT !.solo = FALSE]
      /\ writer'[w].pc = "aggregating" /\ writer'[w].object = o
      /\ writer'[w].row = Merged(o, doc) /\ writer'[w].todo = Affected(o, Merged(o, doc))
      /\ writer'[w].written = NothingWritten
  <2>1. TypeOK
    BY DEF IInv
  <2>2. PICK row : row = Merged(o, doc)
    OBVIOUS
  <2>3. /\ \A v \in Writers \ {w} : writer'[v] = [writer[v] EXCEPT !.solo = FALSE]
        /\ writer'[w] = [ pc |-> "aggregating", object |-> o, row |-> row,
                 key |-> d, observed |-> doc.likes, todo |-> Affected(o, row),
                 at |-> None, seen |-> NoRow, written |-> NothingWritten,
                 solo |-> \A v \in Writers : ~Open(v) ]
    BY <2>1, <2>2, StoreStep
  <2> QED  BY <2>2, <2>3
<1>3. RollupsCover'
  BY <1>1 DEF CoverInv, RollupsCover, Covers
<1>4. ASSUME NEW v \in Writers \ {w}
      PROVE  Rebuilding(v)'
  <2>1. writer[v] \in Transaction /\ writer'[v] = [writer[v] EXCEPT !.solo = FALSE]
    BY <1>2 DEF IInv, TypeOK
  <2>2. /\ writer'[v].pc = writer[v].pc /\ writer'[v].at = writer[v].at
        /\ writer'[v].todo = writer[v].todo /\ writer'[v].seen = writer[v].seen
        /\ writer'[v].object = writer[v].object /\ writer'[v].row = writer[v].row
        /\ writer'[v].written = writer[v].written
    BY <2>1, SoloFields
  <2> QED  BY <1>1, <2>2, SameRebuilding DEF CoverInv, Open
<1>5. Rebuilding(w)'
  <2>1. Held(w)' = {}
    BY <1>2 DEF Held, NothingWritten
  <2>2. Rebuilds(w)' = writer'[w].todo
    BY <1>1, <1>2 DEF Rebuilds, Affected
  <2> QED  BY <1>2, <2>1, <2>2 DEF Rebuilding, Begun
<1> QED  BY <1>3, <1>4, <1>5 DEF CoverInv

LEMMA AggregateCovers ==
  ASSUME IInv, CoverInv, NEW w \in Writers, Aggregate(w)
  PROVE  CoverInv'
<1>1. /\ UNCHANGED <<feed, observations, contributions, rollups>>
      /\ writer[w].pc = "aggregating" /\ Open(w)
  BY DEF Aggregate, Open
<1>2. PICK b \in writer[w].todo :
        /\ b \in Bucket
        /\ writer' = [writer EXCEPT ![w] =
             [writer[w] EXCEPT !.pc = "writing", !.at = b,
                  !.todo = writer[w].todo \ {b}, !.seen = Counted(View(w), b)]]
  BY AggregateStep DEF IInv
<1>3. writer \in [Writers -> Transaction]
  BY DEF IInv, TypeOK
<1>4. /\ writer'[w].pc = "writing" /\ writer'[w].at = b
      /\ writer'[w].todo = writer[w].todo \ {b} /\ writer'[w].seen = Counted(View(w), b)
      /\ writer'[w].object = writer[w].object /\ writer'[w].row = writer[w].row
      /\ writer'[w].written = writer[w].written
  <2>1. writer'[w] = [writer[w] EXCEPT !.pc = "writing", !.at = b,
                        !.todo = writer[w].todo \ {b}, !.seen = Counted(View(w), b)]
    BY <1>2, <1>3
  <2>2. writer[w] \in Transaction
    BY <1>3
  <2> QED  BY <2>1, <2>2 DEF Transaction
<1>5. RollupsCover'
  BY <1>1 DEF CoverInv, RollupsCover, Covers
<1>6. ASSUME NEW v \in Writers \ {w}
      PROVE  Rebuilding(v)'
  <2>1. writer'[v] = writer[v]
    BY <1>2, <1>3
  <2> QED  BY <1>1, <2>1, SameRebuilding DEF CoverInv, Open
<1>7. Rebuilding(w)'
  <2>1. View(w)' = View(w) /\ Held(w)' = Held(w) /\ Rebuilds(w)' = Rebuilds(w)
    BY <1>1, <1>4, SameView DEF Held, Rebuilds, Affected
  <2>2. /\ writer[w].todo \cup Held(w) \subseteq Rebuilds(w)
        /\ \A c \in Begun(w) :
             Covers(IF c \in Held(w) THEN writer[w].written[c] ELSE NoRow, View(w), c)
    BY <1>1 DEF CoverInv, Rebuilding
  <2>3. Begun(w)' \subseteq Begun(w) \cup {b}
    BY <1>4, <2>1 DEF Begun
  <2>4. Covers(writer'[w].seen, View(w)', b)
    BY <1>4, <2>1 DEF Covers
  <2> QED  BY <1>2, <1>4, <2>1, <2>2, <2>3, <2>4 DEF Rebuilding
<1> QED  BY <1>5, <1>6, <1>7 DEF CoverInv

LEMMA WriteCovers ==
  ASSUME IInv, CoverInv, NEW w \in Writers, WriteRollup(w)
  PROVE  CoverInv'
<1>1. /\ UNCHANGED <<feed, observations, contributions, rollups>>
      /\ writer[w].pc = "writing" /\ Open(w)
  BY DEF WriteRollup, Open
<1>2. PICK b \in Bucket : b = writer[w].at
  BY <1>1 DEF IInv, Ordered
<1>3. PICK r : r = IF DeletesNothing(w) THEN None ELSE writer[w].seen
  OBVIOUS
<1>4. writer' = [writer EXCEPT ![w] =
        [writer[w] EXCEPT !.pc = "aggregating", !.at = None, !.seen = NoRow, !.written[b] = r]]
  BY <1>2, <1>3, WriteStep DEF IInv
<1>5. writer \in [Writers -> Transaction]
  BY DEF IInv, TypeOK
<1>6. /\ writer'[w].pc = "aggregating" /\ writer'[w].todo = writer[w].todo
      /\ writer'[w].written[b] = r
      /\ \A c \in Bucket \ {b} : writer'[w].written[c] = writer[w].written[c]
      /\ writer'[w].object = writer[w].object /\ writer'[w].row = writer[w].row
  <2>1. writer'[w] = [writer[w] EXCEPT !.pc = "aggregating", !.at = None, !.seen = NoRow,
                                       !.written[b] = r]
    BY <1>4, <1>5
  <2>2. writer[w] \in Transaction
    BY <1>5
  <2> QED  BY <2>1, <2>2 DEF Transaction
<1>7. RollupsCover'
  BY <1>1 DEF CoverInv, RollupsCover, Covers
<1>8. ASSUME NEW v \in Writers \ {w}
      PROVE  Rebuilding(v)'
  <2>1. writer'[v] = writer[v]
    BY <1>4, <1>5
  <2> QED  BY <1>1, <2>1, SameRebuilding DEF CoverInv, Open
<1>9. Rebuilding(w)'
  <2>1. View(w)' = View(w) /\ Rebuilds(w)' = Rebuilds(w) /\ Begun(w)' = Begun(w)
    BY <1>1, <1>6, SameView DEF Rebuilds, Affected, Begun
  <2>2. /\ writer[w].todo \cup Held(w) \subseteq Rebuilds(w)
        /\ b \in Rebuilds(w) /\ Covers(writer[w].seen, View(w), b)
        /\ \A c \in Begun(w) \ {b} :
             Covers(IF c \in Held(w) THEN writer[w].written[c] ELSE NoRow, View(w), c)
    BY <1>1, <1>2 DEF CoverInv, Rebuilding
  <2>3. /\ Held(w)' \subseteq Held(w) \cup {b}
        /\ \A c \in Bucket \ {b} : c \in Held(w)' <=> c \in Held(w)
    BY <1>6 DEF Held
  <2>4. Covers(IF b \in Held(w)' THEN writer'[w].written[b] ELSE NoRow, View(w)', b)
    <3>1. CASE DeletesNothing(w)
      <4>1. b \notin Held(w)' /\ writer[w].seen = NoRow
        BY <1>3, <1>6, <3>1 DEF Held, DeletesNothing
      <4> QED  BY <2>1, <2>2, <4>1
    <3>2. CASE ~DeletesNothing(w)
      <4>1. writer'[w].written[b] = writer[w].seen /\ writer[w].seen # None
        BY <1>3, <1>5, <1>6, <3>2, NoneIsNoRow DEF Transaction
      <4>2. b \in Held(w)'
        BY <4>1 DEF Held
      <4> QED  BY <2>1, <2>2, <4>1, <4>2
    <3> QED  BY <3>1, <3>2
  <2>5. ASSUME NEW c \in Begun(w) \ {b}
        PROVE  Covers(IF c \in Held(w)' THEN writer'[w].written[c] ELSE NoRow, View(w)', c)
    <3>1. c \in Bucket
      BY DEF Begun, Rebuilds, Affected
    <3> QED  BY <1>6, <2>1, <2>2, <2>3, <3>1
  <2> QED  BY <1>6, <2>1, <2>2, <2>3, <2>4, <2>5 DEF Rebuilding
<1> QED  BY <1>7, <1>8, <1>9 DEF CoverInv

\* The commit of a transaction whose buckets no other has begun with.
LEMMA CommitCovers ==
  ASSUME IInv, CoverInv, RebuildsInTurn, NEW w \in Writers, Commit(w)
  PROVE  CoverInv'
<1>1. /\ Open(w) /\ writer[w].pc = "aggregating" /\ writer[w].todo = {}
      /\ contributions' = View(w)
      /\ rollups' = [b \in Bucket |-> IF b \in Held(w) THEN writer[w].written[b] ELSE rollups[b]]
      /\ writer' = [writer EXCEPT ![w] = Idle]
  BY DEF Commit, Open
<1>2. PICK o \in Objects, row \in FeedRow : o = writer[w].object /\ row = writer[w].row
  BY <1>1 DEF IInv, Pending
<1>3. /\ contributions \in [Objects -> [Keywords -> Contribution \cup {None}]]
      /\ writer \in [Writers -> Transaction]
      /\ \A p \in Objects : p # o => contributions'[p] = contributions[p]
      /\ DOMAIN contributions' = Objects
      /\ contributions' = [contributions EXCEPT ![o] = Keyed(row)]
  <2>1. TypeOK /\ Matched /\ Pending(w)
    BY DEF IInv
  <2>2. Contributed(o, row) = Keyed(row)
    BY <1>1, <1>2, <2>1, ContributedIsKeyed DEF Pending
  <2> QED  BY <1>1, <1>2, <2>1, <2>2 DEF TypeOK, View
<1>4. /\ writer'[w] = Idle
      /\ \A v \in Writers \ {w} : writer'[v] = writer[v]
  BY <1>1, <1>3
<1>5. Begun(w) = Rebuilds(w) /\ Rebuilds(w) = Affected(o, row)
  BY <1>1, <1>2 DEF Begun, Rebuilds
<1>6. ASSUME NEW b \in Bucket, b \notin Rebuilds(w)
      PROVE  Counted(contributions', b) = Counted(contributions, b)
  <2>1. PICK table : table = contributions'
    OBVIOUS
  <2>2. CASE Counted(contributions, b) # Counted(table, b)
    <3>1. b \in Affected(o, row)
      BY <1>3, <2>1, <2>2, AffectedBuckets
    <3> QED  BY <1>5, <1>6, <3>1
  <2> QED  BY <2>1, <2>2
<1>7. ASSUME NEW b \in Bucket
      PROVE  Covers(rollups'[b], contributions', b)
  <2>1. CASE b \in Rebuilds(w)
    <3>1. Covers(IF b \in Held(w) THEN writer[w].written[b] ELSE NoRow, contributions', b)
      BY <1>1, <1>5, <2>1 DEF CoverInv, Rebuilding
    <3>2. CASE b \in Held(w)
      BY <1>1, <3>1, <3>2
    <3>3. CASE b \notin Held(w)
      BY <3>1, <3>3, CoversNothing
    <3> QED  BY <3>2, <3>3
  <2>2. CASE b \notin Rebuilds(w)
    <3>1. b \notin Held(w)
      BY <1>1, <2>2 DEF CoverInv, Rebuilding
    <3>2. rollups'[b] = rollups[b] /\ Covers(rollups[b], contributions, b)
      BY <1>1, <3>1 DEF CoverInv, RollupsCover
    <3> QED  BY <1>6, <2>2, <3>2 DEF Covers
  <2> QED  BY <2>1, <2>2
<1>8. ASSUME NEW v \in Writers \ {w}
      PROVE  Rebuilding(v)'
  <2>1. writer'[v] = writer[v]
    BY <1>4
  <2>2. CASE ~Open(v)
    BY <2>1, <2>2 DEF Rebuilding, Open
  <2>3. CASE Open(v)
    <3>1. contributions'[writer[v].object] = contributions[writer[v].object]
      BY <1>1, <1>2, <1>3, <2>3 DEF IInv, OneWriterPerObject, Pending
    <3>2. \A b \in Begun(v) : Counted(contributions', b) = Counted(contributions, b)
      <4> SUFFICES ASSUME NEW b \in Begun(v)
                   PROVE  Counted(contributions', b) = Counted(contributions, b)
        OBVIOUS
      <4>1. b \in Bucket
        BY DEF Begun, Rebuilds, Affected
      <4>2. b \notin Rebuilds(w)
        BY <1>1, <1>5, <2>3 DEF RebuildsInTurn
      <4> QED  BY <1>6, <4>1, <4>2
    <3> QED  BY <1>3, <2>1, <2>3, <3>1, <3>2, FewerToRebuild DEF CoverInv
  <2> QED  BY <2>2, <2>3
<1>9. Rebuilding(w)'
  BY <1>4 DEF Rebuilding, Open, Idle
<1> QED  BY <1>7, <1>8, <1>9 DEF CoverInv, RollupsCover

LEMMA AbortCovers ==
  ASSUME IInv, CoverInv, NEW w \in Writers, Abort(w)
  PROVE  CoverInv'
<1>1. /\ UNCHANGED <<feed, observations, contributions, rollups>>
      /\ writer' = [writer EXCEPT ![w] = Idle]
  BY DEF Abort
<1>2. writer'[w] = Idle /\ \A v \in Writers \ {w} : writer'[v] = writer[v]
  BY <1>1 DEF IInv, TypeOK
<1>3. RollupsCover'
  BY <1>1 DEF CoverInv, RollupsCover, Covers
<1>4. Rebuilding(w)'
  BY <1>2 DEF Rebuilding, Open, Idle
<1>5. ASSUME NEW v \in Writers \ {w}
      PROVE  Rebuilding(v)'
  BY <1>1, <1>2, SameRebuilding DEF CoverInv, Open
<1> QED  BY <1>3, <1>4, <1>5 DEF CoverInv

LEMMA RetireCovers ==
  ASSUME IInv, CoverInv, NEW old \in SUBSET Objects, Retire(old)
  PROVE  CoverInv'
<1>1. /\ contributions' = [o \in Objects |-> IF o \in old THEN NoContribution ELSE contributions[o]]
      /\ writer' = [v \in Writers |-> [writer[v] EXCEPT !.solo = FALSE]]
      /\ rollups' = rollups
      /\ \A v \in Writers : Open(v) => writer[v].object \notin old
  BY DEF Retire
<1>2. ASSUME NEW b \in Bucket, NEW p \in Objects, Counted(contributions', b)[p] # None
      PROVE  Counted(contributions', b)[p] = Counted(contributions, b)[p]
  <2>1. b.word \in Keywords
    BY DEF Bucket
  <2>2. p \notin old
    BY <1>1, <1>2, <2>1 DEF Counted, NoContribution
  <2>3. contributions'[p] = contributions[p]
    BY <1>1, <2>2
  <2> QED  BY <2>3 DEF Counted
<1>3. RollupsCover'
  BY <1>1, <1>2, CoversFewer DEF CoverInv, RollupsCover
<1>4. ASSUME NEW v \in Writers
      PROVE  Rebuilding(v)'
  <2>1. writer[v] \in Transaction /\ writer'[v] = [writer[v] EXCEPT !.solo = FALSE]
    BY <1>1 DEF IInv, TypeOK
  <2>2. /\ writer'[v].pc = writer[v].pc /\ writer'[v].at = writer[v].at
        /\ writer'[v].todo = writer[v].todo /\ writer'[v].seen = writer[v].seen
        /\ writer'[v].object = writer[v].object /\ writer'[v].row = writer[v].row
        /\ writer'[v].written = writer[v].written
    BY <2>1, SoloFields
  <2>3. CASE ~Open(v)
    BY <2>2, <2>3 DEF Rebuilding, Open
  <2>4. CASE Open(v)
    <3>1. writer[v].object \in Objects \ old
      BY <1>1, <2>4 DEF IInv, Pending
    <3>2. /\ contributions'[writer[v].object] = contributions[writer[v].object]
          /\ DOMAIN contributions' = Objects
      BY <1>1, <3>1
    <3>3. Begun(v) \subseteq Bucket
      BY DEF Begun, Rebuilds, Affected
    <3> QED  BY <1>2, <2>2, <2>4, <3>2, <3>3, FewerToRebuild DEF CoverInv
  <2> QED  BY <2>3, <2>4
<1> QED  BY <1>3, <1>4 DEF CoverInv

LEMMA CoverStep == IInv /\ CoverInv /\ RebuildsInTurn /\ [Next]_vars => CoverInv'
<1> SUFFICES ASSUME IInv, CoverInv, RebuildsInTurn, [Next]_vars PROVE CoverInv'
  OBVIOUS
<1>1. CASE UNCHANGED vars
  <2>1. RollupsCover'
    BY <1>1 DEF vars, CoverInv, RollupsCover, Covers
  <2>2. ASSUME NEW v \in Writers PROVE Rebuilding(v)'
    BY <1>1, SameRebuilding DEF vars, CoverInv, Open
  <2> QED  BY <2>1, <2>2 DEF CoverInv
<1>2. ASSUME NEW w \in Writers, NEW o \in Objects, NEW d \in Deliveries, NEW doc \in FeedRow,
             Store(w, o, d, doc)
      PROVE  CoverInv'
  BY <1>2, StoreCovers
<1>3. ASSUME NEW w \in Writers, Aggregate(w) PROVE CoverInv'
  BY <1>3, AggregateCovers
<1>4. ASSUME NEW w \in Writers, WriteRollup(w) PROVE CoverInv'
  BY <1>4, WriteCovers
<1>5. ASSUME NEW w \in Writers, Commit(w) PROVE CoverInv'
  BY <1>5, CommitCovers
<1>6. ASSUME NEW w \in Writers, Abort(w) PROVE CoverInv'
  BY <1>6, AbortCovers
<1>7. ASSUME NEW old \in SUBSET Objects, Retire(old) PROVE CoverInv'
  BY <1>7, RetireCovers
<1> QED  BY <1>1, <1>2, <1>3, <1>4, <1>5, <1>6, <1>7, ObservationConstants DEF Next

\* As long as no two open transactions have begun to rebuild the same bucket, every
\* rollup counts every contribution, with its likes, whatever commits, fails or is
\* retired in between.
THEOREM RollupsCoverInTurn == Spec /\ []RebuildsInTurn => []RollupsCover
<1>1. Init => CoverInv
  <2> SUFFICES ASSUME Init PROVE CoverInv
    OBVIOUS
  <2>1. ASSUME NEW b \in Bucket, NEW o \in Objects
        PROVE  Counted(contributions, b)[o] = None
    BY DEF Init, Counted, NoContribution, Bucket
  <2>2. \A w \in Writers : ~Open(w)
    BY DEF Init, Open, Idle
  <2> QED  BY <2>1, <2>2 DEF CoverInv, RollupsCover, Covers, Rebuilding
<1>2. CoverInv => RollupsCover
  BY DEF CoverInv
<1> QED  BY <1>1, <1>2, CoverStep, Invariant, PTL DEF Spec

-----------------------------------------------------------------------------
\* What is counted is finite at any time, however many objects there may be, so
\* that a row that covers the contributions counts at least as many.

Counts(r) == {o \in Objects : r[o] # None}

FiniteWriter(w) ==
  /\ IsFiniteSet(Counts(writer[w].seen))
  /\ \A b \in Held(w) : IsFiniteSet(Counts(writer[w].written[b]))

FiniteTables ==
  /\ IsFiniteSet(Counts(feed))
  /\ \A b \in Bucket : IsFiniteSet(Counts(rollups[b]))

FiniteInv == FiniteTables /\ \A w \in Writers : FiniteWriter(w)

\* A step that writes neither feed nor rollups.
LEMMA SameTables ==
  ASSUME FiniteInv, feed' = feed, rollups' = rollups
  PROVE  FiniteTables'
BY DEF FiniteInv, FiniteTables, Counts

LEMMA NothingCounted == Counts(NoRow) = {}
BY DEF Counts, NoRow

\* Every contribution belongs to an object of the feed.
LEMMA CountsObjects ==
  ASSUME Matched, NEW b \in Bucket
  PROVE  Counts(Counted(contributions, b)) \subseteq Counts(feed)
<1> SUFFICES ASSUME NEW o \in Objects, Counted(contributions, b)[o] # None, feed[o] = None
             PROVE  FALSE
  BY DEF Counts
<1>1. b.word \in Keywords
  BY DEF Bucket
<1>2. contributions[o] = NoContribution
  BY DEF Matched
<1> QED  BY <1>1, <1>2 DEF Counted, NoContribution

\* A transaction sees one object more than the feed, at most.
LEMMA ViewCounts ==
  ASSUME TypeOK, Matched, NEW w \in Writers, Open(w), Pending(w), NEW b \in Bucket
  PROVE  Counts(Counted(View(w), b)) \subseteq Counts(feed) \cup {writer[w].object}
<1> SUFFICES ASSUME NEW o \in Objects, Counted(View(w), b)[o] # None, o # writer[w].object
             PROVE  o \in Counts(feed)
  BY DEF Counts
<1>1. View(w)[o] = contributions[o]
  BY ViewIsKeyed
<1>2. Counted(contributions, b)[o] # None
  BY <1>1 DEF Counted
<1> QED  BY <1>2, CountsObjects DEF Counts

\* A transaction that no step touches.
LEMMA SameFinite ==
  ASSUME FiniteInv, NEW v \in Writers, writer'[v].seen = writer[v].seen,
         writer'[v].written = writer[v].written
  PROVE  FiniteWriter(v)'
BY DEF FiniteInv, FiniteWriter, Held

\* A transaction that has just begun, or has ended.
LEMMA NothingFinite ==
  ASSUME NEW v \in Writers, writer'[v].seen = NoRow, writer'[v].written = NothingWritten
  PROVE  FiniteWriter(v)'
BY NothingCounted, FS_EmptySet DEF FiniteWriter, Held, NothingWritten

LEMMA StoreFinite ==
  ASSUME IInv, FiniteInv, NEW w \in Writers, NEW o \in Objects, NEW d \in Deliveries,
         NEW doc \in FeedRow, Store(w, o, d, doc)
  PROVE  FiniteInv'
<1>1. UNCHANGED <<feed, rollups>>
  BY DEF Store
<1>2. PICK row : row = Merged(o, doc)
  OBVIOUS
<1>3. /\ \A v \in Writers \ {w} : writer'[v] = [writer[v] EXCEPT !.solo = FALSE]
      /\ writer'[w] = [ pc |-> "aggregating", object |-> o, row |-> row,
               key |-> d, observed |-> doc.likes, todo |-> Affected(o, row),
               at |-> None, seen |-> NoRow, written |-> NothingWritten,
               solo |-> \A v \in Writers : ~Open(v) ]
  BY <1>2, StoreStep DEF IInv
<1>4. ASSUME NEW v \in Writers
      PROVE  FiniteWriter(v)'
  <2>1. CASE v = w
    <3>1. writer'[v].seen = NoRow /\ writer'[v].written = NothingWritten
      BY <1>3, <2>1
    <3> QED  BY <3>1, NothingFinite
  <2>2. CASE v # w
    <3>1. writer[v] \in Transaction /\ writer'[v] = [writer[v] EXCEPT !.solo = FALSE]
      BY <1>3, <2>2 DEF IInv, TypeOK
    <3>2. writer'[v].seen = writer[v].seen /\ writer'[v].written = writer[v].written
      BY <3>1, SoloFields
    <3> QED  BY <3>2, SameFinite
  <2> QED  BY <2>1, <2>2
<1> QED  BY <1>1, <1>4, SameTables DEF FiniteInv

LEMMA AggregateFinite ==
  ASSUME IInv, FiniteInv, NEW w \in Writers, Aggregate(w)
  PROVE  FiniteInv'
<1>1. UNCHANGED <<feed, rollups>> /\ Open(w)
  BY DEF Aggregate, Open
<1>2. PICK b \in writer[w].todo :
        /\ b \in Bucket
        /\ writer' = [writer EXCEPT ![w] =
             [writer[w] EXCEPT !.pc = "writing", !.at = b,
                  !.todo = writer[w].todo \ {b}, !.seen = Counted(View(w), b)]]
  BY AggregateStep DEF IInv
<1>3. writer \in [Writers -> Transaction]
  BY DEF IInv, TypeOK
<1>4. /\ writer'[w].seen = Counted(View(w), b) /\ writer'[w].written = writer[w].written
      /\ \A v \in Writers \ {w} : writer'[v] = writer[v]
  BY <1>2, <1>3 DEF Transaction
<1>5. IsFiniteSet(Counts(writer'[w].seen))
  <2>1. Counts(Counted(View(w), b)) \subseteq Counts(feed) \cup {writer[w].object}
    BY <1>1, <1>2, ViewCounts DEF IInv
  <2>2. IsFiniteSet(Counts(feed) \cup {writer[w].object})
    BY FS_AddElement DEF FiniteInv, FiniteTables
  <2> QED  BY <1>4, <2>1, <2>2, FS_Subset
<1>6. \A c \in Held(w)' : IsFiniteSet(Counts(writer'[w].written[c]))
  BY <1>4 DEF FiniteInv, FiniteWriter, Held
<1>7. ASSUME NEW v \in Writers \ {w}
      PROVE  FiniteWriter(v)'
  BY <1>4, SameFinite
<1>8. FiniteWriter(w)'
  BY <1>5, <1>6 DEF FiniteWriter
<1> QED  BY <1>1, <1>7, <1>8, SameTables DEF FiniteInv

LEMMA WriteFinite ==
  ASSUME IInv, FiniteInv, NEW w \in Writers, WriteRollup(w)
  PROVE  FiniteInv'
<1>1. UNCHANGED <<feed, rollups>> /\ writer[w].pc = "writing"
  BY DEF WriteRollup
<1>2. writer[w].at \in Bucket
  BY <1>1 DEF IInv, Ordered
<1>3. PICK r : r = (IF DeletesNothing(w) THEN None ELSE writer[w].seen)
  OBVIOUS
<1>4. writer' = [writer EXCEPT ![w] =
        [writer[w] EXCEPT !.pc = "aggregating", !.at = None, !.seen = NoRow,
                          !.written[writer[w].at] = r]]
  BY <1>2, <1>3, WriteStep DEF IInv
<1>5. writer \in [Writers -> Transaction]
  BY DEF IInv, TypeOK
<1>6. /\ writer'[w].seen = NoRow
      /\ writer'[w].written = [writer[w].written EXCEPT ![writer[w].at] = r]
      /\ \A v \in Writers \ {w} : writer'[v] = writer[v]
  BY <1>4, <1>5 DEF Transaction
<1>7. writer[w].written \in [Bucket -> Rollup \cup {None}]
  BY <1>5 DEF Transaction
<1>8. ASSUME NEW b \in Held(w)'
      PROVE  IsFiniteSet(Counts(writer'[w].written[b]))
  <2>1. CASE b = writer[w].at
    <3>1. writer'[w].written[b] = writer[w].seen
      BY <1>3, <1>6, <1>7, <2>1 DEF Held
    <3> QED  BY <3>1 DEF FiniteInv, FiniteWriter
  <2>2. CASE b # writer[w].at
    <3>1. writer'[w].written[b] = writer[w].written[b] /\ b \in Held(w)
      BY <1>6, <1>7, <2>2 DEF Held
    <3> QED  BY <3>1 DEF FiniteInv, FiniteWriter
  <2> QED  BY <2>1, <2>2
<1>9. IsFiniteSet(Counts(writer'[w].seen))
  BY <1>6, NothingCounted, FS_EmptySet
<1>10. ASSUME NEW v \in Writers \ {w}
       PROVE  FiniteWriter(v)'
  BY <1>6, SameFinite
<1>11. FiniteWriter(w)'
  BY <1>8, <1>9 DEF FiniteWriter
<1> QED  BY <1>1, <1>10, <1>11, SameTables DEF FiniteInv

\* A transaction that ends, with or without its row.
LEMMA EndFinite ==
  ASSUME FiniteInv, NEW w \in Writers, writer \in [Writers -> Transaction],
         writer' = [writer EXCEPT ![w] = Idle], NEW v \in Writers
  PROVE  FiniteWriter(v)'
<1>1. CASE v = w
  <2>1. writer'[v].seen = NoRow /\ writer'[v].written = NothingWritten
    BY <1>1 DEF Idle
  <2> QED  BY <2>1, NothingFinite
<1>2. CASE v # w
  BY <1>2, SameFinite
<1> QED  BY <1>1, <1>2

LEMMA CommitFinite ==
  ASSUME IInv, FiniteInv, NEW w \in Writers, Commit(w)
  PROVE  FiniteInv'
<1>1. /\ feed' = [feed EXCEPT ![writer[w].object] = writer[w].row]
      /\ rollups' = [b \in Bucket |-> IF b \in Held(w) THEN writer[w].written[b] ELSE rollups[b]]
      /\ writer' = [writer EXCEPT ![w] = Idle]
  BY DEF Commit
<1>2. feed \in [Objects -> FeedRow \cup {None}] /\ writer \in [Writers -> Transaction]
  BY DEF IInv, TypeOK
<1>3. IsFiniteSet(Counts(feed'))
  <2>1. Counts(feed') \subseteq Counts(feed) \cup {writer[w].object}
    BY <1>1, <1>2 DEF Counts
  <2>2. IsFiniteSet(Counts(feed) \cup {writer[w].object})
    BY FS_AddElement DEF FiniteInv, FiniteTables
  <2> QED  BY <2>1, <2>2, FS_Subset
<1>4. FiniteTables'
  <2>1. \A b \in Bucket : IsFiniteSet(Counts(rollups'[b]))
    BY <1>1 DEF FiniteInv, FiniteTables, FiniteWriter
  <2> QED  BY <1>3, <2>1 DEF FiniteTables, Counts
<1>5. \A v \in Writers : FiniteWriter(v)'
  BY <1>1, <1>2, EndFinite
<1> QED  BY <1>4, <1>5 DEF FiniteInv

LEMMA RetireFinite ==
  ASSUME IInv, FiniteInv, NEW old \in SUBSET Objects, Retire(old)
  PROVE  FiniteInv'
<1>1. /\ feed' = [o \in Objects |-> IF o \in old THEN None ELSE feed[o]]
      /\ writer' = [v \in Writers |-> [writer[v] EXCEPT !.solo = FALSE]]
      /\ rollups' = rollups
  BY DEF Retire
<1>2. Counts(feed') \subseteq Counts(feed)
  BY <1>1 DEF Counts
<1>3. IsFiniteSet(Counts(feed'))
  BY <1>2, FS_Subset DEF FiniteInv, FiniteTables
<1>4. ASSUME NEW v \in Writers
      PROVE  FiniteWriter(v)'
  <2>1. writer[v] \in Transaction /\ writer'[v] = [writer[v] EXCEPT !.solo = FALSE]
    BY <1>1 DEF IInv, TypeOK
  <2>2. writer'[v].seen = writer[v].seen /\ writer'[v].written = writer[v].written
    BY <2>1, SoloFields
  <2> QED  BY <2>2, SameFinite
<1>5. FiniteTables'
  BY <1>1, <1>3 DEF FiniteInv, FiniteTables, Counts
<1> QED  BY <1>4, <1>5 DEF FiniteInv

LEMMA FiniteStep == IInv /\ FiniteInv /\ [Next]_vars => FiniteInv'
<1> SUFFICES ASSUME IInv, FiniteInv, [Next]_vars PROVE FiniteInv'
  OBVIOUS
<1>1. CASE UNCHANGED vars
  <2>1. \A v \in Writers : FiniteWriter(v)'
    BY <1>1, SameFinite DEF vars
  <2> QED  BY <1>1, <2>1, SameTables DEF vars, FiniteInv
<1>2. ASSUME NEW w \in Writers, NEW o \in Objects, NEW d \in Deliveries, NEW doc \in FeedRow,
             Store(w, o, d, doc)
      PROVE  FiniteInv'
  BY <1>2, StoreFinite
<1>3. ASSUME NEW w \in Writers, Aggregate(w) PROVE FiniteInv'
  BY <1>3, AggregateFinite
<1>4. ASSUME NEW w \in Writers, WriteRollup(w) PROVE FiniteInv'
  BY <1>4, WriteFinite
<1>5. ASSUME NEW w \in Writers, Commit(w) PROVE FiniteInv'
  BY <1>5, CommitFinite
<1>6. ASSUME NEW w \in Writers, Abort(w) PROVE FiniteInv'
  <2>1. UNCHANGED <<feed, rollups>> /\ writer' = [writer EXCEPT ![w] = Idle]
    BY <1>6 DEF Abort
  <2>2. writer \in [Writers -> Transaction]
    BY DEF IInv, TypeOK
  <2>3. \A v \in Writers : FiniteWriter(v)'
    BY <2>1, <2>2, EndFinite
  <2> QED  BY <2>1, <2>3, SameTables DEF FiniteInv
<1>7. ASSUME NEW old \in SUBSET Objects, Retire(old) PROVE FiniteInv'
  BY <1>7, RetireFinite
<1> QED  BY <1>1, <1>2, <1>3, <1>4, <1>5, <1>6, <1>7, ObservationConstants DEF Next

\* As long as no two open transactions have begun to rebuild the same bucket, no
\* contribution is missing from the count of its bucket once all have ended.
THEOREM NothingIsLostInTurn == Spec => LossNeedsOverlap
<1>1. Init => FiniteInv
  <2> SUFFICES ASSUME Init PROVE FiniteInv
    OBVIOUS
  <2>1. Counts(feed) = {} /\ \A b \in Bucket : Counts(rollups[b]) = {}
    BY NothingCounted DEF Init, Counts
  <2>2. \A w \in Writers : writer[w].seen = NoRow /\ Held(w) = {}
    BY DEF Init, Idle, Held, NothingWritten
  <2> QED  BY <2>1, <2>2, NothingCounted, FS_EmptySet DEF FiniteInv, FiniteTables, FiniteWriter
<1>2. ASSUME RollupsCover, FiniteInv PROVE NoContributionLost
  <2> SUFFICES ASSUME NEW b \in Bucket
               PROVE  TweetCount(rollups[b]) >= TweetCount(Counted(contributions, b))
    BY DEF NoContributionLost
  <2>1. Counts(Counted(contributions, b)) \subseteq Counts(rollups[b])
    BY <1>2 DEF RollupsCover, Covers, Counts
  <2>2. IsFiniteSet(Counts(rollups[b]))
    BY <1>2 DEF FiniteInv, FiniteTables
  <2>3. /\ Cardinality(Counts(Counted(contributions, b))) <= Cardinality(Counts(rollups[b]))
        /\ Cardinality(Counts(Counted(contributions, b))) \in Nat
        /\ Cardinality(Counts(rollups[b])) \in Nat
    BY <2>1, <2>2, FS_Subset, FS_CardinalityType
  <2> QED  BY <2>3 DEF TweetCount, Counts
<1> QED  BY <1>1, <1>2, FiniteStep, RollupsCoverInTurn, Invariant, PTL DEF Spec, LossNeedsOverlap
=============================================================================
