-------------------------- MODULE EvaluationProofs --------------------------
(***************************************************************************)
(* Proof that no gate of Evaluation fails, from what PipelineProofs shows  *)
(* of the pipeline: which events are committed at each step of Program is  *)
(* known, and the tables are a function of them.                           *)
(***************************************************************************)
EXTENDS Evaluation, PipelineProofs

-----------------------------------------------------------------------------
(* The fixtures.                                                           *)

LEMMA FixtureFields ==
    /\ e1.event_id = 1 /\ e1.order_id = 1 /\ e1.event_time = 20
    /\ e2.event_id = 2 /\ e2.order_id = 1 /\ e2.event_time = 22
    /\ e3.event_id = 3 /\ e3.order_id = 2 /\ e3.event_time = 66
    /\ e4.event_id = 4 /\ e4.order_id = 3 /\ e4.event_time = 68
    /\ e5.event_id = 5 /\ e5.order_id = 3 /\ e5.event_time = 72
    /\ e6.event_id = 6 /\ e6.order_id = 2 /\ e6.event_time = 16
    /\ e7.event_id = 7 /\ e7.order_id = 4 /\ e7.event_time = 124
    /\ e9.event_id = 9 /\ e9.order_id = 1 /\ e9.event_time = 18
    /\ e10.event_id = 10 /\ e10.order_id = 5 /\ e10.event_time = 47
    /\ e2.status = "completed" /\ e2.amount_cents = 1000
    /\ e3.status = "completed" /\ e3.amount_cents = 2500
    /\ e4.status = "created"
    /\ e5.status = "completed" /\ e5.amount_cents = 500
    /\ e7.status = "completed" /\ e7.amount_cents = 750
    /\ e10.status = "completed" /\ e10.amount_cents = 750
BY DEF Event, e1, e2, e3, e4, e5, e6, e7, e9, e10

\* Each fixture has an id of its own.
LEMMA FixturesAreKeyed ==
    /\ Fixtures \in SUBSET Events
    /\ IsFiniteSet(Fixtures)
    /\ Keyed(Fixtures)
<1>1. Keyed(Fixtures)
  BY FixtureFields DEF Fixtures, Keyed
<1> DEFINE ids == {e.event_id : e \in Fixtures}
           id  == [e \in Fixtures |-> e.event_id]
<1>2. id \in Injection(Fixtures, ids)
  BY <1>1 DEF Keyed, Injection, IsInjective
<1>3. ids \in SUBSET Nat /\ \A n \in ids : n <= 10
  BY FixtureFields DEF Fixtures
<1>4. IsFiniteSet(ids)
  BY <1>3, FS_BoundedSetOfNaturals
<1> QED
  BY <1>1, <1>2, <1>4, FS_Injection, EvaluationAssumption

\* No file of fixtures has other events than these.
LEMMA BatchEventsAre ==
    /\ base \in Seq(Events) /\ Range(base) = {e1, e2, e3, e4}
    /\ late \in Seq(Events) /\ Range(late) = {e5}
    /\ duplicates \in Seq(Events) /\ Range(duplicates) = {e2, e3}
    /\ backfill \in Seq(Events) /\ Range(backfill) = {e6}
    /\ recovery \in Seq(Events) /\ Range(recovery) = {e7}
    /\ ingest_trap \in Seq(Events) /\ Range(ingest_trap) = {e9}
    /\ timezone \in Seq(Events) /\ Range(timezone) = {e10}
    /\ << >> \in Seq(Events) /\ Range(<< >>) = {}
<1>1. \A e \in Fixtures : e \in Events
  BY FixturesAreKeyed
<1>2. /\ e1 \in Events /\ e2 \in Events /\ e3 \in Events /\ e4 \in Events
      /\ e5 \in Events /\ e6 \in Events /\ e7 \in Events /\ e9 \in Events
      /\ e10 \in Events
  BY <1>1 DEF Fixtures
<1>3. base \in Seq(Events) /\ Range(base) = {e1, e2, e3, e4}
  BY <1>2 DEF base, Range
<1>4. duplicates \in Seq(Events) /\ Range(duplicates) = {e2, e3}
  BY <1>2 DEF duplicates, Range
<1>5. \A e \in Events : <<e>> \in Seq(Events) /\ Range(<<e>>) = {e}
  BY DEF Range
<1>6. << >> \in Seq(Events) /\ Range(<< >>) = {}
  BY DEF Range
<1> QED
  BY <1>2, <1>3, <1>4, <1>5, <1>6
     DEF late, backfill, recovery, ingest_trap, timezone

LEMMA ReplayEvents ==
    /\ replay \in Seq(Events)
    /\ Range(replay) = Fixtures \ {e7}
    /\ replay \o recovery \in Seq(Events)
    /\ Range(replay \o recovery) = Fixtures
<1>1. \A a, b \in Seq(Events) : /\ a \o b \in Seq(Events)
                                /\ Range(a \o b) = Range(a) \cup Range(b)
  BY RangeConcatenation, ConcatProperties
<1>2. /\ replay \in Seq(Events)
      /\ Range(replay) = ((((Range(base) \cup Range(late)) \cup Range(duplicates))
                              \cup Range(backfill)) \cup Range(ingest_trap))
                              \cup Range(timezone)
  <2> DEFINE r2 == base \o late
             r3 == r2 \o duplicates
             r4 == r3 \o backfill
             r5 == r4 \o ingest_trap
             r6 == r5 \o timezone
  <2>1. r2 \in Seq(Events) /\ Range(r2) = Range(base) \cup Range(late)
    BY <1>1, BatchEventsAre
  <2> HIDE DEF r2
  <2>2. r3 \in Seq(Events) /\ Range(r3) = Range(r2) \cup Range(duplicates)
    BY <1>1, <2>1, BatchEventsAre
  <2> HIDE DEF r3
  <2>3. r4 \in Seq(Events) /\ Range(r4) = Range(r3) \cup Range(backfill)
    BY <1>1, <2>2, BatchEventsAre
  <2> HIDE DEF r4
  <2>4. r5 \in Seq(Events) /\ Range(r5) = Range(r4) \cup Range(ingest_trap)
    BY <1>1, <2>3, BatchEventsAre
  <2> HIDE DEF r5
  <2>5. r6 \in Seq(Events) /\ Range(r6) = Range(r5) \cup Range(timezone)
    BY <1>1, <2>4, BatchEventsAre
  <2> HIDE DEF r6
  <2>6. replay = r6
    BY DEF replay, r2, r3, r4, r5, r6
  <2> QED
    BY <2>1, <2>2, <2>3, <2>4, <2>5, <2>6
<1>3. Range(replay) = {e1, e2, e3, e4, e5, e6, e9, e10}
  BY <1>2, BatchEventsAre
<1>4. Range(replay) = Fixtures \ {e7}
  BY <1>3, FixtureFields DEF Fixtures
<1>5. replay \o recovery \in Seq(Events)
      /\ Range(replay \o recovery) = Range(replay) \cup Range(recovery)
  BY <1>1, <1>2, BatchEventsAre
<1> QED
  BY <1>2, <1>4, <1>5, BatchEventsAre DEF Fixtures

-----------------------------------------------------------------------------
(* The raw events after k steps, and the tables they make.                 *)

RawAt(k) ==
    (IF k >= 1 THEN {e1, e2, e3, e4} ELSE {})
        \cup (IF k >= 8 THEN {e5} ELSE {})
        \cup (IF k >= 12 THEN {e6} ELSE {})
        \cup (IF k >= 14 THEN {e9} ELSE {})
        \cup (IF k >= 16 THEN {e10} ELSE {})
        \cup (IF k >= 23 THEN {e7} ELSE {})

LEMMA InRawAt ==
    ASSUME NEW k, NEW e
    PROVE  e \in RawAt(k) <=>
              \/ k >= 1 /\ e \in {e1, e2, e3, e4}
              \/ k >= 8 /\ e = e5
              \/ k >= 12 /\ e = e6
              \/ k >= 14 /\ e = e9
              \/ k >= 16 /\ e = e10
              \/ k >= 23 /\ e = e7
BY DEF RawAt

LEMMA RawAtIsWellFormed ==
    ASSUME NEW k
    PROVE  /\ RawAt(k) \subseteq Fixtures
           /\ RawAt(k) \in SUBSET Events
           /\ IsFiniteSet(RawAt(k))
           /\ Keyed(RawAt(k))
<1>1. RawAt(k) \subseteq Fixtures
  BY DEF RawAt, Fixtures
<1> QED
  BY <1>1, FixturesAreKeyed, FS_Subset DEF Keyed

LEMMA LatestIs ==
    ASSUME NEW raw \in SUBSET Events, IsFiniteSet(raw), Keyed(raw), NEW o, NEW e,
           IsLatest(e, OfOrder(raw, o))
    PROVE  Latest(raw, o) = e
<1>1. OfOrder(raw, o) # {} /\ OfOrder(raw, o) \in SUBSET Events
  BY DEF IsLatest, OfOrder
<1> QED
  BY <1>1, LatestIsLatest, LatestIsUnique

\* The rows of orders_current: order 3 completes with the late event, and
\* neither the backfilled event nor the one ingested late regress theirs.
LEMMA RowsAt ==
    ASSUME NEW k \in 1 .. 26
    PROVE  /\ Latest(RawAt(k), 1) = e2
           /\ Latest(RawAt(k), 2) = e3
           /\ Latest(RawAt(k), 3) = IF k >= 8 THEN e5 ELSE e4
           /\ Latest(RawAt(k), 4) = IF k >= 23 THEN e7 ELSE None
           /\ Latest(RawAt(k), 5) = IF k >= 16 THEN e10 ELSE None
           /\ \A o : o \notin 1 .. 5 => Latest(RawAt(k), o) = None
<1>1. /\ RawAt(k) \in SUBSET Events
      /\ IsFiniteSet(RawAt(k))
      /\ Keyed(RawAt(k))
  BY RawAtIsWellFormed
<1>2. IsLatest(e2, OfOrder(RawAt(k), 1))
  <2>1. e2 \in RawAt(k) /\ \A f \in RawAt(k) : f.order_id = 1 => f \in {e1, e2, e9}
    BY FixtureFields DEF RawAt
  <2> QED
    BY <2>1, FixtureFields DEF IsLatest, OfOrder, Later
<1>3. IsLatest(e3, OfOrder(RawAt(k), 2))
  <2>1. e3 \in RawAt(k) /\ \A f \in RawAt(k) : f.order_id = 2 => f \in {e3, e6}
    BY FixtureFields DEF RawAt
  <2> QED
    BY <2>1, FixtureFields DEF IsLatest, OfOrder, Later
<1>4. IsLatest(IF k >= 8 THEN e5 ELSE e4, OfOrder(RawAt(k), 3))
  <2>1. /\ e4 \in RawAt(k)
        /\ e5 \in RawAt(k) <=> k >= 8
        /\ \A f \in RawAt(k) : f.order_id = 3 => f \in {e4, e5}
    BY FixtureFields DEF RawAt
  <2> QED
    BY <2>1, FixtureFields DEF IsLatest, OfOrder, Later
<1>5. IF k >= 23 THEN IsLatest(e7, OfOrder(RawAt(k), 4)) ELSE OfOrder(RawAt(k), 4) = {}
  <2>1. /\ e7 \in RawAt(k) <=> k >= 23
        /\ \A f \in RawAt(k) : f.order_id = 4 => f = e7
    BY FixtureFields DEF RawAt
  <2> QED
    BY <2>1, FixtureFields DEF IsLatest, OfOrder
<1>6. IF k >= 16 THEN IsLatest(e10, OfOrder(RawAt(k), 5)) ELSE OfOrder(RawAt(k), 5) = {}
  <2>1. /\ e10 \in RawAt(k) <=> k >= 16
        /\ \A f \in RawAt(k) : f.order_id = 5 => f = e10
    BY FixtureFields DEF RawAt
  <2> QED
    BY <2>1, FixtureFields DEF IsLatest, OfOrder
<1>7. \A o : o \notin 1 .. 5 => OfOrder(RawAt(k), o) = {}
  <2>1. \A f \in RawAt(k) : f.order_id \in 1 .. 5
    BY RawAtIsWellFormed, FixtureFields DEF Fixtures
  <2> QED
    BY <2>1 DEF OfOrder
<1>8. /\ Latest(RawAt(k), 1) = e2
      /\ Latest(RawAt(k), 2) = e3
      /\ Latest(RawAt(k), 3) = IF k >= 8 THEN e5 ELSE e4
  BY <1>1, <1>2, <1>3, <1>4, LatestIs
<1>9. Latest(RawAt(k), 4) = IF k >= 23 THEN e7 ELSE None
  BY <1>1, <1>5, LatestIs, NoEventsNoRow
<1>10. Latest(RawAt(k), 5) = IF k >= 16 THEN e10 ELSE None
  BY <1>1, <1>6, LatestIs, NoEventsNoRow
<1>11. \A o : o \notin 1 .. 5 => Latest(RawAt(k), o) = None
  BY <1>7, NoEventsNoRow
<1> QED
  BY <1>8, <1>9, <1>10, <1>11

\* What two rows that count on one date come to.
LEMMA RollupOfTwo ==
    ASSUME NEW e \in Events, NEW f \in Events, e # f
    PROVE  RollupOf({e, f}) = [completed_orders |-> 2,
                               revenue_cents    |-> e.amount_cents + f.amount_cents]
<1> DEFINE S == {e, f}
           w == [x \in S |-> x.amount_cents]
<1>1. Cardinality({e}) = 1 /\ IsFiniteSet({e})
  BY FS_Singleton
<1>2. {e} \cup {f} = S /\ f \notin {e}
  OBVIOUS
<1>3. IsFiniteSet(S) /\ Cardinality(S) = 2
  BY <1>1, <1>2, FS_AddElement
<1>4. \A x \in S : w[x] \in Nat /\ w[x] = x.amount_cents
  BY EventAssumption
<1>5. S \ {e} = {f} /\ {f} \ {f} = {} /\ e \in S /\ S # {}
  OBVIOUS
<1>6. IsFiniteSet({f})
  BY FS_Singleton
<1> HIDE DEF w
<1>7. Total(w, S) = w[e] + Total(w, {f})
  BY <1>3, <1>4, <1>5, TotalWithout
<1>8. Total(w, {f}) = w[f] + Total(w, {})
  BY <1>4, <1>5, <1>6, TotalWithout
<1>9. Revenue(S) = Total(w, S)
  BY <1>3, <1>4, AmountsAdd
<1>10. Revenue(S) = e.amount_cents + f.amount_cents
  BY <1>4, <1>7, <1>8, <1>9, TotalOfNone
<1> HIDE DEF S
<1> QED
  BY <1>3, <1>5, <1>10 DEF RollupOf

\* The output tables are what the queries make of the raw table.
Queried(t) ==
    /\ t.current = [o \in Orders |-> Latest(t.raw, o)]
    /\ t.revenue = [d \in Dates |-> Rollup(t.current, d)]

LEMMA CurrentAt ==
    ASSUME NEW t, Queried(t), NEW k \in 1 .. 26, t.raw = RawAt(k)
    PROVE  /\ t.current[1] = e2
           /\ t.current[2] = e3
           /\ t.current[3] = IF k >= 8 THEN e5 ELSE e4
           /\ t.current[4] = IF k >= 23 THEN e7 ELSE None
           /\ t.current[5] = IF k >= 16 THEN e10 ELSE None
           /\ \A o \in Orders \ (1 .. 5) : t.current[o] = None
<1>1. 1 \in Orders /\ 2 \in Orders /\ 3 \in Orders /\ 4 \in Orders /\ 5 \in Orders
  BY EvaluationAssumption
<1>2. \A o \in Orders : t.current[o] = Latest(RawAt(k), o)
  BY DEF Queried
<1> QED
  BY <1>1, <1>2, RowsAt

LEMMA FixturesAreEvents ==
    /\ None \notin Fixtures
    /\ e2 \in Events /\ e3 \in Events /\ e5 \in Events /\ e10 \in Events
    /\ DateOf(e2) = 0 /\ DateOf(e3) = 1 /\ DateOf(e5) = 1 /\ DateOf(e7) = 2
    /\ DateOf(e10) = 0
    /\ 0 \in Dates /\ 1 \in Dates
<1>1. \A e \in Fixtures : e \in Events /\ e # None
  BY FixturesAreKeyed, TableAssumption
<1>2. e2 \in Events /\ e3 \in Events /\ e5 \in Events /\ e10 \in Events
  BY <1>1 DEF Fixtures
<1>3. /\ DateOf(e2) = 0 /\ DateOf(e3) = 1 /\ DateOf(e5) = 1 /\ DateOf(e7) = 2
      /\ DateOf(e10) = 0
  BY FixtureFields, EvaluationAssumption DEF DateOf
<1> QED
  BY <1>1, <1>2, <1>3 DEF Dates

\* The late event counts on its own date, not on that of its ingestion, and so
\* does the event that is written in another time zone.
LEMMA RevenueAt ==
    ASSUME NEW t, Queried(t), NEW k \in 8 .. 26, t.raw = RawAt(k)
    PROVE  /\ t.revenue[1] = [completed_orders |-> 2, revenue_cents |-> 3000]
           /\ k >= 16 => t.revenue[0] = [completed_orders |-> 2, revenue_cents |-> 1750]
<1>1. /\ t.current[1] = e2 /\ t.current[2] = e3 /\ t.current[3] = e5
      /\ t.current[4] = IF k >= 23 THEN e7 ELSE None
      /\ t.current[5] = IF k >= 16 THEN e10 ELSE None
      /\ \A o \in Orders \ (1 .. 5) : t.current[o] = None
  BY CurrentAt
<1>2. \A o \in 1 .. 5 : o = 1 \/ o = 2 \/ o = 3 \/ o = 4 \/ o = 5
  OBVIOUS
<1>3. {t.current[o] : o \in Orders} \ {None} =
        {e2, e3, e5} \cup (IF k >= 23 THEN {e7} ELSE {})
                     \cup (IF k >= 16 THEN {e10} ELSE {})
  <2>1. 1 \in Orders /\ 2 \in Orders /\ 3 \in Orders /\ 4 \in Orders /\ 5 \in Orders
    BY EvaluationAssumption
  <2>2. /\ e2 # None /\ e3 # None /\ e5 # None /\ e7 # None /\ e10 # None
    BY FixturesAreEvents DEF Fixtures
  <2>3. \A o \in Orders : t.current[o] \in {e2, e3, e5, None}
                              \cup (IF k >= 23 THEN {e7} ELSE {})
                              \cup (IF k >= 16 THEN {e10} ELSE {})
    BY <1>1, <1>2
  <2> QED
    BY <1>1, <2>1, <2>2, <2>3
<1>4. CompletedOn(t.current, 1) = {e3, e5}
  BY <1>3, FixtureFields, FixturesAreEvents DEF CompletedOn
<1>5. k >= 16 => CompletedOn(t.current, 0) = {e2, e10}
  BY <1>3, FixtureFields, FixturesAreEvents DEF CompletedOn
<1>6. /\ t.revenue[1] = RollupOf(CompletedOn(t.current, 1))
      /\ t.revenue[0] = RollupOf(CompletedOn(t.current, 0))
  BY RollupReads, FixturesAreEvents DEF Queried
<1>7. RollupOf({e3, e5}) = [completed_orders |-> 2, revenue_cents |-> 3000]
  BY RollupOfTwo, FixtureFields, FixturesAreEvents
<1>8. RollupOf({e2, e10}) = [completed_orders |-> 2, revenue_cents |-> 1750]
  BY RollupOfTwo, FixtureFields, FixturesAreEvents
<1> QED
  BY <1>4, <1>5, <1>6, <1>7, <1>8

\* The gate aggregate_grain holds of any tables that the queries make.
LEMMA GrainHolds ==
    ASSUME NEW t, Queried(t), t.raw \in SUBSET Events, IsFiniteSet(t.raw), Keyed(t.raw)
    PROVE  aggregate_grain_holds(t)
<1> DEFINE completed == {e \in OrderRows(t) : e.status = "completed"}
           rows(d)   == {e \in completed : DateOf(e) = d}
<1>1. \A e \in completed : e \in t.raw
  <2>1. \A o \in Orders : t.current[o] # None => t.current[o] \in t.raw
    <3>1. \A o \in Orders : t.current[o] = Latest(t.raw, o)
      BY DEF Queried
    <3> QED
      BY <3>1, NoEventsNoRow, LatestIsLatest DEF IsLatest, OfOrder
  <2> QED
    BY <2>1 DEF OrderRows
<1>2. \A d : rows(d) = CompletedOn(t.current, d)
  BY DEF OrderRows, CompletedOn
<1>3. \A d \in Dates : t.revenue[d] = RollupOf(rows(d))
  BY <1>2, RollupReads DEF Queried
<1>4. completed \subseteq Events
  BY <1>1
<1> HIDE DEF completed
<1>5. ASSUME NEW d \in Dates, rows(d) # {}
      PROVE  /\ t.revenue[d] # None
             /\ t.revenue[d].completed_orders = Cardinality(rows(d))
             /\ t.revenue[d].revenue_cents = Revenue(rows(d))
  <2>1. t.revenue[d] = [completed_orders |-> Cardinality(rows(d)),
                        revenue_cents    |-> Revenue(rows(d))]
    BY <1>3, <1>5 DEF RollupOf
  <2>2. IsFiniteSet(rows(d))
    BY <1>1, FS_Subset
  <2> DEFINE w == [e \in rows(d) |-> e.amount_cents]
  <2>3. \A e \in rows(d) : w[e] \in Nat /\ w[e] = e.amount_cents
    BY <1>4, EventAssumption
  <2> HIDE DEF w
  <2>4. Revenue(rows(d)) \in Nat
    BY <2>2, <2>3, AmountsAdd, TotalIsNat
  <2>5. Cardinality(rows(d)) \in Nat
    BY <2>2, FS_CardinalityType
  <2> HIDE DEF rows
  <2> QED
    BY <2>1, <2>4, <2>5, JobAssumption
<1>6. \A d \in Dates : rows(d) = {} => t.revenue[d] = None
  BY <1>3 DEF RollupOf
<1>7. \A e \in completed : DateOf(e) \in Dates /\ e \in rows(DateOf(e))
  BY <1>4 DEF Dates
<1>8. {DateOf(e) : e \in completed} = RevenueDates(t)
  BY <1>5, <1>6, <1>7 DEF RevenueDates
<1>9. \A d \in RevenueDates(t) : d \in Dates /\ rows(d) # {}
  BY <1>6 DEF RevenueDates
<1> QED
  BY <1>5, <1>8, <1>9 DEF aggregate_grain_holds, completed

\* What the evaluator reads is a function of the raw events.
LEMMA SameRawSameOutput ==
    ASSUME NEW s, NEW t, Queried(s), Queried(t), s.raw = t.raw
    PROVE  ReplayGate(s, t) /\ snapshot_semantics(t) = snapshot_semantics(s)
<1>1. s.current = t.current /\ s.revenue = t.revenue
  BY DEF Queried
<1> QED
  BY <1>1, SnapshotReads DEF ReplayGate, counts

\* The backfilled event is kept and changes no output.
LEMMA BackfillAt ==
    ASSUME NEW s, NEW t, Queried(s), Queried(t), s.raw = RawAt(11), t.raw = RawAt(12)
    PROVE  t.current[2] = e3 /\ BackfillGate(s, t, 1)
<1>1. /\ t.current[2] = e3
      /\ \A o \in Orders : s.current[o] = t.current[o]
  <2>1. \A o \in 1 .. 5 : o = 1 \/ o = 2 \/ o = 3 \/ o = 4 \/ o = 5
    OBVIOUS
  <2>2. 11 \in 1 .. 26 /\ 12 \in 1 .. 26
    OBVIOUS
  <2>3. /\ t.current[1] = e2 /\ t.current[2] = e3 /\ t.current[3] = e5
        /\ t.current[4] = None /\ t.current[5] = None
        /\ \A o \in Orders \ (1 .. 5) : t.current[o] = None
    BY <2>2, CurrentAt
  <2>4. /\ s.current[1] = e2 /\ s.current[2] = e3 /\ s.current[3] = e5
        /\ s.current[4] = None /\ s.current[5] = None
        /\ \A o \in Orders \ (1 .. 5) : s.current[o] = None
    BY <2>2, CurrentAt
  <2> QED
    BY <2>1, <2>3, <2>4
<1>2. s.current = t.current /\ s.revenue = t.revenue
  BY <1>1 DEF Queried
<1>3. t.raw = s.raw \cup {e6} /\ e6 \notin s.raw
  BY FixtureFields DEF RawAt
<1>4. IsFiniteSet(s.raw)
  BY RawAtIsWellFormed
<1>5. Cardinality(t.raw) = Cardinality(s.raw) + 1
  BY <1>3, <1>4, FS_AddElement
<1> QED
  BY <1>1, <1>2, <1>5, SnapshotReads DEF BackfillGate, counts

-----------------------------------------------------------------------------
(* The program.                                                            *)

LEMMA ProgramIs ==
    /\ Len(Program) = 26
    /\ Program[1] = Process(base, "base", "none")
    /\ Program[2] = Compute("noop_fails_late")
    /\ Program[3] = Process(<<>>, "empty", "none")
    /\ Program[4] = Gate("volume_anomaly")
    /\ Program[5] = Gate("poison_records")
    /\ Program[6] = Process(duplicates, "duplicates", "none")
    /\ Program[7] = Gate("duplicates")
    /\ Program[8] = Process(late, "late", "none")
    /\ Program[9] = Gate("late_data")
    /\ Program[10] = Gate("evaluator_sanity")
    /\ Program[11] = Gate("aggregate_grain")
    /\ Program[12] = Process(backfill, "backfill", "none")
    /\ Program[13] = Gate("backfill")
    /\ Program[14] = Process(ingest_trap, "ingest-trap", "none")
    /\ Program[15] = Gate("event_time_contract")
    /\ Program[16] = Process(timezone, "timezone", "none")
    /\ Program[17] = Gate("timezone")
    /\ Program[18] = Process(replay, "replay", "none")
    /\ Program[19] = Gate("idempotency")
    /\ Program[20] = Gate("key_stability")
    /\ Program[21] = Process(recovery, "recovery-attempt", "after_stage")
    /\ Program[22] = Compute("recovery_failed_cleanly")
    /\ Program[23] = Process(recovery, "recovery-attempt", "none")
    /\ Program[24] = Gate("recovery")
    /\ Program[25] = Gate("incremental_full_equivalence")
    /\ Program[26] = Gate("semantic_equality")
BY DEF Program

Calls == {0, 2, 5, 7, 11, 13, 15, 17, 20, 22}   \* the steps before a process()

LEMMA StepsOf ==
    ASSUME NEW k \in 0 .. 25
    PROVE  \/ k = 0 \/ k = 1 \/ k = 2 \/ k = 3 \/ k = 4 \/ k = 5 \/ k = 6 \/ k = 7
           \/ k = 8 \/ k = 9 \/ k = 10 \/ k = 11 \/ k = 12 \/ k = 13 \/ k = 14
           \/ k = 15 \/ k = 16 \/ k = 17 \/ k = 18 \/ k = 19 \/ k = 20 \/ k = 21
           \/ k = 22 \/ k = 23 \/ k = 24 \/ k = 25
OBVIOUS

LEMMA KindOfStep ==
    ASSUME NEW k \in 0 .. 25
    PROVE  /\ Program[k + 1].op = "process" <=> k \in Calls
           /\ Program[k + 1].op = "note" <=> k \in {1, 21}
<1>1. /\ \A b, r, f : Process(b, r, f).op = "process"
      /\ \A n : Gate(n).op = "gate" /\ Compute(n).op = "note"
  BY DEF Process, Gate, Compute
<1>2. \A i \in Calls : Program[i + 1].op = "process"
  BY SMTT(30), <1>1, ProgramIs DEF Calls
<1>3. \A i \in {1, 21} : Program[i + 1].op = "note"
  BY <1>1, ProgramIs
<1>4. \A i \in {3, 4, 6, 8, 9, 10, 12, 14, 16, 18, 19, 23, 24, 25} :
         Program[i + 1].op = "gate"
  BY SMTT(30), <1>1, ProgramIs
<1>5. \/ k \in Calls \/ k \in {1, 21}
      \/ k \in {3, 4, 6, 8, 9, 10, 12, 14, 16, 18, 19, 23, 24, 25}
  BY DEF Calls
<1>6. \A i \in Calls : i \notin {1, 21}
  BY DEF Calls
<1> QED
  BY <1>2, <1>3, <1>4, <1>5, <1>6

\* What a call of process() is given, and what it makes of the raw events if
\* it commits: all but the one that is told to fail do.
LEMMA CallIs ==
    ASSUME NEW k \in Calls
    PROVE  LET call == Program[k + 1]
           IN  /\ k \in 0 .. 25
               /\ call.batch \in FixtureBatches
               /\ call.run_id \in PipelineRuns
               /\ call.failpoint = IF k = 20 THEN "after_stage" ELSE "none"
               /\ k \in {20, 22} => call.run_id = "recovery-attempt"
               /\ call.batch \in Seq(Events)
               /\ k # 20 => RawAt(k + 1) = RawAt(k) \cup Range(call.batch)
<1>1. \A b, r, f : /\ Process(b, r, f).batch = b /\ Process(b, r, f).run_id = r
                   /\ Process(b, r, f).failpoint = f
  BY DEF Process
<1>2. \/ k = 0 /\ Program[k + 1] = Process(base, "base", "none")
      \/ k = 2 /\ Program[k + 1] = Process(<<>>, "empty", "none")
      \/ k = 5 /\ Program[k + 1] = Process(duplicates, "duplicates", "none")
      \/ k = 7 /\ Program[k + 1] = Process(late, "late", "none")
      \/ k = 11 /\ Program[k + 1] = Process(backfill, "backfill", "none")
      \/ k = 13 /\ Program[k + 1] = Process(ingest_trap, "ingest-trap", "none")
      \/ k = 15 /\ Program[k + 1] = Process(timezone, "timezone", "none")
      \/ k = 17 /\ Program[k + 1] = Process(replay, "replay", "none")
      \/ k = 20 /\ Program[k + 1] = Process(recovery, "recovery-attempt", "after_stage")
      \/ k = 22 /\ Program[k + 1] = Process(recovery, "recovery-attempt", "none")
  BY ProgramIs DEF Calls
<1>3. /\ k \in 0 .. 25
      /\ Program[k + 1].batch \in FixtureBatches
      /\ Program[k + 1].run_id \in PipelineRuns
      /\ Program[k + 1].failpoint = IF k = 20 THEN "after_stage" ELSE "none"
      /\ k \in {20, 22} => Program[k + 1].run_id = "recovery-attempt"
  BY <1>1, <1>2 DEF FixtureBatches, PipelineRuns
<1>4. Program[k + 1].batch \in Seq(Events)
  BY <1>3, EvaluationAssumption, BatchAssumption
<1>5. ASSUME k # 20
      PROVE  RawAt(k + 1) = RawAt(k) \cup Range(Program[k + 1].batch)
  <2> DEFINE batch == Program[k + 1].batch
  <2>1. /\ k \in {0, 2, 5, 7, 11, 13, 15, 17, 22}
        /\ k = 0 => batch = base
        /\ k = 2 => batch = <<>>
        /\ k = 5 => batch = duplicates
        /\ k = 7 => batch = late
        /\ k = 11 => batch = backfill
        /\ k = 13 => batch = ingest_trap
        /\ k = 15 => batch = timezone
        /\ k = 17 => batch = replay
        /\ k = 22 => batch = recovery
    BY <1>1, <1>2, <1>5
  <2> HIDE DEF batch
  <2> DEFINE Goal == \A e : e \in RawAt(k + 1) <=> e \in RawAt(k) \/ e \in Range(batch)
  <2>2. /\ Range(base) = {e1, e2, e3, e4} /\ Range(<<>>) = {}
        /\ Range(duplicates) = {e2, e3} /\ Range(late) = {e5}
        /\ Range(backfill) = {e6} /\ Range(ingest_trap) = {e9}
        /\ Range(timezone) = {e10} /\ Range(recovery) = {e7}
    BY BatchEventsAre
  <2>3. ASSUME k \in {0, 2, 5, 7} PROVE Goal
    BY <2>1, <2>2, <2>3, InRawAt
  <2>4. ASSUME k \in {11, 13, 15, 22} PROVE Goal
    BY <2>1, <2>2, <2>4, InRawAt
  <2>5. ASSUME k = 17 PROVE Goal
    <3>1. RawAt(17 + 1) = RawAt(17)
      BY DEF RawAt
    <3>2. \A e : e \in RawAt(17) <=> e \in Fixtures \ {e7} \/ e \in RawAt(17)
      BY InRawAt DEF Fixtures
    <3>3. Range(batch) = Fixtures \ {e7}
      BY <2>1, <2>5, ReplayEvents
    <3> QED
      BY <2>5, <3>1, <3>2, <3>3
  <2>6. Goal
    BY <2>1, <2>3, <2>4, <2>5
  <2> QED
    BY <2>6 DEF batch
<1> QED
  BY <1>3, <1>4, <1>5

\* A step that is no call leaves the raw events alone, as does the failing one.
LEMMA RawAtKept ==
    ASSUME NEW k \in 0 .. 25, k \notin Calls \/ k = 20
    PROVE  RawAt(k + 1) = RawAt(k)
BY DEF RawAt, Calls

-----------------------------------------------------------------------------
(* The invariant: unless an error or a kill has ended the driver, what is  *)
(* committed, what the driver last saw committed and what it noted are     *)
(* known from the number of steps it has done.                             *)

Position ==
    /\ step \in 0 .. 26
    /\ db.raw = RawAt(step)
    /\ step >= 2 => "noop_fails_late" \in notes
    /\ step >= 22 => "recovery_failed_cleanly" \in notes
    /\ pc = "idle" /\ step = 21 => db.runs["recovery-attempt"] = "failed"
    /\ step >= 23 => db.runs["recovery-attempt"] = "completed"

Calling ==
    pc # "idle" =>
        /\ step \in Calls
        /\ job.batch = Program[step + 1].batch
        /\ job.run_id = Program[step + 1].run_id
        /\ job.failpoint = Program[step + 1].failpoint
        /\ before = db
        /\ pc = "failing" => step = 20
        /\ pc \in {"upserted", "refreshed"} => step # 20

BeforeKnown ==
    pc = "idle" =>
        /\ step \in {3, 4, 6, 18, 19, 21} => before.raw = db.raw
        /\ step = 12 => before.raw = RawAt(11)

Driven == Position /\ Calling /\ BeforeKnown

EvaluationInv ==
    /\ Inv
    /\ Queried(before)
    /\ EveryGateHolds
    /\ dead => pc \in {"idle", "failing"}
    /\ ~dead => Driven

LEMMA CommittedIsQueried ==
    ASSUME Inv
    PROVE  Queried(db)
BY DEF Inv, Committed, Queried

LEMMA FixtureCall ==
    ASSUME NEW k \in Calls
    PROVE  Program[k + 1].batch \in Batches /\ Program[k + 1].run_id \in RunIds
BY CallIs, EvaluationAssumption

\* The steps that the driver takes between two calls.
Between == pc = "idle" /\ ~dead /\ step \in 0 .. 25

LEMMA DriverIsBetween ==
    ASSUME EvaluationInv, NEW op, At(op)
    PROVE  /\ Between /\ Driven
           /\ Program[step + 1].op = op
BY ProgramIs DEF At, Here, EvaluationInv, Between, Driven, Position

-----------------------------------------------------------------------------
(* Each gate, where the driver records it.                                 *)

LEMMA LateDataHolds ==
    ASSUME Inv, NEW k \in 8 .. 22, db.raw = RawAt(k)
    PROVE  late_data_holds
<1>1. Queried(db)
  BY CommittedIsQueried
<1>2. db.current[3] = e5
  BY <1>1, CurrentAt
<1>3. db.revenue[1] = [completed_orders |-> 2, revenue_cents |-> 3000]
  BY <1>1, RevenueAt
<1>4. e5 # None
  BY FixturesAreEvents DEF Fixtures
<1> QED
  BY <1>2, <1>3, <1>4, FixtureFields DEF late_data_holds

LEMMA NoopFails ==
    ASSUME Inv, db.raw = RawAt(1)
    PROVE  ~late_data_holds
<1>1. Queried(db)
  BY CommittedIsQueried
<1>2. db.current[3] = e4
  BY <1>1, CurrentAt
<1> QED
  BY <1>2, FixtureFields DEF late_data_holds

LEMMA TimezoneHolds ==
    ASSUME Inv, db.raw = RawAt(16)
    PROVE  timezone_holds
<1>1. Queried(db)
  BY CommittedIsQueried
<1>2. db.current[5] = e10
  BY <1>1, CurrentAt
<1>3. /\ db.revenue[1] = [completed_orders |-> 2, revenue_cents |-> 3000]
      /\ db.revenue[0] = [completed_orders |-> 2, revenue_cents |-> 1750]
  BY <1>1, RevenueAt
<1>4. db.revenue[1] # None /\ db.revenue[0] # None
  BY <1>3, JobAssumption
<1>5. e10 # None
  BY FixturesAreEvents DEF Fixtures
<1> QED
  BY <1>2, <1>3, <1>4, <1>5, FixtureFields DEF timezone_holds

LEMMA FullEquivalenceHolds ==
    ASSUME Inv, NEW k \in {24, 25}, db.raw = RawAt(k)
    PROVE  EquivalentToFullRefresh
<1>1. RawAt(k) = Fixtures
  BY DEF RawAt, Fixtures
<1> DEFINE all == FullRefreshOf(replay \o recovery)
<1>2. Staged({}, replay \o recovery) = Fixtures
  <2>1. {} \cup Range(replay \o recovery) = Fixtures
    BY ReplayEvents
  <2> QED
    BY <2>1, ReplayEvents, FixturesAreKeyed, StagedWhole
<1>3. all.raw = Fixtures /\ Queried(all)
  BY <1>2 DEF FullRefreshOf, TablesOf, Queried
<1> HIDE DEF all
<1>4. snapshot_semantics(db) = snapshot_semantics(all)
  BY <1>1, <1>3, CommittedIsQueried, SameRawSameOutput
<1> QED
  BY <1>4 DEF EquivalentToFullRefresh, same_semantics, all

LEMMA GateHolds ==
    ASSUME EvaluationInv, At("gate")
    PROVE  Holds(Here.name)
<1>1. /\ Between /\ Driven /\ Inv /\ Queried(before) /\ Queried(db)
      /\ db.raw = RawAt(step)
  BY DriverIsBetween, CommittedIsQueried DEF EvaluationInv, Driven, Position
<1>2. step \in {3, 4, 6, 8, 9, 10, 12, 14, 16, 18, 19, 23, 24, 25}
  <2>1. step \in 0 .. 25 /\ step \notin Calls \cup {1, 21}
    BY <1>1, DriverIsBetween, KindOfStep DEF Between
  <2> QED
    BY <2>1 DEF Calls
<1>3. Here = Program[step + 1] /\ \A n : Gate(n).name = n
  BY DEF Here, Gate
<1>4. CASE step \in {3, 4, 6, 18, 19}
  <2>1. /\ ReplayGate(before, db)
        /\ snapshot_semantics(db) = snapshot_semantics(before)
    BY <1>1, <1>4, SameRawSameOutput DEF Driven, BeforeKnown, Between
  <2>2. Here.name \in {"volume_anomaly", "poison_records", "duplicates",
                       "idempotency", "key_stability"}
    BY <1>3, <1>4, ProgramIs
  <2> QED
    BY <2>1, <2>2 DEF Holds
<1>5. CASE step \in {8, 9}
  <2>1. late_data_holds
    BY <1>1, <1>5, LateDataHolds
  <2>2. step = 9 => "noop_fails_late" \in notes
    BY <1>1 DEF Driven, Position
  <2>3. \/ step = 8 /\ Here.name = "late_data"
        \/ step = 9 /\ Here.name = "evaluator_sanity"
    BY <1>3, <1>5, ProgramIs
  <2> QED
    BY <2>1, <2>2, <2>3 DEF Holds
<1>6. aggregate_grain_holds(db)
  BY <1>1, GrainHolds, RawAtIsWellFormed
<1>7. CASE step = 10
  <2>1. Here.name = "aggregate_grain"
    BY <1>3, <1>7, ProgramIs
  <2> QED
    BY <1>6, <2>1 DEF Holds
<1>8. CASE step = 12
  <2>1. db.current[2] = e3 /\ BackfillGate(before, db, 1)
    BY <1>1, <1>8, BackfillAt DEF Driven, BeforeKnown, Between
  <2>2. Here.name = "backfill"
    BY <1>3, <1>8, ProgramIs
  <2> QED
    BY <2>1, <2>2 DEF Holds
<1>9. CASE step = 14
  <2>1. db.current[1] = e2
    BY <1>1, <1>9, CurrentAt
  <2>2. Here.name = "event_time_contract"
    BY <1>3, <1>9, ProgramIs
  <2> QED
    BY <2>1, <2>2 DEF Holds, event_time_holds
<1>10. CASE step = 16
  <2>1. timezone_holds
    BY <1>1, <1>10, TimezoneHolds
  <2>2. Here.name = "timezone"
    BY <1>3, <1>10, ProgramIs
  <2> QED
    BY <2>1, <2>2 DEF Holds
<1>11. CASE step = 23
  <2>1. db.current[4] = e7 /\ e7 # None
    BY <1>1, <1>11, CurrentAt, FixturesAreEvents DEF Fixtures
  <2>2. /\ "recovery_failed_cleanly" \in notes
        /\ db.runs["recovery-attempt"] = "completed"
    BY <1>1, <1>11 DEF Driven, Position
  <2>3. Here.name = "recovery"
    BY <1>3, <1>11, ProgramIs
  <2> QED
    BY <2>1, <2>2, <2>3, FixtureFields DEF Holds
<1>12. CASE step \in {24, 25}
  <2>1. EquivalentToFullRefresh
    BY <1>1, <1>12, FullEquivalenceHolds
  <2>2. Here.name \in {"incremental_full_equivalence", "semantic_equality"}
    BY <1>3, <1>12, ProgramIs
  <2> QED
    BY <1>6, <2>1, <2>2 DEF Holds
<1> QED
  BY <1>2, <1>4, <1>5, <1>7, <1>8, <1>9, <1>10, <1>11, <1>12

-----------------------------------------------------------------------------
(* Each step preserves the invariant.                                      *)

LEMMA EvaluationInvInitially == EvaluationInit => EvaluationInv
<1> SUFFICES ASSUME EvaluationInit PROVE EvaluationInv
  OBVIOUS
<1>1. Inv /\ Queried(db) /\ before = db
  BY InitInv, CommittedIsQueried DEF EvaluationInit, GateInit
<1>2. Driven
  BY DEF EvaluationInit, GateInit, Init, Driven, Position, Calling, BeforeKnown, RawAt
<1> QED
  BY <1>1, <1>2 DEF EvaluationInit, EvaluationInv, EveryGateHolds

LEMMA CallProcessKeeps ==
    ASSUME EvaluationInv, CallProcess
    PROVE  EvaluationInv'
<1>1. Between /\ Driven /\ Here = Program[step + 1] /\ Here.op = "process"
  BY DriverIsBetween DEF CallProcess, Here
<1>2. step \in Calls
  BY <1>1, KindOfStep DEF Between
<1>3. Here.batch \in Batches /\ Here.run_id \in RunIds /\ Here.failpoint \in Failpoints
  BY <1>1, <1>2, FixtureCall, CallIs DEF Failpoints
<1>4. Inv'
  BY <1>3, BeginPreserves DEF CallProcess, EvaluationInv
<1>5. /\ db' = db /\ before' = db /\ pc' = "begun"
      /\ step' = step /\ notes' = notes /\ gates' = gates /\ dead' = dead
      /\ job'.batch = Here.batch /\ job'.run_id = Here.run_id
      /\ job'.failpoint = Here.failpoint
  BY DEF CallProcess, Begin
<1>6. Queried(before')
  BY <1>5, CommittedIsQueried DEF EvaluationInv
<1>7. Driven'
  BY <1>1, <1>2, <1>5 DEF Driven, Position, Calling, BeforeKnown
<1> QED
  BY <1>1, <1>4, <1>5, <1>6, <1>7 DEF EvaluationInv, EveryGateHolds, Queried, Between

LEMMA InsideKeeps ==
    ASSUME EvaluationInv, Inside
    PROVE  EvaluationInv'
<1>1. Inv'
  BY StagePreserves, UpsertPreserves, RefreshPreserves DEF Inside, EvaluationInv
<1>2. /\ ~dead /\ Driven
      /\ pc \in {"begun", "staged", "upserted"}
      /\ pc' \in {"staged", "upserted", "refreshed"}
      /\ db' = db /\ job' = job
      /\ UNCHANGED <<input, step, before, notes, gates, dead>>
  BY DEF Inside, Stage, Upsert, Refresh, EvaluationInv
<1>3. pc' \in {"upserted", "refreshed"} => step # 20
  <2>1. CASE Stage
    BY <2>1 DEF Stage
  <2>2. CASE Upsert
    <3>1. step \in Calls /\ job.failpoint = Program[step + 1].failpoint
      BY <1>2 DEF Driven, Calling
    <3>2. job.failpoint # "after_stage"
      BY <2>2 DEF Upsert
    <3> QED
      BY <3>1, <3>2, CallIs
  <2>3. CASE Refresh
    BY <1>2, <2>3 DEF Refresh, Driven, Calling
  <2> QED
    BY <2>1, <2>2, <2>3 DEF Inside
<1>4. Driven'
  BY <1>2, <1>3 DEF Driven, Position, Calling, BeforeKnown
<1> QED
  BY <1>1, <1>2, <1>4 DEF EvaluationInv, EveryGateHolds, Queried

LEMMA ReturnsKeeps ==
    ASSUME EvaluationInv, Returns
    PROVE  EvaluationInv'
<1>1. /\ Inv /\ Inv' /\ Commit /\ pc = "refreshed" /\ pc' = "idle"
      /\ step' = step + 1
      /\ UNCHANGED <<before, notes, gates, dead>>
  BY CommitPreserves DEF Returns, EvaluationInv, Commit, Leave
<1>2. /\ ~dead /\ Driven
      /\ step \in Calls /\ step # 20
      /\ job.batch = Program[step + 1].batch
      /\ job.run_id = Program[step + 1].run_id
      /\ before = db
      /\ db.raw = RawAt(step)
  BY <1>1 DEF EvaluationInv, Driven, Position, Calling
<1>3. /\ step \in 0 .. 25
      /\ job.batch \in Seq(Events)
      /\ step = 22 => job.run_id = "recovery-attempt"
      /\ RawAt(step + 1) = RawAt(step) \cup Range(job.batch)
  BY <1>2, CallIs
<1>4. db'.raw = RawAt(step')
  <2>1. Keyed(RawAt(step) \cup Range(job.batch))
    BY <1>3, RawAtIsWellFormed
  <2>2. db'.raw = Staged(db.raw, job.batch)
    BY <1>1, CommitInstalls
  <2> QED
    BY <1>1, <1>2, <1>3, <2>1, <2>2, StagedWhole
<1>5. step = 22 => db'.runs["recovery-attempt"] = "completed"
  <2>1. /\ db'.runs = [db.runs EXCEPT ![job.run_id] = "completed"]
        /\ job.run_id \in RunIds
        /\ db.runs = [r \in RunIds |-> db.runs[r]]
    BY <1>1, CommitInstalls DEF Inv, Committed
  <2> QED
    BY <1>3, <2>1
<1>6. step' \in {1, 3, 6, 8, 12, 14, 16, 18, 23}
  BY <1>1, <1>2 DEF Calls
<1>7. Position'
  BY <1>1, <1>2, <1>4, <1>5, <1>6 DEF Driven, Position
<1>8. BeforeKnown'
  <2>1. CASE step' \in {3, 6, 18}
    <3>1. step \in {2, 5, 17}
      BY <1>1, <1>2, <2>1 DEF Calls
    <3>2. \A k \in {2, 5} : RawAt(k + 1) = RawAt(k)
      BY DEF RawAt
    <3>3. RawAt(18) = RawAt(17)
      BY DEF RawAt
    <3>4. RawAt(step') = RawAt(step)
      BY <1>1, <3>1, <3>2, <3>3
    <3> QED
      BY <1>1, <1>2, <1>4, <2>1, <3>4 DEF BeforeKnown
  <2>2. CASE step' = 12
    BY <1>1, <1>2, <2>2 DEF BeforeKnown, Calls
  <2>3. CASE step' \notin {3, 6, 12, 18}
    BY <1>6, <2>3 DEF BeforeKnown
  <2> QED
    BY <2>1, <2>2, <2>3
<1>9. Driven'
  BY <1>1, <1>7, <1>8 DEF Driven, Calling
<1> QED
  BY <1>1, <1>2, <1>9 DEF EvaluationInv, EveryGateHolds, Queried

LEMMA RaiseInsideKeeps ==
    ASSUME EvaluationInv, RaiseInside
    PROVE  EvaluationInv'
<1>1. /\ Inv /\ Inv' /\ pc \in {"begun", "staged", "upserted", "refreshed"}
      /\ pc' = "failing" /\ db' = db /\ job' = job
      /\ dead' = ~(pc = "staged" /\ job.failpoint = "after_stage")
      /\ UNCHANGED <<step, before, notes, gates>>
  BY RaisePreserves DEF RaiseInside, Raise, EvaluationInv
<1>2. ~dead /\ Driven
  BY <1>1 DEF EvaluationInv
<1>3. ASSUME ~dead'
      PROVE  Driven'
  <2>1. job.failpoint = "after_stage" /\ step \in Calls
    BY <1>1, <1>2, <1>3 DEF Driven, Calling
  <2>2. step = 20
    BY <1>1, <1>2, <2>1, CallIs DEF Driven, Calling
  <2> QED
    BY <1>1, <1>2, <2>2 DEF Driven, Position, Calling, BeforeKnown
<1> QED
  BY <1>1, <1>3 DEF EvaluationInv, EveryGateHolds, Queried

LEMMA RaisesKeeps ==
    ASSUME EvaluationInv, Raises
    PROVE  EvaluationInv'
<1>1. /\ Inv /\ Inv' /\ pc = "failing" /\ pc' = "idle"
      /\ db' = [db EXCEPT !.runs[job.run_id] = "failed"]
      /\ step' = IF dead THEN step ELSE step + 1
      /\ UNCHANGED <<before, notes, gates, dead>>
  BY RecordFailurePreserves DEF Raises, RecordFailure, Leave, EvaluationInv
<1>2. /\ Tables(db)
      /\ job.run_id \in RunIds
      /\ db.runs = [r \in RunIds |-> db.runs[r]]
  BY <1>1 DEF Inv, Committed, JobKnown
<1>3. db'.raw = db.raw /\ db'.runs[job.run_id] = "failed"
  BY <1>1, <1>2 DEF Tables
<1>4. ASSUME ~dead
      PROVE  Driven'
  <2>1. /\ step = 20 /\ step' = 21 /\ job.run_id = "recovery-attempt"
        /\ before = db /\ db.raw = RawAt(20)
        /\ "noop_fails_late" \in notes
    <3>1. Driven /\ step = 20
      BY <1>1, <1>4 DEF EvaluationInv, Driven, Calling
    <3> QED
      BY <1>1, <1>4, <3>1, CallIs DEF Driven, Position, Calling
  <2>2. RawAt(21) = RawAt(20)
    BY DEF RawAt
  <2> QED
    BY <1>1, <1>3, <2>1, <2>2 DEF Driven, Position, Calling, BeforeKnown
<1> QED
  BY <1>1, <1>4 DEF EvaluationInv, EveryGateHolds, Queried

\* What a step between two calls does not disturb.
LEMMA BetweenKeeps ==
    ASSUME EvaluationInv, Between, step \notin Calls,
           UNCHANGED <<vars, before, dead>>, step' = step + 1,
           notes \subseteq notes', EveryGateHolds',
           step = 1 => "noop_fails_late" \in notes',
           step = 21 => "recovery_failed_cleanly" \in notes'
    PROVE  EvaluationInv'
<1>1. /\ db' = db /\ pc' = pc /\ before' = before /\ dead' = dead
      /\ txn' = txn /\ job' = job /\ old_dates' = old_dates
      /\ affected_orders' = affected_orders
  BY DEF vars, affected_orders
<1>2. Inv'
  BY <1>1 DEF EvaluationInv, Inv, Committed, RunningIsPrivate, JobKnown, Progress,
              InTransaction
<1>3. Driven /\ step \in 0 .. 25 /\ pc = "idle" /\ ~dead
  BY DEF EvaluationInv, Between
<1>4. step' \in 1 .. 26 /\ RawAt(step') = RawAt(step)
  BY <1>3, RawAtKept
<1>5. step # 0 /\ step # 20 /\ step # 22 /\ step # 2 /\ step # 5 /\ step # 17 /\ step # 11
  BY DEF Calls
<1>6. Position'
  BY <1>1, <1>3, <1>4, <1>5 DEF Driven, Position
<1>7. BeforeKnown'
  BY <1>1, <1>3, <1>5 DEF Driven, BeforeKnown
<1>8. Driven'
  BY <1>1, <1>3, <1>6, <1>7 DEF Driven, Calling
<1> QED
  BY <1>1, <1>2, <1>3, <1>8 DEF EvaluationInv, Queried

LEMMA RecordGateKeeps ==
    ASSUME EvaluationInv, RecordGate
    PROVE  EvaluationInv'
<1>1. Between /\ Program[step + 1].op = "gate" /\ Holds(Here.name)
  BY DriverIsBetween, GateHolds DEF RecordGate
<1>2. step \notin Calls \cup {1, 21}
  BY <1>1, KindOfStep DEF Between
<1>3. EveryGateHolds'
  BY <1>1 DEF RecordGate, EveryGateHolds, EvaluationInv
<1> QED
  BY <1>1, <1>2, <1>3, BetweenKeeps DEF RecordGate

LEMMA NoteKeeps ==
    ASSUME EvaluationInv, Note
    PROVE  EvaluationInv'
<1>1. /\ Between /\ Driven /\ Program[step + 1].op = "note"
      /\ Here = Program[step + 1]
  BY DriverIsBetween DEF Note, Here
<1>2. step \in {1, 21} /\ step \notin Calls
  <2>1. step \in {1, 21}
    BY <1>1, KindOfStep DEF Between
  <2> QED
    BY <2>1 DEF Calls
<1>3. \A n : Compute(n).name = n
  BY DEF Compute
<1>4. step = 1 => Here.name = "noop_fails_late" /\ Noted("noop_fails_late")
  <2>1. step = 1 => Here.name = "noop_fails_late"
    BY <1>1, <1>3, ProgramIs
  <2>2. step = 1 => ~late_data_holds
    BY <1>1, NoopFails DEF EvaluationInv, Driven, Position
  <2> QED
    BY <2>1, <2>2 DEF Noted
<1>5. step = 21 => Here.name = "recovery_failed_cleanly"
                   /\ Noted("recovery_failed_cleanly")
  <2>1. step = 21 => Here.name = "recovery_failed_cleanly"
    BY <1>1, <1>3, ProgramIs
  <2>2. step = 21 => db.runs["recovery-attempt"] = "failed" /\ before.raw = db.raw
    BY <1>1 DEF Driven, Position, BeforeKnown, Between
  <2>3. step = 21 => snapshot_semantics(db) = snapshot_semantics(before)
    BY <2>2, CommittedIsQueried, SameRawSameOutput DEF EvaluationInv
  <2> QED
    BY <2>1, <2>2, <2>3 DEF Noted
<1>6. EveryGateHolds'
  BY DEF Note, EveryGateHolds, EvaluationInv
<1> QED
  BY <1>1, <1>2, <1>4, <1>5, <1>6, BetweenKeeps DEF Note

LEMMA KillKeeps ==
    ASSUME EvaluationInv, Kill
    PROVE  EvaluationInv'
<1>1. Leave /\ UNCHANGED <<db, before, gates>> /\ dead' = TRUE /\ pc' = "idle"
  BY DEF Kill, Leave
<1>2. Inv'
  BY <1>1, LeavePreserves DEF EvaluationInv, Inv, Committed, RunningIsPrivate
<1> QED
  BY <1>1, <1>2 DEF EvaluationInv, EveryGateHolds, Queried

LEMMA StartAgain == EvaluationInit' => EvaluationInv'
BY EvaluationInvInitially, PTL

LEMMA RestartKeeps ==
    ASSUME Restart
    PROVE  EvaluationInv'
<1>1. EvaluationInit'
  BY DEF Restart, EvaluationInit, GateInit, Init
<1> QED
  BY <1>1, StartAgain

LEMMA EvaluationInvInductive == EvaluationSpec => []EvaluationInv
<1>1. EvaluationInv /\ [EvaluationNext]_evaluationVars => EvaluationInv'
  <2> SUFFICES ASSUME EvaluationInv, [EvaluationNext]_evaluationVars
               PROVE  EvaluationInv'
    OBVIOUS
  <2>1. CASE UNCHANGED evaluationVars
    <3>1. affected_orders' = affected_orders
      BY <2>1 DEF evaluationVars, affected_orders
    <3>2. Inv'
      BY <2>1, <3>1
         DEF evaluationVars, EvaluationInv, Inv, Committed, RunningIsPrivate,
             JobKnown, Progress, InTransaction
    <3> QED
      BY <2>1, <3>2
         DEF evaluationVars, EvaluationInv, EveryGateHolds, Queried, Driven,
             Position, Calling, BeforeKnown
  <2> QED
    BY <2>1, CallProcessKeeps, InsideKeeps, ReturnsKeeps, RaiseInsideKeeps,
       RaisesKeeps, RecordGateKeeps, NoteKeeps, KillKeeps, RestartKeeps
       DEF EvaluationNext
<1> QED
  BY <1>1, EvaluationInvInitially, PTL DEF EvaluationSpec

\* No gate of the evaluation fails on the pipeline as it is, wherever the
\* benchmark was killed, or failed, and however often it was started again.
THEOREM GatesNeverFail == EvaluationSpec => []EveryGateHolds
<1>1. EvaluationInv => EveryGateHolds
  BY DEF EvaluationInv
<1> QED
  BY <1>1, EvaluationInvInductive, PTL
=============================================================================
