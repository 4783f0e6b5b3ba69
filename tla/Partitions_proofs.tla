-------------------------- MODULE Partitions_proofs --------------------------
(***************************************************************************)
(* Proofs about the partitions of core.meter_reading for every calendar,   *)
(* every set of readings and every number of loaders.                      *)
(*                                                                         *)
(* A promotion inserts what raw holds when it inserts, but has created     *)
(* partitions for what raw held when it began.  The invariant follows its  *)
(* loop: every reading it may insert is of a month that has a partition,   *)
(* that it has created itself, or that the loop has still to come to.      *)
(***************************************************************************)
EXTENDS Partitions, WellFoundedInduction, TLAPS

\* A set of naturals that is not empty has a least element.
LEMMA LeastNatural ==
  ASSUME NEW S \in SUBSET Nat, S # {}
  PROVE  \E x \in S : \A y \in S : x <= y
<1>1. PICK x \in S : \A y \in S : ~ (<<y, x>> \in OpToRel(<, Nat))
  BY NatLessThanWellFounded, WFMin
<1>2. \A y \in S : ~(y < x)
  BY <1>1 DEF OpToRel
<1> QED
  BY <1>2

\* The least and the greatest of some months.
LEMMA MinMonth ==
  ASSUME NEW S \in SUBSET Month, S # {}
  PROVE  Min(S) \in S /\ \A y \in S : Min(S) <= y
<1>1. \E x \in S : \A y \in S : x <= y
  BY LeastNatural, PartitionsAssumption DEF Month
<1> QED
  BY <1>1 DEF Min

LEMMA MaxMonth ==
  ASSUME NEW S \in SUBSET Month, S # {}
  PROVE  Max(S) \in S /\ \A y \in S : y <= Max(S)
<1> DEFINE T == {n \in Nat : LastMonth - n \in S}
<1>1. LastMonth \in Nat /\ \A x \in S : x \in Nat /\ x <= LastMonth
  BY PartitionsAssumption DEF Month
<1>2. \A x \in S : LastMonth - x \in T
  BY <1>1
<1>3. PICK n \in T : \A m \in T : n <= m
  BY <1>2, LeastNatural
<1>4. \A y \in S : y <= LastMonth - n
  BY <1>1, <1>2, <1>3
<1>5. \E x \in S : \A y \in S : x >= y
  BY <1>1, <1>3, <1>4
<1> QED
  BY <1>1, <1>5 DEF Max

-----------------------------------------------------------------------------
(* The calendar.                                                           *)

\* A day is in one month only.
LEMMA MonthOfDay ==
  ASSUME NEW day \in Int, NEW m \in Month, First[m] <= day, day < First[m + 1]
  PROVE  MonthOf(day) = m
<1>1. ASSUME NEW n \in Month, First[n] <= day, day < First[n + 1]
      PROVE  n = m
  <2>1. n \in 0 .. LastMonth /\ m \in 0 .. LastMonth /\ LastMonth \in Nat
    BY PartitionsAssumption DEF Month
  <2>2. /\ First[m] \in Nat /\ First[n] \in Nat
        /\ First[m + 1] \in Nat /\ First[n + 1] \in Nat
    BY <2>1, PartitionsAssumption
  <2>3. ~(n < m)
    <3>1. n + 1 < m => First[n + 1] < First[m]
      BY <2>1, PartitionsAssumption
    <3> QED
      BY <1>1, <2>1, <2>2, <3>1
  <2>4. ~(m < n)
    <3>1. m + 1 < n => First[m + 1] < First[n]
      BY <2>1, PartitionsAssumption
    <3> QED
      BY <1>1, <2>1, <2>2, <3>1
  <2> QED
    BY <2>1, <2>3, <2>4
<1> QED
  BY <1>1 DEF MonthOf

\* Every reading is in a month, and a month follows.
LEMMA MonthOfReadings ==
  ASSUME NEW r \in Reading
  PROVE  MonthOfReading(r) \in 0 .. LastMonth - 1
<1> DEFINE T == {m \in 0 .. LastMonth : Day[r] < First[m]}
<1>0. LastMonth \in Nat /\ First \in [0 .. LastMonth + 1 -> Nat]
      /\ Day[r] \in First[0] .. First[LastMonth] - 1
  BY PartitionsAssumption
<1>1. /\ LastMonth \in Nat /\ Day[r] \in Nat /\ First[0] <= Day[r]
      /\ Day[r] < First[LastMonth]
      /\ First \in [0 .. LastMonth + 1 -> Nat]
  BY <1>0
<1>2. LastMonth \in T
  BY <1>1
<1>3. PICK n \in T : \A m \in T : n <= m
  <2>1. T \in SUBSET Nat /\ T # {}
    BY <1>1, <1>2
  <2> HIDE DEF T
  <2> QED
    BY <2>1, LeastNatural
<1>4. n # 0 /\ n \in 0 .. LastMonth /\ n - 1 \in 0 .. LastMonth - 1
  BY <1>1, <1>3
<1>5. First[n - 1] <= Day[r] /\ Day[r] < First[n - 1 + 1]
  BY <1>1, <1>3, <1>4
<1> DEFINE m == n - 1
<1>6. m \in 0 .. LastMonth - 1 /\ m \in Month
  BY <1>1, <1>4 DEF Month
<1>7. Day[r] \in Int /\ First[m] <= Day[r] /\ Day[r] < First[m + 1]
  BY <1>1, <1>5
<1> HIDE DEF m
<1>8. MonthOf(Day[r]) = m
  BY <1>6, <1>7, MonthOfDay
<1> QED
  BY <1>6, <1>8 DEF MonthOfReading

\* Adding 32 days to the first of a month and going back to the first of the
\* month visits the next month, however long the months are.
LEMMA NextMonth ==
  ASSUME NEW m \in 0 .. LastMonth - 1
  PROVE  MonthAfter(m) = m + 1
<1>1. LastMonth \in Nat /\ m \in Month /\ m + 1 \in Month
  BY PartitionsAssumption DEF Month
<1>2. /\ First[m] \in Nat /\ First[m + 1] \in Nat /\ First[m + 1 + 1] \in Nat
      /\ First[m + 1] - First[m] \in 28 .. 31
      /\ First[m + 1 + 1] - First[m + 1] \in 28 .. 31
  <2>1. First \in [0 .. LastMonth + 1 -> Nat]
        /\ \A k \in Month : First[k + 1] - First[k] \in 28 .. 31
    BY PartitionsAssumption
  <2>2. m \in 0 .. LastMonth + 1 /\ m + 1 \in 0 .. LastMonth + 1
        /\ m + 1 + 1 \in 0 .. LastMonth + 1
    BY <1>1
  <2> QED
    BY <1>1, <2>1, <2>2
<1>3. First[m + 1] <= First[m] + 32 /\ First[m] + 32 < First[m + 1 + 1]
  BY <1>2
<1> QED
  BY <1>1, <1>2, <1>3, MonthOfDay DEF MonthAfter

-----------------------------------------------------------------------------
(* The promotions.                                                         *)

\* A loop ends before the calendar does, and is where its place says.
LoopInv(state) ==
  state.pc # "idle" =>
    /\ state.last < LastMonth
    /\ state.cursor <= state.last + 1
    /\ state.pc = "create" => state.cursor <= state.last

\* A reading that the promotion may insert is of a month that has a partition,
\* that it has created, or that its loop has still to come to.
Provided(months, state, r) ==
  \/ MonthOfReading(r) \in months
  \/ state.pc # "insert" /\ MonthOfReading(r) \in state.created
  \/ /\ state.pc # "insert"
     /\ state.cursor <= MonthOfReading(r)
     /\ MonthOfReading(r) <= state.last

Covered(landed, months, state) ==
  state.pc # "idle" =>
    \A r \in landed \cap state.scope : Provided(months, state, r)

CoverInv == \A l \in Loader : Covered(raw, partitions, loader[l])

TypeInv == TypeOK /\ \A l \in Loader : LoopInv(loader[l])

\* The places of a promotion, and a process without one.
LEMMA IdleLoader ==
  /\ Idle \in LoaderState /\ Idle.pc = "idle"
  /\ "months" \in Pc /\ "create" \in Pc /\ "insert" \in Pc
  BY PartitionsAssumption DEF Idle, LoaderState, Pc, Month

\* Only one promotion changes.
LEMMA Update ==
  ASSUME TypeOK, NEW l \in Loader, NEW s \in LoaderState, Goes(l, s)
  PROVE  /\ loader' \in [Loader -> LoaderState]
         /\ loader'[l] = s
         /\ \A k \in Loader : k # l => loader'[k] = loader[k]
  BY DEF Goes, TypeOK

\* The look at raw begins a loop over the months of what it found.
LEMMA SpanLoop ==
  ASSUME TypeOK, NEW l \in Loader, NEW scope \in SUBSET Reading, Span(l, scope)
  PROVE  \E s \in LoaderState :
           /\ Goes(l, s)
           /\ s.pc = "months" /\ s.scope = scope /\ s.created = {}
           /\ s.last < LastMonth /\ s.cursor <= s.last + 1
           /\ \A r \in raw \cap scope :
                s.cursor <= MonthOfReading(r) /\ MonthOfReading(r) <= s.last
<1> DEFINE months == {MonthOfReading(r) : r \in raw \cap scope}
<1>1. LastMonth \in Nat
  BY PartitionsAssumption
<1>2. \A r \in Reading : MonthOfReading(r) \in 0 .. LastMonth - 1
  BY MonthOfReadings
<1>3. months \in SUBSET (0 .. LastMonth - 1) /\ months \in SUBSET Month
  BY <1>1, <1>2 DEF Month
<1>4. months # {}
  BY DEF Span
<1> HIDE DEF months
<1>5. PICK lo \in months : lo = Min(months) /\ \A y \in months : lo <= y
  BY <1>3, <1>4, MinMonth
<1>6. PICK hi \in months : hi = Max(months) /\ \A y \in months : y <= hi
  BY <1>3, <1>4, MaxMonth
<1>7. lo \in Month /\ hi \in Month /\ hi < LastMonth /\ lo <= hi + 1
  BY <1>1, <1>3, <1>5, <1>6 DEF Month
<1>8. \A r \in raw \cap scope : lo <= MonthOfReading(r) /\ MonthOfReading(r) <= hi
  BY <1>5, <1>6 DEF months
<1> DEFINE s == [pc |-> "months", scope |-> scope, cursor |-> lo, last |-> hi,
                 created |-> {}]
<1>9. Goes(l, s)
  BY <1>5, <1>6 DEF Span, months
<1>10. "months" \in Pc /\ {} \in SUBSET Month
  BY IdleLoader
<1>11. s \in LoaderState
  BY <1>7, <1>10 DEF LoaderState
<1>12. s.pc = "months" /\ s.scope = scope /\ s.created = {}
       /\ s.cursor = lo /\ s.last = hi
  OBVIOUS
<1> HIDE DEF s
<1> QED
  BY <1>7, <1>8, <1>9, <1>11, <1>12

\* A step of the loop changes the place, and the month it is at.
LEMMA PlaceUpdate ==
  ASSUME NEW state \in LoaderState, NEW p \in Pc
  PROVE  LET s == [state EXCEPT !.pc = p]
         IN  /\ s \in LoaderState
             /\ s.pc = p /\ s.cursor = state.cursor
             /\ s.scope = state.scope /\ s.last = state.last
             /\ s.created = state.created
  BY DEF LoaderState

LEMMA NextStart ==
  ASSUME NEW state \in LoaderState, NEW m \in Month
  PROVE  /\ NextStartsAt(state, m) \in LoaderState
         /\ NextStartsAt(state, m).pc = "months"
         /\ NextStartsAt(state, m).cursor = m
         /\ NextStartsAt(state, m).scope = state.scope
         /\ NextStartsAt(state, m).last = state.last
         /\ NextStartsAt(state, m).created = state.created
<1>1. "months" \in Pc
  BY IdleLoader
<1> QED
  BY <1>1 DEF LoaderState, NextStartsAt

LEMMA CreatedUpdate ==
  ASSUME NEW state \in LoaderState, NEW c \in SUBSET Month
  PROVE  LET s == [state EXCEPT !.created = c]
         IN  /\ s \in LoaderState
             /\ s.pc = state.pc /\ s.cursor = state.cursor
             /\ s.scope = state.scope /\ s.last = state.last
             /\ s.created = c
  BY DEF LoaderState

\* The types of a promotion.
LEMMA Typed ==
  ASSUME TypeInv, NEW l \in Loader
  PROVE  /\ loader[l] \in LoaderState /\ LoopInv(loader[l])
         /\ loader[l].scope \in SUBSET Reading
         /\ loader[l].cursor \in Month /\ loader[l].cursor \in Nat
         /\ loader[l].last \in Month /\ loader[l].last \in Nat
         /\ loader[l].created \in SUBSET Month
<1>1. loader[l] \in LoaderState /\ LoopInv(loader[l])
  BY DEF TypeInv, TypeOK
<1>2. Month \subseteq Nat
  BY PartitionsAssumption DEF Month
<1> QED
  BY <1>1, <1>2 DEF LoaderState

\* What a visited month, which is not past the last, turns a promotion into.
LEMMA VisitNext ==
  ASSUME NEW state \in LoaderState, LoopInv(state),
         state.pc # "idle", state.cursor <= state.last
  PROVE  LET s == NextStartsAt(state, MonthAfter(state.cursor))
         IN  /\ s \in LoaderState /\ LoopInv(s)
             /\ s.pc = "months" /\ s.cursor = state.cursor + 1
             /\ s.scope = state.scope /\ s.last = state.last
             /\ s.created = state.created
<1>1. LastMonth \in Nat /\ state.last < LastMonth
  BY PartitionsAssumption DEF LoopInv
<1>2. state.cursor \in 0 .. LastMonth - 1 /\ state.last \in Nat
  BY <1>1 DEF LoaderState, Month
<1>3. PICK m \in Month : m = state.cursor + 1
  BY <1>1, <1>2 DEF Month
<1>4. MonthAfter(state.cursor) = m
  BY <1>2, <1>3, NextMonth
<1>5. m <= state.last + 1
  BY <1>2, <1>3
<1> DEFINE s == NextStartsAt(state, m)
<1>6. /\ s \in LoaderState /\ s.pc = "months" /\ s.cursor = m
      /\ s.scope = state.scope /\ s.last = state.last
      /\ s.created = state.created
  BY NextStart
<1> HIDE DEF s
<1>7. LoopInv(s)
  BY <1>1, <1>5, <1>6 DEF LoopInv
<1> QED
  BY <1>3, <1>4, <1>6, <1>7 DEF s

-----------------------------------------------------------------------------
(* What each step makes of the promotion that takes it: a loop that ends   *)
(* in time and covers what it covered.                                     *)

Moves(l, s) ==
  /\ LoopInv(s)
  /\ Goes(l, s)
  /\ Covered(raw, partitions, loader[l]) => Covered(raw, partitions', s)

LEMMA SpanMove ==
  ASSUME TypeInv, NEW l \in Loader, NEW scope \in SUBSET Reading, Span(l, scope)
  PROVE  \E s \in LoaderState : Moves(l, s)
<1>1. PICK s \in LoaderState :
        /\ Goes(l, s)
        /\ s.pc = "months" /\ s.scope = scope /\ s.created = {}
        /\ s.last < LastMonth /\ s.cursor <= s.last + 1
        /\ \A r \in raw \cap scope :
             s.cursor <= MonthOfReading(r) /\ MonthOfReading(r) <= s.last
  BY SpanLoop DEF TypeInv
<1>2. LoopInv(s)
  BY <1>1 DEF LoopInv
<1>3. Covered(raw, partitions', s)
  BY <1>1 DEF Covered, Provided
<1> QED
  BY <1>1, <1>2, <1>3 DEF Moves

\* A process without a promotion has nothing to cover.
LEMMA IdleMove ==
  ASSUME NEW l \in Loader, Goes(l, Idle)
  PROVE  \E s \in LoaderState : Moves(l, s)
<1>1. LoopInv(Idle) /\ Covered(raw, partitions', Idle)
  BY IdleLoader DEF LoopInv, Covered
<1> QED
  BY <1>1, IdleLoader DEF Moves

\* The month that the loop leaves has its partition, or is left to create.
LEMMA EnsureMove ==
  ASSUME TypeInv, NEW l \in Loader, Ensure(l)
  PROVE  \E s \in LoaderState : Moves(l, s)
<1>1. /\ loader[l].pc = "months" /\ loader[l].cursor <= loader[l].last
      /\ partitions' = partitions
  BY DEF Ensure
<1>2. CASE loader[l].cursor \in partitions \cup loader[l].created
  <2> DEFINE s == NextStartsAt(loader[l], MonthAfter(loader[l].cursor))
  <2>1. Goes(l, s)
    BY <1>2 DEF Ensure
  <2>2. /\ s \in LoaderState /\ LoopInv(s)
        /\ s.pc = "months" /\ s.cursor = loader[l].cursor + 1
        /\ s.scope = loader[l].scope /\ s.last = loader[l].last
        /\ s.created = loader[l].created
    BY <1>1, VisitNext, Typed
  <2> HIDE DEF s
  <2>3. ASSUME NEW r \in Reading, Provided(partitions, loader[l], r)
        PROVE  Provided(partitions, s, r)
    <3>1. MonthOfReading(r) \in Nat
      BY MonthOfReadings
    <3>2. MonthOfReading(r) >= loader[l].cursor =>
            \/ MonthOfReading(r) = loader[l].cursor
            \/ MonthOfReading(r) >= loader[l].cursor + 1
      BY <3>1, Typed
    <3> QED
      BY <1>1, <1>2, <2>2, <2>3, <3>1, <3>2, Typed DEF Provided
  <2>4. Covered(raw, partitions, loader[l]) => Covered(raw, partitions', s)
    BY <1>1, <2>2, <2>3, Typed DEF Covered
  <2> QED
    BY <2>1, <2>2, <2>4 DEF Moves
<1>3. CASE loader[l].cursor \notin partitions \cup loader[l].created
  <2> DEFINE s == [loader[l] EXCEPT !.pc = "create"]
  <2>1. Goes(l, s)
    BY <1>3 DEF Ensure
  <2>2. /\ s \in LoaderState /\ s.pc = "create" /\ s.cursor = loader[l].cursor
        /\ s.scope = loader[l].scope /\ s.last = loader[l].last
        /\ s.created = loader[l].created
    BY PlaceUpdate, Typed, IdleLoader
  <2> HIDE DEF s
  <2>3. LoopInv(s)
    BY <1>1, <2>2, Typed DEF LoopInv
  <2>4. Covered(raw, partitions, loader[l]) => Covered(raw, partitions', s)
    BY <1>1, <2>2 DEF Covered, Provided
  <2> QED
    BY <2>1, <2>2, <2>3, <2>4 DEF Moves
<1> QED
  BY <1>2, <1>3

\* The month that the loop leaves is one of those it has created.
LEMMA CreateMove ==
  ASSUME TypeInv, NEW l \in Loader, Create(l)
  PROVE  \E s \in LoaderState : Moves(l, s)
<1> DEFINE m == loader[l].cursor
           t == [loader[l] EXCEPT !.created = @ \cup {m}]
           s == NextStartsAt(t, MonthAfter(m))
<1>1. loader[l].pc = "create" /\ m <= loader[l].last /\ partitions' = partitions
  BY Typed DEF Create, LoopInv
<1>2. Goes(l, Idle) \/ Goes(l, s)
  BY DEF Create
<1>3. CASE Goes(l, s)
  <2>1. m \in Month /\ loader[l].created \cup {m} \in SUBSET Month
    BY Typed
  <2>2. /\ t \in LoaderState /\ t.pc = "create" /\ t.cursor = m
        /\ t.scope = loader[l].scope /\ t.last = loader[l].last
        /\ t.created = loader[l].created \cup {m}
    BY <1>1, <2>1, CreatedUpdate, Typed
  <2> HIDE DEF t
  <2>3. LoopInv(t)
    BY <1>1, <2>2, Typed DEF LoopInv
  <2>4. /\ s \in LoaderState /\ LoopInv(s)
        /\ s.pc = "months" /\ s.cursor = m + 1
        /\ s.scope = loader[l].scope /\ s.last = loader[l].last
        /\ s.created = loader[l].created \cup {m}
    BY <1>1, <2>2, <2>3, VisitNext
  <2> HIDE DEF s
  <2>5. ASSUME NEW r \in Reading, Provided(partitions, loader[l], r)
        PROVE  Provided(partitions, s, r)
    <3>1. MonthOfReading(r) \in Nat
      BY MonthOfReadings
    <3>2. MonthOfReading(r) >= m => MonthOfReading(r) = m \/ MonthOfReading(r) >= m + 1
      BY <3>1, Typed
    <3> QED
      BY <1>1, <2>4, <2>5, <3>1, <3>2, Typed DEF Provided
  <2>6. Covered(raw, partitions, loader[l]) => Covered(raw, partitions', s)
    BY <1>1, <2>4, <2>5, Typed DEF Covered
  <2> QED
    BY <1>3, <2>4, <2>6 DEF Moves
<1> QED
  BY <1>2, <1>3, IdleMove

\* At the end of the loop there are no months to come.
LEMMA EnsuredMove ==
  ASSUME TypeInv, NEW l \in Loader, Ensured(l)
  PROVE  \E s \in LoaderState : Moves(l, s)
<1> DEFINE s == [loader[l] EXCEPT !.pc = "insert", !.created = {}]
<1>1. /\ loader[l].pc = "months" /\ loader[l].cursor > loader[l].last
      /\ partitions' = partitions \cup loader[l].created
      /\ Goes(l, s)
  BY DEF Ensured
<1>2. "insert" \in Pc
  BY IdleLoader
<1>3. /\ s \in LoaderState /\ s.pc = "insert" /\ s.cursor = loader[l].cursor
      /\ s.scope = loader[l].scope /\ s.last = loader[l].last
  BY <1>2, Typed DEF LoaderState
<1> HIDE DEF s
<1>4. LoopInv(s)
  BY <1>1, <1>3, Typed DEF LoopInv
<1>5. ASSUME NEW r \in Reading, Provided(partitions, loader[l], r)
      PROVE  MonthOfReading(r) \in partitions'
  <2>1. MonthOfReading(r) \in Nat
    BY MonthOfReadings
  <2> QED
    BY <1>1, <1>5, <2>1, Typed DEF Provided
<1>6. Covered(raw, partitions, loader[l]) => Covered(raw, partitions', s)
  BY <1>1, <1>3, <1>5, Typed DEF Covered, Provided
<1> QED
  BY <1>1, <1>3, <1>4, <1>6 DEF Moves

-----------------------------------------------------------------------------
(* The invariants.                                                         *)

\* Every step that is not a landing moves one promotion.
LEMMA EveryMove ==
  ASSUME TypeInv, NEW l \in Loader,
         SpanAll(l) \/ SpanBatch(l) \/ Step(l) \/ Die(l)
  PROVE  \E s \in LoaderState : Moves(l, s)
<1>1. CASE SpanAll(l)
  BY <1>1, SpanMove DEF SpanAll
<1>2. CASE SpanBatch(l)
  <2>1. PICK batch \in SUBSET raw : Span(l, batch)
    BY <1>2 DEF SpanBatch
  <2>2. batch \in SUBSET Reading
    BY DEF TypeInv, TypeOK
  <2> QED
    BY <2>1, <2>2, SpanMove
<1>3. CASE Ensure(l)
  BY <1>3, EnsureMove
<1>4. CASE Create(l)
  BY <1>4, CreateMove
<1>5. CASE Ensured(l)
  BY <1>5, EnsuredMove
<1>6. CASE Insert(l)
  BY <1>6, IdleMove DEF Insert
<1>7. CASE Die(l)
  BY <1>7, IdleMove DEF Die
<1> QED
  BY <1>1, <1>2, <1>3, <1>4, <1>5, <1>6, <1>7 DEF Step

LEMMA LoopsMove ==
  ASSUME TypeInv, NEW l \in Loader, NEW s \in LoaderState, Moves(l, s)
  PROVE  /\ loader' \in [Loader -> LoaderState]
         /\ \A k \in Loader : LoopInv(loader'[k])
<1>1. /\ loader' \in [Loader -> LoaderState] /\ loader'[l] = s
      /\ \A k \in Loader : k # l => loader'[k] = loader[k]
  BY Update DEF TypeInv, Moves
<1>2. LoopInv(s) /\ \A k \in Loader : LoopInv(loader[k])
  BY DEF TypeInv, Moves
<1> QED
  BY <1>1, <1>2

LEMMA CoverMoves ==
  ASSUME TypeInv, CoverInv, raw' = raw, partitions \subseteq partitions',
         NEW l \in Loader, NEW s \in LoaderState, Moves(l, s)
  PROVE  CoverInv'
<1>1. /\ loader'[l] = s
      /\ \A k \in Loader : k # l => loader'[k] = loader[k]
  BY Update DEF TypeInv, Moves
<1>2. Covered(raw, partitions', s)
  BY DEF CoverInv, Moves
<1>3. ASSUME NEW k \in Loader
      PROVE  Covered(raw, partitions', loader[k])
  BY DEF CoverInv, Covered, Provided
<1>4. \A k \in Loader : Covered(raw, partitions', loader'[k])
  BY <1>1, <1>2, <1>3
<1> QED
  BY <1>4 DEF CoverInv

LEMMA TypeInit ==
  ASSUME Init
  PROVE  TypeInv /\ CoverInv /\ NothingStray
<1>1. loader \in [Loader -> LoaderState] /\ \A l \in Loader : loader[l] = Idle
  BY IdleLoader DEF Init
<1>2. \A l \in Loader : loader[l].pc = "idle"
  BY <1>1, IdleLoader
<1>3. faults \in 0 .. MaxFaults
  BY PartitionsAssumption DEF Init
<1> QED
  BY <1>1, <1>2, <1>3
  DEF Init, TypeInv, TypeOK, LoopInv, CoverInv, Covered, NothingStray

\* The state that no promotion keeps for itself.
LEMMA TypeStep ==
  ASSUME TypeInv, [Next]_vars
  PROVE  TypeInv'
<1> USE DEF TypeInv, TypeOK
<1>1. ASSUME NEW r \in Reading, Land(r)
      PROVE  TypeInv'
  BY <1>1 DEF Land
<1>2. ASSUME NEW l \in Loader,
             SpanAll(l) \/ SpanBatch(l) \/ Step(l) \/ Die(l)
      PROVE  TypeInv'
  <2>1. /\ loader' \in [Loader -> LoaderState]
        /\ \A k \in Loader : LoopInv(loader'[k])
    BY <1>2, EveryMove, LoopsMove
  <2>2. faults' \in 0 .. MaxFaults
    <3>1. \/ faults' = faults
          \/ faults < MaxFaults /\ faults' = faults + 1
      BY <1>2
      DEF SpanAll, SpanBatch, Span, Step, Ensure, Create, Ensured, Insert, Die
    <3> QED
      BY <3>1, PartitionsAssumption
  <2>3. raw' = raw
    BY <1>2
    DEF SpanAll, SpanBatch, Span, Step, Ensure, Create, Ensured, Insert, Die
  <2>4. partitions' = partitions \/ partitions' = partitions \cup loader[l].created
    BY <1>2
    DEF SpanAll, SpanBatch, Span, Step, Ensure, Create, Ensured, Insert, Die
  <2>5. core' \subseteq raw /\ stray' \subseteq core'
    BY <1>2
    DEF SpanAll, SpanBatch, Span, Step, Ensure, Create, Ensured, Insert, Die
  <2>6. partitions' \subseteq Month
    BY <2>4, Typed
  <2> QED
    BY <2>1, <2>2, <2>3, <2>5, <2>6
<1>3. CASE UNCHANGED vars
  BY <1>3 DEF vars
<1> QED
  BY <1>1, <1>2, <1>3 DEF Next, Loader

\* The types of the table and of the promotions, for every calendar and every
\* number of loaders.
THEOREM TypeCorrect == Spec => []TypeOK
<1>1. Init => TypeInv
  BY TypeInit
<1>2. TypeInv /\ [Next]_vars => TypeInv'
  BY TypeStep
<1>3. TypeInv => TypeOK
  BY DEF TypeInv
<1> QED
  BY <1>1, <1>2, <1>3, PTL DEF Spec

\* What lands while a promotion would take it has its partition already, and
\* what a promotion covers stays covered.
LEMMA CoverStep ==
  ASSUME Careful, TypeInv, CoverInv, [Next]_vars
  PROVE  CoverInv'
<1>1. ASSUME NEW r \in Reading, Land(r)
      PROVE  CoverInv'
  <2>1. raw' = raw \cup {r} /\ partitions' = partitions /\ loader' = loader
    BY <1>1 DEF Land
  <2>2. ASSUME NEW l \in Loader
        PROVE  Covered(raw', partitions, loader[l])
    <3>1. MonthOfReading(r) \in partitions \/ ~Promotes(l, r)
      BY <1>1 DEF Land, MayLand
    <3>2. Covered(raw, partitions, loader[l])
      BY DEF CoverInv
    <3> QED
      BY <2>1, <3>1, <3>2 DEF Covered, Provided, Promotes
  <2> QED
    BY <2>1, <2>2 DEF CoverInv
<1>2. ASSUME NEW l \in Loader,
             SpanAll(l) \/ SpanBatch(l) \/ Step(l) \/ Die(l)
      PROVE  CoverInv'
  <2>1. PICK s \in LoaderState : Moves(l, s)
    BY <1>2, EveryMove
  <2>2. raw' = raw /\ partitions \subseteq partitions'
    BY <1>2
    DEF SpanAll, SpanBatch, Span, Step, Ensure, Create, Ensured, Insert, Die
  <2> QED
    BY <2>1, <2>2, CoverMoves
<1>3. CASE UNCHANGED vars
  BY <1>3 DEF vars, CoverInv
<1> QED
  BY <1>1, <1>2, <1>3 DEF Next, Loader

LEMMA StrayStep ==
  ASSUME TypeInv, CoverInv, NothingStray, [Next]_vars
  PROVE  NothingStray'
<1>1. ASSUME NEW l \in Loader, Insert(l)
      PROVE  NothingStray'
  <2> DEFINE new == (raw \cap loader[l].scope) \ core
  <2>1. loader[l].pc = "insert"
        /\ stray' = stray \cup {r \in new : MonthOfReading(r) \notin partitions}
    BY <1>1 DEF Insert
  <2>2. \A r \in raw \cap loader[l].scope : Provided(partitions, loader[l], r)
    BY <2>1 DEF CoverInv, Covered
  <2>3. \A r \in new : MonthOfReading(r) \in partitions
    BY <2>1, <2>2 DEF Provided
  <2> QED
    BY <2>1, <2>3 DEF NothingStray
<1>2. CASE UNCHANGED stray
  BY <1>2 DEF NothingStray
<1>3. (\E l \in Loader : Insert(l)) \/ UNCHANGED stray
  BY DEF Next, vars, Loader, Land, SpanAll, SpanBatch, Span, Step, Ensure,
         Create, Ensured, Die
<1> QED
  BY <1>1, <1>2, <1>3

\* If nothing that belongs to a month without a partition lands under a
\* promotion that would take it, no row is ever routed to DEFAULT, whatever the
\* loaders do to one another.
THEOREM NothingIsStray == Careful => (Spec => []NothingStray)
<1> DEFINE Inv == TypeInv /\ CoverInv /\ NothingStray
<1>1. Init => Inv
  BY TypeInit
<1>2. ASSUME Careful
      PROVE  Inv /\ [Next]_vars => Inv'
  BY <1>2, TypeStep, CoverStep, StrayStep
<1>3. Inv => NothingStray
  OBVIOUS
<1>4. SUFFICES ASSUME Careful
               PROVE  Spec => []NothingStray
  OBVIOUS
<1>5. Inv /\ [Next]_vars => Inv'
  BY <1>2, <1>4
<1> QED
  BY <1>1, <1>3, <1>5, PTL DEF Spec
=============================================================================
