---------------------------- MODULE Rules_proofs ----------------------------
(***************************************************************************)
(* Proofs about the promotion of reference data, the contracts, the        *)
(* deltas of a meter and the splitting of scripts, each for itself: they   *)
(* share no state.                                                         *)
(*                                                                         *)
(* Reference data: a statement leaves, for every row it found, that row's  *)
(* version or a later one of its place: it writes the latest row of each   *)
(* place, and in a guarded table only over what is no later.  Statements   *)
(* of other tables leave it alone and the guarded tables only advance, so  *)
(* that what the statements done so far have dealt with stays, until the   *)
(* transaction commits it.                                                 *)
(*                                                                         *)
(* Contracts: a record is accepted when no field of it has another         *)
(* verdict; what an accepted field shows is read from the list of the      *)
(* fields of its source, one lemma for each, and is what the columns of    *)
(* the table ask.                                                          *)
(*                                                                         *)
(* Deltas: values of the feed are whole numbers, whatever happens to them, *)
(* so a step is either backward, and then valued by the guards of its      *)
(* kind, or not negative.  Where nothing was reset or corrupted a reading  *)
(* shows the register, give or take its correction, so a step is what was  *)
(* consumed, or that less one turn of the register; steps that are small   *)
(* keep the two apart.  A percentile lies between two of the deltas it is  *)
(* taken of (every rank is some delta's, by counting), so that the scale   *)
(* is small, too, and with it everything that its thresholds let pass.     *)
(*                                                                         *)
(* Scripts: at every position the splitter is in a token of the kind that  *)
(* its mode says, and in a plain one where the author means code; what it  *)
(* has split off is the author's list as far as the last separator, and    *)
(* what it has buffered is the rest, so that the two lists are equal when  *)
(* the script ends.                                                        *)
(***************************************************************************)
EXTENDS Contracts, Deltas, Reference, Statements, FiniteSetTheorems,
        SequenceTheorems, WellFoundedInduction, TLAPS

-----------------------------------------------------------------------------
(* Reference data: one statement.                                          *)

LEMMA LeastNumber ==
  ASSUME NEW S \in SUBSET Nat, S # {}
  PROVE  \E x \in S : \A y \in S : x <= y
<1>1. PICK x \in S : \A y \in S : ~ (<<y, x>> \in OpToRel(<, Nat))
  BY NatLessThanWellFounded, WFMin
<1>2. \A y \in S : ~(y < x)
  BY <1>1 DEF OpToRel
<1> QED
  BY <1>2

\* Of finitely many rows one has the latest version: the one that the fewest
\* others are later than.
LEMMA LatestRow ==
  ASSUME NEW rows \in SUBSET Row, IsFiniteSet(rows), rows # {}
  PROVE  \E w \in rows : \A v \in rows : v.version <= w.version
<1> DEFINE Later(w) == {v \in rows : v.version > w.version}
           Count(w) == Cardinality(Later(w))
           C == {Count(w) : w \in rows}
<1>0. \A w \in rows : w.version \in Nat
  BY ReferenceAssumption
<1>1. \A w \in rows : Later(w) \in SUBSET rows /\ IsFiniteSet(Later(w))
                      /\ Count(w) \in Nat
  BY FS_Subset, FS_CardinalityType
<1>2. C \in SUBSET Nat /\ C # {}
  BY <1>1
<1>3. PICK n \in C : \A m \in C : n <= m
  BY <1>2, LeastNumber
<1>4. PICK w \in rows : Count(w) = n
  OBVIOUS
<1> HIDE DEF Count
<1>5. \A v \in rows : Count(w) <= Count(v)
  BY <1>3, <1>4
<1>6. ASSUME NEW v \in rows, v.version > w.version
      PROVE  FALSE
  <2>1. Later(v) \in SUBSET Later(w) /\ v \in Later(w) /\ v \notin Later(v)
    <3>1. w.version \in Nat /\ v.version \in Nat
      BY <1>0
    <3>2. \A x \in rows : x.version > v.version => x.version > w.version
      BY <1>0, <1>6, <3>1
    <3>3. ~(v.version > v.version)
      BY <3>1
    <3> QED
      BY <1>6, <3>2, <3>3
  <2>2. Count(w) <= Count(v)
    BY <1>5
  <2>3. IsFiniteSet(Later(w)) /\ Count(w) \in Nat /\ Count(v) \in Nat
    BY <1>1
  <2> HIDE DEF Later
  <2>4. Cardinality(Later(v)) <= Cardinality(Later(w))
    BY <2>1, <2>3, FS_Subset
  <2>5. Cardinality(Later(v)) = Cardinality(Later(w))
    BY <2>2, <2>3, <2>4 DEF Count
  <2>6. Later(w) = Later(v)
    BY <2>1, <2>3, <2>5, FS_Subset
  <2> QED
    BY <2>1, <2>6
<1>7. \A v \in rows : v.version \in Nat /\ w.version \in Nat
                      /\ ~(v.version > w.version)
  BY <1>0, <1>6
<1>8. \A v \in rows : v.version <= w.version
  BY <1>7
<1> QED
  BY <1>8

\* The places that a row writes are places of core.
LEMMA PlaceOf ==
  ASSUME NEW table \in DOMAIN SourceOf, NEW w \in RowsFor(table),
         NEW key \in Keys(table, w)
  PROVE  <<table, key>> \in Place
<1> DEFINE keys == UNION {Keys(table, v) : v \in RowsFor(table)}
<1>1. key \in keys
  OBVIOUS
<1>2. {table} \X keys \in
        {{t} \X UNION {Keys(t, v) : v \in RowsFor(t)} : t \in DOMAIN SourceOf}
  OBVIOUS
<1> HIDE DEF keys
<1>3. <<table, key>> \in {table} \X keys
  BY <1>1
<1> QED
  BY <1>2, <1>3 DEF Place

LEMMA PlaceIsPair == \A p \in Place : p = <<p[1], p[2]>>
<1> TAKE p \in Place
<1>1. PICK table \in DOMAIN SourceOf :
        p \in {table} \X UNION {Keys(table, w) : w \in RowsFor(table)}
  BY DEF Place
<1> QED
  BY <1>1

\* What a statement writes is a version.
LEMMA UpsertedIs ==
  ASSUME NEW table, NEW rows \in SUBSET Row,
         promoter.work \in [Place -> Nat]
  PROVE  /\ Upserted(table, rows) \in [Place -> Nat]
         /\ \A p \in Place : p[1] # table
              => Upserted(table, rows)[p] = promoter.work[p]
         /\ \A p \in Place : p[1] = table =>
              \/ /\ \A w \in rows : ~Wins(table, rows, w, p[2])
                 /\ Upserted(table, rows)[p] = promoter.work[p]
              \/ \E w \in rows : /\ Wins(table, rows, w, p[2])
                                 /\ Upserted(table, rows)[p] = w.version
<1> DEFINE Winner(p) == CHOOSE w \in rows : Wins(table, rows, w, p[2])
           new == Upserted(table, rows)
<1>1. new = [p \in Place |->
               IF p[1] = table /\ \E w \in rows : Wins(table, rows, w, p[2])
               THEN Winner(p).version ELSE promoter.work[p]]
  BY DEF Upserted
<1>2. \A p \in Place : (\E w \in rows : Wins(table, rows, w, p[2]))
        => Winner(p) \in rows /\ Wins(table, rows, Winner(p), p[2])
  OBVIOUS
<1> HIDE DEF Winner, new
<1>3. \A w \in rows : w.version \in Nat
  BY ReferenceAssumption
<1>4. new \in [Place -> Nat]
  BY <1>1, <1>2, <1>3
<1>5. \A p \in Place : p[1] # table => new[p] = promoter.work[p]
  BY <1>1
<1>6. ASSUME NEW p \in Place, p[1] = table
      PROVE  \/ /\ \A w \in rows : ~Wins(table, rows, w, p[2])
                /\ new[p] = promoter.work[p]
             \/ \E w \in rows : /\ Wins(table, rows, w, p[2])
                                /\ new[p] = w.version
  <2>1. CASE \E w \in rows : Wins(table, rows, w, p[2])
    BY <1>1, <1>2, <1>6, <2>1
  <2>2. CASE \A w \in rows : ~Wins(table, rows, w, p[2])
    BY <1>1, <1>6, <2>2
  <2> QED
    BY <2>1, <2>2
<1> QED
  BY <1>4, <1>5, <1>6 DEF new

\* In a guarded table no version is replaced by an earlier one.
LEMMA GuardedAdvance ==
  ASSUME NEW table, NEW rows \in SUBSET Row,
         promoter.work \in [Place -> Nat]
  PROVE  \A p \in Place : p[1] \in Guarded
           => Upserted(table, rows)[p] >= promoter.work[p]
<1> TAKE p \in Place
<1>0. promoter.work[p] \in Nat
  OBVIOUS
<1> HAVE p[1] \in Guarded
<1>1. CASE p[1] # table
  BY <1>0, <1>1, UpsertedIs
<1>2. CASE p[1] = table
  <2>1. CASE Upserted(table, rows)[p] = promoter.work[p]
    BY <1>0, <2>1
  <2>2. CASE \E w \in rows : Wins(table, rows, w, p[2])
                             /\ Upserted(table, rows)[p] = w.version
    <3>1. promoter.work[<<table, p[2]>>] = promoter.work[p]
      BY <1>2, PlaceIsPair
    <3> QED
      BY <1>2, <2>2, <3>1 DEF Wins
  <2> QED
    BY <1>2, <2>1, <2>2, UpsertedIs
<1> QED
  BY <1>1, <1>2

\* Some place that a row competes for holds its version afterwards, or a later.
Holds(work, table, w, key) ==
  \E p \in Place : /\ p[1] = table /\ SameGroup(table, key, p[2])
                   /\ work[p] >= w.version

\* The order of versions among rows of one place, or of one site: what a
\* statement leaves is no earlier than any row it was made from.
LEMMA StatementHolds ==
  ASSUME NEW table \in DOMAIN SourceOf,
         NEW rows \in SUBSET RowsFor(table), IsFiniteSet(rows),
         promoter.work \in [Place -> Nat],
         NEW w \in rows, NEW key \in Keys(table, w)
  PROVE  Holds(Upserted(table, rows), table, w, key)
<1> DEFINE Same(v) == \E other \in Keys(table, v) : SameGroup(table, key, other)
           group == {v \in rows : Same(v)}
<1>1. rows \in SUBSET Row /\ w \in Row
  BY DEF RowsFor
<1>2. /\ SameGroup(table, key, key)
      /\ \A a, b : SameGroup(table, a, b) => SameGroup(table, b, a)
      /\ \A a, b, c : SameGroup(table, a, b) /\ SameGroup(table, b, c)
                        => SameGroup(table, a, c)
  BY DEF SameGroup
<1>3. /\ group \in SUBSET rows /\ group \in SUBSET Row
      /\ IsFiniteSet(group) /\ w \in group
  BY <1>1, <1>2, FS_Subset
<1>4. PICK f \in group : \A v \in group : v.version <= f.version
  BY <1>3, LatestRow
<1>5. PICK place \in Keys(table, f) : SameGroup(table, key, place)
  BY <1>4
<1>6. \A v \in rows :
        (\E other \in Keys(table, v) : SameGroup(table, place, other))
          => v \in group
  BY <1>2, <1>5
<1>7. f \in rows /\ Freshest(table, rows, f, place)
  BY <1>3, <1>4, <1>6 DEF Freshest
<1>8. f \in RowsFor(table) /\ <<table, place>> \in Place
  BY <1>7, PlaceOf
<1>9. \E other \in Keys(table, w) : SameGroup(table, place, other)
  BY <1>2, <1>5
<1> DEFINE p == <<table, place>>
           new == Upserted(table, rows)
<1>10. p \in Place /\ p[1] = table /\ p[2] = place
  BY <1>8
<1> HIDE DEF p, new, group
<1>11. /\ \/ /\ \A v \in rows : ~Wins(table, rows, v, place)
             /\ new[p] = promoter.work[p]
          \/ \E v \in rows : /\ Wins(table, rows, v, place)
                             /\ new[p] = v.version
       /\ new[p] \in Nat /\ promoter.work[p] \in Nat
  BY <1>1, <1>10, UpsertedIs DEF new
<1>12. w.version \in Nat /\ f.version \in Nat /\ w.version <= f.version
  BY <1>1, <1>3, <1>4, <1>7, ReferenceAssumption
<1>13. CASE \A v \in rows : ~Wins(table, rows, v, place)
  <2>1. new[p] = promoter.work[p]
    BY <1>11, <1>13
  <2>2. ~(f.version >= promoter.work[<<table, place>>])
    BY <1>7, <1>13 DEF Wins
  <2>3. new[p] >= w.version
    BY <1>11, <1>12, <2>1, <2>2 DEF p
  <2> QED
    BY <1>5, <1>10, <2>3 DEF Holds, new
<1>14. ASSUME NEW v \in rows, Wins(table, rows, v, place), new[p] = v.version
       PROVE  Holds(new, table, w, key)
  <2>1. w.version <= v.version
    BY <1>9, <1>14 DEF Wins, Freshest
  <2>2. v.version \in Nat
    BY <1>1, ReferenceAssumption
  <2>3. new[p] >= w.version
    BY <1>12, <1>14, <2>1, <2>2
  <2> QED
    BY <1>5, <1>10, <2>3 DEF Holds
<1> QED
  BY <1>11, <1>13, <1>14 DEF new

-----------------------------------------------------------------------------
(* Reference data: promotions.                                             *)

\* Each table has one statement.
LEMMA StatementOf ==
  /\ DOMAIN Tables = 1 .. 7 /\ Len(Tables) = 7
  /\ \A i \in 1 .. 7 : Tables[i] \in DOMAIN SourceOf
  /\ \A i, j \in 1 .. 7 : Tables[i] = Tables[j] => i = j
  /\ \A table \in DOMAIN SourceOf : \E i \in 1 .. 7 : Tables[i] = table
<1>1. Len(Tables) = 7
  BY DEF Tables
<1>2. DOMAIN Tables = 1 .. 7
  BY DEF Tables
<1>3. \A i \in 1 .. 7 : i \in {1, 2, 3, 4, 5, 6, 7}
  OBVIOUS
<1>4. /\ Tables[1] = "site" /\ Tables[2] = "meter" /\ Tables[3] = "tariff"
      /\ Tables[4] = "tariff_band" /\ Tables[5] = "site_tariff"
      /\ Tables[6] = "weather_station" /\ Tables[7] = "weather_daily"
  BY DEF Tables
<1>5. DOMAIN SourceOf = {"site", "meter", "tariff", "tariff_band",
                         "site_tariff", "weather_station", "weather_daily"}
  BY DEF SourceOf
<1>6. \A i \in 1 .. 7 : Tables[i] \in DOMAIN SourceOf
  BY <1>3, <1>4, <1>5
<1>7. \A i, j \in 1 .. 7 : Tables[i] = Tables[j] => i = j
  BY <1>3, <1>4
<1>8. \A table \in DOMAIN SourceOf : \E i \in 1 .. 7 : Tables[i] = table
  <2>1. 1 \in 1 .. 7 /\ 2 \in 1 .. 7 /\ 3 \in 1 .. 7 /\ 4 \in 1 .. 7
        /\ 5 \in 1 .. 7 /\ 6 \in 1 .. 7 /\ 7 \in 1 .. 7
    OBVIOUS
  <2> QED
    BY <1>4, <1>5, <2>1
<1> QED
  BY <1>1, <1>2, <1>6, <1>7, <1>8, Zenon

Promoter ==
  [next : Nat, scope : SUBSET Batch, found : SUBSET Row, work : [Place -> Nat]]

ReferenceTypes ==
  /\ raw \in [Row -> Batch \cup {Nowhere}]
  /\ core \in [Place -> Nat]
  /\ promoter \in Promoter
  /\ covered \subseteq Row /\ exact \subseteq Row
  /\ IsFiniteSet(Landed)

\* A promotion that found rows covers all batches; the rows are still there.
Whole ==
  /\ promoter.found \subseteq Landed
  /\ promoter.found # {} => promoter.scope = Batch

\* The work of a transaction is ahead of core where the version is compared.
Ahead ==
  promoter # Idle =>
    \A p \in Place : p[1] \in Guarded => promoter.work[p] >= core[p]

\* The statements behind a transaction have dealt with all the rows it found.
Dealt ==
  \A i \in DOMAIN Tables :
    i < promoter.next =>
      \A w \in promoter.found \cap RowsFor(Tables[i]) :
        \A key \in Keys(Tables[i], w) : Holds(promoter.work, Tables[i], w, key)

\* What whole promotions found is in core.
Settled ==
  /\ \A table \in Guarded :
       \A w \in covered \cap RowsFor(table) :
         \A key \in Keys(table, w) : Holds(core, table, w, key)
  /\ \A table \in DOMAIN SourceOf :
       \A w \in exact \cap RowsFor(table) :
         \A key \in Keys(table, w) : Holds(core, table, w, key)

ReferenceInv == ReferenceTypes /\ Whole /\ Ahead /\ Dealt /\ Settled

LEMMA IdleIs == /\ Idle \in Promoter /\ Idle.next = 0 /\ Idle.found = {}
  BY DEF Idle, Promoter

\* A row that lands.
LEMMA LandKeeps ==
  ASSUME ReferenceInv, NEW w \in Row, NEW batch \in Batch, Land(w, batch)
  PROVE  ReferenceInv'
<1>1. /\ raw' = [raw EXCEPT ![w] = batch] /\ raw[w] = Nowhere
      /\ UNCHANGED <<core, promoter, covered, exact>>
  BY DEF Land
<1>2. batch # Nowhere
  BY ReferenceAssumption
<1>3. raw' \in [Row -> Batch \cup {Nowhere}] /\ Landed' = Landed \cup {w}
  BY <1>1, <1>2 DEF ReferenceInv, ReferenceTypes, Landed
<1>4. IsFiniteSet(Landed')
  BY <1>3, FS_AddElement DEF ReferenceInv, ReferenceTypes
<1>5. Idle' = Idle
  BY DEF Idle
<1>6. ReferenceTypes'
  BY <1>1, <1>3, <1>4 DEF ReferenceInv, ReferenceTypes
<1>7. Whole'
  BY <1>1, <1>3 DEF ReferenceInv, Whole
<1>8. Ahead' /\ Dealt' /\ Settled'
  BY <1>1, <1>5 DEF ReferenceInv, Ahead, Dealt, Settled, Holds
<1> QED
  BY <1>6, <1>7, <1>8 DEF ReferenceInv

\* A transaction that begins.
LEMMA BeginKeeps ==
  ASSUME ReferenceInv, NEW scope \in SUBSET Batch, NEW found \in SUBSET Row,
         Begin(scope, found),
         found \subseteq Landed, found # {} => scope = Batch
  PROVE  ReferenceInv'
<1>1. /\ promoter' = [next |-> 1, scope |-> scope, found |-> found,
                      work |-> core]
      /\ UNCHANGED <<raw, core, covered, exact>>
  BY DEF Begin
<1>2. /\ promoter' \in Promoter /\ promoter'.next = 1
      /\ promoter'.scope = scope /\ promoter'.found = found
      /\ promoter'.work = core
  BY <1>1 DEF ReferenceInv, ReferenceTypes, Promoter
<1>3. Landed' = Landed
  BY <1>1 DEF Landed
<1>4. ReferenceTypes'
  BY <1>1, <1>2, <1>3 DEF ReferenceInv, ReferenceTypes
<1>5. Whole'
  BY <1>2, <1>3 DEF Whole
<1>6. Ahead'
  <2>1. \A p \in Place : core[p] \in Nat
    BY DEF ReferenceInv, ReferenceTypes
  <2> QED
    BY <1>1, <1>2, <2>1 DEF Ahead
<1>7. Dealt'
  BY <1>2, StatementOf DEF Dealt
<1>8. Settled'
  BY <1>1 DEF ReferenceInv, Settled, Holds
<1> QED
  BY <1>4, <1>5, <1>6, <1>7, <1>8 DEF ReferenceInv

\* A transaction that is rolled back.
LEMMA RollbackKeeps ==
  ASSUME ReferenceInv, promoter' = Idle, UNCHANGED <<raw, core, covered, exact>>
  PROVE  ReferenceInv'
<1>1. promoter' \in Promoter /\ promoter'.next = 0 /\ promoter'.found = {}
  BY IdleIs
<1>2. Landed' = Landed /\ Idle' = Idle
  BY DEF Landed, Idle
<1>3. ReferenceTypes' /\ Whole' /\ Ahead'
  BY <1>1, <1>2 DEF ReferenceInv, ReferenceTypes, Whole, Ahead
<1>4. Dealt'
  BY <1>1 DEF Dealt
<1>5. Settled'
  BY DEF ReferenceInv, Settled, Holds
<1> QED
  BY <1>3, <1>4, <1>5 DEF ReferenceInv

\* One statement.
LEMMA StatementKeeps ==
  ASSUME ReferenceInv, Statement
  PROVE  ReferenceInv'
<1> DEFINE table == Tables[promoter.next]
           rows  == {w \in RowsFor(table) : raw[w] \in promoter.scope}
           new   == Upserted(table, rows)
<1>0. promoter \in Promoter /\ promoter.work \in [Place -> Nat]
  BY DEF ReferenceInv, ReferenceTypes, Promoter
<1>1. /\ promoter.next \in 1 .. 7 /\ table \in DOMAIN SourceOf
      /\ UNCHANGED <<raw, core, covered, exact>>
  BY StatementOf DEF Statement
<1>2. \/ promoter' = [promoter EXCEPT !.next = promoter.next + 1, !.work = new]
      \/ promoter' = Idle
  BY DEF Statement
<1>3. CASE promoter' = Idle
  BY <1>1, <1>3, RollbackKeeps
<1>4. CASE promoter' =
            [promoter EXCEPT !.next = promoter.next + 1, !.work = new]
  <2>1. rows \in SUBSET RowsFor(table) /\ rows \in SUBSET Row
    BY DEF RowsFor
  <2>2. IsFiniteSet(rows)
    <3>1. \A w \in rows : w \in Landed
      <4>1. \A w \in rows : w \in Row /\ raw[w] \in Batch
        BY <1>0, <2>1 DEF Promoter
      <4> QED
        BY <4>1, ReferenceAssumption DEF Landed
    <3>2. rows \in SUBSET Landed
      BY <3>1
    <3> QED
      BY <3>2, FS_Subset DEF ReferenceInv, ReferenceTypes
  <2>3. /\ new \in [Place -> Nat]
        /\ \A p \in Place : p[1] # table => new[p] = promoter.work[p]
        /\ \A p \in Place : p[1] \in Guarded => new[p] >= promoter.work[p]
    BY <1>0, <2>1, UpsertedIs, GuardedAdvance
  <2>4. \A w \in rows : \A key \in Keys(table, w) : Holds(new, table, w, key)
    BY <1>0, <1>1, <2>1, <2>2, StatementHolds
  <2>5. \A w \in promoter.found \cap RowsFor(table) : w \in rows
    <3> TAKE w \in promoter.found \cap RowsFor(table)
    <3>1. promoter.scope = Batch /\ w \in Landed
      BY DEF ReferenceInv, Whole
    <3>2. raw[w] \in Batch
      BY <3>1 DEF Landed, ReferenceInv, ReferenceTypes
    <3> QED
      BY <3>1, <3>2
  <2> HIDE DEF rows, new, table
  <2>6. /\ promoter' \in Promoter /\ promoter'.next = promoter.next + 1
        /\ promoter'.work = new /\ promoter'.found = promoter.found
        /\ promoter'.scope = promoter.scope
    <3>1. promoter.next + 1 \in Nat
      BY <1>1
    <3> DEFINE next == promoter.next + 1
    <3>2. promoter' = [promoter EXCEPT !.next = next, !.work = new]
          /\ next \in Nat
      BY <1>4, <3>1
    <3> HIDE DEF next
    <3>3. /\ promoter' \in Promoter /\ promoter'.next = next
          /\ promoter'.work = new /\ promoter'.found = promoter.found
          /\ promoter'.scope = promoter.scope
      BY <1>0, <2>3, <3>2 DEF Promoter
    <3> QED
      BY <3>3 DEF next
  <2>7. Landed' = Landed /\ Idle' = Idle
    BY <1>1 DEF Landed, Idle
  <2>8. ReferenceTypes' /\ Whole'
    BY <1>1, <2>6, <2>7 DEF ReferenceInv, ReferenceTypes, Whole
  <2>9. Ahead'
    <3>1. promoter # Idle
      BY <1>1, IdleIs
    <3> SUFFICES ASSUME NEW p \in Place, p[1] \in Guarded
                 PROVE  new[p] >= core[p]
      BY <1>1, <2>6 DEF Ahead
    <3>2. promoter.work[p] >= core[p] /\ new[p] >= promoter.work[p]
      BY <2>3, <3>1 DEF ReferenceInv, Ahead
    <3>3. new[p] \in Nat /\ core[p] \in Nat /\ promoter.work[p] \in Nat
      BY <1>0, <2>3 DEF ReferenceInv, ReferenceTypes
    <3> QED
      BY <3>2, <3>3
  <2>10. Dealt'
    <3> SUFFICES ASSUME NEW i \in 1 .. 7, i < promoter.next + 1,
                        NEW w \in promoter.found \cap RowsFor(Tables[i]),
                        NEW key \in Keys(Tables[i], w)
                 PROVE  Holds(new, Tables[i], w, key)
      BY <2>6, StatementOf DEF Dealt
    <3>1. CASE i = promoter.next
      BY <2>4, <2>5, <3>1 DEF table
    <3>2. CASE i # promoter.next
      <4>1. i < promoter.next /\ Tables[i] # table
        BY <1>1, <3>2, StatementOf DEF table
      <4>2. Holds(promoter.work, Tables[i], w, key)
        BY <4>1, StatementOf DEF ReferenceInv, Dealt
      <4> QED
        BY <2>3, <4>1, <4>2 DEF Holds
    <3> QED
      BY <3>1, <3>2
  <2>11. Settled'
    BY <1>1 DEF ReferenceInv, Settled, Holds
  <2> QED
    BY <2>8, <2>9, <2>10, <2>11 DEF ReferenceInv
<1> QED
  BY <1>2, <1>3, <1>4

\* What a place of a guarded table holds is not lost by a commit.
LEMMA CommitKeeps ==
  ASSUME ReferenceInv, Commit
  PROVE  ReferenceInv'
<1>0. promoter \in Promoter /\ core \in [Place -> Nat]
      /\ covered \subseteq Row
  BY DEF ReferenceInv, ReferenceTypes
<1>1. /\ promoter.next = 8 /\ core' = promoter.work
      /\ covered' = covered \cup promoter.found /\ exact' = promoter.found
      /\ promoter' = Idle /\ UNCHANGED <<raw, ran>>
  BY StatementOf DEF Commit
<1>2. promoter.work \in [Place -> Nat] /\ promoter.found \subseteq Row
  BY <1>0 DEF Promoter
<1>3. Landed' = Landed /\ Idle' = Idle
  BY <1>1 DEF Landed, Idle
<1>4. promoter' \in Promoter /\ promoter'.next = 0 /\ promoter'.found = {}
  BY <1>1, IdleIs
<1>5. ReferenceTypes' /\ Whole' /\ Ahead' /\ Dealt'
  BY <1>0, <1>1, <1>2, <1>3, <1>4
  DEF ReferenceInv, ReferenceTypes, Whole, Ahead, Dealt
<1>6. \A table \in DOMAIN SourceOf :
        \A w \in promoter.found \cap RowsFor(table) :
          \A key \in Keys(table, w) : Holds(core', table, w, key)
  <2> TAKE table \in DOMAIN SourceOf
  <2>1. PICK i \in 1 .. 7 : Tables[i] = table
    BY StatementOf
  <2>2. i \in DOMAIN Tables /\ i < promoter.next
    BY <1>1, StatementOf
  <2> QED
    BY <1>1, <2>1, <2>2 DEF ReferenceInv, Dealt
<1>7. \A table \in Guarded :
        \A w \in covered \cap RowsFor(table) :
          \A key \in Keys(table, w) : Holds(core', table, w, key)
  <2> SUFFICES ASSUME NEW table \in Guarded,
                      NEW w \in covered \cap RowsFor(table),
                      NEW key \in Keys(table, w)
               PROVE  Holds(core', table, w, key)
    OBVIOUS
  <2>1. PICK p \in Place : /\ p[1] = table /\ SameGroup(table, key, p[2])
                           /\ core[p] >= w.version
    BY DEF ReferenceInv, Settled, Holds
  <2>2. promoter # Idle
    BY <1>1, IdleIs
  <2>3. promoter.work[p] >= core[p]
    BY <2>1, <2>2 DEF ReferenceInv, Ahead
  <2>4. w.version \in Nat /\ core[p] \in Nat /\ promoter.work[p] \in Nat
    BY <1>0, <1>2, ReferenceAssumption
  <2>5. promoter.work[p] >= w.version
    BY <2>1, <2>3, <2>4
  <2> QED
    BY <1>1, <2>1, <2>5 DEF Holds
<1>8. Guarded \subseteq DOMAIN SourceOf
  BY DEF Guarded, SourceOf
<1>9. Settled'
  BY <1>1, <1>6, <1>7, <1>8 DEF Settled
<1> QED
  BY <1>5, <1>9 DEF ReferenceInv

ReferenceSpec == ReferenceInit /\ [][ReferenceNext(Row)]_referenceVars

LEMMA ReferenceStarts == ReferenceInit => ReferenceInv
<1> SUFFICES ASSUME ReferenceInit PROVE ReferenceInv
  OBVIOUS
<1>1. /\ raw = [w \in Row |-> Nowhere] /\ core = [p \in Place |-> 0]
      /\ promoter = Idle /\ covered = {} /\ exact = {}
  BY DEF ReferenceInit
<1>2. Landed = {} /\ IsFiniteSet(Landed)
  BY <1>1, FS_EmptySet DEF Landed
<1>3. ReferenceTypes
  BY <1>1, <1>2, IdleIs DEF ReferenceTypes
<1>4. Whole /\ Ahead /\ Dealt /\ Settled
  BY <1>1, IdleIs DEF Whole, Ahead, Dealt, Settled
<1> QED
  BY <1>3, <1>4 DEF ReferenceInv

LEMMA ReferenceMoves ==
  ReferenceInv /\ [ReferenceNext(Row)]_referenceVars => ReferenceInv'
<1> SUFFICES ASSUME ReferenceInv, [ReferenceNext(Row)]_referenceVars
             PROVE  ReferenceInv'
  OBVIOUS
<1>1. ASSUME NEW w \in Row, NEW batch \in Batch, Land(w, batch)
      PROVE  ReferenceInv'
  BY <1>1, LandKeeps
<1>2. CASE PromoteWhole
  <2>1. Begin(Batch, Landed) /\ Landed \in SUBSET Row /\ Batch \in SUBSET Batch
    BY <1>2 DEF PromoteWhole, Landed
  <2> QED
    BY <2>1, BeginKeeps
<1>3. ASSUME NEW batch \in RunBatch, PromoteBatch(batch) PROVE ReferenceInv'
  <2>1. {batch} \in SUBSET Batch /\ {} \in SUBSET Row /\ {} \subseteq Landed
    BY ReferenceAssumption
  <2>2. Begin({batch}, {})
    BY <1>3 DEF PromoteBatch
  <2> QED
    BY <2>1, <2>2, BeginKeeps
<1>4. CASE Statement
  BY <1>4, StatementKeeps
<1>5. CASE Commit
  BY <1>5, CommitKeeps
<1>6. CASE Die
  BY <1>6, RollbackKeeps DEF Die
<1>7. CASE UNCHANGED referenceVars
  <2>1. UNCHANGED <<raw, core, promoter, covered, exact>>
    BY <1>7 DEF referenceVars
  <2>2. Landed' = Landed /\ Idle' = Idle
    BY <2>1 DEF Landed, Idle
  <2> QED
    BY <2>1, <2>2 DEF ReferenceInv, ReferenceTypes, Whole, Ahead, Dealt,
                      Settled, Holds
<1> QED
  BY <1>1, <1>2, <1>3, <1>4, <1>5, <1>6, <1>7 DEF ReferenceNext

\* In every set of rows, batches and interleaving of landings, statements and
\* kills, what a promotion of the whole of raw found is in core.
THEOREM WholeLands == ReferenceSpec => []WholeIsInCore
<1>1. ReferenceInv => WholeIsInCore
  <2> SUFFICES ASSUME ReferenceInv PROVE WholeIsInCore
    OBVIOUS
  <2>1. ASSUME NEW table \in Guarded, NEW w \in covered \cap RowsFor(table),
               NEW key \in Keys(table, w)
        PROVE  core[<<table, key>>] >= w.version
    <3>1. PICK p \in Place : /\ p[1] = table /\ SameGroup(table, key, p[2])
                             /\ core[p] >= w.version
      BY DEF ReferenceInv, Settled, Holds
    <3>2. table # "site_tariff"
      BY DEF Guarded
    <3>3. p = <<table, key>>
      BY <3>1, <3>2, PlaceIsPair DEF SameGroup
    <3> QED
      BY <3>1, <3>3
  <2>2. ASSUME NEW table \in DOMAIN SourceOf \ Guarded,
               NEW w \in exact \cap RowsFor(table),
               NEW key \in Keys(table, w)
        PROVE  \E p \in Place : /\ p[1] = table /\ SameGroup(table, key, p[2])
                                /\ core[p] >= w.version
    BY DEF ReferenceInv, Settled, Holds
  <2> QED
    BY <2>1, <2>2 DEF WholeIsInCore
<1>2. ReferenceSpec => []ReferenceInv
  BY ReferenceStarts, ReferenceMoves, PTL DEF ReferenceSpec
<1> QED
  BY <1>1, <1>2, PTL

-----------------------------------------------------------------------------
(* Contracts: what validation shows of a record.                           *)

RecordSpec == RecordInit /\ [][RecordNext]_recordVars

Classes == {"moment", "edge", "final", "date", "retold", "number", "above", "below",
            "nan", "inf", "known", "list", "text", "long", "stranger", "taken",
            "unstorable", "missing"}

Values == [is : Classes, n : Int]

Names(s) == {FieldsOf(s)[i].name : i \in DOMAIN FieldsOf(s)}

Has(f, name, kind, min, max) ==
  f.name = name /\ f.kind = kind /\ f.min = min /\ f.max = max

Needed(f) == f.required

LEMMA FieldIs ==
  ASSUME NEW name, NEW kind, NEW min, NEW max
  PROVE  /\ \A required \in BOOLEAN :
              /\ Has(Bounded(name, kind, required, min, max),
                     name, kind, min, max)
              /\ Has(Field(name, kind, required), name, kind, 0, 0)
         /\ Needed(Bounded(name, kind, TRUE, min, max))
         /\ Needed(Field(name, kind, TRUE))
<1>1. \A required \in BOOLEAN :
        /\ Has(Bounded(name, kind, required, min, max), name, kind, min, max)
        /\ Has(Field(name, kind, required), name, kind, 0, 0)
  BY DEF Bounded, Field, Has
<1>2. Needed(Bounded(name, kind, TRUE, min, max))
      /\ Needed(Field(name, kind, TRUE))
  BY DEF Bounded, Field, Needed
<1> QED
  BY <1>1, <1>2

\* No field of an accepted record has another verdict.
LEMMA NoneIsWrong ==
  ASSUME NEW s, NEW r, Validate(s, r) = "accepted",
         DOMAIN FieldsOf(s) \in SUBSET Nat,
         NEW i \in DOMAIN FieldsOf(s)
  PROVE  FieldVerdict(FieldsOf(s)[i], r[FieldsOf(s)[i].name]) = "accepted"
<1> DEFINE fields == FieldsOf(s)
           Verdict(k) == FieldVerdict(fields[k], r[fields[k].name])
           wrong == {k \in DOMAIN fields : Verdict(k) # "accepted"}
<1>1. wrong \in SUBSET Nat
  OBVIOUS
<1>2. ASSUME wrong # {} PROVE FALSE
  <2>1. \E x \in wrong : \A y \in wrong : x <= y
    BY <1>1, <1>2, LeastNumber
  <2>2. Min(wrong) \in wrong
    BY <2>1 DEF Min
  <2>3. Verdict(Min(wrong)) # "accepted"
    BY <2>2
  <2>4. Validate(s, r) = Verdict(Min(wrong))
    BY <1>2 DEF Validate
  <2> QED
    BY <2>3, <2>4
<1> QED
  BY <1>2

\* What the contract of a field shows.
Shown(v, kind, min, max) ==
  Given(v) =>
    /\ kind = "number" => v.is = "nan" \/ (min <= v.n /\ v.n <= max)
    /\ kind = "integer" => min <= v.n /\ v.n <= max
    /\ kind = "choice" => v.is = "known"

LEMMA FieldShows ==
  ASSUME NEW s, NEW r, Validate(s, r) = "accepted",
         DOMAIN FieldsOf(s) \in SUBSET Nat,
         NEW i \in DOMAIN FieldsOf(s),
         NEW name, NEW kind, NEW min, NEW max,
         Has(FieldsOf(s)[i], name, kind, min, max)
  PROVE  /\ Shown(r[name], kind, min, max)
         /\ Needed(FieldsOf(s)[i]) => Given(r[name])
<1> DEFINE f == FieldsOf(s)[i]
           v == r[name]
<1>1. FieldVerdict(f, v) = "accepted"
  BY NoneIsWrong DEF Has
<1>2. f.kind = kind /\ f.min = min /\ f.max = max
  BY DEF Has
<1> HIDE DEF f, v
<1>3. /\ v.is = "missing" => ~f.required
      /\ v.is # "missing" => ~Breaks(f, v) /\ Takes(f, v)
  <2>1. CASE v.is = "missing"
    BY <1>1, <2>1 DEF FieldVerdict
  <2>2. CASE v.is # "missing"
    BY <1>1, <2>2 DEF FieldVerdict
  <2> QED
    BY <2>1, <2>2
<1>4. ASSUME v.is # "missing", kind = "number"
      PROVE  v.is = "nan" \/ (min <= v.n /\ v.n <= max)
  BY <1>2, <1>3, <1>4 DEF Takes, InBounds
<1>5. ASSUME v.is # "missing", kind = "integer"
      PROVE  min <= v.n /\ v.n <= max
  BY <1>2, <1>3, <1>5 DEF Takes, InBounds
<1>6. ASSUME v.is # "missing", kind = "choice"
      PROVE  v.is = "known"
  BY <1>2, <1>3, <1>6 DEF Takes
<1> QED
  BY <1>2, <1>3, <1>4, <1>5, <1>6 DEF Shown, Given, Needed, v, f

\* The fields of each source, and what the contract shows of those that the
\* tables ask something of.
Integral(s) ==
  \A i \in DOMAIN FieldsOf(s) :
    FieldsOf(s)[i].min \in Int /\ FieldsOf(s)[i].max \in Int

LEMMA MeterReadingsShow ==
  /\ DOMAIN FieldsOf("meter_readings") = 1 .. 5
  /\ Integral("meter_readings")
  /\ {"meter_id", "reading_ts", "register_value", "quality_flag"}
       \subseteq Names("meter_readings")
  /\ \A r : Validate("meter_readings", r) = "accepted" =>
       /\ Shown(r["register_value"], "number", 0, 1000)
       /\ Shown(r["quality_flag"], "choice", 0, 0)
       /\ Given(r["meter_id"])
       /\ Given(r["reading_ts"])
       /\ Given(r["register_value"])
<1> DEFINE fields == FieldsOf("meter_readings")
<1>1. fields = MeterReadings
  BY DEF FieldsOf
<1>2. DOMAIN fields = 1 .. 5 /\ DOMAIN fields \in SUBSET Nat
  <2>1. DOMAIN MeterReadings = 1 .. 5
    BY SMT DEF MeterReadings
  <2> QED
    BY <1>1, <2>1
<1> HIDE DEF fields
<1>3. /\ fields[1] = Field("meter_id", "string", TRUE)
      /\ fields[2] = Field("reading_ts", "timestamp", TRUE)
      /\ fields[3] = Bounded("register_value", "number", TRUE, 0, 1000)
      /\ fields[4] = Field("quality_flag", "choice", FALSE)
      /\ fields[5] = Field("updated_at", "timestamp", TRUE)
  BY <1>1, SMT DEF MeterReadings
<1>4. /\ Has(fields[1], "meter_id", "string", 0, 0)
      /\ Has(fields[2], "reading_ts", "timestamp", 0, 0)
      /\ Has(fields[3], "register_value", "number", 0, 1000)
      /\ Has(fields[4], "quality_flag", "choice", 0, 0)
      /\ Has(fields[5], "updated_at", "timestamp", 0, 0)
  BY <1>3, SMT DEF Field, Bounded, Has
<1>5. /\ Needed(fields[1])
      /\ Needed(fields[2])
      /\ Needed(fields[3])
  BY <1>3, SMT DEF Field, Bounded, Needed
<1>6. Integral("meter_readings")
  <2>1. \A i \in 1 .. 5 : i \in {1, 2, 3, 4, 5}
    OBVIOUS
  <2> QED
    BY <1>2, <1>4, <2>1, SMT DEF Integral, Has, fields
<1>7. {1, 2, 3, 4} \subseteq 1 .. 5
  OBVIOUS
<1>8. {"meter_id", "reading_ts", "register_value", "quality_flag"}
        \subseteq Names("meter_readings")
  BY <1>2, <1>4, <1>7, SMT DEF Names, Has, fields
<1>9. ASSUME NEW r, Validate("meter_readings", r) = "accepted"
      PROVE  /\ Shown(r["register_value"], "number", 0, 1000)
             /\ Shown(r["quality_flag"], "choice", 0, 0)
             /\ Given(r["meter_id"])
             /\ Given(r["reading_ts"])
             /\ Given(r["register_value"])
  <2>1. Given(r["meter_id"])
    BY <1>2, <1>4, <1>5, <1>7, <1>9, FieldShows, SMT DEF fields
  <2>2. Given(r["reading_ts"])
    BY <1>2, <1>4, <1>5, <1>7, <1>9, FieldShows, SMT DEF fields
  <2>3. /\ Shown(r["register_value"], "number", 0, 1000)
        /\ Given(r["register_value"])
    BY <1>2, <1>4, <1>5, <1>7, <1>9, FieldShows, SMT DEF fields
  <2>4. Shown(r["quality_flag"], "choice", 0, 0)
    BY <1>2, <1>4, <1>5, <1>7, <1>9, FieldShows, SMT DEF fields
  <2> QED
    BY <2>1, <2>2, <2>3, <2>4
<1> QED
  BY <1>2, <1>6, <1>8, <1>9, SMT DEF fields

LEMMA SitesShow ==
  /\ DOMAIN FieldsOf("sites") = 1 .. 12
  /\ Integral("sites")
  /\ {"site_id", "sector", "floor_area_m2", "tariff_id", "valid_from",
      "valid_to"}
       \subseteq Names("sites")
  /\ \A r : Validate("sites", r) = "accepted" =>
       /\ Shown(r["sector"], "choice", 0, 0)
       /\ Shown(r["floor_area_m2"], "number", 1, 10000000)
       /\ Given(r["site_id"])
       /\ Given(r["sector"])
       /\ Given(r["floor_area_m2"])
<1> DEFINE fields == FieldsOf("sites")
<1>1. fields = Sites
  BY DEF FieldsOf
<1>2. DOMAIN fields = 1 .. 12 /\ DOMAIN fields \in SUBSET Nat
  <2>1. DOMAIN Sites = 1 .. 12
    BY SMT DEF Sites
  <2> QED
    BY <1>1, <2>1
<1> HIDE DEF fields
<1>3. /\ fields[1] = Field("site_id", "string", TRUE)
      /\ fields[2] = Field("site_name", "string", TRUE)
      /\ fields[3] = Field("city", "string", TRUE)
      /\ fields[4] = Field("region_code", "string", TRUE)
      /\ fields[5] = Field("sector", "choice", TRUE)
      /\ fields[6] = Bounded("floor_area_m2", "number", TRUE, 1, 10000000)
      /\ fields[7] = Field("commissioned_on", "date", FALSE)
      /\ fields[8] = Field("is_active", "boolean", FALSE)
      /\ fields[9] = Field("tariff_id", "string", FALSE)
      /\ fields[10] = Field("valid_from", "date", FALSE)
      /\ fields[11] = Field("valid_to", "date", FALSE)
      /\ fields[12] = Field("updated_at", "timestamp", TRUE)
  BY <1>1, SMT DEF Sites
<1>4. /\ Has(fields[1], "site_id", "string", 0, 0)
      /\ Has(fields[2], "site_name", "string", 0, 0)
      /\ Has(fields[3], "city", "string", 0, 0)
      /\ Has(fields[4], "region_code", "string", 0, 0)
      /\ Has(fields[5], "sector", "choice", 0, 0)
      /\ Has(fields[6], "floor_area_m2", "number", 1, 10000000)
      /\ Has(fields[7], "commissioned_on", "date", 0, 0)
      /\ Has(fields[8], "is_active", "boolean", 0, 0)
      /\ Has(fields[9], "tariff_id", "string", 0, 0)
      /\ Has(fields[10], "valid_from", "date", 0, 0)
      /\ Has(fields[11], "valid_to", "date", 0, 0)
      /\ Has(fields[12], "updated_at", "timestamp", 0, 0)
  BY <1>3, SMT DEF Field, Bounded, Has
<1>5. /\ Needed(fields[1])
      /\ Needed(fields[5])
      /\ Needed(fields[6])
  BY <1>3, SMT DEF Field, Bounded, Needed
<1>6. Integral("sites")
  <2>1. \A i \in 1 .. 12 : i \in {1, 2, 3, 4, 5, 6, 7, 8, 9, 10, 11, 12}
    OBVIOUS
  <2> QED
    BY <1>2, <1>4, <2>1, SMT DEF Integral, Has, fields
<1>7. {1, 5, 6, 9, 10, 11} \subseteq 1 .. 12
  OBVIOUS
<1>8. {"site_id", "sector", "floor_area_m2", "tariff_id", "valid_from",
       "valid_to"}
        \subseteq Names("sites")
  BY <1>2, <1>4, <1>7, SMT DEF Names, Has, fields
<1>9. ASSUME NEW r, Validate("sites", r) = "accepted"
      PROVE  /\ Shown(r["sector"], "choice", 0, 0)
             /\ Shown(r["floor_area_m2"], "number", 1, 10000000)
             /\ Given(r["site_id"])
             /\ Given(r["sector"])
             /\ Given(r["floor_area_m2"])
  <2>1. Given(r["site_id"])
    BY <1>2, <1>4, <1>5, <1>7, <1>9, FieldShows, SMT DEF fields
  <2>2. Shown(r["sector"], "choice", 0, 0) /\ Given(r["sector"])
    BY <1>2, <1>4, <1>5, <1>7, <1>9, FieldShows, SMT DEF fields
  <2>3. /\ Shown(r["floor_area_m2"], "number", 1, 10000000)
        /\ Given(r["floor_area_m2"])
    BY <1>2, <1>4, <1>5, <1>7, <1>9, FieldShows, SMT DEF fields
  <2> QED
    BY <2>1, <2>2, <2>3
<1> QED
  BY <1>2, <1>6, <1>8, <1>9, SMT DEF fields

LEMMA MetersShow ==
  /\ DOMAIN FieldsOf("meters") = 1 .. 10
  /\ Integral("meters")
  /\ {"meter_id", "meter_type", "multiplier", "index_digits",
      "interval_minutes"}
       \subseteq Names("meters")
  /\ \A r : Validate("meters", r) = "accepted" =>
       /\ Shown(r["meter_type"], "choice", 0, 0)
       /\ Shown(r["multiplier"], "number", 1, 10000)
       /\ Shown(r["index_digits"], "integer", 4, 12)
       /\ Shown(r["interval_minutes"], "integer", 1, 1440)
       /\ Given(r["meter_id"])
       /\ Given(r["meter_type"])
<1> DEFINE fields == FieldsOf("meters")
<1>1. fields = Meters
  BY DEF FieldsOf
<1>2. DOMAIN fields = 1 .. 10 /\ DOMAIN fields \in SUBSET Nat
  <2>1. DOMAIN Meters = 1 .. 10
    BY SMT DEF Meters
  <2> QED
    BY <1>1, <2>1
<1> HIDE DEF fields
<1>3. /\ fields[1] = Field("meter_id", "string", TRUE)
      /\ fields[2] = Field("site_id", "string", TRUE)
      /\ fields[3] = Field("meter_type", "choice", TRUE)
      /\ fields[4] = Field("unit", "choice", FALSE)
      /\ fields[5] = Bounded("multiplier", "number", FALSE, 1, 10000)
      /\ fields[6] = Bounded("index_digits", "integer", FALSE, 4, 12)
      /\ fields[7] = Bounded("interval_minutes", "integer", FALSE, 1, 1440)
      /\ fields[8] = Field("installed_on", "date", FALSE)
      /\ fields[9] = Field("is_active", "boolean", FALSE)
      /\ fields[10] = Field("updated_at", "timestamp", TRUE)
  BY <1>1, SMT DEF Meters
<1>4. /\ Has(fields[1], "meter_id", "string", 0, 0)
      /\ Has(fields[2], "site_id", "string", 0, 0)
      /\ Has(fields[3], "meter_type", "choice", 0, 0)
      /\ Has(fields[4], "unit", "choice", 0, 0)
      /\ Has(fields[5], "multiplier", "number", 1, 10000)
      /\ Has(fields[6], "index_digits", "integer", 4, 12)
      /\ Has(fields[7], "interval_minutes", "integer", 1, 1440)
      /\ Has(fields[8], "installed_on", "date", 0, 0)
      /\ Has(fields[9], "is_active", "boolean", 0, 0)
      /\ Has(fields[10], "updated_at", "timestamp", 0, 0)
  BY <1>3, SMT DEF Field, Bounded, Has
<1>5. /\ Needed(fields[1])
      /\ Needed(fields[3])
  BY <1>3, SMT DEF Field, Bounded, Needed
<1>6. Integral("meters")
  <2>1. \A i \in 1 .. 10 : i \in {1, 2, 3, 4, 5, 6, 7, 8, 9, 10}
    OBVIOUS
  <2> QED
    BY <1>2, <1>4, <2>1, SMT DEF Integral, Has, fields
<1>7. {1, 3, 5, 6, 7} \subseteq 1 .. 10
  OBVIOUS
<1>8. {"meter_id", "meter_type", "multiplier", "index_digits",
       "interval_minutes"}
        \subseteq Names("meters")
  BY <1>2, <1>4, <1>7, SMT DEF Names, Has, fields
<1>9. ASSUME NEW r, Validate("meters", r) = "accepted"
      PROVE  /\ Shown(r["meter_type"], "choice", 0, 0)
             /\ Shown(r["multiplier"], "number", 1, 10000)
             /\ Shown(r["index_digits"], "integer", 4, 12)
             /\ Shown(r["interval_minutes"], "integer", 1, 1440)
             /\ Given(r["meter_id"])
             /\ Given(r["meter_type"])
  <2>1. Given(r["meter_id"])
    BY <1>2, <1>4, <1>5, <1>7, <1>9, FieldShows, SMT DEF fields
  <2>2. Shown(r["meter_type"], "choice", 0, 0) /\ Given(r["meter_type"])
    BY <1>2, <1>4, <1>5, <1>7, <1>9, FieldShows, SMT DEF fields
  <2>3. Shown(r["multiplier"], "number", 1, 10000)
    BY <1>2, <1>4, <1>5, <1>7, <1>9, FieldShows, SMT DEF fields
  <2>4. Shown(r["index_digits"], "integer", 4, 12)
    BY <1>2, <1>4, <1>5, <1>7, <1>9, FieldShows, SMT DEF fields
  <2>5. Shown(r["interval_minutes"], "integer", 1, 1440)
    BY <1>2, <1>4, <1>5, <1>7, <1>9, FieldShows, SMT DEF fields
  <2> QED
    BY <2>1, <2>2, <2>3, <2>4, <2>5
<1> QED
  BY <1>2, <1>6, <1>8, <1>9, SMT DEF fields

LEMMA TariffsShow ==
  /\ DOMAIN FieldsOf("tariffs") = 1 .. 9
  /\ Integral("tariffs")
  /\ {"tariff_id", "standing_charge_per_day", "valid_from", "valid_to",
      "bands"}
       \subseteq Names("tariffs")
  /\ \A r : Validate("tariffs", r) = "accepted" =>
       /\ Shown(r["standing_charge_per_day"], "number", 0, 1000)
       /\ Given(r["tariff_id"])
       /\ Given(r["valid_from"])
       /\ Given(r["bands"])
<1> DEFINE fields == FieldsOf("tariffs")
<1>1. fields = Tariffs
  BY DEF FieldsOf
<1>2. DOMAIN fields = 1 .. 9 /\ DOMAIN fields \in SUBSET Nat
  <2>1. DOMAIN Tariffs = 1 .. 9
    BY SMT DEF Tariffs
  <2> QED
    BY <1>1, <2>1
<1> HIDE DEF fields
<1>3. /\ fields[1] = Field("tariff_id", "string", TRUE)
      /\ fields[2] = Field("tariff_name", "string", TRUE)
      /\ fields[3] = Field("supplier", "string", TRUE)
      /\ fields[4] = Field("currency", "choice", FALSE)
      /\ fields[5] =
           Bounded("standing_charge_per_day", "number", FALSE, 0, 1000)
      /\ fields[6] = Field("valid_from", "date", TRUE)
      /\ fields[7] = Field("valid_to", "date", FALSE)
      /\ fields[8] = Field("bands", "array", TRUE)
      /\ fields[9] = Field("updated_at", "timestamp", TRUE)
  BY <1>1, SMT DEF Tariffs
<1>4. /\ Has(fields[1], "tariff_id", "string", 0, 0)
      /\ Has(fields[2], "tariff_name", "string", 0, 0)
      /\ Has(fields[3], "supplier", "string", 0, 0)
      /\ Has(fields[4], "currency", "choice", 0, 0)
      /\ Has(fields[5], "standing_charge_per_day", "number", 0, 1000)
      /\ Has(fields[6], "valid_from", "date", 0, 0)
      /\ Has(fields[7], "valid_to", "date", 0, 0)
      /\ Has(fields[8], "bands", "array", 0, 0)
      /\ Has(fields[9], "updated_at", "timestamp", 0, 0)
  BY <1>3, SMT DEF Field, Bounded, Has
<1>5. /\ Needed(fields[1])
      /\ Needed(fields[6])
      /\ Needed(fields[8])
  BY <1>3, SMT DEF Field, Bounded, Needed
<1>6. Integral("tariffs")
  <2>1. \A i \in 1 .. 9 : i \in {1, 2, 3, 4, 5, 6, 7, 8, 9}
    OBVIOUS
  <2> QED
    BY <1>2, <1>4, <2>1, SMT DEF Integral, Has, fields
<1>7. {1, 5, 6, 7, 8} \subseteq 1 .. 9
  OBVIOUS
<1>8. {"tariff_id", "standing_charge_per_day", "valid_from", "valid_to",
       "bands"}
        \subseteq Names("tariffs")
  BY <1>2, <1>4, <1>7, SMT DEF Names, Has, fields
<1>9. ASSUME NEW r, Validate("tariffs", r) = "accepted"
      PROVE  /\ Shown(r["standing_charge_per_day"], "number", 0, 1000)
             /\ Given(r["tariff_id"])
             /\ Given(r["valid_from"])
             /\ Given(r["bands"])
  <2>1. Given(r["tariff_id"])
    BY <1>2, <1>4, <1>5, <1>7, <1>9, FieldShows, SMT DEF fields
  <2>2. Shown(r["standing_charge_per_day"], "number", 0, 1000)
    BY <1>2, <1>4, <1>5, <1>7, <1>9, FieldShows, SMT DEF fields
  <2>3. Given(r["valid_from"])
    BY <1>2, <1>4, <1>5, <1>7, <1>9, FieldShows, SMT DEF fields
  <2>4. Given(r["bands"])
    BY <1>2, <1>4, <1>5, <1>7, <1>9, FieldShows, SMT DEF fields
  <2> QED
    BY <2>1, <2>2, <2>3, <2>4
<1> QED
  BY <1>2, <1>6, <1>8, <1>9, SMT DEF fields

LEMMA WeatherShow ==
  /\ DOMAIN FieldsOf("weather") = 1 .. 8
  /\ Integral("weather")
  /\ {"station_id", "observed_on", "temp_min_c", "temp_max_c", "temp_avg_c"}
       \subseteq Names("weather")
  /\ \A r : Validate("weather", r) = "accepted" =>
       /\ Shown(r["temp_min_c"], "number", -60, 60)
       /\ Shown(r["temp_max_c"], "number", -60, 60)
       /\ Shown(r["temp_avg_c"], "number", -60, 60)
       /\ Given(r["station_id"])
       /\ Given(r["observed_on"])
       /\ Given(r["temp_min_c"])
       /\ Given(r["temp_max_c"])
       /\ Given(r["temp_avg_c"])
<1> DEFINE fields == FieldsOf("weather")
<1>1. fields = Weather
  BY DEF FieldsOf
<1>2. DOMAIN fields = 1 .. 8 /\ DOMAIN fields \in SUBSET Nat
  <2>1. DOMAIN Weather = 1 .. 8
    BY SMT DEF Weather
  <2> QED
    BY <1>1, <2>1
<1> HIDE DEF fields
<1>3. /\ fields[1] = Field("station_id", "string", TRUE)
      /\ fields[2] = Field("station_name", "string", TRUE)
      /\ fields[3] = Field("region_code", "string", TRUE)
      /\ fields[4] = Field("observed_on", "date", TRUE)
      /\ fields[5] = Bounded("temp_min_c", "number", TRUE, -60, 60)
      /\ fields[6] = Bounded("temp_max_c", "number", TRUE, -60, 60)
      /\ fields[7] = Bounded("temp_avg_c", "number", TRUE, -60, 60)
      /\ fields[8] = Field("updated_at", "timestamp", TRUE)
  BY <1>1, SMT DEF Weather
<1>4. /\ Has(fields[1], "station_id", "string", 0, 0)
      /\ Has(fields[2], "station_name", "string", 0, 0)
      /\ Has(fields[3], "region_code", "string", 0, 0)
      /\ Has(fields[4], "observed_on", "date", 0, 0)
      /\ Has(fields[5], "temp_min_c", "number", -60, 60)
      /\ Has(fields[6], "temp_max_c", "number", -60, 60)
      /\ Has(fields[7], "temp_avg_c", "number", -60, 60)
      /\ Has(fields[8], "updated_at", "timestamp", 0, 0)
  BY <1>3, SMT DEF Field, Bounded, Has
<1>5. /\ Needed(fields[1])
      /\ Needed(fields[4])
      /\ Needed(fields[5])
      /\ Needed(fields[6])
      /\ Needed(fields[7])
  BY <1>3, SMT DEF Field, Bounded, Needed
<1>6. Integral("weather")
  <2>1. \A i \in 1 .. 8 : i \in {1, 2, 3, 4, 5, 6, 7, 8}
    OBVIOUS
  <2> QED
    BY <1>2, <1>4, <2>1, SMT DEF Integral, Has, fields
<1>7. {1, 4, 5, 6, 7} \subseteq 1 .. 8
  OBVIOUS
<1>8. {"station_id", "observed_on", "temp_min_c", "temp_max_c",
       "temp_avg_c"}
        \subseteq Names("weather")
  BY <1>2, <1>4, <1>7, SMT DEF Names, Has, fields
<1>9. ASSUME NEW r, Validate("weather", r) = "accepted"
      PROVE  /\ Shown(r["temp_min_c"], "number", -60, 60)
             /\ Shown(r["temp_max_c"], "number", -60, 60)
             /\ Shown(r["temp_avg_c"], "number", -60, 60)
             /\ Given(r["station_id"])
             /\ Given(r["observed_on"])
             /\ Given(r["temp_min_c"])
             /\ Given(r["temp_max_c"])
             /\ Given(r["temp_avg_c"])
  <2>1. Given(r["station_id"])
    BY <1>2, <1>4, <1>5, <1>7, <1>9, FieldShows, SMT DEF fields
  <2>2. Given(r["observed_on"])
    BY <1>2, <1>4, <1>5, <1>7, <1>9, FieldShows, SMT DEF fields
  <2>3. Shown(r["temp_min_c"], "number", -60, 60) /\ Given(r["temp_min_c"])
    BY <1>2, <1>4, <1>5, <1>7, <1>9, FieldShows, SMT DEF fields
  <2>4. Shown(r["temp_max_c"], "number", -60, 60) /\ Given(r["temp_max_c"])
    BY <1>2, <1>4, <1>5, <1>7, <1>9, FieldShows, SMT DEF fields
  <2>5. Shown(r["temp_avg_c"], "number", -60, 60) /\ Given(r["temp_avg_c"])
    BY <1>2, <1>4, <1>5, <1>7, <1>9, FieldShows, SMT DEF fields
  <2> QED
    BY <2>1, <2>2, <2>3, <2>4, <2>5
<1> QED
  BY <1>2, <1>6, <1>8, <1>9, SMT DEF fields

\* What a record is, for the fields of its source.
IntegerFields(s) ==
  \A f \in ToSet(FieldsOf(s)) : f.min \in Int /\ f.max \in Int

RecordInv ==
  /\ source \in Source
  /\ record \in [Names(source) -> Values]

LEMMA FieldsAreIntegral ==
  ASSUME NEW s \in Source
  PROVE  IntegerFields(s)
<1>1. s \in {"meter_readings", "sites", "meters", "tariffs", "weather"}
  BY ContractsAssumption
<1>2. Integral(s)
  BY <1>1, MeterReadingsShow, SitesShow, MetersShow, TariffsShow, WeatherShow
<1> QED
  BY <1>2 DEF Integral, IntegerFields, ToSet

LEMMA GoodIsValue ==
  ASSUME NEW f, f.min \in Int
  PROVE  GoodValue(f) \in Values
<1>1. PICK n \in Int : n = f.min + 1
  OBVIOUS
<1> QED
  BY <1>1, SMT DEF GoodValue, Number, Date, Value, Values, Classes

LEMMA FlawedIsValue ==
  ASSUME NEW f, f.min \in Int, f.max \in Int
  PROVE  FlawedValues(f) \subseteq Values
<1>1. \A n \in Int : Number(n) \in Values
  BY DEF Number, Value, Values, Classes
<1>0. /\ [is : {"above", "below"}, n : {f.min, f.max}] \subseteq Values
      /\ [is : {"stranger", "taken", "unstorable"}, n : {0}] \subseteq Values
  BY DEF Values, Classes
<1>2. /\ f.min + 1 \in Int
      /\ {f.min - 1, f.min, f.max, f.max + 1} \subseteq Int
  OBVIOUS
<1>3. /\ Missing \in Values
      /\ {Value("text", 0), Value("nan", 0), Value("inf", 0), Value("edge", 0),
          Value("list", 0), Value("long", 0), Value("below", 100),
          Value("retold", 1), Value("unstorable", 1), Value("unstorable", 0),
          Value("final", 0)} \subseteq Values
      /\ {Date(1), Date(2), Number(1), Number(7)} \subseteq Values
  BY DEF Missing, Date, Number, Value, Values, Classes
<1> QED
  BY <1>0, <1>1, <1>2, <1>3 DEF FlawedValues

LEMMA RecordInductive == RecordSpec => []RecordInv
<1>1. RecordInit => RecordInv
  <2> SUFFICES ASSUME RecordInit PROVE RecordInv
    OBVIOUS
  <2> DEFINE Chosen(name) ==
        CHOOSE f \in ToSet(FieldsOf(source)) : f.name = name
  <2>1. source \in Source /\ IntegerFields(source)
    BY FieldsAreIntegral DEF RecordInit
  <2>2. ASSUME NEW name \in Names(source)
        PROVE  GoodValue(Chosen(name)) \in Values
    <3>1. Chosen(name) \in ToSet(FieldsOf(source))
      BY DEF Names, ToSet
    <3> QED
      BY <2>1, <3>1, GoodIsValue DEF IntegerFields
  <2>3. record = [name \in Names(source) |-> GoodValue(Chosen(name))]
    BY DEF RecordInit, Names
  <2> HIDE DEF Chosen
  <2> QED
    BY <2>1, <2>2, <2>3 DEF RecordInv
<1>2. RecordInv /\ [RecordNext]_recordVars => RecordInv'
  <2> SUFFICES ASSUME RecordInv, [RecordNext]_recordVars PROVE RecordInv'
    OBVIOUS
  <2>1. CASE RecordNext
    <3> PICK f \in ToSet(FieldsOf(source)) :
             \E v \in FlawedValues(f) : Flaw(f, v)
      BY <2>1 DEF RecordNext
    <3>1. PICK v \in FlawedValues(f) : Flaw(f, v)
      OBVIOUS
    <3>2. v \in Values
      BY <3>1, FieldsAreIntegral, FlawedIsValue DEF RecordInv, IntegerFields
    <3>3. record' = [record EXCEPT ![f.name] = v] /\ source' = source
      BY <3>1 DEF Flaw
    <3>4. Names(source)' = Names(source)
      BY <3>3 DEF Names
    <3> QED
      BY <3>2, <3>3, <3>4 DEF RecordInv
  <2>2. CASE UNCHANGED recordVars
    BY <2>2 DEF recordVars, RecordInv, Names
  <2> QED
    BY <2>1, <2>2
<1> QED
  BY <1>1, <1>2, PTL DEF RecordSpec

LEMMA SourceIsOne ==
  RecordInv => source \in {"meter_readings", "sites", "meters", "tariffs", "weather"}
BY ContractsAssumption DEF RecordInv

\* Whatever is changed in a record, and in how many of its fields: when its
\* contract accepts it, every part of its identity is a value of its own.
THEOREM KeysAreGiven == RecordSpec => []AcceptedHasKey
<1>1. RecordInv => AcceptedHasKey
  <2> SUFFICES ASSUME RecordInv, Accepted, NEW name \in KeyFields(source)
               PROVE  Given(record[name])
    BY DEF AcceptedHasKey
  <2>1. Validate(source, record) = "accepted"
    BY DEF Accepted
  <2>2. CASE source = "meter_readings"
    BY <2>1, <2>2, MeterReadingsShow DEF KeyFields
  <2>3. CASE source = "sites"
    BY <2>1, <2>3, SitesShow, SMT DEF KeyFields
  <2>4. CASE source = "meters"
    BY <2>1, <2>4, MetersShow DEF KeyFields
  <2>5. CASE source = "tariffs"
    BY <2>1, <2>5, TariffsShow DEF KeyFields
  <2>6. CASE source = "weather"
    BY <2>1, <2>6, WeatherShow DEF KeyFields
  <2> QED
    BY <2>2, <2>3, <2>4, <2>5, <2>6, SourceIsOne
<1> QED
  BY <1>1, RecordInductive, PTL

\* A number that an accepted record has, and that is no NaN, is within the
\* bounds of its contract.
LEMMA IsWithin ==
  ASSUME NEW s, NEW r \in [Names(s) -> Values], RawTakes(r),
         NEW name \in Names(s), Given(r[name]),
         NEW kind, kind \in {"number", "integer"}, NEW min, NEW max,
         Shown(r[name], kind, min, max)
  PROVE  r[name].n \in Int /\ min <= r[name].n /\ r[name].n <= max
<1>1. r[name].is # "nan" /\ r[name].n \in Int
  BY DEF RawTakes, Values
<1> QED
  BY <1>1, SMT DEF Shown

LEMMA ReadingIsTaken ==
  ASSUME NEW r \in [Names("meter_readings") -> Values],
         Validate("meter_readings", r) = "accepted", RawTakes(r),
         \A m \in Multiplier : ~(r.register_value.n * m >= 100),
         r.reading_ts.is # "final"
  PROVE  ReadingTaken(r)
<1>1. /\ Shown(r["register_value"], "number", 0, 1000)
      /\ Shown(r["quality_flag"], "choice", 0, 0)
      /\ Given(r["meter_id"]) /\ Given(r["register_value"])
  BY MeterReadingsShow
<1>2. r["register_value"].n \in Int /\ 0 <= r["register_value"].n
  <2>1. "register_value" \in Names("meter_readings")
    BY MeterReadingsShow
  <2>2. PICK kind : kind = "number"
    OBVIOUS
  <2>3. kind \in {"number", "integer"} /\ Shown(r["register_value"], kind, 0, 1000)
    BY <1>1, <2>2
  <2> QED
    BY <1>1, <2>1, <2>3, IsWithin
<1>3. PICK n \in Int : n = r["register_value"].n
  BY <1>2
<1>4. ASSUME NEW m \in Multiplier PROVE n * m < 100
  <2>1. m \in Nat /\ ~(n * m >= 100)
    BY <1>3, ContractsAssumption
  <2> QED
    BY <2>1
<1> QED
  BY <1>1, <1>2, <1>3, <1>4, SMT DEF ReadingTaken, Given, Shown

LEMMA SiteIsTaken ==
  ASSUME NEW r \in [Names("sites") -> Values],
         Validate("sites", r) = "accepted", RawTakes(r),
         r.tariff_id.is \notin {"missing", "stranger"},
         Given(r.valid_from), ValidityHolds(r)
  PROVE  SiteTaken(r)
<1>1. /\ Shown(r["floor_area_m2"], "number", 1, 10000000)
      /\ Shown(r["sector"], "choice", 0, 0)
      /\ Given(r["sector"]) /\ Given(r["floor_area_m2"])
  BY SitesShow, SMT
<1>2. /\ r["floor_area_m2"].n \in Int
      /\ 1 <= r["floor_area_m2"].n /\ r["floor_area_m2"].n <= 10000000
  BY <1>1, IsWithin, SitesShow, SMT
<1>3. r["sector"].is = "known"
  BY <1>1, SMT DEF Shown
<1> QED
  BY <1>2, <1>3, SMT DEF SiteTaken, Given

LEMMA MeterIsTaken ==
  ASSUME NEW r \in [Names("meters") -> Values],
         Validate("meters", r) = "accepted", RawTakes(r),
         ~UnevenInterval(r), r.site_id.is # "stranger"
  PROVE  MeterTaken(r)
<1>1. /\ Shown(r["meter_type"], "choice", 0, 0)
      /\ Shown(r["multiplier"], "number", 1, 10000)
      /\ Shown(r["index_digits"], "integer", 4, 12)
      /\ Shown(r["interval_minutes"], "integer", 1, 1440)
      /\ Given(r["meter_type"])
  BY MetersShow
<1>2. r["meter_type"].is = "known"
  BY <1>1 DEF Shown
<1>3. NullableWithin(r["multiplier"], 1, 999999)
  <2>1. "multiplier" \in Names("meters")
    BY MetersShow
  <2>2. Given(r["multiplier"]) =>
          /\ r["multiplier"].n \in Int
          /\ 1 <= r["multiplier"].n /\ r["multiplier"].n <= 10000
    <3>1. PICK kind : kind = "number"
      OBVIOUS
    <3>2. kind \in {"number", "integer"} /\ Shown(r["multiplier"], kind, 1, 10000)
      BY <1>1, <3>1
    <3> QED
      BY <2>1, <3>2, IsWithin
  <2> QED
    BY <2>2, SMT DEF NullableWithin
<1>4. NullableWithin(r["index_digits"], 4, 12)
  <2>1. "index_digits" \in Names("meters")
    BY MetersShow
  <2> QED
    BY <1>1, <2>1, IsWithin, SMT DEF NullableWithin
<1>5. ASSUME Given(r["interval_minutes"])
      PROVE  /\ 1 <= r["interval_minutes"].n /\ r["interval_minutes"].n <= 1440
             /\ 1440 % r["interval_minutes"].n = 0
  <2>1. "interval_minutes" \in Names("meters")
    BY MetersShow
  <2>2. /\ r["interval_minutes"].n \in Int
        /\ 1 <= r["interval_minutes"].n /\ r["interval_minutes"].n <= 1440
    <3>1. PICK v : v = r["interval_minutes"]
      OBVIOUS
    <3>2. Given(v) /\ Shown(v, "integer", 1, 1440)
      BY <1>1, <1>5, <3>1
    <3>3. v.n \in Int
      BY <2>1, <3>1 DEF Values
    <3>4. 1 <= v.n /\ v.n <= 1440
      BY <3>2, SMT DEF Shown
    <3> QED
      BY <3>1, <3>3, <3>4
  <2>3. PICK k \in Int : k = r["interval_minutes"].n
    BY <2>2
  <2>4. k \in 1 .. 1440
    <3>1. 1 <= k /\ k <= 1440
      BY <2>2, <2>3
    <3> QED
      BY <3>1
  <2>5. 1440 % k = 0
    BY <2>3, <2>4 DEF UnevenInterval
  <2> QED
    BY <2>2, <2>3, <2>5
<1> QED
  BY <1>2, <1>3, <1>4, <1>5, SMT DEF MeterTaken, NullableWithin

LEMMA TariffIsTaken ==
  ASSUME NEW r \in [Names("tariffs") -> Values],
         Validate("tariffs", r) = "accepted", RawTakes(r),
         r.bands.n = 1, ValidityHolds(r)
  PROVE  TariffTaken(r)
<1>1. /\ Shown(r["standing_charge_per_day"], "number", 0, 1000)
      /\ Given(r["valid_from"])
  BY TariffsShow
<1>2. Given(r["standing_charge_per_day"]) =>
        /\ r["standing_charge_per_day"].n \in Int
        /\ 0 <= r["standing_charge_per_day"].n
        /\ r["standing_charge_per_day"].n <= 1000
  <2>1. "standing_charge_per_day" \in Names("tariffs")
    BY TariffsShow
  <2> QED
    BY <1>1, <2>1, IsWithin, SMT
<1> QED
  BY <1>1, <1>2, SMT DEF TariffTaken, NullableWithin

LEMMA WeatherIsTaken ==
  ASSUME NEW r \in [Names("weather") -> Values],
         Validate("weather", r) = "accepted", RawTakes(r),
         ~(r.temp_max_c.n < r.temp_min_c.n),
         r.temp_min_c.n # -60, r.temp_max_c.n # 60,
         r.region_code.is # "taken", r.observed_on.is # "retold"
  PROVE  WeatherTaken(r)
<1>1. /\ Shown(r["temp_min_c"], "number", -60, 60) /\ Given(r["temp_min_c"])
      /\ Shown(r["temp_max_c"], "number", -60, 60) /\ Given(r["temp_max_c"])
      /\ Shown(r["temp_avg_c"], "number", -60, 60) /\ Given(r["temp_avg_c"])
      /\ Given(r["observed_on"])
  BY WeatherShow
<1>2. \A name \in {"temp_min_c", "temp_max_c", "temp_avg_c"} :
        /\ r[name].n \in Int
        /\ -60 <= r[name].n /\ r[name].n <= 60
  BY <1>1, IsWithin, WeatherShow
<1> QED
  BY <1>1, <1>2, SMT DEF WeatherTaken

\* Whatever is changed in a record, to values of the classes of Contracts and in
\* how many of its fields: when its contract accepts it, raw and core take it,
\* except through the gaps that KnownGap lists.
THEOREM AcceptedIsTaken == RecordSpec => []AcceptedIsPromotable
<1>1. RecordInv => AcceptedIsPromotable
  <2> SUFFICES ASSUME RecordInv, Accepted, ~KnownGap(record)
               PROVE  RawTakes(record) /\ CoreTakes(source, record)
    BY DEF AcceptedIsPromotable
  <2>1. /\ Validate(source, record) = "accepted"
        /\ record \in [Names(source) -> Values]
    BY DEF Accepted, RecordInv
  <2>2. RawTakes(record)
    BY DEF RawTakes, KnownGap
  <2>3. CASE source = "meter_readings"
    BY <2>1, <2>2, <2>3, ReadingIsTaken DEF KnownGap, CoreTakes
  <2>4. CASE source = "sites"
    BY <2>1, <2>2, <2>4, SiteIsTaken DEF KnownGap, CoreTakes
  <2>5. CASE source = "meters"
    BY <2>1, <2>2, <2>5, MeterIsTaken DEF KnownGap, CoreTakes
  <2>6. CASE source = "tariffs"
    BY <2>1, <2>2, <2>6, TariffIsTaken DEF KnownGap, CoreTakes
  <2>7. CASE source = "weather"
    BY <2>1, <2>2, <2>7, WeatherIsTaken DEF KnownGap, CoreTakes
  <2> QED
    BY <2>2, <2>3, <2>4, <2>5, <2>6, <2>7, SourceIsOne
<1> QED
  BY <1>1, RecordInductive, PTL

-----------------------------------------------------------------------------
(* Deltas: the feed of a meter.                                            *)

MeterSpec == MeterInit /\ [][MeterNext]_meterVars

Readings == [at : Int, value : Int, truth : Int, moved : Int]

MeterInv ==
  /\ clock \in Int /\ total \in Int /\ base \in Int
  /\ feed \in Seq(Readings)

LEMMA ReadingIsReading ==
  ASSUME NEW at \in Int, NEW register \in Int, NEW truth \in Int
  PROVE  Reading(at, register, truth) \in Readings
<1>1. PICK value \in Int : value = register % RegisterMax
  BY DeltasAssumption
<1> QED
  BY <1>1 DEF Reading, Readings

\* A value of the feed that is replaced stays a value.
LEMMA ReplacedIsFeed ==
  ASSUME feed \in Seq(Readings), NEW i \in DOMAIN feed,
         NEW r \in Readings
  PROVE  [feed EXCEPT ![i] = r] \in Seq(Readings)
OBVIOUS

LEMMA ConsumeCounts ==
  ASSUME MeterInv, NEW e \in Energy, Consume(e)
  PROVE  clock' \in Int /\ total' \in Int
BY DeltasAssumption DEF MeterInv, Consume

LEMMA MeterInductive == MeterSpec => []MeterInv
<1>1. MeterInit => MeterInv
  BY DeltasAssumption DEF MeterInit, MeterInv
<1>2. MeterInv /\ [MeterNext]_meterVars => MeterInv'
  <2> SUFFICES ASSUME MeterInv, [MeterNext]_meterVars PROVE MeterInv'
    OBVIOUS
  <2> USE DEF MeterInv
  <2>1. ASSUME NEW e \in Energy, Report(e) PROVE MeterInv'
    <3>1. clock' \in Int /\ total' \in Int
      BY <2>1, ConsumeCounts DEF Report
    <3>2. base + total' \in Int
      BY <3>1
    <3>3. Reading(clock', base + total', total') \in Readings
      BY <3>1, <3>2, ReadingIsReading
    <3> QED
      BY <2>1, <3>1, <3>3 DEF Report
  <2>2. ASSUME NEW e \in Energy, Miss(e) PROVE MeterInv'
    BY <2>2, ConsumeCounts DEF Miss
  <2>3. ASSUME NEW e \in Energy, NEW register \in AfterReset, Reset(e, register)
        PROVE  MeterInv'
    <3>1. clock' \in Int /\ total' \in Int
      BY <2>3, ConsumeCounts DEF Reset
    <3>2. register \in Int
      BY DeltasAssumption
    <3>3. Reading(clock', register, total') \in Readings
      BY <3>1, <3>2, ReadingIsReading
    <3>4. base' = register - total' /\ feed' = Append(feed, Reading(clock', register, total'))
      BY <2>3 DEF Reset
    <3> QED
      BY <3>1, <3>2, <3>3, <3>4
  <2>4. ASSUME NEW i \in DOMAIN feed, Spike(i) PROVE MeterInv'
    <3>1. PICK r \in Readings : r = feed[i]
      OBVIOUS
    <3>2. PICK value \in Int : value = (r.value * 8) \div 5
      BY DEF Readings
    <3>3. [r EXCEPT !.value = value] \in Readings
      BY DEF Readings
    <3>4. feed' = [feed EXCEPT ![i] = [r EXCEPT !.value = value]]
      BY <2>4, <3>1, <3>2 DEF Spike
    <3> QED
      BY <2>4, <3>3, <3>4, ReplacedIsFeed DEF Spike
  <2>5. ASSUME NEW i \in DOMAIN feed, NEW nudge \in Nudge, Correct(i, nudge)
        PROVE  MeterInv'
    <3>1. PICK r \in Readings : r = feed[i]
      OBVIOUS
    <3>2. r.value \in Int /\ nudge \in Int
      BY DeltasAssumption DEF Readings
    <3>3. PICK value \in Int :
            value = IF r.value + nudge < 0 THEN 0 ELSE r.value + nudge
      BY <3>2
    <3>4. PICK moved \in Int : moved = Abs(value - r.value)
      BY <3>2 DEF Abs
    <3>5. [r EXCEPT !.value = value, !.moved = moved] \in Readings
      BY DEF Readings
    <3>6. feed' = [feed EXCEPT ![i] = [r EXCEPT !.value = value, !.moved = moved]]
      BY <2>5, <3>1, <3>3, <3>4 DEF Correct
    <3>7. feed' \in Seq(Readings)
      BY <3>5, <3>6, ReplacedIsFeed
    <3>8. UNCHANGED <<clock, total, base>>
      BY <2>5 DEF Correct
    <3> QED
      BY <3>7, <3>8
  <2>6. CASE UNCHANGED meterVars
    BY <2>6 DEF meterVars
  <2> QED
    BY <2>1, <2>2, <2>3, <2>4, <2>5, <2>6 DEF MeterNext
<1> QED
  BY <1>1, <1>2, PTL DEF MeterSpec

\* Whatever was consumed, missed, corrected, reset or corrupted, and whatever
\* the percentiles of the steps are: no consumption is negative.
THEOREM NothingIsNegative == MeterSpec => []NonNegative
<1>1. MeterInv => NonNegative
  <2> DEFINE median == Median
             p95 == P95
  <2> SUFFICES ASSUME MeterInv, NEW i \in DOMAIN feed,
                      NEW c \in Consumption(i, p95, median)
               PROVE  c >= 0
    BY DEF NonNegative
  <2> HIDE DEF median, p95
  <2> DEFINE kind == Kind(i, p95, median)
  <2>1. \/ kind = "rollover" /\ c = Wrapped(i)
        \/ kind = "correction" /\ c = 0
        \/ kind = "forward" /\ c = Delta(i)
    BY DEF Consumption, Kind
  <2>2. kind = "rollover" => Wrapped(i) > 0
    BY DEF Kind, Rolled
  <2>3. i > 1 => Delta(i) \in Int /\ Wrapped(i) \in Int
    <3> SUFFICES ASSUME i > 1 PROVE Delta(i) \in Int /\ Wrapped(i) \in Int
      OBVIOUS
    <3>1. i - 1 \in DOMAIN feed
      BY DEF MeterInv
    <3>2. feed[i] \in Readings /\ feed[i - 1] \in Readings
      BY <3>1 DEF MeterInv
    <3>3. feed[i].value \in Int /\ feed[i - 1].value \in Int
      BY <3>2 DEF Readings
    <3> QED
      BY <3>3, DeltasAssumption DEF Delta, Wrapped
  <2>4. i # 1 => i > 1
    BY DEF MeterInv
  <2>5. kind = "rollover" => i # 1
    BY DEF Kind
  <2>6. kind = "forward" => i # 1 /\ ~(Delta(i) < 0)
    BY DEF Kind
  <2> HIDE DEF kind
  <2> QED
    BY <2>1, <2>2, <2>3, <2>4, <2>5, <2>6
<1> QED
  BY <1>1, MeterInductive, PTL

-----------------------------------------------------------------------------
(* Deltas: what the readings of a meter show.                              *)

Mishaps == [missed : Nat, corrected : Nat, reset : Nat, spikes : Nat]

Used(i) == feed[i].truth - feed[i - 1].truth

\* Readings come in time order, as far apart as readings were missed, and what
\* was consumed between them is what that many intervals can consume.
Paced(e) ==
  /\ \A i \in Steps : /\ 1 <= Span(i) /\ Span(i) <= mishaps.missed + 1
                      /\ 0 <= Used(i) /\ Used(i) <= e * Span(i)
  /\ feed # <<>> =>
       /\ feed[Len(feed)].at <= clock
       /\ clock - feed[Len(feed)].at <= mishaps.missed
       /\ feed[Len(feed)].truth <= total
       /\ total - feed[Len(feed)].truth <= e * (clock - feed[Len(feed)].at)

\* What a register of this width shows.
Dial(n) == n % RegisterMax

\* A reading shows the register, give or take what a correction moved it by.
Near(start, r, m) ==
  /\ 0 <= r.moved /\ r.moved <= m
  /\ r.value - Dial(start + r.truth) <= r.moved
  /\ Dial(start + r.truth) - r.value <= r.moved

Exact(m) ==
  mishaps.reset + mishaps.spikes = 0 =>
    \A i \in DOMAIN feed : Near(base, feed[i], m)

SeriesInv(e, m) ==
  /\ MeterInv
  /\ mishaps \in Mishaps
  /\ mishaps.missed <= MaxMissed
  /\ Paced(e)
  /\ Exact(m)

LEMMA StepPlaces ==
  ASSUME MeterInv
  PROVE  /\ \A i \in DOMAIN feed :
              /\ feed[i] \in Readings
              /\ feed[i].at \in Int /\ feed[i].value \in Int
              /\ feed[i].truth \in Int /\ feed[i].moved \in Int
         /\ \A i \in Steps : i \in DOMAIN feed /\ i - 1 \in DOMAIN feed
         /\ \A i \in Steps : /\ Span(i) \in Int /\ Used(i) \in Int
                             /\ Delta(i) \in Int /\ Wrapped(i) \in Int
<1>1. \A i \in DOMAIN feed : feed[i] \in Readings
  BY DEF MeterInv
<1>2. \A i \in DOMAIN feed : /\ feed[i].at \in Int /\ feed[i].value \in Int
                             /\ feed[i].truth \in Int /\ feed[i].moved \in Int
  BY <1>1 DEF Readings
<1>3. \A i \in Steps : i \in DOMAIN feed /\ i - 1 \in DOMAIN feed
  BY DEF MeterInv, Steps
<1>4. RegisterMax \in Int
  BY DeltasAssumption
<1> QED
  BY <1>1, <1>2, <1>3, <1>4 DEF Span, Used, Delta, Wrapped

LEMMA OneMoreInterval ==
  ASSUME NEW e \in Int, NEW n \in Int
  PROVE  e * (n + 1) = e * n + e
OBVIOUS

\* An interval ends with a reading.
Reads(x, r) ==
  /\ Consume(x)
  /\ r.at = clock' /\ r.truth = total'
  /\ feed' = Append(feed, r)
  /\ mishaps'.missed = mishaps.missed

\* A reading at the end of an interval keeps the pace.
LEMMA ReportKeepsPace ==
  ASSUME NEW e \in Nat, Paced(e), MeterInv, mishaps \in Mishaps,
         NEW x \in Energy, x <= e, NEW r \in Readings, Reads(x, r)
  PROVE  Paced(e)'
<1>1. PICK n \in Nat : n = Len(feed) /\ feed \in Seq(Readings)
  BY DEF MeterInv
<1>2. Len(feed') = n + 1 /\ feed'[n + 1] = r
      /\ \A i \in 1 .. n : feed'[i] = feed[i]
  BY <1>1 DEF Reads
<1>3. /\ clock \in Int /\ total \in Int /\ x \in Nat
      /\ clock' = clock + 1 /\ total' = total + x
  BY DeltasAssumption DEF MeterInv, Consume, Reads
<1>4. r.at = clock + 1 /\ r.truth = total + x
  BY <1>3 DEF Reads
<1>5. mishaps.missed \in Nat /\ mishaps'.missed = mishaps.missed
  BY DEF Mishaps, Reads
<1>6. e * (clock' - r.at) = 0
  BY <1>3, <1>4
<1>7. CASE n = 0
  <2>1. Steps' = {}
    BY <1>2, <1>7 DEF Steps
  <2> QED
    BY <1>2, <1>3, <1>4, <1>5, <1>6, <1>7, <2>1 DEF Paced
<1>8. CASE n > 0
  <2>1. PICK k \in Nat : k = n + 1 /\ k - 1 = n
    BY <1>1
  <2>2. n \in DOMAIN feed /\ feed # <<>>
    BY <1>1, <1>8
  <2>3. PICK p \in Readings : p = feed[n]
    BY <2>2, StepPlaces
  <2>4. p.at \in Int /\ p.truth \in Int
    BY DEF Readings
  <2>5. /\ p.at <= clock /\ clock - p.at <= mishaps.missed
        /\ p.truth <= total /\ total - p.truth <= e * (clock - p.at)
    BY <1>1, <2>2, <2>3 DEF Paced
  <2>6. feed'[k] = r /\ feed'[k - 1] = p
    BY <1>2, <1>8, <2>1, <2>3
  <2>7. Span(k)' = clock + 1 - p.at /\ Used(k)' = total + x - p.truth
    BY <1>3, <1>4, <2>4, <2>6 DEF Span, Used
  <2>8. PICK t \in Int, u \in Int : t = clock - p.at /\ u = e * t
    BY <1>3, <2>4
  <2>9. Span(k)' = t + 1 /\ e * (t + 1) = u + e
    BY <1>3, <2>4, <2>7, <2>8, OneMoreInterval
  <2>10. 0 <= t /\ t <= mishaps.missed /\ total - p.truth <= u
    BY <1>3, <2>4, <2>5, <2>8
  <2>11. 0 <= Used(k)' /\ Used(k)' <= u + e
    BY <1>3, <2>4, <2>5, <2>7, <2>10
  <2>12. /\ 1 <= Span(k)' /\ Span(k)' <= mishaps'.missed + 1
         /\ 0 <= Used(k)' /\ Used(k)' <= e * Span(k)'
    BY <1>5, <2>9, <2>10, <2>11
  <2>13. ASSUME NEW i \in 2 .. n
         PROVE  /\ 1 <= Span(i)' /\ Span(i)' <= mishaps'.missed + 1
                /\ 0 <= Used(i)' /\ Used(i)' <= e * Span(i)'
    <3>1. i \in Steps
      BY <1>1 DEF Steps
    <3>2. /\ 1 <= Span(i) /\ Span(i) <= mishaps.missed + 1
          /\ 0 <= Used(i) /\ Used(i) <= e * Span(i)
      BY <3>1 DEF Paced
    <3>3. Span(i)' = Span(i) /\ Used(i)' = Used(i)
      BY <1>1, <1>2 DEF Span, Used
    <3> QED
      BY <1>5, <3>2, <3>3
  <2>14. \A i \in Steps' : i \in 2 .. n \/ i = k
    BY <1>1, <1>2, <2>1 DEF Steps
  <2> QED
    BY <1>2, <1>3, <1>4, <1>5, <1>6, <2>12, <2>13, <2>14 DEF Paced
<1> QED
  BY <1>1, <1>7, <1>8

\* So does an interval whose reading is never sent.
LEMMA MissKeepsPace ==
  ASSUME NEW e \in Nat, Paced(e), MeterInv, mishaps \in Mishaps,
         mishaps' \in Mishaps, mishaps'.missed = mishaps.missed + 1,
         NEW x \in Energy, x <= e, Consume(x), feed' = feed
  PROVE  Paced(e)'
<1>1. /\ clock \in Int /\ total \in Int /\ x \in Nat
      /\ clock' = clock + 1 /\ total' = total + x
  BY DeltasAssumption DEF MeterInv, Consume
<1>2. mishaps.missed \in Nat
  BY DEF Mishaps
<1>3. \A i \in Steps : /\ 1 <= Span(i) /\ Span(i) <= mishaps'.missed + 1
                       /\ 0 <= Used(i) /\ Used(i) <= e * Span(i)
  <2> SUFFICES ASSUME NEW i \in Steps
               PROVE  /\ 1 <= Span(i) /\ Span(i) <= mishaps'.missed + 1
                      /\ 0 <= Used(i) /\ Used(i) <= e * Span(i)
    OBVIOUS
  <2>1. /\ 1 <= Span(i) /\ Span(i) <= mishaps.missed + 1
        /\ 0 <= Used(i) /\ Used(i) <= e * Span(i)
    BY DEF Paced
  <2>2. Span(i) \in Int
    BY StepPlaces
  <2> QED
    BY <1>2, <2>1, <2>2
<1>4. Steps' = Steps /\ \A i \in Steps : Span(i)' = Span(i) /\ Used(i)' = Used(i)
  BY DEF Steps, Span, Used
<1>5. ASSUME feed # <<>>
      PROVE  /\ feed[Len(feed)].at <= clock'
             /\ clock' - feed[Len(feed)].at <= mishaps'.missed
             /\ feed[Len(feed)].truth <= total'
             /\ total' - feed[Len(feed)].truth <= e * (clock' - feed[Len(feed)].at)
  <2>1. PICK n \in DOMAIN feed : n = Len(feed)
    BY <1>5 DEF MeterInv
  <2>2. PICK at \in Int, truth \in Int :
          at = feed[n].at /\ truth = feed[n].truth
    BY StepPlaces
  <2>3. /\ at <= clock /\ clock - at <= mishaps.missed
        /\ truth <= total /\ total - truth <= e * (clock - at)
    BY <1>5, <2>1, <2>2 DEF Paced
  <2>4. PICK k \in Int : k = clock - at
    BY <1>1, <2>2
  <2>5. PICK u \in Int : u = e * k
    BY <2>4
  <2>6. total - truth <= u
    BY <2>3, <2>4, <2>5
  <2>7. clock' - at = k + 1 /\ at <= clock' /\ clock' - at <= mishaps'.missed
    BY <1>1, <1>2, <2>2, <2>3, <2>4
  <2>8. e * (k + 1) = u + e
    BY <2>4, <2>5, OneMoreInterval
  <2>9. truth <= total' /\ total' - truth <= u + e
    BY <1>1, <2>2, <2>3, <2>5, <2>6
  <2>10. total' - truth <= e * (clock' - at)
    BY <2>7, <2>8, <2>9
  <2> QED
    BY <2>1, <2>2, <2>7, <2>9, <2>10
<1> QED
  BY <1>3, <1>4, <1>5 DEF Paced

\* What changes no time and no truth changes no pace.
LEMMA AlterKeepsPace ==
  ASSUME NEW e \in Nat, Paced(e), MeterInv, UNCHANGED <<clock, total>>,
         mishaps'.missed = mishaps.missed, Len(feed') = Len(feed),
         \A i \in DOMAIN feed : /\ feed'[i].at = feed[i].at
                                /\ feed'[i].truth = feed[i].truth,
         feed' = <<>> <=> feed = <<>>
  PROVE  Paced(e)'
<1>1. Steps' = Steps
  BY DEF Steps
<1>2. \A i \in Steps : Span(i)' = Span(i) /\ Used(i)' = Used(i)
  BY StepPlaces DEF Span, Used
<1>3. feed # <<>> => Len(feed) \in DOMAIN feed
  BY DEF MeterInv
<1>4. \A i \in Steps : /\ 1 <= Span(i) /\ Span(i) <= mishaps.missed + 1
                       /\ 0 <= Used(i) /\ Used(i) <= e * Span(i)
  BY DEF Paced
<1> QED
  BY <1>1, <1>2, <1>3, <1>4 DEF Paced

\* What goes wrong is counted.
LEMMA HappensCounts ==
  ASSUME mishaps \in Mishaps, NEW max,
         NEW kind \in {"missed", "corrected", "reset", "spikes"},
         Happens(kind, max)
  PROVE  /\ mishaps' \in Mishaps
         /\ kind # "missed" => mishaps'.missed = mishaps.missed
         /\ kind = "missed" => /\ mishaps'.missed = mishaps.missed + 1
                               /\ mishaps.missed < max
         /\ kind \in {"reset", "spikes"} => mishaps'.reset + mishaps'.spikes # 0
         /\ kind \notin {"reset", "spikes"} =>
              mishaps'.reset + mishaps'.spikes = mishaps.reset + mishaps.spikes
<1>1. PICK a \in Nat, b \in Nat, c \in Nat, d \in Nat :
        mishaps = [missed |-> a, corrected |-> b, reset |-> c, spikes |-> d]
  BY DEF Mishaps
<1>2. CASE kind = "missed"
  BY <1>1, <1>2 DEF Happens, Mishaps
<1>3. CASE kind = "corrected"
  BY <1>1, <1>3 DEF Happens, Mishaps
<1>4. CASE kind = "reset"
  BY <1>1, <1>4 DEF Happens, Mishaps
<1>5. CASE kind = "spikes"
  BY <1>1, <1>5 DEF Happens, Mishaps
<1> QED
  BY <1>2, <1>3, <1>4, <1>5

LEMMA DialIsShown ==
  ASSUME NEW n \in Int
  PROVE  Dial(n) \in Nat /\ Dial(n) < RegisterMax
BY DeltasAssumption DEF Dial

\* The register is reported as it is.
LEMMA ReadingIsNear ==
  ASSUME NEW start \in Int, NEW at \in Int, NEW truth \in Int, NEW m \in Nat
  PROVE  Near(start, Reading(at, start + truth, truth), m)
<1>1. PICK dial \in Nat : dial = Dial(start + truth)
  BY DialIsShown
<1>2. PICK r : r = Reading(at, start + truth, truth)
  OBVIOUS
<1>3. r = [at |-> at, value |-> dial, truth |-> truth, moved |-> 0]
  BY <1>1, <1>2 DEF Reading, Dial
<1>4. r.value = dial /\ r.truth = truth /\ r.moved = 0
  BY <1>3
<1>5. Near(start, r, m)
  BY <1>1, <1>4 DEF Near
<1> QED
  BY <1>2, <1>5

\* A correction of a reading that shows the register.
LEMMA CorrectedIsNear ==
  ASSUME NEW start \in Int, NEW m \in Nat, NEW r \in Readings, Near(start, r, m),
         r.moved = 0, NEW nudge \in Int, -m <= nudge, nudge <= m,
         NEW value \in Int,
         value = IF r.value + nudge < 0 THEN 0 ELSE r.value + nudge
  PROVE  Near(start, [r EXCEPT !.value = value, !.moved = Abs(value - r.value)], m)
<1>1. PICK dial \in Nat : dial = Dial(start + r.truth)
  BY DialIsShown DEF Readings
<1>2. r.value \in Int /\ r.value = dial
  BY <1>1 DEF Near, Readings
<1>3. PICK moved \in Nat : /\ moved = Abs(value - r.value)
                           /\ moved <= m
                           /\ value - dial <= moved /\ dial - value <= moved
  <2>1. PICK v \in Int : v = value - r.value
    BY <1>2
  <2>2. v <= m /\ -m <= v /\ v = value - dial
    BY <1>2, <2>1
  <2> QED
    BY <2>1, <2>2 DEF Abs
<1>4. PICK new : new = [r EXCEPT !.value = value, !.moved = moved]
  OBVIOUS
<1>5. new.value = value /\ new.moved = moved /\ new.truth = r.truth
  BY <1>4 DEF Readings
<1>6. Near(start, new, m)
  BY <1>1, <1>3, <1>5 DEF Near
<1> QED
  BY <1>3, <1>4, <1>6

\* A reading that shows the register is one more reading that does.
LEMMA ReportStaysExact ==
  ASSUME NEW m \in Nat, MeterInv, Exact(m), NEW r \in Readings, Near(base, r, m),
         feed' = Append(feed, r), base' = base, mishaps' = mishaps
  PROVE  Exact(m)'
<1> SUFFICES ASSUME mishaps.reset + mishaps.spikes = 0, NEW i \in DOMAIN feed'
             PROVE  Near(base', feed'[i], m)
  BY DEF Exact
<1>1. PICK n \in Nat : n = Len(feed) /\ feed \in Seq(Readings)
  BY DEF MeterInv
<1>2. i \in DOMAIN feed \/ i = n + 1
  BY <1>1
<1>3. CASE i \in DOMAIN feed
  <2>1. feed'[i] = feed[i]
    BY <1>1, <1>3
  <2>2. Near(base, feed[i], m)
    BY <1>3 DEF Exact
  <2> QED
    BY <2>1, <2>2
<1>4. CASE i = n + 1
  <2>1. feed'[i] = r
    BY <1>1, <1>4
  <2> QED
    BY <2>1
<1> QED
  BY <1>2, <1>3, <1>4

\* So is one that is corrected, when it had not been yet.
LEMMA CorrectStaysExact ==
  ASSUME NEW m \in Nat, MeterInv, Exact(m), NEW i \in DOMAIN feed,
         NEW nudge \in Nudge, Correct(i, nudge), -m <= nudge, nudge <= m,
         mishaps'.reset + mishaps'.spikes = mishaps.reset + mishaps.spikes
  PROVE  Exact(m)'
<1> SUFFICES ASSUME mishaps.reset + mishaps.spikes = 0, NEW j \in DOMAIN feed'
             PROVE  Near(base', feed'[j], m)
  BY DEF Exact
<1>1. PICK r \in Readings : r = feed[i]
  BY DEF MeterInv
<1>2. r.value \in Int /\ nudge \in Int
  BY DeltasAssumption DEF Readings
<1>3. PICK value \in Int :
        value = IF r.value + nudge < 0 THEN 0 ELSE r.value + nudge
  BY <1>2
<1>4. PICK new : new = [r EXCEPT !.value = value, !.moved = Abs(value - r.value)]
  OBVIOUS
<1>5. /\ r.moved = 0 /\ base' = base /\ DOMAIN feed' = DOMAIN feed
      /\ feed'[i] = new
      /\ \A k \in DOMAIN feed : k # i => feed'[k] = feed[k]
  BY <1>1, <1>3, <1>4 DEF Correct, MeterInv
<1>6. \A k \in DOMAIN feed : Near(base, feed[k], m)
  BY DEF Exact
<1>7. Near(base, r, m)
  BY <1>1, <1>6
<1>8. base \in Int
  BY DEF MeterInv
<1>9. Near(base, [r EXCEPT !.value = value, !.moved = Abs(value - r.value)], m)
  BY <1>2, <1>3, <1>5, <1>7, <1>8, CorrectedIsNear
<1> QED
  BY <1>4, <1>5, <1>6, <1>9

\* One action of the meter, with its bounds.
LEMMA SeriesStep ==
  ASSUME NEW e \in Nat, NEW m \in Nat, SeriesInv(e, m), MeterInv', MeterNext,
         \A x \in Energy : x <= e, \A n \in Nudge : -m <= n /\ n <= m
  PROVE  SeriesInv(e, m)'
<1> USE DEF SeriesInv
<1>0. /\ MeterInv /\ mishaps \in Mishaps /\ mishaps.missed <= MaxMissed
      /\ Paced(e) /\ Exact(m) /\ MaxMissed \in Nat /\ Energy \subseteq Nat
      /\ Nudge \subseteq Int /\ AfterReset \subseteq Nat
  BY DeltasAssumption
<1> HIDE DEF SeriesInv
<1>1. ASSUME NEW x \in Energy, Report(x) PROVE SeriesInv(e, m)'
  <2>1. PICK r : r = Reading(clock', base + total', total')
    OBVIOUS
  <2>2. clock' \in Int /\ total' \in Int /\ base \in Int /\ base + total' \in Int
    BY <1>0, <1>1, ConsumeCounts DEF Report, MeterInv
  <2>3. r \in Readings /\ Near(base, r, m)
    BY <2>1, <2>2, ReadingIsReading, ReadingIsNear
  <2>4. Reads(x, r) /\ feed' = Append(feed, r) /\ UNCHANGED <<base, mishaps>>
    BY <1>1, <2>1 DEF Report, Reads, Reading
  <2>5. Paced(e)'
    BY <1>0, <2>3, <2>4, ReportKeepsPace
  <2>6. Exact(m)'
    BY <1>0, <2>3, <2>4, ReportStaysExact
  <2> QED
    BY <1>0, <2>4, <2>5, <2>6 DEF SeriesInv
<1>2. ASSUME NEW x \in Energy, Miss(x) PROVE SeriesInv(e, m)'
  <2>1. Consume(x) /\ Happens("missed", MaxMissed) /\ UNCHANGED <<base, feed>>
    BY <1>2 DEF Miss
  <2>2. /\ mishaps' \in Mishaps
        /\ mishaps'.missed = mishaps.missed + 1 /\ mishaps.missed < MaxMissed
        /\ mishaps'.reset + mishaps'.spikes = mishaps.reset + mishaps.spikes
    BY <1>0, <2>1, HappensCounts
  <2>3. mishaps'.missed <= MaxMissed
    BY <1>0, <2>2 DEF Mishaps
  <2>4. Paced(e)'
    BY <1>0, <2>1, <2>2, MissKeepsPace
  <2>5. Exact(m)'
    BY <1>0, <2>1, <2>2 DEF Exact, Near
  <2> QED
    BY <2>2, <2>3, <2>4, <2>5 DEF SeriesInv
<1>3. ASSUME NEW x \in Energy, NEW register \in AfterReset, Reset(x, register)
      PROVE  SeriesInv(e, m)'
  <2>1. PICK r : r = Reading(clock', register, total')
    OBVIOUS
  <2>2. clock' \in Int /\ total' \in Int /\ register \in Int
    BY <1>0, <1>3, ConsumeCounts DEF Reset
  <2>3. r \in Readings
    BY <2>1, <2>2, ReadingIsReading
  <2>4. /\ mishaps' \in Mishaps /\ mishaps'.missed = mishaps.missed
        /\ mishaps'.reset + mishaps'.spikes # 0
    BY <1>0, <1>3, HappensCounts DEF Reset
  <2>5. Reads(x, r)
    BY <1>3, <2>1, <2>4 DEF Reset, Reads, Reading
  <2>6. Paced(e)'
    BY <1>0, <2>3, <2>5, ReportKeepsPace
  <2>7. Exact(m)'
    BY <2>4 DEF Exact
  <2> QED
    BY <1>0, <2>4, <2>6, <2>7 DEF SeriesInv
<1>4. ASSUME NEW i \in DOMAIN feed, Spike(i) PROVE SeriesInv(e, m)'
  <2>1. /\ mishaps' \in Mishaps /\ mishaps'.missed = mishaps.missed
        /\ mishaps'.reset + mishaps'.spikes # 0
    BY <1>0, <1>4, HappensCounts DEF Spike
  <2>2. /\ UNCHANGED <<clock, total>> /\ Len(feed') = Len(feed)
        /\ \A k \in DOMAIN feed : /\ feed'[k].at = feed[k].at
                                  /\ feed'[k].truth = feed[k].truth
    <3>1. PICK r \in Readings : r = feed[i]
      BY <1>0, StepPlaces
    <3>2. feed \in Seq(Readings)
      BY <1>0 DEF MeterInv
    <3>3. feed' = [feed EXCEPT ![i] = [r EXCEPT !.value = (r.value * 8) \div 5]]
      BY <1>4, <3>1, <3>2 DEF Spike
    <3>4. feed'[i].at = r.at /\ feed'[i].truth = r.truth
      BY <3>1, <3>2, <3>3 DEF Readings
    <3> QED
      BY <1>4, <3>1, <3>2, <3>3, <3>4 DEF Spike
  <2>3. feed' = <<>> <=> feed = <<>>
    BY <1>0, <2>2 DEF MeterInv
  <2>4. Paced(e)'
    BY <1>0, <2>1, <2>2, <2>3, AlterKeepsPace
  <2>5. Exact(m)'
    BY <2>1 DEF Exact
  <2> QED
    BY <1>0, <2>1, <2>4, <2>5 DEF SeriesInv
<1>5. ASSUME NEW i \in DOMAIN feed, NEW nudge \in Nudge, Correct(i, nudge)
      PROVE  SeriesInv(e, m)'
  <2>1. /\ mishaps' \in Mishaps /\ mishaps'.missed = mishaps.missed
        /\ mishaps'.reset + mishaps'.spikes = mishaps.reset + mishaps.spikes
    BY <1>0, <1>5, HappensCounts DEF Correct
  <2>2. /\ UNCHANGED <<clock, total>> /\ Len(feed') = Len(feed)
        /\ \A k \in DOMAIN feed : /\ feed'[k].at = feed[k].at
                                  /\ feed'[k].truth = feed[k].truth
    <3>1. PICK r \in Readings : r = feed[i]
      BY <1>0, StepPlaces
    <3>2. feed \in Seq(Readings)
      BY <1>0 DEF MeterInv
    <3>3. PICK value, moved :
            feed' = [feed EXCEPT ![i] = [r EXCEPT !.value = value, !.moved = moved]]
      BY <1>5, <3>1, <3>2 DEF Correct
    <3>4. feed'[i].at = r.at /\ feed'[i].truth = r.truth
      BY <3>1, <3>2, <3>3 DEF Readings
    <3> QED
      BY <1>5, <3>1, <3>2, <3>3, <3>4 DEF Correct
  <2>3. feed' = <<>> <=> feed = <<>>
    BY <1>0, <2>2 DEF MeterInv
  <2>4. Paced(e)'
    BY <1>0, <2>1, <2>2, <2>3, AlterKeepsPace
  <2>5. Exact(m)'
    BY <1>0, <1>5, <2>1, CorrectStaysExact
  <2> QED
    BY <1>0, <2>1, <2>4, <2>5 DEF SeriesInv
<1> QED
  BY <1>1, <1>2, <1>3, <1>4, <1>5 DEF MeterNext

LEMMA SeriesInductive ==
  ASSUME NEW e \in Nat, NEW m \in Nat,
         \A x \in Energy : x <= e, \A n \in Nudge : -m <= n /\ n <= m
  PROVE  MeterSpec => []SeriesInv(e, m)
<1>1. MeterInit => SeriesInv(e, m)
  <2> SUFFICES ASSUME MeterInit PROVE SeriesInv(e, m)
    OBVIOUS
  <2>1. MeterInv /\ feed = <<>> /\ Steps = {}
    BY DeltasAssumption DEF MeterInit, MeterInv, Steps
  <2>2. mishaps \in Mishaps /\ mishaps.missed <= MaxMissed
    BY DeltasAssumption DEF MeterInit, Mishaps
  <2> QED
    BY <2>1, <2>2 DEF SeriesInv, Paced, Exact
<1>2. SeriesInv(e, m) /\ MeterInv' /\ [MeterNext]_meterVars => SeriesInv(e, m)'
  <2>1. CASE UNCHANGED meterVars
    BY <2>1 DEF meterVars, SeriesInv, MeterInv, Paced, Exact, Near, Steps, Span, Used
  <2>2. CASE MeterNext
    BY <2>2, SeriesStep
  <2> QED
    BY <2>1, <2>2
<1> QED
  BY <1>1, <1>2, MeterInductive, PTL DEF MeterSpec

-----------------------------------------------------------------------------
(* Deltas: the percentile of steps that are bounded is bounded.            *)

\* Counting what comes before a step numbers the steps.
LEMMA BelowGrows ==
  ASSUME NEW S \in SUBSET Nat, IsFiniteSet(S), \A i \in S : Delta(i) \in Int
  PROVE  /\ \A i \in S : Cardinality(Below(i, S)) \in 0 .. Cardinality(S) - 1
         /\ \A i, j \in S : i # j =>
              Cardinality(Below(i, S)) # Cardinality(Below(j, S))
<1>1. \A i \in S : /\ Below(i, S) \in SUBSET S /\ i \notin Below(i, S)
                   /\ IsFiniteSet(Below(i, S))
                   /\ Cardinality(Below(i, S)) \in Nat
  <2> SUFFICES ASSUME NEW i \in S
               PROVE  /\ Below(i, S) \in SUBSET S /\ i \notin Below(i, S)
                      /\ IsFiniteSet(Below(i, S))
                      /\ Cardinality(Below(i, S)) \in Nat
    OBVIOUS
  <2>1. Below(i, S) \in SUBSET S
    BY DEF Below
  <2>2. i \in Nat /\ Delta(i) \in Int
    OBVIOUS
  <2>3. i \notin Below(i, S)
    BY <2>2 DEF Below
  <2> QED
    BY <2>1, <2>3, FS_Subset, FS_CardinalityType
<1>2. Cardinality(S) \in Nat
  BY FS_CardinalityType
<1>3. ASSUME NEW i \in S
      PROVE  Cardinality(Below(i, S)) \in 0 .. Cardinality(S) - 1
  <2>1. /\ Cardinality(Below(i, S)) <= Cardinality(S)
        /\ Cardinality(S) = Cardinality(Below(i, S)) => S = Below(i, S)
    BY <1>1, FS_Subset
  <2>2. S # Below(i, S)
    BY <1>1
  <2> QED
    BY <1>1, <1>2, <2>1, <2>2
<1>4. ASSUME NEW i \in S, NEW j \in S,
             Delta(i) < Delta(j) \/ (Delta(i) = Delta(j) /\ i < j)
      PROVE  Cardinality(Below(i, S)) # Cardinality(Below(j, S))
  <2>1. i \in Nat /\ j \in Nat /\ \A k \in S : k \in Nat /\ Delta(k) \in Int
    OBVIOUS
  <2>2. \A k \in S : (Delta(k) < Delta(i) \/ (Delta(k) = Delta(i) /\ k < i)) =>
                     (Delta(k) < Delta(j) \/ (Delta(k) = Delta(j) /\ k < j))
    BY <1>4, <2>1
  <2>3. Below(i, S) \in SUBSET Below(j, S) /\ i \in Below(j, S)
    BY <1>4, <2>2 DEF Below
  <2>4. Below(j, S) # Below(i, S)
    BY <1>1, <2>3
  <2>5. Cardinality(Below(j, S)) = Cardinality(Below(i, S)) => Below(j, S) = Below(i, S)
    BY <1>1, <2>3, FS_Subset
  <2> QED
    BY <2>4, <2>5
<1>5. \A i, j \in S : i # j => \/ Delta(i) < Delta(j) \/ (Delta(i) = Delta(j) /\ i < j)
                               \/ Delta(j) < Delta(i) \/ (Delta(j) = Delta(i) /\ j < i)
  <2>1. \A i \in S : i \in Nat /\ Delta(i) \in Int
    OBVIOUS
  <2> QED
    BY <2>1
<1> QED
  BY <1>3, <1>4, <1>5

\* Every number below that of the steps is the number of one of them.
LEMMA NthIsOfAStep ==
  ASSUME NEW S \in SUBSET Nat, IsFiniteSet(S), \A i \in S : Delta(i) \in Int,
         NEW k \in 0 .. Cardinality(S) - 1
  PROVE  \E i \in S : Nth(k, S) = Delta(i)
<1> DEFINE n == Cardinality(S)
           f == [i \in S |-> Cardinality(Below(i, S))]
<1>1. n \in Nat
  BY FS_CardinalityType
<1>2. f \in [S -> 0 .. n - 1] /\ \A i, j \in S : f[i] = f[j] => i = j
  BY BelowGrows
<1>3. f \in Injection(S, 0 .. n - 1)
  BY <1>2 DEF Injection, IsInjective
<1>4. IsFiniteSet(0 .. n - 1) /\ Cardinality(0 .. n - 1) = n
  <2> HIDE DEF n
  <2>1. n - 1 \in Int /\ 0 \in Int
    BY <1>1
  <2>2. /\ IsFiniteSet(0 .. n - 1)
        /\ Cardinality(0 .. n - 1) = IF 0 > n - 1 THEN 0 ELSE (n - 1) - 0 + 1
    BY <2>1, FS_Interval
  <2> QED
    BY <1>1, <2>2
<1>5. f \in Surjection(S, 0 .. n - 1)
  BY <1>3, <1>4, FS_Injection
<1>6. \E i \in S : f[i] = k
  BY <1>5 DEF Surjection
<1>7. \E i \in S : Cardinality(Below(i, S)) = k
  BY <1>6
<1> QED
  BY <1>7 DEF Nth

LEMMA PartOfProduct ==
  ASSUME NEW p \in 0 .. 20, NEW d \in Nat
  PROVE  0 <= p * d /\ p * d <= 20 * d
OBVIOUS

\* What lies between two values does not exceed either.
LEMMA Between ==
  ASSUME NEW p \in 0 .. 20, NEW B \in Nat, NEW x \in 0 .. B, NEW y \in 0 .. B
  PROVE  20 * x + p * (y - x) \in 0 .. 20 * B
<1>1. CASE x <= y
  <2>1. PICK d \in Nat : d = y - x
    BY <1>1
  <2>2. PICK q \in Int : q = p * d
    BY <2>1
  <2>3. 0 <= q /\ q <= 20 * d
    BY <2>2, PartOfProduct
  <2> QED
    BY <2>1, <2>2, <2>3
<1>2. CASE y < x
  <2>1. PICK d \in Nat : d = x - y /\ y - x = -d
    BY <1>2
  <2>2. PICK q \in Int : q = p * d
    BY <2>1
  <2>3. 0 <= q /\ q <= 20 * d
    BY <2>2, PartOfProduct
  <2>4. p * (y - x) = -q
    BY <2>1, <2>2
  <2> QED
    BY <2>1, <2>3, <2>4
<1> QED
  BY <1>1, <1>2

LEMMA QuotientAndRest ==
  ASSUME NEW a \in Nat
  PROVE  \E k \in Nat, p \in 0 .. 19 :
           k = a \div 20 /\ p = a % 20 /\ a = 20 * k + p
<1>1. PICK k \in Nat : k = a \div 20
  OBVIOUS
<1>2. PICK p \in 0 .. 19 : p = a % 20
  OBVIOUS
<1>3. a = 20 * k + p
  BY <1>1, <1>2
<1> QED
  BY <1>1, <1>2, <1>3

\* The meter_scale of a series whose forward steps are at most B is at most B.
LEMMA ScaleIsBounded ==
  ASSUME MeterInv, NEW B \in Nat, \A i \in Forward : Delta(i) <= B
  PROVE  P95 \in 0 .. 20 * B
<1>1. PICK S : /\ S = {i \in Forward : Median <= 0 \/ 20 * Delta(i) <= 100 * Median}
               /\ P95 = Percentile(19, S)
  BY DEF P95
<1>2. S \subseteq Forward /\ S \subseteq Steps /\ S \subseteq Nat
  BY <1>1 DEF Forward, Steps, MeterInv
<1>3. \A i \in S : Delta(i) \in 0 .. B
  <2> SUFFICES ASSUME NEW i \in S PROVE Delta(i) \in 0 .. B
    OBVIOUS
  <2>1. i \in Forward /\ i \in Steps
    BY <1>2
  <2>2. Delta(i) \in Int
    BY <2>1, StepPlaces
  <2> QED
    BY <2>1, <2>2 DEF Forward
<1>4. IsFiniteSet(S)
  <2>1. Len(feed) \in Nat
    BY DEF MeterInv
  <2>2. IsFiniteSet(Steps)
    BY <2>1, FS_Interval DEF Steps
  <2> QED
    BY <1>2, <2>2, FS_Subset
<1>5. CASE S = {}
  BY <1>1, <1>5 DEF Percentile
<1>6. CASE S # {}
  <2>1. PICK n \in Nat : n = Cardinality(S) /\ n > 0
    BY <1>4, <1>6, FS_CardinalityType, FS_EmptySet
  <2>2. PICK place \in Nat, k \in Nat, p \in 0 .. 19 :
          /\ place = 19 * (n - 1)
          /\ k = place \div 20 /\ p = place % 20 /\ place = 20 * k + p
    <3>1. PICK place \in Nat : place = 19 * (n - 1)
      BY <2>1
    <3> QED
      BY <3>1, QuotientAndRest
  <2>3. k \in 0 .. n - 1 /\ (p # 0 => k + 1 \in 0 .. n - 1)
    <3>1. 20 * k + p = 19 * (n - 1) /\ 0 <= p
      BY <2>2
    <3>2. k <= n - 1 /\ (p # 0 => k + 1 <= n - 1)
      BY <2>1, <3>1
    <3> QED
      BY <2>1, <3>2
  <2>4. ASSUME NEW j \in 0 .. n - 1 PROVE Nth(j, S) \in 0 .. B
    <3>1. \A i \in S : Delta(i) \in Int
      BY <1>3
    <3>2. \E i \in S : Nth(j, S) = Delta(i)
      BY <1>2, <1>4, <2>1, <3>1, NthIsOfAStep
    <3> QED
      BY <1>3, <3>2
  <2>5. PICK x \in 0 .. B : x = Nth(k, S)
    BY <2>3, <2>4
  <2>6. PICK y \in 0 .. B : y = IF p = 0 THEN x ELSE Nth(k + 1, S)
    BY <2>3, <2>4
  <2>7. Percentile(19, S) = 20 * x + p * (y - x)
    BY <1>6, <2>1, <2>2, <2>5, <2>6 DEF Percentile
  <2>8. p \in 0 .. 20
    OBVIOUS
  <2> QED
    BY <1>1, <2>7, <2>8, Between
<1> QED
  BY <1>5, <1>6

-----------------------------------------------------------------------------
(* Deltas: what a step between two readings shows.                         *)

LEMMA ProductGrows ==
  ASSUME NEW a \in Nat, NEW b \in Nat, NEW x \in Nat, NEW y \in Nat,
         a <= x, b <= y
  PROVE  a * b <= x * y
<1>1. PICK j \in Nat, k \in Nat : x = a + j /\ y = b + k
  <2>1. x - a \in Nat /\ y - b \in Nat /\ x = a + (x - a) /\ y = b + (y - b)
    OBVIOUS
  <2> QED
    BY <2>1
<1>2. x * y = a * b + a * k + j * b + j * k
  BY <1>1
<1>3. PICK p \in Nat, q \in Nat, r \in Nat, s \in Nat :
        p = a * b /\ q = a * k /\ r = j * b /\ s = j * k
  OBVIOUS
<1> QED
  BY <1>2, <1>3

\* A register that less than its width is added to turns over at most once.
LEMMA DialTurns ==
  ASSUME NEW n \in Int, NEW d \in Nat, d < RegisterMax
  PROVE  \/ Dial(n + d) = Dial(n) + d
         \/ Dial(n + d) = Dial(n) + d - RegisterMax
<1>1. PICK w \in Nat : w = RegisterMax /\ w > 0
  BY DeltasAssumption
<1>2. ASSUME NEW a \in Int
      PROVE  \E k \in Int, p \in Nat : a = w * k + p /\ p < w /\ p = Dial(a)
  <2>1. PICK k \in Int : k = a \div w
    BY <1>1
  <2>2. PICK p \in Nat : p = a % w /\ p < w
    BY <1>1
  <2>3. a = w * k + p
    BY <1>1, <2>1, <2>2
  <2> QED
    BY <1>1, <2>2, <2>3 DEF Dial
<1>3. PICK k \in Int, p \in Nat : n = w * k + p /\ p < w /\ p = Dial(n)
  BY <1>2
<1>4. PICK l \in Int, q \in Nat : n + d = w * l + q /\ q < w /\ q = Dial(n + d)
  <2>1. PICK a \in Int : a = n + d
    OBVIOUS
  <2>2. \E l \in Int, q \in Nat : a = w * l + q /\ q < w /\ q = Dial(a)
    BY <1>2
  <2> QED
    BY <2>1, <2>2
<1>5. PICK t \in Int : l = k + t
  <2>1. l - k \in Int /\ l = k + (l - k)
    OBVIOUS
  <2> QED
    BY <2>1
<1>6. PICK u \in Int : u = w * t
  OBVIOUS
<1>7. w * l = w * k + u
  BY <1>5, <1>6
<1>8. u = p + d - q
  BY <1>3, <1>4, <1>7
<1>9. -w < u /\ u < 2 * w
  BY <1>1, <1>3, <1>4, <1>8
<1>10. t = 0 \/ t = 1
  <2>1. t >= 2 => u >= 2 * w
    BY <1>1, <1>6
  <2>2. t <= -1 => u <= -w
    BY <1>1, <1>6
  <2> QED
    BY <1>9, <2>1, <2>2
<1>11. u = 0 \/ u = w
  <2>1. w * 0 = 0 /\ w * 1 = w
    BY <1>1
  <2> QED
    BY <1>6, <1>10, <2>1
<1>12. q = p + d \/ q = p + d - w
  BY <1>1, <1>8, <1>11
<1>13. w = RegisterMax /\ p = Dial(n) /\ q = Dial(n + d)
  BY <1>1, <1>3, <1>4
<1> QED
  BY <1>12, <1>13

\* What corrections moved the two readings of a step by.
Moved(i) == feed[i].moved + feed[i - 1].moved

\* A number is what was consumed in a step, give or take what was moved.
Shows(n, i) == -Moved(i) <= n - Used(i) /\ n - Used(i) <= Moved(i)

\* A step shows what was consumed, but for a turn of the register.
LEMMA StepShows ==
  ASSUME NEW e \in Nat, NEW m \in Nat, SeriesInv(e, m),
         mishaps.reset + mishaps.spikes = 0,
         NEW i \in Steps, Used(i) < RegisterMax
  PROVE  /\ Moved(i) \in Nat /\ Moved(i) <= 2 * m
         /\ Shows(Delta(i), i) \/ Shows(Delta(i) + RegisterMax, i)
<1>1. MeterInv /\ Paced(e) /\ Exact(m) /\ base \in Int
  BY DEF SeriesInv, MeterInv
<1>2. i \in DOMAIN feed /\ i - 1 \in DOMAIN feed
  BY <1>1, StepPlaces
<1>3. PICK v \in Int, vt \in Int, vm \in Int :
        v = feed[i].value /\ vt = feed[i].truth /\ vm = feed[i].moved
  BY <1>1, <1>2, StepPlaces
<1>4. PICK u \in Int, ut \in Int, um \in Int :
        u = feed[i - 1].value /\ ut = feed[i - 1].truth /\ um = feed[i - 1].moved
  BY <1>1, <1>2, StepPlaces
<1>5. PICK d \in Nat : d = Used(i) /\ vt = ut + d /\ d < RegisterMax
  BY <1>1, <1>3, <1>4 DEF Used, Paced
<1>6. PICK low \in Nat : low = Dial(base + ut)
  BY <1>1, DialIsShown
<1>7. PICK high \in Nat : high = Dial(base + vt)
  BY <1>1, DialIsShown
<1>8. high = low + d \/ high = low + d - RegisterMax
  <2>1. base + ut \in Int /\ base + vt = (base + ut) + d
    BY <1>1, <1>5
  <2> QED
    BY <1>5, <1>6, <1>7, <2>1, DialTurns
<1>9. /\ 0 <= vm /\ vm <= m /\ v - high <= vm /\ high - v <= vm
      /\ 0 <= um /\ um <= m /\ u - low <= um /\ low - u <= um
  BY <1>1, <1>2, <1>3, <1>4, <1>6, <1>7 DEF Exact, Near
<1>10. PICK s \in Nat : s = vm + um /\ s = Moved(i) /\ s <= 2 * m
  BY <1>3, <1>4, <1>9 DEF Moved
<1>11. Delta(i) = v - u
  BY <1>3, <1>4 DEF Delta
<1>12. PICK w \in Nat : w = RegisterMax
  BY DeltasAssumption
<1>13. -s <= (v - u) - (high - low) /\ (v - u) - (high - low) <= s
  BY <1>9, <1>10
<1>14. CASE high = low + d
  BY <1>5, <1>10, <1>11, <1>13, <1>14 DEF Shows
<1>15. CASE high = low + d - RegisterMax
  BY <1>5, <1>10, <1>11, <1>12, <1>13, <1>15 DEF Shows
<1> QED
  BY <1>8, <1>10, <1>14, <1>15

\* Steps that are small: B is the most that one shows.
Small(e, m, g, B) ==
  /\ B = e * g + 2 * m
  /\ 10 * (B * g) + 2 * m < RegisterMax

\* A small step adds less than the width of the register.
LEMMA StepIsSmall ==
  ASSUME NEW e \in Nat, NEW m \in Nat, NEW g \in Nat, NEW B \in Nat,
         Small(e, m, g, B), SeriesInv(e, m),
         mishaps.reset + mishaps.spikes = 0, NEW i \in Steps, Span(i) <= g
  PROVE  /\ Used(i) \in Nat /\ Span(i) \in Nat /\ Delta(i) \in Int
         /\ Moved(i) \in Nat /\ Moved(i) <= 2 * m
         /\ Used(i) + Moved(i) <= B /\ B <= B * g
         /\ Shows(Delta(i), i) \/ Shows(Delta(i) + RegisterMax, i)
<1>1. MeterInv /\ Paced(e)
  BY DEF SeriesInv
<1>2. PICK t \in Nat : t = Span(i) /\ 1 <= t /\ t <= g
  BY <1>1, StepPlaces DEF Paced
<1>3. PICK d \in Nat : d = Used(i) /\ d <= e * t
  BY <1>1, <1>2, StepPlaces DEF Paced
<1>4. PICK f \in Nat : f = e * g
  OBVIOUS
<1>5. e * t <= f
  BY <1>2, <1>4, ProductGrows
<1>6. e * t \in Int
  BY <1>2
<1>7. d + 2 * m <= B
  BY <1>3, <1>4, <1>5, <1>6 DEF Small
<1>8. PICK h \in Nat : h = B * g
  OBVIOUS
<1>9. B <= h
  <2>1. B * 1 <= B * g
    BY <1>2, ProductGrows
  <2> QED
    BY <1>8, <2>1
<1>10. PICK w \in Nat : w = RegisterMax
  BY DeltasAssumption
<1>11. 10 * h + 2 * m < w
  BY <1>8, <1>10 DEF Small
<1>12. Used(i) < RegisterMax
  BY <1>3, <1>7, <1>9, <1>10, <1>11
<1>13. /\ Moved(i) \in Nat /\ Moved(i) <= 2 * m
       /\ Shows(Delta(i), i) \/ Shows(Delta(i) + RegisterMax, i)
  BY <1>12, StepShows
<1>14. Used(i) + Moved(i) <= B
  BY <1>3, <1>7, <1>13
<1>15. Delta(i) \in Int
  BY <1>1, StepPlaces
<1> QED
  BY <1>2, <1>3, <1>8, <1>9, <1>13, <1>14, <1>15

\* So is the scale of the meter, whatever is corrected: no step that turned the
\* register goes forward.
LEMMA ScaleIsSmall ==
  ASSUME NEW e \in Nat, NEW m \in Nat, NEW g \in Nat, NEW B \in Nat,
         Small(e, m, g, B), SeriesInv(e, m),
         mishaps.reset + mishaps.spikes = 0, \A i \in Steps : Span(i) <= g
  PROVE  P95 \in 0 .. 20 * B
<1>1. ASSUME NEW i \in Forward PROVE Delta(i) <= B
  <2>1. i \in Steps /\ Delta(i) >= 0
    BY DEF Forward
  <2>2. /\ Used(i) \in Nat /\ Delta(i) \in Int /\ Moved(i) \in Nat
        /\ Used(i) + Moved(i) <= B /\ B <= B * g
        /\ Shows(Delta(i), i) \/ Shows(Delta(i) + RegisterMax, i)
    BY <2>1, StepIsSmall
  <2>3. PICK d \in Nat, s \in Nat, delta \in Int :
          d = Used(i) /\ s = Moved(i) /\ delta = Delta(i)
    BY <2>2
  <2>4. PICK w \in Nat, h \in Nat :
          w = RegisterMax /\ h = B * g /\ 10 * h + 2 * m < w
    BY DeltasAssumption DEF Small
  <2>5. delta >= 0 /\ d + s <= B /\ B <= h
    BY <2>1, <2>2, <2>3, <2>4
  <2>6. delta - d <= s \/ delta + w - d <= s
    BY <2>2, <2>3, <2>4 DEF Shows
  <2> QED
    BY <2>3, <2>4, <2>5, <2>6
<1>2. MeterInv
  BY DEF SeriesInv
<1> QED
  BY <1>1, <1>2, ScaleIsBounded

\* What a small step is valued at is what was consumed.
LEMMA StepIsTruthful ==
  ASSUME NEW e \in Nat, NEW m \in Nat, NEW g \in Nat, NEW B \in Nat,
         Small(e, m, g, B), SeriesInv(e, m),
         mishaps.reset + mishaps.spikes = 0, NEW i \in Steps, Span(i) <= g,
         NEW p \in 0 .. 20 * B, NEW median, NEW c \in Consumption(i, p, median)
  PROVE  Abs(c - Used(i)) <= Moved(i)
<1>1. /\ Used(i) \in Nat /\ Span(i) \in Nat /\ Delta(i) \in Int
      /\ Moved(i) \in Nat /\ Moved(i) <= 2 * m
      /\ Used(i) + Moved(i) <= B /\ B <= B * g
      /\ Shows(Delta(i), i) \/ Shows(Delta(i) + RegisterMax, i)
  BY StepIsSmall
<1>2. PICK d \in Nat, s \in Nat, t \in Nat, delta \in Int :
        d = Used(i) /\ s = Moved(i) /\ t = Span(i) /\ delta = Delta(i)
  BY <1>1
<1>3. PICK w \in Nat, h \in Nat :
        w = RegisterMax /\ h = B * g /\ 10 * h + 2 * m < w
  BY DeltasAssumption DEF Small
<1>4. t <= g /\ s <= 2 * m /\ d + s <= B /\ B <= h
  BY <1>1, <1>2, <1>3
<1>5. \/ -s <= delta - d /\ delta - d <= s
      \/ -s <= delta + w - d /\ delta + w - d <= s
  BY <1>1, <1>2, <1>3 DEF Shows
<1>6. PICK z \in Nat : z = p * t /\ z <= 20 * h
  <2>1. p * t <= (20 * B) * g
    BY <1>4, ProductGrows
  <2>2. (20 * B) * g = 20 * h
    BY <1>3
  <2>3. p * t \in Nat
    OBVIOUS
  <2> QED
    BY <2>1, <2>2, <2>3
<1>7. 10 * p * t = 10 * z
  BY <1>6
<1>8. i # 1 /\ i \in DOMAIN feed /\ i - 1 \in DOMAIN feed
  BY StepPlaces DEF SeriesInv, Steps
<1>9. Wrapped(i) = w + delta
  <2>1. feed[i].value \in Int /\ feed[i - 1].value \in Int
    BY <1>8, StepPlaces DEF SeriesInv
  <2> QED
    BY <1>2, <1>3, <2>1 DEF Wrapped, Delta
<1> DEFINE kind == Kind(i, p, median)
<1>10. \/ kind = "rollover" /\ c = Wrapped(i)
       \/ kind = "correction" /\ c = 0
       \/ kind = "forward" /\ c = Delta(i)
  BY DEF Consumption, Kind
<1>11. kind = "rollover" => 20 * Wrapped(i) <= 10 * p * Span(i)
  BY DEF Kind, Rolled
<1>12. kind = "correction" => -20 * Delta(i) <= p * Span(i) /\ Delta(i) < 0
  BY DEF Kind
<1>13. kind = "forward" => ~(Delta(i) < 0)
  BY <1>8 DEF Kind
<1> HIDE DEF kind
<1>14. CASE kind = "rollover" /\ c = Wrapped(i)
  <2>1. 20 * (w + delta) <= 10 * z
    BY <1>2, <1>7, <1>9, <1>11, <1>14
  <2>2. -s <= delta + w - d /\ delta + w - d <= s
    BY <1>3, <1>4, <1>5, <1>6, <2>1
  <2> QED
    BY <1>2, <1>9, <1>14, <2>2 DEF Abs
<1>15. CASE kind = "correction" /\ c = 0
  <2>1. -20 * delta <= z /\ delta < 0
    BY <1>2, <1>6, <1>12, <1>15
  <2>2. -s <= delta - d /\ delta - d <= s
    BY <1>3, <1>4, <1>5, <1>6, <2>1
  <2> QED
    BY <1>2, <1>15, <2>1, <2>2 DEF Abs
<1>16. CASE kind = "forward" /\ c = Delta(i)
  <2>1. ~(delta < 0)
    BY <1>2, <1>13, <1>16
  <2>2. -s <= delta - d /\ delta - d <= s
    BY <1>3, <1>4, <1>5, <2>1
  <2> QED
    BY <1>2, <1>16, <2>2 DEF Abs
<1> QED
  BY <1>10, <1>14, <1>15, <1>16

\* Whatever was consumed, missed and corrected, of a register of any width:
\* while no two readings are further apart than g intervals and the steps are
\* small for that, every consumption is true.
THEOREM SmallStepsAreTrue ==
  ASSUME NEW e \in Nat, NEW m \in Nat, NEW g \in Nat, StepsAreSmall(e, m, g)
  PROVE  MeterSpec => []((\A i \in Steps : Span(i) <= g) => Truthful)
<1>1. PICK B \in Nat : B = e * g + 2 * m
  <2>1. e * g \in Nat
    OBVIOUS
  <2> QED
    BY <2>1
<1>2. /\ \A x \in Energy : x <= e
      /\ \A n \in Nudge : -m <= n /\ n <= m
      /\ Small(e, m, g, B)
  BY <1>1 DEF StepsAreSmall, Small
<1>3. SeriesInv(e, m) => ((\A i \in Steps : Span(i) <= g) => Truthful)
  <2> DEFINE median == Median
             p95 == P95
  <2> SUFFICES ASSUME SeriesInv(e, m), \A i \in Steps : Span(i) <= g,
                      mishaps.reset + mishaps.spikes = 0,
                      NEW i \in Steps, NEW c \in Consumption(i, p95, median)
               PROVE  Abs(c - Used(i)) <= Moved(i)
    BY DEF Truthful, Used, Moved
  <2>1. p95 \in 0 .. 20 * B
    BY <1>2, ScaleIsSmall
  <2> HIDE DEF p95, median
  <2> QED
    BY <1>2, <2>1, StepIsTruthful
<1>4. MeterSpec => []SeriesInv(e, m)
  BY <1>2, SeriesInductive
<1> QED
  BY <1>3, <1>4, PTL

\* Readings are no further apart than what is ever missed and one more.
THEOREM ConsumptionIsTrue ==
  ASSUME NEW e \in Nat, NEW m \in Nat, StepsAreSmall(e, m, MaxMissed + 1)
  PROVE  MeterSpec => []Truthful
<1> DEFINE g == MaxMissed + 1
<1>1. g \in Nat /\ StepsAreSmall(e, m, g)
  BY DeltasAssumption
<1>2. SeriesInv(e, m) => \A i \in Steps : Span(i) <= g
  <2> SUFFICES ASSUME SeriesInv(e, m), NEW i \in Steps
               PROVE  Span(i) <= MaxMissed + 1
    OBVIOUS
  <2>1. PICK k \in Int, n \in Nat : k = Span(i) /\ n = mishaps.missed
    BY StepPlaces DEF SeriesInv, Mishaps
  <2>2. k <= n + 1 /\ n <= MaxMissed
    BY <2>1 DEF SeriesInv, Paced
  <2> QED
    BY <2>1, <2>2, DeltasAssumption
<1> HIDE DEF g
<1>3. MeterSpec => []((\A i \in Steps : Span(i) <= g) => Truthful)
  BY <1>1, SmallStepsAreTrue
<1>4. /\ \A x \in Energy : x <= e
      /\ \A n \in Nudge : -m <= n /\ n <= m
  BY DEF StepsAreSmall
<1>5. MeterSpec => []SeriesInv(e, m)
  BY <1>4, SeriesInductive
<1> QED
  BY <1>2, <1>3, <1>5, PTL

-----------------------------------------------------------------------------
(* Statements: texts.                                                      *)

ScriptSpec == ScriptInit /\ [][ScriptNext]_scriptVars

LEMMA GreatestPlace ==
  ASSUME NEW n \in Nat, NEW S \in SUBSET (1 .. n), S # {}
  PROVE  \E x \in S : \A y \in S : x >= y
<1> DEFINE R == {n - x : x \in S}
<1>1. R \in SUBSET Nat /\ R # {}
  <2>1. ASSUME NEW x \in S PROVE n - x \in Nat
    <3>1. x \in 1 .. n
      OBVIOUS
    <3> QED
      BY <3>1
  <2> QED
    BY <2>1
<1>2. PICK r \in R : \A q \in R : r <= q
  BY <1>1, LeastNumber
<1>3. PICK x \in S : r = n - x
  OBVIOUS
<1>4. \A y \in S : n - x <= n - y
  BY <1>2, <1>3
<1> QED
  BY <1>4

\* Min and Max of places in a text.
LEMMA EndsOf ==
  ASSUME NEW n \in Nat, NEW S \in SUBSET (1 .. n), S # {}
  PROVE  /\ Min(S) \in S /\ \A x \in S : Min(S) <= x
         /\ Max(S) \in S /\ \A x \in S : x <= Max(S)
<1>1. \E x \in S : \A y \in S : x <= y
  BY LeastNumber
<1>2. \E x \in S : \A y \in S : x >= y
  BY GreatestPlace
<1>3. Min(S) \in S /\ \A x \in S : Min(S) <= x
  BY <1>1 DEF Min
<1>4. Max(S) \in S /\ \A x \in S : Max(S) >= x
  BY <1>2 DEF Max
<1> QED
  BY <1>3, <1>4

LEMMA StripTyped ==
  ASSUME NEW text \in Seq(Char)
  PROVE  Strip(text) \in Seq(Char)
<1> DEFINE ink == {i \in DOMAIN text : text[i] \notin White}
<1>1. DOMAIN text = 1 .. Len(text) /\ Len(text) \in Nat
  OBVIOUS
<1>2. Strip(text) = IF ink = {} THEN <<>> ELSE SubSeq(text, Min(ink), Max(ink))
  BY DEF Strip
<1>3. ink \in SUBSET (1 .. Len(text))
  BY <1>1
<1> HIDE DEF ink
<1>4. CASE ink = {}
  BY <1>2, <1>4
<1>5. CASE ink # {}
  <2>1. Min(ink) \in ink /\ Max(ink) \in ink
    BY <1>1, <1>3, <1>5, EndsOf
  <2>2. PICK lo, hi : lo = Min(ink) /\ hi = Max(ink)
    OBVIOUS
  <2>3. lo \in 1 .. Len(text) /\ hi \in 1 .. Len(text)
    BY <1>3, <2>1, <2>2
  <2>4. \A i \in lo .. hi : text[i] \in Char
    BY <1>1, <2>3
  <2>5. SubSeq(text, lo, hi) \in Seq(Char)
    BY <2>3, <2>4, SubSeqProperties
  <2> QED
    BY <1>2, <1>5, <2>2, <2>5
<1> QED
  BY <1>4, <1>5

\* What strip leaves of a text that is not all white.
LEMMA StripKeeps ==
  ASSUME NEW text \in Seq(Char),
         NEW a \in 1 .. Len(text), NEW b \in 1 .. Len(text),
         text[a] \notin White, text[b] \notin White,
         \A i \in 1 .. Len(text) : text[i] \notin White => a <= i /\ i <= b
  PROVE  Strip(text) = SubSeq(text, a, b) /\ a <= b
<1> DEFINE ink == {i \in DOMAIN text : text[i] \notin White}
<1>1. DOMAIN text = 1 .. Len(text) /\ Len(text) \in Nat
  OBVIOUS
<1>2. ink \in SUBSET (1 .. Len(text)) /\ a \in ink /\ b \in ink
  BY <1>1
<1>3. \A i \in ink : a <= i /\ i <= b
  BY <1>1
<1>4. Strip(text) = SubSeq(text, Min(ink), Max(ink))
  BY <1>2 DEF Strip
<1> HIDE DEF ink
<1>5. /\ Min(ink) \in ink /\ \A x \in ink : Min(ink) <= x
      /\ Max(ink) \in ink /\ \A x \in ink : x <= Max(ink)
  BY <1>1, <1>2, EndsOf
<1>6. PICK lo, hi : lo = Min(ink) /\ hi = Max(ink)
  OBVIOUS
<1>7. lo \in 1 .. Len(text) /\ hi \in 1 .. Len(text)
      /\ a <= lo /\ lo <= a /\ b <= hi /\ hi <= b
  BY <1>2, <1>3, <1>5, <1>6
<1>8. lo = a /\ hi = b
  BY <1>7
<1> QED
  BY <1>2, <1>3, <1>4, <1>6, <1>8

\* A text is meaningful when the first ink of one of its lines begins no comment.
LEMMA MeaningfulIs ==
  ASSUME NEW text \in Seq(Char)
  PROVE  Meaningful(text) <=>
           \E start \in LineStarts(text) : \E m \in LineInk(text, start) :
             /\ \A k \in LineInk(text, start) : m <= k
             /\ ~AtToken(text, m, <<"-", "-">>)
<1>1. DOMAIN text = 1 .. Len(text) /\ Len(text) \in Nat
  OBVIOUS
<1>2. ASSUME NEW start, NEW m \in LineInk(text, start),
             \A k \in LineInk(text, start) : m <= k
      PROVE  m = Min(LineInk(text, start))
  <2>1. LineInk(text, start) \in SUBSET (1 .. Len(text))
    BY <1>1 DEF LineInk
  <2>2. PICK n : n = Min(LineInk(text, start))
    OBVIOUS
  <2>3. n \in LineInk(text, start) /\ \A x \in LineInk(text, start) : n <= x
    BY <1>1, <2>1, <2>2, EndsOf
  <2>4. n \in 1 .. Len(text) /\ m \in 1 .. Len(text)
    BY <2>1, <2>3
  <2>5. m <= n /\ n <= m
    BY <1>2, <2>3
  <2> QED
    BY <2>2, <2>4, <2>5
<1>3. ASSUME NEW start, LineInk(text, start) # {}
      PROVE  \E m \in LineInk(text, start) : \A k \in LineInk(text, start) : m <= k
  <2>1. LineInk(text, start) \in SUBSET (1 .. Len(text))
    BY <1>1 DEF LineInk
  <2> QED
    BY <1>1, <1>3, <2>1, EndsOf
<1>4. Meaningful(text) <=>
        \E start \in LineStarts(text) :
          LineInk(text, start) # {}
          /\ ~AtToken(text, Min(LineInk(text, start)), <<"-", "-">>)
  BY DEF Meaningful
<1> QED
  BY <1>2, <1>3, <1>4

-----------------------------------------------------------------------------
(* Statements: what is written.                                            *)

AnyToken == Code \cup Comment \cup Blank \cup {Separator}

\* Every character is in its token, and all of that token is there.
Before(p) == p - written[p].offset

WholeAt(p) ==
  /\ written[p].offset \in 1 .. Len(written[p].token)
  /\ Before(p) >= 0 /\ Before(p) + Len(written[p].token) <= Len(written)
  /\ \A j \in 1 .. Len(written[p].token) :
       written[Before(p) + j] = [token |-> written[p].token, offset |-> j]

\* Nothing follows an unended comment, and no lone sign opens a comment or a block.
SignsAlone ==
  /\ \A p \in 1 .. Len(written) :
       Unended(written[p].token) =>
         Before(p) + Len(written[p].token) = Len(written)
  /\ \A p \in 1 .. Len(written) :
       written[p].token = <<"-">> /\ p + 1 <= Len(written) => Text[p + 1] # "-"
  /\ \A p, q \in 1 .. Len(written) :
       written[p].token = <<"$">> /\ p < q /\ Text[q] = "$" =>
         \E i \in p + 1 .. q - 1 : Text[i] \notin Letters

ScriptOK ==
  /\ written \in Seq([token : AnyToken, offset : Nat])
  /\ \A p \in 1 .. Len(written) : WholeAt(p)
  /\ SignsAlone

LEMMA TokenIs ==
  ASSUME NEW token \in AnyToken
  PROVE  /\ token \in Seq(Char) /\ Len(token) \in Nat /\ Len(token) >= 1
         /\ \A i \in 1 .. Len(token) : token[i] \in Char
         /\ token \in Word => Len(token) = 1 /\ token[1] \notin {"'", "semicolon", "\n"}
         /\ token \in Literal => token[1] = "'" /\ token[Len(token)] = "'" /\ Len(token) >= 2
         /\ token \in Block => token[1] = "$" /\ Len(token) >= 2
         /\ token \in Code => token[1] \notin White \cup {"semicolon"}
         /\ token \in Blank => Len(token) = 1 /\ token[1] \in White
         /\ token = Separator => Len(token) = 1 /\ token[1] = "semicolon"
         /\ token \in Comment =>
              /\ Len(token) >= 2 /\ token[1] = "-" /\ token[2] = "-"
              /\ \A i \in 1 .. Len(token) : token[i] = "\n" => i = Len(token)
<1>1. ASSUME NEW t \in Word
      PROVE  t \in Seq(Char) /\ Len(t) = 1
             /\ t[1] \notin White \cup {"'", "semicolon"}
  BY StatementsAssumption
<1>2. ASSUME NEW t \in Literal
      PROVE  t \in Seq(Char) /\ Len(t) >= 2 /\ t[1] = "'" /\ t[Len(t)] = "'"
  BY StatementsAssumption
<1>3. ASSUME NEW t \in Block
      PROVE  t \in Seq(Char) /\ Len(t) >= 4 /\ t[1] = "$"
  <2>1. t \in Seq(Char)
    BY <1>3, StatementsAssumption
  <2>2. PICK n \in 1 .. Len(t) : Marked(t, n)
    BY <1>3, StatementsAssumption
  <2>3. /\ 2 <= n /\ 2 * n <= Len(t) /\ SubSeq(t, 1, n)[1] = "$"
        /\ Len(t) \in Nat
    BY <2>1, <2>2 DEF Marked
  <2> QED
    BY <2>1, <2>3
<1>4. ASSUME NEW t \in Comment
      PROVE  /\ t \in Seq(Char) /\ Len(t) >= 2 /\ t[1] = "-" /\ t[2] = "-"
             /\ \A i \in 1 .. Len(t) : t[i] = "\n" => i = Len(t)
  BY StatementsAssumption
<1>5. ASSUME NEW c \in Char
      PROVE  <<c>> \in Seq(Char) /\ Len(<<c>>) = 1 /\ <<c>>[1] = c
  OBVIOUS
<1>6. ASSUME NEW t \in Blank
      PROVE  t \in Seq(Char) /\ Len(t) = 1 /\ t[1] \in White
  <2>1. PICK c \in White : t = <<c>>
    BY DEF Blank
  <2>2. c \in Char
    BY StatementsAssumption
  <2> QED
    BY <1>5, <2>1, <2>2
<1>7. Separator \in Seq(Char) /\ Len(Separator) = 1 /\ Separator[1] = "semicolon"
  BY <1>5, StatementsAssumption DEF Separator
<1>8. CASE token \in Word
  BY <1>8, <1>1, <1>2, <1>3, <1>4, <1>6, <1>7 DEF White
<1>9. CASE token \in Literal
  BY <1>9, <1>1, <1>2, <1>3, <1>4, <1>6, <1>7 DEF White
<1>10. CASE token \in Block
  BY <1>10, <1>1, <1>2, <1>3, <1>4, <1>6, <1>7 DEF White
<1>11. CASE token \in Comment
  BY <1>11, <1>1, <1>2, <1>3, <1>4, <1>6, <1>7 DEF White, Code
<1>12. CASE token \in Blank
  BY <1>12, <1>1, <1>2, <1>3, <1>4, <1>6, <1>7 DEF White, Code
<1>13. CASE token = Separator
  BY <1>13, <1>1, <1>2, <1>3, <1>4, <1>6, <1>7 DEF White, Code
<1> QED
  BY <1>8, <1>9, <1>10, <1>11, <1>12, <1>13 DEF AnyToken, Code

\* A token that begins with a sign, or with a letter.
LEMMA SignIs ==
  ASSUME NEW token \in AnyToken
  PROVE  /\ token[1] = "-" => token = <<"-">> \/ token \in Comment
         /\ token[1] = "$" => token = <<"$">> \/ token \in Block
         /\ token[1] \in Letters => token \in Word
<1>1. ASSUME token \in Word
      PROVE  token = <<token[1]>>
  BY <1>1, TokenIs
<1>2. token \in Literal => token[1] = "'"
  BY TokenIs
<1>3. token \in Block => token[1] = "$"
  BY TokenIs
<1>4. token \in Comment => token[1] = "-"
  BY TokenIs
<1>5. token \in Blank => token[1] \in White
  BY TokenIs
<1>6. token = Separator => token[1] = "semicolon"
  BY TokenIs
<1>7. Letters \cap (White \cup {"'", "$", "semicolon", "-"}) = {}
  BY StatementsAssumption
<1>8. "-" \notin White /\ "$" \notin White
  BY DEF White
<1> QED
  BY <1>1, <1>2, <1>3, <1>4, <1>5, <1>6, <1>7, <1>8 DEF AnyToken, Code

\* A token of code is no comment, blank or separator.
LEMMA CodeApart ==
  ASSUME NEW token \in Code
  PROVE  token \notin Comment /\ token \notin Blank /\ token # Separator
<1>0. token \in AnyToken
  BY DEF AnyToken
<1>1. token \notin Blank /\ token # Separator
  BY <1>0, TokenIs
<1>2. token \in Word => token \notin Comment
  BY <1>0, TokenIs
<1>3. token \in Literal \/ token \in Block => token \notin Comment
  BY <1>0, TokenIs
<1> QED
  BY <1>1, <1>2, <1>3 DEF Code

LEMMA PlaceIs ==
  ASSUME ScriptOK, NEW p \in 1 .. Len(written)
  PROVE  /\ written[p].token \in AnyToken
         /\ written[p].offset \in 1 .. Len(written[p].token)
         /\ Before(p) \in Nat /\ p = Before(p) + written[p].offset
         /\ Before(p) + Len(written[p].token) <= Len(written)
         /\ \A j \in 1 .. Len(written[p].token) :
              /\ Before(p) + j \in 1 .. Len(written)
              /\ written[Before(p) + j].token = written[p].token
              /\ written[Before(p) + j].offset = j
<1>0. written[p] \in [token : AnyToken, offset : Nat] /\ Len(written) \in Nat
  BY ElementOfSeq, LenProperties DEF ScriptOK
<1>1. written[p].token \in AnyToken /\ written[p].offset \in Nat
  BY <1>0
<1>2. WholeAt(p)
  BY DEF ScriptOK
<1>3. Len(written[p].token) \in Nat
  BY <1>1, TokenIs
<1>4. PICK b : b = Before(p)
  OBVIOUS
<1>5. /\ written[p].offset \in 1 .. Len(written[p].token)
      /\ b = p - written[p].offset /\ b >= 0
      /\ b + Len(written[p].token) <= Len(written)
      /\ \A j \in 1 .. Len(written[p].token) :
           written[b + j] = [token |-> written[p].token, offset |-> j]
  BY <1>2, <1>4 DEF WholeAt, Before
<1>6. b \in Nat /\ p = b + written[p].offset
  <2>1. written[p].offset \in Nat /\ b = p - written[p].offset /\ b >= 0 /\ p \in Int
    BY <1>0, <1>1, <1>5
  <2> QED
    BY <2>1
<1>7. ASSUME NEW j \in 1 .. Len(written[p].token)
      PROVE  /\ b + j \in 1 .. Len(written)
             /\ written[b + j].token = written[p].token
             /\ written[b + j].offset = j
  <2>1. b + j \in 1 .. Len(written)
    BY <1>0, <1>3, <1>5, <1>6
  <2>2. PICK w : w = written[b + j]
    OBVIOUS
  <2>3. w = [token |-> written[p].token, offset |-> j]
    BY <1>5, <2>2
  <2> QED
    BY <2>1, <2>2, <2>3
<1> QED
  BY <1>1, <1>4, <1>5, <1>6, <1>7

LEMMA TextIs ==
  ASSUME ScriptOK
  PROVE  /\ Text \in Seq(Char) /\ Len(Text) = Len(written)
         /\ DOMAIN Text = 1 .. Len(written) /\ Len(written) \in Nat
         /\ \A p \in 1 .. Len(written) :
              /\ Text[p] = written[p].token[written[p].offset]
              /\ Text[p] \in Char
<1>1. DOMAIN written = 1 .. Len(written) /\ Len(written) \in Nat
  BY DEF ScriptOK
<1>2. ASSUME NEW p \in 1 .. Len(written)
      PROVE  written[p].token[written[p].offset] \in Char
  BY PlaceIs, TokenIs
<1>3. Text = [p \in 1 .. Len(written) |-> written[p].token[written[p].offset]]
  BY <1>1 DEF Text
<1>4. Text \in [1 .. Len(written) -> Char]
  BY <1>2, <1>3
<1> QED
  BY <1>1, <1>2, <1>3, <1>4, IsASeq

\* A text of a token is that token's.
LEMMA CharAt ==
  ASSUME ScriptOK, NEW p \in 1 .. Len(written),
         NEW j \in 1 .. Len(written[p].token)
  PROVE  Text[Before(p) + j] = written[p].token[j]
BY PlaceIs, TextIs

\* A place is in token t, which has n characters after h.
Spans(p, t, h, n, off) ==
  /\ t = written[p].token /\ h = Before(p) /\ n = Len(t) /\ off = written[p].offset
  /\ p = h + off /\ off \in 1 .. n /\ n >= 1 /\ h + n <= Len(written)
  /\ Text[p] = t[off]
  /\ \A j \in 1 .. n : /\ h + j \in 1 .. Len(written)
                       /\ written[h + j].token = t
                       /\ written[h + j].offset = j
                       /\ Text[h + j] = t[j]

LEMMA TokenAt ==
  ASSUME ScriptOK, NEW p \in 1 .. Len(written)
  PROVE  \E t \in AnyToken, h \in Nat, n \in Nat, off \in Nat : Spans(p, t, h, n, off)
<1>1. PICK t, h, n, off : /\ t = written[p].token /\ h = Before(p) /\ n = Len(t)
                          /\ off = written[p].offset
  OBVIOUS
<1>2. /\ t \in AnyToken /\ h \in Nat /\ h + n <= Len(written)
      /\ p = h + off /\ off \in 1 .. n
      /\ \A j \in 1 .. n : /\ h + j \in 1 .. Len(written)
                           /\ written[h + j].token = t
                           /\ written[h + j].offset = j
  BY <1>1, PlaceIs
<1>3. n \in Nat /\ n >= 1
  <2>1. t \in AnyToken /\ n = Len(t)
    BY <1>1, <1>2
  <2> QED
    BY <2>1, TokenIs
<1>4. Text[p] = t[off]
  BY <1>1, TextIs
<1>5. \A j \in 1 .. n : Text[h + j] = t[j]
  BY <1>1, CharAt
<1>6. Spans(p, t, h, n, off)
  BY <1>1, <1>2, <1>3, <1>4, <1>5 DEF Spans
<1>7. t \in AnyToken /\ h \in Nat /\ n \in Nat /\ off \in Nat
  BY <1>2, <1>3
<1> QED
  BY <1>6, <1>7

\* A statement: from the beginning or a separator to a separator or the end.
Segment(from, to) ==
  /\ from \in 1 .. Len(written) + 1 /\ to \in 0 .. Len(written) /\ from <= to + 1
  /\ from = 1 \/ written[from - 1].token = Separator
  /\ to = Len(written) \/ written[to + 1].token = Separator
  /\ \A p \in from .. to : written[p].token # Separator

HasCode(from, to) == \E p \in from .. to : written[p].token \in Code

LEMMA SegmentIs ==
  ASSUME ScriptOK, NEW from, NEW to, Segment(from, to)
  PROVE  /\ Len(written) \in Nat /\ from \in Nat /\ to \in Nat
         /\ from >= 1 /\ to <= Len(written) /\ from <= to + 1
         /\ \A p \in from .. to :
              p \in 1 .. Len(written) /\ written[p].token # Separator
<1>1. Len(written) \in Nat
  BY TextIs
<1>2. from \in 1 .. Len(written) + 1 /\ to \in 0 .. Len(written) /\ from <= to + 1
  BY DEF Segment
<1>3. \A p \in from .. to : written[p].token # Separator
  BY DEF Segment
<1>4. \A p \in from .. to : p \in 1 .. Len(written)
  BY <1>1, <1>2
<1> QED
  BY <1>1, <1>2, <1>3, <1>4

\* Tokens do not straddle statements.
LEMMA InSegment ==
  ASSUME ScriptOK, NEW from, NEW to, Segment(from, to), NEW p \in from .. to
  PROVE  /\ p \in 1 .. Len(written)
         /\ from <= Before(p) + 1
         /\ Before(p) + Len(written[p].token) <= to
<1>1. /\ Len(written) \in Nat /\ from \in Int /\ to \in Int
      /\ p \in 1 .. Len(written) /\ written[p].token # Separator
  BY SegmentIs
<1>2. PICK b, n : b = Before(p) /\ n = Len(written[p].token)
  OBVIOUS
<1>3. /\ b \in Nat /\ n \in Nat /\ n >= 1
      /\ p = b + written[p].offset /\ written[p].offset \in 1 .. n
      /\ b + n <= Len(written)
      /\ \A j \in 1 .. n : written[b + j].token = written[p].token
  BY <1>1, <1>2, PlaceIs, TokenIs
<1>4. from <= b + 1
  <2> SUFFICES ASSUME from > b + 1 PROVE FALSE
    BY <1>1, <1>3
  <2>1. written[from - 1].token = Separator
    BY <1>3 DEF Segment
  <2>2. from - 1 - b \in 1 .. n /\ b + (from - 1 - b) = from - 1
    BY <1>1, <1>3
  <2>3. written[b + (from - 1 - b)].token = written[p].token
    BY <1>3, <2>2
  <2> QED
    BY <1>1, <2>1, <2>2, <2>3
<1>5. b + n <= to
  <2> SUFFICES ASSUME b + n > to PROVE FALSE
    BY <1>1, <1>3
  <2>1. to # Len(written)
    BY <1>3
  <2>2. written[to + 1].token = Separator
    BY <2>1 DEF Segment
  <2>3. to + 1 - b \in 1 .. n /\ b + (to + 1 - b) = to + 1
    BY <1>1, <1>3
  <2>4. written[b + (to + 1 - b)].token = written[p].token
    BY <1>3, <2>3
  <2> QED
    BY <1>1, <2>2, <2>3, <2>4
<1> QED
  BY <1>1, <1>2, <1>4, <1>5

LEMMA SegmentText ==
  ASSUME ScriptOK, NEW from, NEW to, Segment(from, to)
  PROVE  /\ SubSeq(Text, from, to) \in Seq(Char)
         /\ Len(SubSeq(Text, from, to)) = to - from + 1
         /\ \A i \in 1 .. to - from + 1 :
              SubSeq(Text, from, to)[i] = Text[from + i - 1]
<1>1. Len(written) \in Nat /\ from \in Int /\ to \in Int /\ from >= 1
      /\ to <= Len(written) /\ from <= to + 1
  BY SegmentIs
<1>2. \A p \in from .. to : Text[p] \in Char
  BY <1>1, TextIs
<1>3. Len(SubSeq(Text, from, to)) = IF from <= to THEN to - from + 1 ELSE 0
  BY <1>1, <1>2, SubSeqProperties
<1> QED
  BY <1>1, <1>2, <1>3, SubSeqProperties

\* A statement without its white ends, by the places of its ink.
LEMMA Stripped ==
  ASSUME ScriptOK, NEW from, NEW to, Segment(from, to),
         NEW p \in from .. to, Text[p] \notin White
  PROVE  \E a, b \in from .. to :
           /\ a <= b /\ Text[a] \notin White /\ Text[b] \notin White
           /\ \A q \in from .. to : Text[q] \notin White => a <= q /\ q <= b
           /\ Strip(SubSeq(Text, from, to)) \in Seq(Char)
           /\ Len(Strip(SubSeq(Text, from, to))) = b - a + 1
           /\ \A i \in 1 .. b - a + 1 :
                Strip(SubSeq(Text, from, to))[i] = Text[a + i - 1]
<1> DEFINE ink == {q \in from .. to : Text[q] \notin White}
           T == SubSeq(Text, from, to)
<1>1. /\ Len(written) \in Nat /\ from \in Nat /\ to \in Nat /\ from >= 1
      /\ to <= Len(written) /\ p \in from .. to
  BY SegmentIs
<1>2. ink \in SUBSET (1 .. to) /\ p \in ink
  BY <1>1
<1>3. PICK a \in ink : \A q \in ink : a <= q
  <2>1. ink \in SUBSET Nat /\ ink # {}
    BY <1>1, <1>2
  <2> QED
    BY <2>1, LeastNumber
<1>4. PICK b \in ink : \A q \in ink : q <= b
  BY <1>1, <1>2, GreatestPlace
<1>5. /\ a \in from .. to /\ b \in from .. to /\ a <= b
      /\ Text[a] \notin White /\ Text[b] \notin White
      /\ \A q \in from .. to : Text[q] \notin White => a <= q /\ q <= b
  BY <1>3, <1>4
<1>6. /\ T \in Seq(Char) /\ Len(T) = to - from + 1
      /\ \A i \in 1 .. to - from + 1 : T[i] = Text[from + i - 1]
  BY SegmentText
<1> HIDE DEF T, ink
<1>7. PICK c, d : c = a - from + 1 /\ d = b - from + 1
  OBVIOUS
<1>8. c \in 1 .. Len(T) /\ d \in 1 .. Len(T) /\ from + c - 1 = a /\ from + d - 1 = b
      /\ c <= d /\ d - c = b - a
  BY <1>1, <1>5, <1>6, <1>7
<1>9. T[c] \notin White /\ T[d] \notin White
  BY <1>5, <1>6, <1>8
<1>10. \A i \in 1 .. Len(T) : T[i] \notin White => c <= i /\ i <= d
  <2> SUFFICES ASSUME NEW i \in 1 .. Len(T), T[i] \notin White
               PROVE  c <= i /\ i <= d
    OBVIOUS
  <2>1. from + i - 1 \in from .. to /\ T[i] = Text[from + i - 1]
    BY <1>1, <1>6
  <2>2. a <= from + i - 1 /\ from + i - 1 <= b
    BY <1>5, <2>1
  <2> QED
    BY <1>1, <1>7, <2>1, <2>2, <1>5
<1>11. Strip(T) = SubSeq(T, c, d)
  BY <1>6, <1>8, <1>9, <1>10, StripKeeps
<1>12. /\ SubSeq(T, c, d) \in Seq(Char) /\ Len(SubSeq(T, c, d)) = d - c + 1
       /\ \A i \in 1 .. d - c + 1 : SubSeq(T, c, d)[i] = T[c + i - 1]
  <2>1. \A i \in c .. d : T[i] \in Char
    BY <1>6, <1>8
  <2> QED
    BY <1>6, <1>8, <2>1, SubSeqProperties
<1>13. ASSUME NEW i \in 1 .. b - a + 1
       PROVE  Strip(T)[i] = Text[a + i - 1]
  <2>1. c + i - 1 \in 1 .. to - from + 1 /\ from + (c + i - 1) - 1 = a + i - 1
        /\ i \in 1 .. d - c + 1
    BY <1>1, <1>5, <1>6, <1>7, <1>8
  <2> QED
    BY <1>6, <1>11, <1>12, <2>1
<1>14. Strip(T) \in Seq(Char) /\ Len(Strip(T)) = b - a + 1
  BY <1>8, <1>11, <1>12
<1> QED
  BY <1>5, <1>13, <1>14 DEF T

LEMMA TwoAt ==
  ASSUME NEW text \in Seq(Char), NEW m \in 1 .. Len(text), NEW c \in Char, NEW d \in Char
  PROVE  AtToken(text, m, <<c, d>>)
           <=> m + 1 <= Len(text) /\ text[m] = c /\ text[m + 1] = d
<1>1. /\ Len(<<c, d>>) = 2 /\ <<c, d>>[1] = c /\ <<c, d>>[2] = d
      /\ <<c, d>> \in Seq(Char)
  OBVIOUS
<1>2. AtToken(text, m, <<c, d>>) <=> m + 1 <= Len(text) /\ SubSeq(text, m, m + 1) = <<c, d>>
  <2>1. m + 2 - 1 = m + 1
    OBVIOUS
  <2> QED
    BY <1>1, <2>1 DEF AtToken
<1>3. CASE m + 1 <= Len(text)
  <2>1. text[m] \in Char /\ text[m + 1] \in Char
    BY <1>3
  <2>2. \A i \in m .. m + 1 : text[i] \in Char
    BY <2>1
  <2>3. PICK s : s = SubSeq(text, m, m + 1)
    OBVIOUS
  <2>4. s \in Seq(Char) /\ Len(s) = 2 /\ s[1] = text[m] /\ s[2] = text[m + 1]
    <3>1. m \in Int /\ m + 1 \in Int /\ (m + 1) - m + 1 = 2 /\ m <= m + 1
          /\ m + 1 - 1 = m /\ m + 2 - 1 = m + 1 /\ 1 \in 1 .. 2 /\ 2 \in 1 .. 2
      OBVIOUS
    <3>2. /\ SubSeq(text, m, m + 1) \in Seq(Char)
          /\ Len(SubSeq(text, m, m + 1)) = IF m <= m + 1 THEN (m + 1) - m + 1 ELSE 0
          /\ \A i \in 1 .. (m + 1) - m + 1 : SubSeq(text, m, m + 1)[i] = text[m + i - 1]
      BY <2>2, <3>1, SubSeqProperties
    <3> QED
      BY <2>3, <3>1, <3>2
  <2>5. s = <<c, d>> <=> s[1] = c /\ s[2] = d
    BY <1>1, <2>4
  <2> QED
    BY <1>2, <1>3, <2>3, <2>4, <2>5
<1>4. CASE ~(m + 1 <= Len(text))
  BY <1>2, <1>4
<1> QED
  BY <1>3, <1>4

\* A statement with code is one of the text, not white and meaningful: its first
\* code is the first ink of its line.
LEMMA CodeShows ==
  ASSUME ScriptOK, NEW from, NEW to, Segment(from, to), HasCode(from, to)
  PROVE  /\ Strip(SubSeq(Text, from, to)) # <<>>
         /\ Meaningful(Strip(SubSeq(Text, from, to)))
<1> DEFINE C == {q \in from .. to : written[q].token \in Code /\ written[q].offset = 1}
<1>1. /\ Len(written) \in Nat /\ from \in Nat /\ to \in Nat /\ from >= 1
      /\ to <= Len(written)
      /\ \A q \in from .. to : q \in 1 .. Len(written) /\ written[q].token # Separator
  BY SegmentIs
<1>2. C # {}
  <2>1. PICK q \in from .. to : written[q].token \in Code
    BY DEF HasCode
  <2>2. from <= Before(q) + 1 /\ Before(q) + Len(written[q].token) <= to
    BY InSegment
  <2>3. PICK h, n : h = Before(q) + 1 /\ n = Len(written[q].token)
    OBVIOUS
  <2>4. /\ Before(q) \in Nat /\ written[q].token \in AnyToken
        /\ \A j \in 1 .. n : written[Before(q) + j].token = written[q].token
                             /\ written[Before(q) + j].offset = j
    BY <1>1, <2>3, PlaceIs
  <2>5. n \in Nat /\ n >= 1
    BY <2>3, <2>4, TokenIs
  <2>6. h \in from .. to /\ written[h].token = written[q].token /\ written[h].offset = 1
    BY <1>1, <2>2, <2>3, <2>4, <2>5
  <2> QED
    BY <2>1, <2>6
<1>3. PICK p \in C : \A q \in C : p <= q
  <2>1. C \in SUBSET Nat
    BY <1>1
  <2> QED
    BY <1>2, <2>1, LeastNumber
<1>4. p \in from .. to /\ written[p].token \in Code /\ written[p].offset = 1
  BY <1>3
<1>5. Text[p] = written[p].token[1] /\ Text[p] \notin White \cup {"semicolon"}
  <2>1. p \in 1 .. Len(written)
    BY <1>1, <1>4
  <2>2. Text[p] = written[p].token[written[p].offset]
    BY <2>1, TextIs
  <2>3. written[p].token \in AnyToken
    BY <2>1, PlaceIs
  <2>4. PICK t : t = written[p].token
    OBVIOUS
  <2>5. t[1] \notin White \cup {"semicolon"}
    BY <1>4, <2>3, <2>4, TokenIs
  <2> QED
    BY <1>4, <2>2, <2>4, <2>5
<1>6. PICK a, b \in from .. to :
        /\ a <= b /\ Text[a] \notin White /\ Text[b] \notin White
        /\ \A q \in from .. to : Text[q] \notin White => a <= q /\ q <= b
        /\ Strip(SubSeq(Text, from, to)) \in Seq(Char)
        /\ Len(Strip(SubSeq(Text, from, to))) = b - a + 1
        /\ \A i \in 1 .. b - a + 1 :
             Strip(SubSeq(Text, from, to))[i] = Text[a + i - 1]
  <2>1. Text[p] \notin White
    BY <1>5
  <2> QED
    BY <1>4, <2>1, Stripped
<1>7. PICK S : S = Strip(SubSeq(Text, from, to))
  OBVIOUS
<1>8. /\ S \in Seq(Char) /\ Len(S) = b - a + 1 /\ DOMAIN S = 1 .. Len(S)
      /\ \A i \in 1 .. Len(S) : S[i] = Text[a + i - 1]
  BY <1>6, <1>7
<1>9. PICK k : k = p - a + 1
  OBVIOUS
<1>10. k \in 1 .. Len(S) /\ S[k] = Text[p] /\ a + k - 1 = p /\ a \in Nat /\ b \in Nat
  <2>1. a <= p /\ p <= b
    BY <1>4, <1>5, <1>6
  <2>2. k \in 1 .. Len(S) /\ a + k - 1 = p /\ a \in Nat /\ b \in Nat
    BY <1>1, <1>4, <1>6, <1>8, <1>9, <2>1
  <2> QED
    BY <1>8, <2>2
<1>11. PICK start \in 1 .. k :
         /\ start = 1 \/ S[start - 1] = "\n"
         /\ \A s \in 1 .. k : s = 1 \/ S[s - 1] = "\n" => s <= start
  <2> DEFINE L == {s \in 1 .. k : s = 1 \/ S[s - 1] = "\n"}
  <2>1. L \in SUBSET (1 .. k) /\ 1 \in L /\ k \in Nat
    BY <1>10
  <2>2. PICK s \in L : \A x \in L : s >= x
    BY <2>1, GreatestPlace
  <2> QED
    BY <2>2
<1>12. \A j \in start .. k - 1 : S[j] # "\n"
  <2> SUFFICES ASSUME NEW j \in start .. k - 1, S[j] = "\n" PROVE FALSE
    OBVIOUS
  <2>1. j + 1 \in 1 .. k /\ (j + 1) - 1 = j
    BY <1>10, <1>11
  <2>2. j + 1 <= start
    BY <1>11, <2>1
  <2> QED
    BY <1>10, <1>11, <2>2
<1>13. start \in LineStarts(S)
  BY <1>8, <1>10, <1>11 DEF LineStarts
<1>14. k \in LineInk(S, start)
  <2>1. \A j \in start .. k : S[j] # "\n"
    BY <1>5, <1>10, <1>12 DEF White
  <2> QED
    BY <1>5, <1>8, <1>10, <1>11, <2>1 DEF LineInk
<1>15. ASSUME NEW i \in LineInk(S, start), i < k PROVE FALSE
  <2>1. i \in 1 .. Len(S) /\ i >= start /\ S[i] \notin White
    BY <1>8 DEF LineInk
  <2>2. PICK q : q = a + i - 1
    OBVIOUS
  <2>3. q \in from .. to /\ q < p /\ Text[q] = S[i] /\ i = q - a + 1
    <3>1. /\ a \in Nat /\ b \in Nat /\ from \in Nat /\ to \in Nat /\ i \in Nat /\ k \in Nat
          /\ from <= a /\ b <= to /\ a + k - 1 = p /\ i < k /\ i <= b - a + 1 /\ i >= 1
      BY <1>1, <1>6, <1>8, <1>10, <1>15, <2>1
    <3>2. q \in from .. to /\ q < p /\ i = q - a + 1
      BY <2>2, <3>1
    <3>3. Text[q] = S[i]
      BY <1>8, <2>1, <2>2
    <3> QED
      BY <3>2, <3>3
  <2>0. q \in 1 .. Len(written) /\ written[q].token # Separator
    BY <1>1, <2>3
  <2>4. PICK t \in AnyToken, h \in Nat, n \in Nat, off \in Nat : Spans(q, t, h, n, off)
    BY <2>0, TokenAt
  <2>5. /\ q = h + off /\ off \in 1 .. n /\ n >= 1
        /\ h \in Nat /\ n \in Nat /\ off \in Nat
        /\ Text[q] = t[off] /\ \A j \in 1 .. n : Text[h + j] = t[j]
    BY <2>4 DEF Spans
  <2>6. from <= h + 1 /\ h + n <= to
    BY <2>3, <2>4, InSegment DEF Spans
  <2>7. t \notin Code
    <3> SUFFICES ASSUME t \in Code PROVE FALSE
      OBVIOUS
    <3>0. 1 \in 1 .. n /\ h + 1 \in from .. to
      BY <1>1, <2>5, <2>6
    <3>1. h + 1 \in from .. to /\ written[h + 1].token \in Code /\ written[h + 1].offset = 1
      BY <2>4, <3>0 DEF Spans
    <3>2. p <= h + 1
      BY <1>3, <3>1
    <3> QED
      BY <1>1, <1>4, <2>3, <2>5, <3>2
  <2>8. t \notin Blank
    <3> SUFFICES ASSUME t \in Blank PROVE FALSE
      OBVIOUS
    <3>1. n = 1 /\ t[1] \in White
      BY <2>4, TokenIs DEF Spans
    <3> QED
      BY <2>1, <2>3, <2>5, <3>1
  <2>9. t \in Comment
    BY <2>0, <2>4, <2>7, <2>8 DEF AnyToken, Spans
  <2>11. h + n < p
    <3> SUFFICES ASSUME h + n >= p PROVE FALSE
      BY <1>1, <1>4, <2>5
    <3>1. PICK j \in 1 .. n : h + j = p
      BY <1>1, <1>4, <2>3, <2>5
    <3>2. written[p].token = t
      BY <2>4, <3>1 DEF Spans
    <3> QED
      BY <1>4, <2>7, <3>2
  <2>10. t[n] = "\n"
    <3>1. t = written[q].token /\ h = Before(q) /\ n = Len(t)
      BY <2>4 DEF Spans
    <3>2. h + n # Len(written)
      BY <1>1, <1>4, <2>5, <2>11
    <3>3. ~Unended(t)
      BY <2>0, <3>1, <3>2 DEF ScriptOK, SignsAlone
    <3> QED
      BY <2>9, <3>1, <3>3 DEF Unended
  <2>12. PICK e : e = h + n - a + 1
    OBVIOUS
  <2>13. e \in start .. k - 1 /\ e \in 1 .. Len(S) /\ a + e - 1 = h + n
    <3>1. q <= h + n /\ h + n \in Nat /\ h + n <= p - 1 /\ q \in Int /\ p \in Int
      BY <1>1, <1>4, <2>3, <2>5, <2>11
    <3>0. a \in Nat /\ h \in Nat /\ n \in Nat
      BY <1>10, <2>5
    <3>2. e \in Int /\ a + e - 1 = h + n
      BY <3>0, <2>12
    <3>3. i <= e /\ i \in Int
      <4>1. i \in Int /\ i = q - a + 1 /\ q \in Int
        BY <2>1, <2>3, <3>1
      <4> QED
        BY <2>12, <3>0, <3>1, <4>1
    <3>4. e <= k - 1 /\ k \in Int /\ k <= Len(S) /\ Len(S) \in Nat
      BY <1>8, <1>10, <3>1, <3>2
    <3> QED
      BY <1>11, <2>1, <3>2, <3>3, <3>4
  <2>14. S[e] = "\n"
    <3>1. n \in 1 .. n /\ S[e] = Text[a + e - 1]
      BY <1>8, <2>5, <2>13
    <3> QED
      BY <2>5, <2>10, <2>13, <3>1
  <2> QED
    BY <1>12, <2>13, <2>14
<1>16. \A i \in LineInk(S, start) : k <= i
  <2>1. \A i \in LineInk(S, start) : i \in 1 .. Len(S)
    BY <1>8 DEF LineInk
  <2> QED
    BY <1>10, <1>15, <2>1
<1>17. ~AtToken(S, k, <<"-", "-">>)
  <2>1. ASSUME S[k] = "-", k + 1 <= Len(S)
        PROVE  S[k + 1] # "-"
    <3>1. p \in 1 .. Len(written) /\ written[p].token \in AnyToken
      BY <1>1, <1>4 DEF AnyToken
    <3>2. written[p].token = <<"-">>
      <4>1. written[p].token[1] = "-"
        BY <1>5, <1>10, <2>1
      <4>2. written[p].token \notin Comment
        BY <1>4, <3>1, CodeApart
      <4> QED
        BY <3>1, <4>1, <4>2, SignIs
    <3>3. k + 1 \in 1 .. Len(S) /\ a + (k + 1) - 1 = p + 1 /\ p + 1 <= Len(written)
      <4>1. /\ b <= to /\ to <= Len(written) /\ Len(S) = b - a + 1 /\ Len(written) \in Nat
            /\ to \in Nat /\ a + k - 1 = p /\ a \in Nat /\ b \in Nat /\ k \in Nat /\ k >= 1
        BY <1>1, <1>6, <1>8, <1>10
      <4> QED
        BY <2>1, <4>1
    <3>4. S[k + 1] = Text[p + 1]
      BY <1>8, <3>3
    <3> QED
      BY <3>1, <3>2, <3>3, <3>4 DEF ScriptOK, SignsAlone
  <2>2. "-" \in Char
    BY StatementsAssumption
  <2>3. S \in Seq(Char) /\ k \in 1 .. Len(S)
    BY <1>8, <1>10
  <2>4. AtToken(S, k, <<"-", "-">>)
          <=> k + 1 <= Len(S) /\ S[k] = "-" /\ S[k + 1] = "-"
    BY <2>2, <2>3, TwoAt
  <2> QED
    BY <2>1, <2>4
<1>18. Meaningful(S)
  BY <1>8, <1>13, <1>14, <1>16, <1>17, MeaningfulIs
<1>19. S # <<>>
  BY <1>8, <1>10
<1> QED
  BY <1>7, <1>18, <1>19

\* A statement without code is white, or all that shows of it are comments.
LEMMA NoCodeShows ==
  ASSUME ScriptOK, NEW from, NEW to, Segment(from, to), ~HasCode(from, to),
         Strip(SubSeq(Text, from, to)) # <<>>
  PROVE  ~Meaningful(Strip(SubSeq(Text, from, to)))
<1>1. /\ Len(written) \in Nat /\ from \in Nat /\ to \in Nat /\ from >= 1
      /\ to <= Len(written)
      /\ \A q \in from .. to : q \in 1 .. Len(written) /\ written[q].token # Separator
  BY SegmentIs
<1>2. PICK p \in from .. to : Text[p] \notin White
  <2> SUFFICES ASSUME \A p \in from .. to : Text[p] \in White PROVE FALSE
    OBVIOUS
  <2> DEFINE T == SubSeq(Text, from, to)
  <2>1. /\ T \in Seq(Char) /\ Len(T) = to - from + 1
        /\ \A i \in 1 .. to - from + 1 : T[i] = Text[from + i - 1]
    BY SegmentText
  <2> HIDE DEF T
  <2>2. \A i \in 1 .. to - from + 1 : from + i - 1 \in from .. to
    BY <1>1
  <2>3. \A i \in DOMAIN T : T[i] \in White
    BY <2>1, <2>2
  <2>4. {i \in DOMAIN T : T[i] \notin White} = {}
    BY <2>3
  <2>5. Strip(T) = <<>>
    BY <2>4 DEF Strip
  <2> QED
    BY <2>5 DEF T
<1>3. PICK a, b \in from .. to :
        /\ a <= b /\ Text[a] \notin White /\ Text[b] \notin White
        /\ \A q \in from .. to : Text[q] \notin White => a <= q /\ q <= b
        /\ Strip(SubSeq(Text, from, to)) \in Seq(Char)
        /\ Len(Strip(SubSeq(Text, from, to))) = b - a + 1
        /\ \A i \in 1 .. b - a + 1 :
             Strip(SubSeq(Text, from, to))[i] = Text[a + i - 1]
  BY <1>2, Stripped
<1>4. PICK S : S = Strip(SubSeq(Text, from, to))
  OBVIOUS
<1>5. /\ S \in Seq(Char) /\ Len(S) = b - a + 1 /\ DOMAIN S = 1 .. Len(S)
      /\ \A i \in 1 .. Len(S) : S[i] = Text[a + i - 1]
  BY <1>3, <1>4
<1> SUFFICES ASSUME Meaningful(S) PROVE FALSE
  BY <1>4
<1>6. PICK start \in LineStarts(S) : \E m \in LineInk(S, start) :
             /\ \A k \in LineInk(S, start) : m <= k
             /\ ~AtToken(S, m, <<"-", "-">>)
  BY <1>5, MeaningfulIs
<1>7. PICK m \in LineInk(S, start) :
             /\ \A k \in LineInk(S, start) : m <= k
             /\ ~AtToken(S, m, <<"-", "-">>)
  BY <1>6
<1>8. /\ start \in 1 .. Len(S) /\ (start = 1 \/ S[start - 1] = "\n")
      /\ m \in 1 .. Len(S) /\ start <= m /\ S[m] \notin White
      /\ \A j \in start .. m : S[j] # "\n"
  BY <1>5, <1>6, <1>7 DEF LineStarts, LineInk
<1>9. PICK q : q = a + m - 1
  OBVIOUS
<1>10. /\ q \in from .. to /\ Text[q] = S[m] /\ m = q - a + 1
       /\ a \in Nat /\ b \in Nat /\ a <= q /\ q <= b
  BY <1>1, <1>3, <1>5, <1>8, <1>9
<1>10a. q \in 1 .. Len(written) /\ written[q].token # Separator
  BY <1>1, <1>10
<1>11. PICK t \in AnyToken, h \in Nat, n \in Nat, off \in Nat : Spans(q, t, h, n, off)
  BY <1>10a, TokenAt
<1>12. /\ q = h + off /\ off \in 1 .. n /\ n >= 1
       /\ h \in Nat /\ n \in Nat /\ off \in Nat
       /\ Text[q] = t[off] /\ \A j \in 1 .. n : Text[h + j] = t[j]
  BY <1>11 DEF Spans
<1>13. from <= h + 1 /\ h + n <= to
  BY <1>10, <1>11, InSegment DEF Spans
<1>14. t \in Comment
  <2>1. t \notin Code
    BY <1>10, <1>11 DEF HasCode, Spans
  <2>2. t \notin Blank
    <3> SUFFICES ASSUME t \in Blank PROVE FALSE
      OBVIOUS
    <3>1. n = 1 /\ t[1] \in White
      BY <1>11, TokenIs DEF Spans
    <3> QED
      BY <1>8, <1>10, <1>12, <3>1
  <2> QED
    BY <1>10a, <1>11, <2>1, <2>2 DEF AnyToken, Spans
<1>15. /\ n >= 2 /\ t[1] = "-" /\ t[2] = "-"
       /\ \A i \in 1 .. n : t[i] = "\n" => i = n
  <2>1. t \in AnyToken /\ n = Len(t)
    BY <1>11 DEF Spans
  <2> QED
    BY <1>12, <1>14, <2>1, TokenIs
<1>16. Text[h + 1] = "-" /\ Text[h + 2] = "-"
  BY <1>12, <1>15
<1>17. h + 1 \in from .. to /\ h + 2 \in from .. to
  BY <1>1, <1>12, <1>13, <1>15
<1>18. a <= h + 1 /\ h + 2 <= b
  BY <1>3, <1>16, <1>17 DEF White
<1>19. off = 1
  <2> SUFFICES ASSUME off > 1 PROVE FALSE
    BY <1>12
  <2>1. PICK c : c = h + 1 - a + 1
    OBVIOUS
  <2>2. c \in 1 .. m - 1 /\ a + c - 1 = h + 1
    BY <1>10, <1>12, <1>18, <2>1
  <2>3. c \in 1 .. Len(S) /\ S[c] = "-"
    <3>1. c \in 1 .. Len(S)
      BY <1>5, <1>8, <2>2
    <3> QED
      BY <1>5, <1>16, <2>2, <3>1
  <2>4. CASE c >= start
    <3>1. \A j \in start .. c : S[j] # "\n"
      BY <1>8, <2>2
    <3>2. c \in LineInk(S, start)
      BY <1>5, <2>3, <2>4, <3>1 DEF LineInk, White
    <3>3. m <= c
      BY <1>7, <3>2
    <3> QED
      BY <1>8, <2>2, <3>3
  <2>5. CASE c < start
    <3>1. start - 1 \in 1 .. Len(S) /\ S[start - 1] = "\n"
      BY <1>8, <2>2, <2>5
    <3>2. PICK j : j = a + (start - 1) - 1 - h
      OBVIOUS
    <3>3. j \in 1 .. n /\ j # n /\ h + j = a + (start - 1) - 1
      BY <1>8, <1>10, <1>12, <2>1, <2>2, <2>5, <3>1, <3>2
    <3>4. t[j] = "\n"
      BY <1>5, <1>12, <3>1, <3>3
    <3> QED
      BY <1>15, <3>3, <3>4
  <2> QED
    BY <1>8, <2>2, <2>4, <2>5
<1>20. m + 1 \in 1 .. Len(S) /\ a + (m + 1) - 1 = h + 2 /\ a + m - 1 = h + 1
  BY <1>5, <1>8, <1>10, <1>12, <1>18, <1>19
<1>21. S[m] = "-" /\ S[m + 1] = "-"
  BY <1>5, <1>8, <1>16, <1>20
<1>22. AtToken(S, m, <<"-", "-">>)
  <2>1. "-" \in Char /\ m + 1 <= Len(S)
    BY <1>20, StatementsAssumption
  <2> QED
    BY <1>5, <1>8, <1>21, <2>1, TwoAt
<1> QED
  BY <1>7, <1>22

-----------------------------------------------------------------------------
(* Statements: the author of a script.                                     *)

\* The list of statements with code: statements in order, and all of them but
\* the one that is being written.
Listed(i) ==
  /\ Segment(statements[i].from, statements[i].to)
  /\ HasCode(statements[i].from, statements[i].to)

ListOK ==
  /\ statements \in Seq([from : Nat, to : Nat])
  /\ \A i \in 1 .. Len(statements) : Listed(i)
  /\ \A i, j \in 1 .. Len(statements) :
       i < j => statements[i].to < statements[j].from

OpenOK ==
  /\ opened \in 1 .. Len(written) + 1
  /\ opened = 1 \/ written[opened - 1].token = Separator
  /\ \A p \in opened .. Len(written) : written[p].token # Separator
  /\ splitter.mode = "idle" =>
       \A i \in 1 .. Len(statements) : statements[i].to + 1 < opened

AllListed ==
  \A p \in 1 .. Len(written) :
    written[p].token \in Code =>
      \/ splitter.mode = "idle" /\ opened <= p
      \/ \E i \in 1 .. Len(statements) :
           statements[i].from <= p /\ p <= statements[i].to

AuthorInv == ScriptOK /\ ListOK /\ OpenOK /\ AllListed

\* A token is added.
Grown(token) ==
  /\ Len(written') = Len(written) + Len(token)
  /\ \A p \in 1 .. Len(written) : written'[p] = written[p]
  /\ \A j \in 1 .. Len(token) : /\ written'[Len(written) + j].token = token
                               /\ written'[Len(written) + j].offset = j

LEMMA PlacesAre ==
  ASSUME NEW token \in AnyToken
  PROVE  /\ Places(token) \in Seq([token : AnyToken, offset : Nat])
         /\ Len(Places(token)) = Len(token)
         /\ \A j \in 1 .. Len(token) : Places(token)[j] = [token |-> token, offset |-> j]
<1> DEFINE P == [token : AnyToken, offset : Nat]
           n == Len(token)
<1>1. n \in Nat
  BY TokenIs
<1>2. \A j \in 1 .. n : [token |-> token, offset |-> j] \in P
  OBVIOUS
<1>3. Places(token) = [i \in 1 .. n |-> [token |-> token, offset |-> i]]
  BY DEF Places
<1> HIDE DEF P, n
<1>4. Places(token) \in [1 .. n -> P]
  BY <1>2, <1>3
<1>5. Places(token) \in Seq(P)
  BY <1>1, <1>4, IsASeq
<1>6. DOMAIN Places(token) = 1 .. n /\ DOMAIN Places(token) = 1 .. Len(Places(token))
      /\ Len(Places(token)) \in Nat
  BY <1>4, <1>5, LenProperties
<1>7. Len(Places(token)) = n
  BY <1>1, <1>6
<1> QED
  BY <1>3, <1>5, <1>7 DEF P, n

\* What may follow leaves the signs alone.
LEMMA SignsKept ==
  ASSUME ScriptOK, NEW token \in AnyToken, MayFollow(token), Grown(token),
         DOMAIN written' = 1 .. Len(written')
  PROVE  SignsAlone'
<1> DEFINE L == Len(written)
           n == Len(token)
<1>1. n \in Nat /\ n >= 1 /\ L \in Nat /\ DOMAIN written = 1 .. L
  BY TokenIs, TextIs DEF ScriptOK
<1>2. /\ Len(written') = L + n
      /\ \A p \in 1 .. L : written'[p] = written[p]
      /\ \A j \in 1 .. n : written'[L + j].token = token /\ written'[L + j].offset = j
  BY DEF Grown
<1>3. \A p \in 1 .. Len(written') : Text'[p] = written'[p].token[written'[p].offset]
  BY DEF Text
<1>4. \A p \in 1 .. L : Text'[p] = Text[p]
  BY <1>1, <1>2, <1>3, TextIs
<1>5. \A j \in 1 .. n : L + j \in 1 .. Len(written') /\ Text'[L + j] = token[j]
  BY <1>1, <1>2, <1>3
<1>6. /\ written # <<>> =>
           ~Unended(written[L].token) /\ ~(written[L].token = <<"-">> /\ token[1] = "-")
      /\ token[1] = "$" =>
           \A p \in 1 .. L : written[p].token = <<"$">> =>
             \E q \in p + 1 .. L : Text[q] \notin Letters
  BY <1>1 DEF MayFollow
<1>7. ASSUME NEW p \in 1 .. L PROVE written # <<>>
  BY <1>1
<1> HIDE DEF L, n
<1>8. ASSUME NEW p \in 1 .. Len(written'), p \notin 1 .. L
      PROVE  \E j \in 1 .. n : p = L + j
  <2>1. p - L \in 1 .. n /\ p = L + (p - L)
    BY <1>1, <1>2, <1>8
  <2> QED
    BY <2>1
<1>9. ASSUME NEW p \in 1 .. Len(written'), Unended(written'[p].token)
      PROVE  Before(p)' + Len(written'[p].token) = Len(written')
  <2>1. CASE p \in 1 .. L
    <3>1. Before(p) + Len(written[p].token) = L
      BY <1>2, <1>9, <2>1 DEF ScriptOK, SignsAlone, Unended, L
    <3>2. Len(written[p].token) \in Nat /\ Len(written[p].token) >= 1
      BY <2>1, PlaceIs, TokenIs DEF L
    <3>3. written[L].token = written[p].token
      <4>1. PICK m : m = Len(written[p].token)
        OBVIOUS
      <4>2. m \in 1 .. Len(written[p].token)
        BY <3>2, <4>1
      <4>3. written[Before(p) + m].token = written[p].token
        BY <2>1, <4>2, PlaceIs DEF L
      <4> QED
        BY <3>1, <4>1, <4>3
    <3> QED
      BY <1>2, <1>6, <1>7, <1>9, <2>1, <3>3
  <2>2. CASE p \notin 1 .. L
    <3>1. PICK j \in 1 .. n : p = L + j
      BY <1>8, <2>2
    <3>2. written'[p].token = token /\ written'[p].offset = j
      BY <1>2, <3>1
    <3>3. Before(p)' = L
      BY <1>1, <3>1, <3>2 DEF Before
    <3> QED
      BY <1>2, <3>2, <3>3 DEF n
  <2> QED
    BY <2>1, <2>2
<1>10. ASSUME NEW p \in 1 .. Len(written'), written'[p].token = <<"-">>,
              p + 1 <= Len(written')
       PROVE  Text'[p + 1] # "-"
  <2>1. CASE p \in 1 .. L /\ p # L
    <3>1. p + 1 \in 1 .. L /\ written[p].token = <<"-">>
      BY <1>1, <1>2, <1>10, <2>1
    <3>2. Text[p + 1] # "-"
      BY <2>1, <3>1 DEF ScriptOK, SignsAlone, L
    <3> QED
      BY <1>4, <3>1, <3>2
  <2>2. CASE p = L
    <3>1. L \in 1 .. L /\ 1 \in 1 .. n
      BY <1>1, <2>2
    <3>2. token[1] # "-"
      BY <1>2, <1>6, <1>7, <1>10, <2>2, <3>1
    <3> QED
      BY <1>5, <2>2, <3>1, <3>2
  <2>3. CASE p \notin 1 .. L
    <3>1. PICK j \in 1 .. n : p = L + j
      BY <1>8, <2>3
    <3>2. n = 1
      <4>1. token = <<"-">>
        BY <1>2, <1>10, <3>1
      <4> QED
        BY <4>1 DEF n
    <3> QED
      BY <1>1, <1>2, <1>10, <3>1, <3>2
  <2> QED
    BY <2>1, <2>2, <2>3
<1>11. ASSUME NEW p \in 1 .. Len(written'), NEW q \in 1 .. Len(written'),
              written'[p].token = <<"$">>, p < q, Text'[q] = "$"
       PROVE  \E i \in p + 1 .. q - 1 : Text'[i] \notin Letters
  <2>1. CASE p \in 1 .. L /\ q \in 1 .. L
    <3>1. PICK i \in p + 1 .. q - 1 : Text[i] \notin Letters
      BY <1>2, <1>4, <1>11, <2>1 DEF ScriptOK, SignsAlone, L
    <3>2. i \in 1 .. L
      BY <1>1, <2>1, <3>1
    <3> QED
      BY <1>4, <3>1, <3>2
  <2>2. CASE p \in 1 .. L /\ q \notin 1 .. L
    <3>1. PICK j \in 1 .. n : q = L + j
      BY <1>8, <2>2
    <3>2. CASE j = 1
      <4>1. token[1] = "$" /\ written[p].token = <<"$">>
        BY <1>2, <1>5, <1>11, <2>2, <3>1, <3>2
      <4>2. PICK i \in p + 1 .. L : Text[i] \notin Letters
        BY <1>6, <2>2, <4>1
      <4>3. i \in 1 .. L /\ i \in p + 1 .. q - 1
        BY <1>1, <2>2, <3>1, <3>2, <4>2
      <4> QED
        BY <1>4, <4>2, <4>3
    <3>3. CASE j # 1
      <4>1. n # 1 /\ 1 \in 1 .. n
        BY <1>1, <3>1, <3>3
      <4>2. token[1] \notin Letters
        BY <4>1, SignIs, TokenIs DEF n
      <4>3. Text'[L + 1] \notin Letters /\ L + 1 \in p + 1 .. q - 1
        BY <1>1, <1>5, <2>2, <3>1, <3>3, <4>1, <4>2
      <4> QED
        BY <4>3
    <3> QED
      BY <3>2, <3>3
  <2>3. CASE p \notin 1 .. L
    <3>1. PICK j \in 1 .. n : p = L + j
      BY <1>8, <2>3
    <3>2. n = 1
      <4>1. token = <<"$">>
        BY <1>2, <1>11, <3>1
      <4> QED
        BY <4>1 DEF n
    <3> QED
      BY <1>1, <1>2, <1>11, <3>1, <3>2
  <2> QED
    BY <2>1, <2>2, <2>3
<1> QED
  BY <1>9, <1>10, <1>11 DEF SignsAlone, Unended

LEMMA Grows ==
  ASSUME ScriptOK, NEW token \in AnyToken, MayFollow(token),
         written' = written \o Places(token)
  PROVE  ScriptOK' /\ Grown(token)
<1> DEFINE P == [token : AnyToken, offset : Nat]
<1>1. Len(token) \in Nat /\ Len(token) >= 1
  BY TokenIs
<1>2. written \in Seq(P) /\ Len(written) \in Nat
  BY LenProperties DEF ScriptOK
<1>3. Places(token) \in Seq(P) /\ Len(Places(token)) = Len(token)
  BY PlacesAre
<1> HIDE DEF P
<1>3a. PICK W, Q : W = written /\ Q = Places(token)
  OBVIOUS
<1>3b. /\ W \o Q \in Seq(P) /\ Len(W \o Q) = Len(W) + Len(Q)
       /\ \A i \in 1 .. Len(W) + Len(Q) :
            (W \o Q)[i] = IF i <= Len(W) THEN W[i] ELSE Q[i - Len(W)]
  BY <1>2, <1>3, <1>3a, ConcatProperties
<1>4. /\ written' \in Seq(P) /\ Len(written') = Len(written) + Len(token)
      /\ \A i \in 1 .. Len(written) + Len(token) :
           written'[i] = IF i <= Len(written) THEN written[i]
                         ELSE Places(token)[i - Len(written)]
  BY <1>3, <1>3a, <1>3b
<1>5. \A p \in 1 .. Len(written) : written'[p] = written[p]
  BY <1>1, <1>2, <1>4
<1>6. ASSUME NEW j \in 1 .. Len(token)
      PROVE  written'[Len(written) + j] = [token |-> token, offset |-> j]
  <2>1. /\ Len(written) + j \in 1 .. Len(written) + Len(token)
        /\ ~(Len(written) + j <= Len(written)) /\ Len(written) + j - Len(written) = j
    BY <1>1, <1>2
  <2>2. written'[Len(written) + j] = Places(token)[j]
    BY <1>4, <2>1
  <2> QED
    BY <2>2, PlacesAre
<1>7. ASSUME NEW j \in 1 .. Len(token)
      PROVE  /\ written'[Len(written) + j].token = token
             /\ written'[Len(written) + j].offset = j
  <2>1. PICK w : w = written'[Len(written) + j]
    OBVIOUS
  <2>2. w = [token |-> token, offset |-> j]
    BY <1>6, <2>1
  <2> QED
    BY <2>1, <2>2
<1>8. ASSUME NEW p \in 1 .. Len(written)' PROVE WholeAt(p)'
  <2>1. CASE p \in 1 .. Len(written)
    <3>1. WholeAt(p)
      BY <2>1 DEF ScriptOK
    <3>2. written'[p] = written[p] /\ Before(p)' = Before(p)
      BY <1>5, <2>1 DEF Before
    <3>3. /\ Before(p) \in Nat
          /\ \A j \in 1 .. Len(written[p].token) : Before(p) + j \in 1 .. Len(written)
      BY <2>1, PlaceIs
    <3>4. Len(written[p].token) \in Nat
      BY <2>1, PlaceIs, TokenIs
    <3>5. \A j \in 1 .. Len(written[p].token) :
            written'[Before(p) + j] = [token |-> written[p].token, offset |-> j]
      BY <1>5, <3>1, <3>3 DEF WholeAt
    <3>6. Before(p) + Len(written[p].token) <= Len(written)'
      <4>1. Before(p) + Len(written[p].token) <= Len(written)
        BY <3>1 DEF WholeAt
      <4> QED
        BY <1>1, <1>2, <1>4, <3>3, <3>4, <4>1
    <3> QED
      BY <3>1, <3>2, <3>5, <3>6 DEF WholeAt
  <2>2. CASE p \notin 1 .. Len(written)
    <3>1. PICK j \in 1 .. Len(token) : p = Len(written) + j
      <4>1. p - Len(written) \in 1 .. Len(token) /\ p = Len(written) + (p - Len(written))
        BY <1>1, <1>2, <1>4, <2>2
      <4> QED
        BY <4>1
    <3>2. written'[p].token = token /\ written'[p].offset = j
      BY <1>7, <3>1
    <3>3. Before(p)' = Len(written)
      BY <1>1, <1>2, <3>1, <3>2 DEF Before
    <3>4. /\ j \in 1 .. Len(token) /\ Len(written) >= 0
          /\ Len(written) + Len(token) <= Len(written)'
      BY <1>1, <1>2, <1>4
    <3> QED
      BY <1>6, <3>1, <3>2, <3>3, <3>4 DEF WholeAt
  <2> QED
    BY <2>1, <2>2
<1>9. Grown(token)
  BY <1>4, <1>5, <1>7 DEF Grown
<1>10. SignsAlone'
  <2>1. DOMAIN written' = 1 .. Len(written')
    BY <1>4
  <2> QED
    BY <1>9, <2>1, SignsKept
<1> QED
  BY <1>4, <1>8, <1>9, <1>10 DEF ScriptOK, P

LEMMA NotSeparator ==
  ASSUME NEW token \in Code \cup Comment \cup Blank
  PROVE  token \in AnyToken /\ token # Separator
<1>1. token \in AnyToken
  BY DEF AnyToken
<1> SUFFICES ASSUME token = Separator PROVE FALSE
  BY <1>1
<1>2. Len(token) = 1 /\ token[1] = "semicolon"
  BY <1>1, TokenIs
<1>3. token \notin Code
  BY <1>1, <1>2, TokenIs
<1>4. token \notin Comment
  BY <1>1, <1>2, TokenIs
<1>5. token \notin Blank
  BY <1>1, <1>2, TokenIs DEF White
<1> QED
  BY <1>3, <1>4, <1>5

\* A statement that a separator ends stays one.
LEMMA Persist ==
  ASSUME ScriptOK, NEW token \in AnyToken, Grown(token),
         NEW from \in Nat, NEW to \in Nat, Segment(from, to), to < Len(written)
  PROVE  /\ Segment(from, to)'
         /\ HasCode(from, to) => HasCode(from, to)'
<1>1. Len(token) \in Nat /\ Len(token) >= 1
  BY TokenIs
<1>2. /\ Len(written) \in Nat /\ from >= 1 /\ from <= to + 1
      /\ \A p \in from .. to : p \in 1 .. Len(written)
  BY SegmentIs
<1>3. /\ Len(written') = Len(written) + Len(token)
      /\ \A p \in 1 .. Len(written) : written'[p] = written[p]
  BY DEF Grown
<1>4. from = 1 \/ written'[from - 1].token = Separator
  <2>1. from = 1 \/ from - 1 \in 1 .. Len(written)
    BY <1>2
  <2> QED
    BY <1>3, <2>1 DEF Segment
<1>5. written'[to + 1].token = Separator
  <2>1. to + 1 \in 1 .. Len(written) /\ to # Len(written)
    BY <1>2
  <2> QED
    BY <1>3, <2>1 DEF Segment
<1>6. from \in 1 .. Len(written') + 1 /\ to \in 0 .. Len(written')
  BY <1>1, <1>2, <1>3
<1>7. \A p \in from .. to : written'[p].token # Separator
  BY <1>2, <1>3 DEF Segment
<1> QED
  BY <1>2, <1>3, <1>4, <1>5, <1>6, <1>7 DEF Segment, HasCode

LEMMA ListedIs ==
  ASSUME AuthorInv, NEW i \in 1 .. Len(statements)
  PROVE  /\ statements[i].from \in Nat /\ statements[i].to \in Nat
         /\ Segment(statements[i].from, statements[i].to)
         /\ HasCode(statements[i].from, statements[i].to)
         /\ splitter.mode = "idle" => statements[i].to < Len(written)
<1>1. statements[i] \in [from : Nat, to : Nat]
  BY ElementOfSeq DEF AuthorInv, ListOK
<1>2. statements[i].from \in Nat /\ statements[i].to \in Nat
  BY <1>1
<1>3. splitter.mode = "idle" => statements[i].to + 1 < opened
  BY DEF AuthorInv, OpenOK
<1>4. opened \in 1 .. Len(written) + 1 /\ Len(written) \in Nat
  BY TextIs DEF AuthorInv, OpenOK
<1> QED
  BY <1>2, <1>3, <1>4 DEF AuthorInv, ListOK, Listed

\* What the end of a statement adds to the list.
LEMMA EndedIs ==
  ASSUME AuthorInv, Ended
  PROVE  /\ statements' \in Seq([from : Nat, to : Nat]) /\ Len(statements) \in Nat
         /\ \A i \in 1 .. Len(statements) : statements'[i] = statements[i]
         /\ \/ /\ HasCode(opened, Len(written))
               /\ Len(statements') = Len(statements) + 1
               /\ statements'[Len(statements) + 1].from = opened
               /\ statements'[Len(statements) + 1].to = Len(written)
            \/ /\ ~HasCode(opened, Len(written))
               /\ statements' = statements
<1> DEFINE P == [from : Nat, to : Nat]
<1>1. opened \in Nat /\ Len(written) \in Nat
  <2>1. Len(written) \in Nat /\ opened \in 1 .. Len(written) + 1
    BY TextIs DEF AuthorInv, OpenOK
  <2> QED
    BY <2>1
<1>2. PICK e : e = [from |-> opened, to |-> Len(written)]
  OBVIOUS
<1>3. e \in P /\ e.from = opened /\ e.to = Len(written)
  BY <1>1, <1>2
<1>4. statements \in Seq(P)
  BY DEF AuthorInv, ListOK
<1> HIDE DEF P
<1>5. PICK S : S = statements
  OBVIOUS
<1>6. /\ Append(S, e) \in Seq(P) /\ Len(Append(S, e)) = Len(S) + 1
      /\ Append(S, e)[Len(S) + 1] = e /\ Len(S) \in Nat
      /\ \A i \in 1 .. Len(S) : Append(S, e)[i] = S[i]
  BY <1>3, <1>4, <1>5, AppendProperties, LenProperties
<1>7. CASE HasCode(opened, Len(written))
  <2>1. statements' = Append(S, e)
    BY <1>2, <1>5, <1>7 DEF Ended, HasCode
  <2> QED
    BY <1>3, <1>5, <1>6, <1>7, <2>1 DEF P
<1>8. CASE ~HasCode(opened, Len(written))
  <2>1. statements' = S
    BY <1>5, <1>8 DEF Ended, HasCode
  <2> QED
    BY <1>4, <1>5, <1>6, <1>8, <2>1 DEF P
<1> QED
  BY <1>7, <1>8

LEMMA WriteKeeps ==
  ASSUME AuthorInv, NEW token \in Code \cup Comment \cup Blank, Write(token)
  PROVE  AuthorInv'
<1>1. token \in AnyToken /\ token # Separator
  BY NotSeparator
<1>2. /\ splitter.mode = "idle" /\ MayFollow(token)
      /\ written' = written \o Places(token)
      /\ opened' = opened /\ statements' = statements /\ splitter' = splitter
  BY DEF Write
<1>3. ScriptOK' /\ Grown(token) /\ ScriptOK
  BY <1>1, <1>2, Grows DEF AuthorInv
<1>4. /\ Len(written') = Len(written) + Len(token)
      /\ \A p \in 1 .. Len(written) : written'[p] = written[p]
      /\ \A j \in 1 .. Len(token) : written'[Len(written) + j].token = token
  BY <1>3 DEF Grown
<1>5. Len(token) \in Nat /\ Len(token) >= 1 /\ Len(written) \in Nat
  BY <1>1, <1>3, TokenIs, TextIs
<1>6. /\ opened \in 1 .. Len(written) + 1
      /\ opened = 1 \/ written[opened - 1].token = Separator
      /\ \A p \in opened .. Len(written) : written[p].token # Separator
      /\ \A i \in 1 .. Len(statements) : statements[i].to + 1 < opened
  BY <1>2 DEF AuthorInv, OpenOK
<1>7. ASSUME NEW p \in 1 .. Len(written'), p \notin 1 .. Len(written)
      PROVE  written'[p].token = token /\ opened <= p
  <2>1. PICK j \in 1 .. Len(token) : p = Len(written) + j
    <3>1. p - Len(written) \in 1 .. Len(token) /\ p = Len(written) + (p - Len(written))
      BY <1>4, <1>5, <1>7
    <3> QED
      BY <3>1
  <2> QED
    BY <1>4, <1>5, <1>6, <2>1
<1>8. ListOK'
  <2>1. ASSUME NEW i \in 1 .. Len(statements) PROVE Listed(i)'
    <3>1. PICK f, t : f = statements[i].from /\ t = statements[i].to
      OBVIOUS
    <3>2. f \in Nat /\ t \in Nat /\ Segment(f, t) /\ HasCode(f, t) /\ t < Len(written)
      BY <1>2, <3>1, ListedIs
    <3>3. Segment(f, t)' /\ HasCode(f, t)'
      BY <1>1, <1>3, <3>2, Persist
    <3>4. f = statements'[i].from /\ t = statements'[i].to
      BY <1>2, <3>1
    <3> QED
      BY <3>3, <3>4 DEF Listed
  <2> QED
    BY <1>2, <2>1 DEF ListOK, AuthorInv
<1>9. OpenOK'
  <2>1. opened \in 1 .. Len(written') + 1
    BY <1>4, <1>5, <1>6
  <2>2. opened = 1 \/ written'[opened - 1].token = Separator
    <3>1. opened = 1 \/ opened - 1 \in 1 .. Len(written)
      BY <1>5, <1>6
    <3> QED
      BY <1>4, <1>6, <3>1
  <2>3. ASSUME NEW p \in opened .. Len(written') PROVE written'[p].token # Separator
    <3>1. p \in 1 .. Len(written')
      BY <1>4, <1>5, <1>6
    <3>2. CASE p \in 1 .. Len(written)
      <4>1. p \in opened .. Len(written)
        BY <1>5, <1>6, <3>2
      <4> QED
        BY <1>4, <1>6, <3>2, <4>1
    <3>3. CASE p \notin 1 .. Len(written)
      BY <1>1, <1>7, <3>1, <3>3
    <3> QED
      BY <3>2, <3>3
  <2> QED
    BY <1>2, <1>6, <2>1, <2>2, <2>3 DEF OpenOK
<1>10. AllListed'
  <2>1. ASSUME NEW p \in 1 .. Len(written'), written'[p].token \in Code
        PROVE  \/ splitter'.mode = "idle" /\ opened' <= p
               \/ \E i \in 1 .. Len(statements') :
                    statements'[i].from <= p /\ p <= statements'[i].to
    <3>1. CASE p \in 1 .. Len(written)
      BY <1>2, <1>4, <2>1, <3>1 DEF AuthorInv, AllListed
    <3>2. CASE p \notin 1 .. Len(written)
      BY <1>2, <1>7, <3>2
    <3> QED
      BY <3>1, <3>2
  <2> QED
    BY <2>1 DEF AllListed
<1> QED
  BY <1>3, <1>8, <1>9, <1>10 DEF AuthorInv

\* The statement that is being written, up to its end.
LEMMA OpenIs ==
  ASSUME AuthorInv
  PROVE  /\ Segment(opened, Len(written)) /\ Len(written) \in Nat
         /\ opened \in Nat /\ opened >= 1 /\ opened <= Len(written) + 1
<1>1. Len(written) \in Nat /\ opened \in 1 .. Len(written) + 1
  BY TextIs DEF AuthorInv, OpenOK
<1>2. /\ opened = 1 \/ written[opened - 1].token = Separator
      /\ \A p \in opened .. Len(written) : written[p].token # Separator
  BY DEF AuthorInv, OpenOK
<1> QED
  BY <1>1, <1>2 DEF Segment

\* The list after a statement was ended, whatever follows that statement.
LEMMA EndedKeeps ==
  ASSUME AuthorInv, splitter.mode = "idle", Ended,
         NEW o, NEW l, o = opened, l = Len(written),
         \A p \in 1 .. l : written'[p] = written[p],
         Segment(o, l)',
         \A f, t \in Nat : Segment(f, t) /\ HasCode(f, t) /\ t < l =>
                             Segment(f, t)' /\ HasCode(f, t)'
  PROVE  /\ ListOK'
         /\ \A i \in 1 .. Len(statements') :
              statements'[i].to \in Nat /\ statements'[i].to <= l
         /\ \A p \in 1 .. l : written'[p].token \in Code =>
              \E i \in 1 .. Len(statements') :
                statements'[i].from <= p /\ p <= statements'[i].to
<1>1. /\ o \in Nat /\ l \in Nat /\ o >= 1 /\ o <= l + 1 /\ Segment(o, l)
  BY OpenIs
<1>2. /\ statements' \in Seq([from : Nat, to : Nat]) /\ Len(statements) \in Nat
      /\ \A i \in 1 .. Len(statements) : statements'[i] = statements[i]
  BY EndedIs
<1>3. \/ /\ HasCode(o, l)
         /\ Len(statements') = Len(statements) + 1
         /\ statements'[Len(statements) + 1].from = o
         /\ statements'[Len(statements) + 1].to = l
      \/ /\ ~HasCode(o, l)
         /\ statements' = statements
  BY EndedIs
<1>4. ASSUME NEW i \in 1 .. Len(statements)
      PROVE  /\ statements'[i] = statements[i]
             /\ statements'[i].from \in Nat /\ statements'[i].to \in Nat
             /\ statements'[i].to + 1 < o /\ statements'[i].to <= l
             /\ Listed(i)'
  <2>1. PICK f, t : f = statements[i].from /\ t = statements[i].to
    OBVIOUS
  <2>2. f \in Nat /\ t \in Nat /\ Segment(f, t) /\ HasCode(f, t) /\ t < l
    BY <2>1, ListedIs
  <2>3. t + 1 < o
    BY <2>1 DEF AuthorInv, OpenOK
  <2>4. Segment(f, t)' /\ HasCode(f, t)'
    BY <2>2
  <2>5. statements'[i] = statements[i]
    BY <1>2
  <2>6. f = statements'[i].from /\ t = statements'[i].to
    BY <2>1, <2>5
  <2>7. Listed(i)'
    BY <2>4, <2>6 DEF Listed
  <2> QED
    BY <1>1, <2>2, <2>3, <2>5, <2>6, <2>7
<1>5. ASSUME NEW i \in 1 .. Len(statements'), i \notin 1 .. Len(statements)
      PROVE  /\ i = Len(statements) + 1 /\ statements'[i].from = o /\ statements'[i].to = l
             /\ Listed(i)'
  <2>1. i = Len(statements) + 1 /\ HasCode(o, l)
    BY <1>2, <1>3, <1>5
  <2>2. statements'[i].from = o /\ statements'[i].to = l
    BY <1>2, <1>3, <1>5, <2>1
  <2>3. HasCode(o, l)'
    <3>1. \A p \in o .. l : p \in 1 .. l
      BY <1>1
    <3> QED
      BY <2>1, <3>1 DEF HasCode
  <2> QED
    BY <2>1, <2>2, <2>3 DEF Listed
<1>6. ListOK'
  <2>1. \A i \in 1 .. Len(statements') : Listed(i)'
    BY <1>4, <1>5
  <2>2. ASSUME NEW i \in 1 .. Len(statements'), NEW j \in 1 .. Len(statements'), i < j
        PROVE  statements'[i].to < statements'[j].from
    <3>1. i \in 1 .. Len(statements)
      BY <1>2, <1>3, <2>2
    <3>2. CASE j \in 1 .. Len(statements)
      <4>1. statements[i].to < statements[j].from
        BY <2>2, <3>1, <3>2 DEF AuthorInv, ListOK
      <4> QED
        BY <1>4, <3>1, <3>2, <4>1
    <3>3. CASE j \notin 1 .. Len(statements)
      BY <1>1, <1>4, <1>5, <3>1, <3>3
    <3> QED
      BY <3>2, <3>3
  <2> QED
    BY <1>2, <2>1, <2>2 DEF ListOK
<1>7. \A i \in 1 .. Len(statements') : statements'[i].to \in Nat /\ statements'[i].to <= l
  BY <1>1, <1>4, <1>5
<1>8. ASSUME NEW p \in 1 .. l, written'[p].token \in Code
      PROVE  \E i \in 1 .. Len(statements') :
               statements'[i].from <= p /\ p <= statements'[i].to
  <2>1. written[p].token \in Code
    BY <1>8
  <2>2. opened <= p \/ \E i \in 1 .. Len(statements) :
          statements[i].from <= p /\ p <= statements[i].to
    BY <2>1 DEF AuthorInv, AllListed
  <2>3. CASE \E i \in 1 .. Len(statements) :
               statements[i].from <= p /\ p <= statements[i].to
    <3>1. \A i \in 1 .. Len(statements) : i \in 1 .. Len(statements')
      BY <1>2, <1>3
    <3> QED
      BY <1>2, <2>3, <3>1
  <2>4. CASE opened <= p
    <3>1. HasCode(o, l)
      BY <1>1, <2>1, <2>4 DEF HasCode
    <3>2. Len(statements) + 1 \in 1 .. Len(statements')
      BY <1>2, <1>3, <3>1
    <3> QED
      BY <1>1, <1>3, <2>4, <3>1, <3>2
  <2> QED
    BY <2>2, <2>3, <2>4
<1> QED
  BY <1>6, <1>7, <1>8

LEMMA EndStatementKeeps ==
  ASSUME AuthorInv, EndStatement
  PROVE  AuthorInv'
<1>1. /\ splitter.mode = "idle" /\ MayFollow(Separator)
      /\ written' = written \o Places(Separator)
      /\ opened' = Len(written) + 2 /\ splitter' = splitter /\ Ended
  BY DEF EndStatement
<1>2. Separator \in AnyToken /\ Len(Separator) = 1
  BY TokenIs DEF AnyToken
<1>3. ScriptOK' /\ Grown(Separator) /\ ScriptOK
  BY <1>1, <1>2, Grows DEF AuthorInv
<1>4. PICK o, l : o = opened /\ l = Len(written)
  OBVIOUS
<1>5. o \in Nat /\ l \in Nat /\ o >= 1 /\ o <= l + 1 /\ Segment(o, l)
  BY <1>4, OpenIs
<1>6. /\ Len(written') = l + 1 /\ \A p \in 1 .. l : written'[p] = written[p]
      /\ written'[l + 1].token = Separator
  <2>1. 1 \in 1 .. Len(Separator)
    BY <1>2
  <2> QED
    BY <1>2, <1>3, <1>4, <2>1 DEF Grown
<1>7. Segment(o, l)'
  <2>1. o = 1 \/ written'[o - 1].token = Separator
    <3>1. o = 1 \/ o - 1 \in 1 .. l
      BY <1>5
    <3> QED
      BY <1>5, <1>6, <3>1 DEF Segment
  <2>2. \A p \in o .. l : written'[p].token # Separator
    <3>1. \A p \in o .. l : p \in 1 .. l
      BY <1>5
    <3> QED
      BY <1>5, <1>6, <3>1 DEF Segment
  <2>3. o \in 1 .. Len(written') + 1 /\ l \in 0 .. Len(written')
    BY <1>5, <1>6
  <2> QED
    BY <1>5, <1>6, <2>1, <2>2, <2>3 DEF Segment
<1>8. ASSUME NEW f \in Nat, NEW t \in Nat, Segment(f, t), HasCode(f, t), t < l
      PROVE  Segment(f, t)' /\ HasCode(f, t)'
  BY <1>2, <1>3, <1>4, <1>8, Persist
<1>9. /\ ListOK'
      /\ \A i \in 1 .. Len(statements') :
           statements'[i].to \in Nat /\ statements'[i].to <= l
      /\ \A p \in 1 .. l : written'[p].token \in Code =>
           \E i \in 1 .. Len(statements') :
             statements'[i].from <= p /\ p <= statements'[i].to
  BY <1>1, <1>4, <1>6, <1>7, <1>8, EndedKeeps
<1>10. OpenOK'
  <2>1. /\ opened' = l + 2 /\ l + 2 \in 1 .. Len(written') + 1
        /\ (l + 2) - 1 = l + 1
        /\ \A p \in l + 2 .. Len(written') : FALSE
    BY <1>1, <1>4, <1>5, <1>6
  <2>2. \A i \in 1 .. Len(statements') : statements'[i].to + 1 < l + 2
    BY <1>5, <1>9
  <2> QED
    BY <1>6, <2>1, <2>2 DEF OpenOK
<1>11. AllListed'
  <2>1. ASSUME NEW p \in 1 .. Len(written'), written'[p].token \in Code
        PROVE  \E i \in 1 .. Len(statements') :
                 statements'[i].from <= p /\ p <= statements'[i].to
    <3>1. p # l + 1
      <4>1. Separator \notin Code
        BY NotSeparator
      <4> QED
        BY <1>6, <2>1, <4>1
    <3>2. p \in 1 .. l
      BY <1>5, <1>6, <3>1
    <3> QED
      BY <1>9, <2>1, <3>2
  <2> QED
    BY <2>1 DEF AllListed
<1> QED
  BY <1>3, <1>9, <1>10, <1>11 DEF AuthorInv

LEMMA ScriptStays ==
  ASSUME ScriptOK, written' = written
  PROVE  ScriptOK'
<1>1. Text' = Text /\ \A p : Before(p)' = Before(p)
  BY DEF Text, Before
<1>2. \A p \in 1 .. Len(written) : WholeAt(p)'
  BY <1>1 DEF ScriptOK, WholeAt
<1>3. SignsAlone'
  BY <1>1 DEF ScriptOK, SignsAlone
<1> QED
  BY <1>2, <1>3 DEF ScriptOK

LEMMA SplitKeeps ==
  ASSUME AuthorInv, splitter.mode = "idle", Ended, splitter'.mode # "idle",
         UNCHANGED <<written, opened>>
  PROVE  AuthorInv'
<1>1. written' = written /\ opened' = opened
  OBVIOUS
<1>2. PICK o, l : o = opened /\ l = Len(written)
  OBVIOUS
<1>3. o \in Nat /\ l \in Nat /\ o >= 1 /\ o <= l + 1 /\ Segment(o, l)
  BY <1>2, OpenIs
<1>4. \A f, t : (Segment(f, t)' <=> Segment(f, t)) /\ (HasCode(f, t)' <=> HasCode(f, t))
  BY <1>1 DEF Segment, HasCode
<1>5. /\ ListOK'
      /\ \A p \in 1 .. l : written'[p].token \in Code =>
           \E i \in 1 .. Len(statements') :
             statements'[i].from <= p /\ p <= statements'[i].to
  BY <1>1, <1>2, <1>3, <1>4, EndedKeeps
<1>6. ScriptOK'
  BY <1>1, ScriptStays DEF AuthorInv
<1>7. OpenOK'
  BY <1>1 DEF AuthorInv, OpenOK
<1>8. AllListed'
  BY <1>1, <1>2, <1>5 DEF AllListed
<1> QED
  BY <1>5, <1>6, <1>7, <1>8 DEF AuthorInv

LEMMA TurnKeeps ==
  ASSUME AuthorInv, splitter.mode # "idle", splitter'.mode # "idle",
         UNCHANGED <<written, opened, statements>>
  PROVE  AuthorInv'
<1>1. written' = written /\ opened' = opened /\ statements' = statements
  OBVIOUS
<1>2. ScriptOK'
  BY <1>1, ScriptStays DEF AuthorInv
<1>3. ListOK'
  <2>1. \A f, t : (Segment(f, t)' <=> Segment(f, t)) /\ (HasCode(f, t)' <=> HasCode(f, t))
    BY <1>1 DEF Segment, HasCode
  <2> QED
    BY <1>1, <2>1 DEF AuthorInv, ListOK, Listed
<1>4. OpenOK'
  BY <1>1 DEF AuthorInv, OpenOK
<1>5. AllListed'
  BY <1>1 DEF AuthorInv, AllListed
<1> QED
  BY <1>2, <1>3, <1>4, <1>5 DEF AuthorInv

-----------------------------------------------------------------------------
(* Statements: the splitter, in a token.                                   *)

LEMMA SpanIs ==
  ASSUME ScriptOK, NEW p \in 1 .. Len(written),
         NEW t, NEW h, NEW n, NEW off, Spans(p, t, h, n, off)
  PROVE  /\ t \in AnyToken /\ t = written[p].token /\ off = written[p].offset
         /\ n = Len(t) /\ h \in Nat /\ n \in Nat /\ off \in Nat
         /\ n >= 1 /\ off >= 1 /\ off <= n /\ p = h + off /\ h + n <= Len(written)
         /\ Len(written) \in Nat /\ Text[p] = t[off]
<1>1. h = Before(p) /\ t = written[p].token /\ n = Len(t) /\ off \in 1 .. n /\ p = h + off
      /\ n >= 1 /\ h + n <= Len(written) /\ Text[p] = t[off] /\ off = written[p].offset
  BY DEF Spans
<1>2. t \in AnyToken /\ h \in Nat
  <2>1. written[p].token \in AnyToken /\ Before(p) \in Nat
    BY PlaceIs
  <2> QED
    BY <1>1, <2>1
<1>3. n \in Nat /\ Len(written) \in Nat
  BY <1>1, <1>2, TokenIs, TextIs
<1>4. off \in Nat /\ off >= 1 /\ off <= n
  BY <1>1, <1>3
<1> QED
  BY <1>1, <1>2, <1>3, <1>4

\* Another place of the same token.
LEMMA SpanMoves ==
  ASSUME ScriptOK, NEW p \in 1 .. Len(written),
         NEW t, NEW h, NEW n, NEW off, Spans(p, t, h, n, off), NEW j \in 1 .. n
  PROVE  /\ h + j \in 1 .. Len(written) /\ Text[h + j] = t[j]
         /\ written[h + j].token = t /\ written[h + j].offset = j
BY DEF Spans

LEMMA AfterToken ==
  ASSUME ScriptOK, NEW p \in 1 .. Len(written),
         NEW t, NEW h, NEW n, NEW off, Spans(p, t, h, n, off), h + n + 1 <= Len(written)
  PROVE  h + n + 1 \in 1 .. Len(written) /\ written[h + n + 1].offset = 1
<1>1. /\ t \in AnyToken /\ n = Len(t) /\ h \in Nat /\ n \in Nat /\ n >= 1
      /\ Len(written) \in Nat
  BY SpanIs
<1>2. PICK q : q = h + n + 1
  OBVIOUS
<1>3. q \in 1 .. Len(written)
  BY <1>1, <1>2
<1>4. PICK u \in AnyToken, g \in Nat, m \in Nat, o \in Nat : Spans(q, u, g, m, o)
  BY <1>3, TokenAt
<1>5. o = written[q].offset /\ m = Len(u) /\ o >= 1 /\ o <= m /\ q = g + o
  <2>1. o = written[q].offset /\ m = Len(u) /\ o \in 1 .. m /\ q = g + o
    BY <1>4 DEF Spans
  <2> QED
    BY <2>1
<1> SUFFICES ASSUME o # 1 PROVE FALSE
  BY <1>2, <1>3, <1>5
<1>6. o - 1 \in 1 .. m /\ g + (o - 1) = h + n /\ n \in 1 .. n
  <2>1. /\ h \in Nat /\ n \in Nat /\ n >= 1 /\ g \in Nat /\ m \in Nat /\ o \in Nat
        /\ o >= 1 /\ o <= m /\ o # 1 /\ g + o = h + n + 1
    <3>1. h \in Nat /\ n \in Nat /\ n >= 1
      BY <1>1
    <3>2. g \in Nat /\ m \in Nat /\ o \in Nat
      BY <1>4
    <3>3. o >= 1 /\ o <= m /\ g + o = h + n + 1
      BY <1>2, <1>5
    <3> QED
      BY <3>1, <3>2, <3>3
  <2> QED
    BY <2>1
<1>7. PICK r : r = o - 1
  OBVIOUS
<1>8. written[g + r].token = u /\ written[g + r].offset = r
  BY <1>4, <1>6, <1>7 DEF Spans
<1>9. written[h + n].token = t /\ written[h + n].offset = n
  BY <1>6, SpanMoves
<1>10. u = t /\ r = n
  <2>1. g + r = h + n
    BY <1>6, <1>7
  <2> QED
    BY <1>8, <1>9, <2>1
<1> QED
  BY <1>1, <1>5, <1>7, <1>10

\* A text within a token is that token's.
TextOf(t, h, a, b) == SubSeq(Text, h + a, h + b) = SubSeq(t, a, b)

LEMMA TokenText ==
  ASSUME ScriptOK, NEW p \in 1 .. Len(written),
         NEW t, NEW h, NEW n, NEW off, Spans(p, t, h, n, off),
         NEW a \in 1 .. n, NEW b \in 1 .. n, a <= b
  PROVE  TextOf(t, h, a, b)
<1>1. /\ t \in AnyToken /\ n = Len(t) /\ h \in Nat /\ n \in Nat /\ h + n <= Len(written)
      /\ Len(written) \in Nat
  BY SpanIs
<1>2. t \in Seq(Char) /\ Text \in Seq(Char) /\ Len(Text) = Len(written)
  BY <1>1, TokenIs, TextIs
<1>3. PICK T, A, B : T = Text /\ A = h + a /\ B = h + b
  OBVIOUS
<1>4. A \in Nat /\ B \in Nat /\ Len(T) \in Nat
      /\ A \in 1 .. Len(T) /\ B \in 1 .. Len(T) /\ A <= B /\ B - A = b - a
  BY <1>1, <1>2, <1>3
<1>5. /\ SubSeq(T, A, B) \in Seq(Char) /\ Len(SubSeq(T, A, B)) = B - A + 1
      /\ \A i \in 1 .. B - A + 1 : SubSeq(T, A, B)[i] = T[A + i - 1]
  <2>1. \A i \in A .. B : T[i] \in Char
    BY <1>2, <1>3, <1>4
  <2>2. T \in Seq(Char)
    BY <1>2, <1>3
  <2>3. /\ SubSeq(T, A, B) \in Seq(Char)
        /\ Len(SubSeq(T, A, B)) = IF A <= B THEN B - A + 1 ELSE 0
        /\ \A i \in 1 .. B - A + 1 : SubSeq(T, A, B)[i] = T[A + i - 1]
    BY <1>4, <2>1, <2>2, SubSeqProperties
  <2> QED
    BY <1>4, <2>3
<1>6. /\ SubSeq(t, a, b) \in Seq(Char) /\ Len(SubSeq(t, a, b)) = b - a + 1
      /\ \A i \in 1 .. b - a + 1 : SubSeq(t, a, b)[i] = t[a + i - 1]
  <2>1. /\ t \in Seq(Char) /\ Len(t) \in Nat
        /\ a \in Nat /\ b \in Nat /\ a \in 1 .. Len(t) /\ b \in 1 .. Len(t)
    BY <1>1, <1>2
  <2>2. \A i \in a .. b : t[i] \in Char
    BY <1>2, <2>1, ElementOfSeq
  <2>3. /\ SubSeq(t, a, b) \in Seq(Char)
        /\ Len(SubSeq(t, a, b)) = IF a <= b THEN b - a + 1 ELSE 0
        /\ \A i \in 1 .. b - a + 1 : SubSeq(t, a, b)[i] = t[a + i - 1]
    BY <2>1, <2>2, SubSeqProperties
  <2> QED
    BY <2>3
<1>7. ASSUME NEW i \in 1 .. b - a + 1
      PROVE  T[A + i - 1] = t[a + i - 1]
  <2>1. a + i - 1 \in 1 .. n /\ h + (a + i - 1) = A + i - 1
    BY <1>1, <1>3
  <2> QED
    BY <1>3, <2>1, SpanMoves
<1>8. \A i \in 1 .. b - a + 1 : SubSeq(T, A, B)[i] = SubSeq(t, a, b)[i]
  BY <1>4, <1>5, <1>6, <1>7
<1>9. SubSeq(T, A, B) = SubSeq(t, a, b)
  <2>1. PICK u, v : u = SubSeq(T, A, B) /\ v = SubSeq(t, a, b)
    OBVIOUS
  <2>2. /\ u \in Seq(Char) /\ v \in Seq(Char) /\ Len(u) = Len(v)
        /\ \A i \in 1 .. Len(u) : u[i] = v[i]
    BY <1>4, <1>5, <1>6, <1>8, <2>1
  <2> QED
    BY <2>1, <2>2, SeqEqual
<1> QED
  BY <1>3, <1>9 DEF TextOf

\* The marks of a block.
LEMMA MarkIs ==
  ASSUME NEW t \in AnyToken, NEW m \in 1 .. Len(t), Marked(t, m)
  PROVE  /\ Len(t) \in Nat /\ 2 <= m /\ 2 * m <= Len(t)
         /\ SubSeq(t, 1, m) \in Seq(Char) /\ Len(SubSeq(t, 1, m)) = m
         /\ \A i \in 1 .. m : SubSeq(t, 1, m)[i] = t[i]
         /\ t[1] = "$" /\ t[m] = "$" /\ \A i \in 2 .. m - 1 : t[i] \in Letters
<1>1. t \in Seq(Char) /\ Len(t) \in Nat
  BY TokenIs
<1>2. /\ SubSeq(t, 1, m) \in Seq(Char) /\ Len(SubSeq(t, 1, m)) = m
      /\ \A i \in 1 .. m : SubSeq(t, 1, m)[i] = t[i]
  <2>1. \A i \in 1 .. m : t[i] \in Char
    BY <1>1
  <2>2. /\ SubSeq(t, 1, m) \in Seq(Char) /\ Len(SubSeq(t, 1, m)) = m - 1 + 1
        /\ \A i \in 1 .. m - 1 + 1 : SubSeq(t, 1, m)[i] = t[1 + i - 1]
    BY <1>1, <2>1, SubSeqProperties
  <2> QED
    BY <2>2
<1>3. PICK mark : mark = SubSeq(t, 1, m)
  OBVIOUS
<1>4. /\ 2 <= m /\ 2 * m <= Len(t) /\ mark[1] = "$" /\ mark[m] = "$"
      /\ \A i \in 2 .. m - 1 : mark[i] \in Letters
  BY <1>3 DEF Marked
<1>5. /\ 1 \in 1 .. m /\ m \in 1 .. m /\ \A i \in 2 .. m - 1 : i \in 1 .. m
  OBVIOUS
<1> QED
  BY <1>1, <1>2, <1>3, <1>4, <1>5

\* The dollar quote that opens a block is its mark.
LEMMA TagOfBlock ==
  ASSUME ScriptOK, NEW p \in 1 .. Len(written),
         NEW t, NEW h, NEW n, Spans(p, t, h, n, 1),
         NEW m \in 1 .. n, Marked(t, m)
  PROVE  Tag(p) = SubSeq(t, 1, m)
<1>1. /\ t \in AnyToken /\ n = Len(t) /\ h \in Nat /\ n \in Nat /\ p = h + 1
      /\ h + n <= Len(written) /\ Len(written) \in Nat /\ Text[p] = t[1]
  BY SpanIs
<1>2. /\ 2 <= m /\ 2 * m <= n /\ t[1] = "$" /\ t[m] = "$"
      /\ \A i \in 2 .. m - 1 : t[i] \in Letters
      /\ Len(SubSeq(t, 1, m)) = m
      /\ \A i \in 1 .. m : SubSeq(t, 1, m)[i] = t[i]
  BY <1>1, MarkIs
<1> DEFINE ends == {j \in DOMAIN Text : j > p /\ Text[j] = "$"}
<1>3. DOMAIN Text = 1 .. Len(written)
  BY TextIs
<1>4. h + m \in ends
  <2>1. h + m \in 1 .. Len(written) /\ Text[h + m] = t[m]
    BY SpanMoves
  <2> QED
    BY <1>1, <1>2, <1>3, <2>1
<1>5. \A j \in ends : h + m <= j
  <2> SUFFICES ASSUME NEW j \in ends, j < h + m PROVE FALSE
    BY <1>1, <1>3
  <2>1. j \in 1 .. Len(written) /\ j > p /\ Text[j] = "$"
    BY <1>3
  <2>2. PICK i : i = j - h
    OBVIOUS
  <2>3. i \in 2 .. m - 1 /\ i \in 1 .. n /\ h + i = j
    BY <1>1, <2>1, <2>2
  <2>4. Text[h + i] = t[i] /\ t[i] \in Letters
    BY <1>2, <2>3, SpanMoves
  <2> QED
    BY <2>1, <2>3, <2>4, StatementsAssumption
<1>6. ends \in SUBSET (1 .. Len(written)) /\ ends # {}
  BY <1>3, <1>4
<1>7. Tag(p) = IF Text[p] # "$" \/ ends = {} THEN <<>>
               ELSE IF \A i \in 2 .. Len(SubSeq(Text, p, Min(ends))) - 1 :
                         SubSeq(Text, p, Min(ends))[i] \in Letters
                    THEN SubSeq(Text, p, Min(ends)) ELSE <<>>
  BY DEF Tag
<1> HIDE DEF ends
<1>8. Min(ends) \in ends /\ \A x \in ends : Min(ends) <= x
  BY <1>1, <1>6, EndsOf
<1>9. Min(ends) = h + m
  <2>1. PICK e : e = Min(ends)
    OBVIOUS
  <2>2. e \in 1 .. Len(written) /\ e <= h + m /\ h + m <= e
    BY <1>4, <1>5, <1>6, <1>8, <2>1
  <2> QED
    BY <1>1, <2>1, <2>2
<1>10. SubSeq(Text, p, Min(ends)) = SubSeq(t, 1, m)
  <2>1. 1 \in 1 .. n /\ 1 <= m /\ h + 1 = p
    BY <1>1, <1>2
  <2>2. PICK a, B : a = 1 /\ B = h + m
    OBVIOUS
  <2>3. a \in 1 .. n /\ a <= m /\ p = h + a
    BY <2>1, <2>2
  <2>4. TextOf(t, h, a, m)
    BY <2>2, <2>3, TokenText
  <2> QED
    BY <1>9, <2>2, <2>3, <2>4 DEF TextOf
<1>11. \A i \in 2 .. m - 1 : SubSeq(t, 1, m)[i] \in Letters
  BY <1>2
<1> QED
  BY <1>1, <1>2, <1>6, <1>7, <1>10, <1>11

LEMMA NoTag ==
  ASSUME NEW p, Text[p] # "$"
  PROVE  Tag(p) = <<>>
BY DEF Tag

\* A lone dollar opens no block.
LEMMA NoTagAlone ==
  ASSUME ScriptOK, NEW p \in 1 .. Len(written), written[p].token = <<"$">>
  PROVE  Tag(p) = <<>>
<1> DEFINE ends == {j \in DOMAIN Text : j > p /\ Text[j] = "$"}
<1>1. /\ DOMAIN Text = 1 .. Len(written) /\ Len(written) \in Nat /\ Text \in Seq(Char)
      /\ Len(Text) = Len(written)
  BY TextIs
<1>2. ends \in SUBSET (1 .. Len(written))
  BY <1>1
<1>3. Tag(p) = IF Text[p] # "$" \/ ends = {} THEN <<>>
               ELSE IF \A i \in 2 .. Len(SubSeq(Text, p, Min(ends))) - 1 :
                         SubSeq(Text, p, Min(ends))[i] \in Letters
                    THEN SubSeq(Text, p, Min(ends)) ELSE <<>>
  BY DEF Tag
<1>4. \A j \in ends : j \in 1 .. Len(written) /\ j > p /\ Text[j] = "$"
  BY <1>1
<1> HIDE DEF ends
<1> SUFFICES ASSUME ends # {} PROVE Tag(p) = <<>>
  BY <1>3
<1>5. PICK e \in ends : e = Min(ends)
  BY <1>1, <1>2, EndsOf
<1>6. e \in 1 .. Len(written) /\ p < e /\ Text[e] = "$" /\ e \in Nat /\ p \in Nat
  BY <1>4
<1>7. PICK i \in p + 1 .. e - 1 : Text[i] \notin Letters
  BY <1>6 DEF ScriptOK, SignsAlone
<1>8. PICK tag : tag = SubSeq(Text, p, e)
  OBVIOUS
<1>9. Len(tag) = e - p + 1 /\ \A k \in 1 .. e - p + 1 : tag[k] = Text[p + k - 1]
  <2>1. \A k \in p .. e : Text[k] \in Char
    <3>1. \A k \in p .. e : k \in 1 .. Len(written)
      BY <1>1, <1>6
    <3> QED
      BY <3>1, TextIs
  <2>2. PICK T : T = Text
    OBVIOUS
  <2>3. /\ Len(SubSeq(T, p, e)) = IF p <= e THEN e - p + 1 ELSE 0
        /\ \A k \in 1 .. e - p + 1 : SubSeq(T, p, e)[k] = T[p + k - 1]
    BY <1>1, <1>6, <2>1, <2>2, SubSeqProperties
  <2> QED
    BY <1>6, <1>8, <2>2, <2>3
<1>10. PICK k : k = i - p + 1
  OBVIOUS
<1>11. k \in 2 .. Len(tag) - 1 /\ k \in 1 .. e - p + 1 /\ p + k - 1 = i
  <2>1. i \in Int /\ p + 1 <= i /\ i <= e - 1 /\ Len(tag) = e - p + 1
    BY <1>6, <1>7, <1>9
  <2>2. k \in Int /\ 2 <= k /\ k <= e - p /\ p + k - 1 = i
    BY <1>6, <1>10, <2>1
  <2> QED
    BY <1>6, <2>1, <2>2
<1>12. tag[k] \notin Letters
  <2>1. tag[k] = Text[p + k - 1]
    BY <1>9, <1>11
  <2>2. tag[k] = Text[i]
    BY <1>11, <2>1
  <2> QED
    BY <1>7, <2>2
<1> QED
  BY <1>3, <1>5, <1>8, <1>11, <1>12

-----------------------------------------------------------------------------
(* Statements: where the splitter is.                                      *)

Modes == {"idle", "plain", "comment", "quote", "dollar", "done"}

SplitterOK ==
  splitter \in [mode : Modes, at : Nat, tag : Seq(Char), from : Nat, found : Seq(Seq(Char))]

\* What was passed since the last separator has none.
Passed(from, at) ==
  /\ at \in 1 .. Len(written) + 1 /\ from \in 1 .. at
  /\ from = 1 \/ written[from - 1].token = Separator
  /\ \A p \in from .. at - 1 : written[p].token # Separator

\* The mode is that of the token the splitter is in: in a literal never between
\* the two quotes of a pair, in a block never within its last mark.
InLiteral(p) ==
  /\ written[p].token \in Literal /\ written[p].offset > 1
  /\ \E pairs \in Pairs(written[p].token) : written[p].offset - 1 \notin pairs

InBlock(p, tag) ==
  /\ written[p].token \in Block
  /\ \E m \in 1 .. Len(written[p].token) :
       /\ Marked(written[p].token, m) /\ tag = SubSeq(written[p].token, 1, m)
       /\ m < written[p].offset /\ written[p].offset <= Len(written[p].token) - m + 1

Aligned(mode, at, tag) ==
  /\ mode = "plain" /\ at <= Len(written) => written[at].offset = 1
  /\ mode = "comment" /\ at <= Len(written) =>
       written[at].token \in Comment /\ written[at].offset > 1
  /\ mode = "quote" => at <= Len(written) /\ InLiteral(at)
  /\ mode = "dollar" => at <= Len(written) /\ InBlock(at, tag)

\* The first n statements with code were found, the others are ahead.
FoundAre(found, from) ==
  /\ Len(found) <= Len(statements)
  /\ \A i \in 1 .. Len(found) : statements[i].to < from
  /\ \A i \in Len(found) + 1 .. Len(statements) : from <= statements[i].from

FoundOK(found) ==
  \A i \in 1 .. Len(found) :
    i <= Len(statements) =>
      found[i] = Strip(SubSeq(Text, statements[i].from, statements[i].to))

ScanInv ==
  /\ SplitterOK
  /\ splitter.mode = "idle" =>
       splitter.at = 1 /\ splitter.from = 1 /\ splitter.found = <<>>
  /\ splitter.mode \notin {"idle", "done"} =>
       /\ Passed(splitter.from, splitter.at)
       /\ Aligned(splitter.mode, splitter.at, splitter.tag)
       /\ FoundAre(splitter.found, splitter.from)
  /\ splitter.mode # "idle" => FoundOK(splitter.found)
  /\ splitter.mode = "done" => Len(splitter.found) = Len(statements)

ScriptInv == AuthorInv /\ ScanInv

\* The loop takes characters of the buffer's statement.
LEMMA PassKeeps ==
  ASSUME ScriptInv, splitter.mode \notin {"idle", "done"},
         NEW m \in {"plain", "comment", "quote", "dollar"}, NEW k \in Nat,
         NEW g \in Seq(Char),
         splitter' = [mode |-> m, at |-> splitter.at + k, tag |-> g,
                      from |-> splitter.from, found |-> splitter.found],
         UNCHANGED <<written, opened, statements>>,
         splitter.at + k <= Len(written) + 1,
         \A p \in splitter.at .. splitter.at + k - 1 : written[p].token # Separator,
         Aligned(m, splitter.at + k, g)
  PROVE  ScriptInv'
<1>1. splitter \in [mode : Modes, at : Nat, tag : Seq(Char), from : Nat,
                    found : Seq(Seq(Char))]
  BY DEF ScriptInv, ScanInv, SplitterOK
<1>2. PICK a, f, d : a = splitter.at /\ f = splitter.from /\ d = splitter.found
  OBVIOUS
<1>3. a \in Nat /\ f \in Nat /\ d \in Seq(Seq(Char))
  BY <1>1, <1>2
<1>4. /\ splitter'.at = a + k /\ splitter'.mode = m /\ splitter'.tag = g
      /\ splitter'.from = f /\ splitter'.found = d
  BY <1>1, <1>2
<1>5. SplitterOK'
  <2>1. a + k \in Nat /\ m \in Modes
    BY <1>3 DEF Modes
  <2> QED
    BY <1>1, <1>2, <2>1 DEF SplitterOK
<1>6. written' = written /\ opened' = opened /\ statements' = statements
  OBVIOUS
<1>7. Passed(f, a + k)
  <2>1. /\ a \in 1 .. Len(written) + 1 /\ f \in 1 .. a
        /\ f = 1 \/ written[f - 1].token = Separator
        /\ \A p \in f .. a - 1 : written[p].token # Separator
    BY <1>2 DEF ScriptInv, ScanInv, Passed
  <2>2. Len(written) \in Nat
    BY TextIs DEF ScriptInv, AuthorInv
  <2>3. a + k \in 1 .. Len(written) + 1 /\ f \in 1 .. a + k
    BY <1>2, <1>3, <2>1, <2>2
  <2>4. ASSUME NEW p \in f .. (a + k) - 1 PROVE written[p].token # Separator
    <3>1. p \in f .. a - 1 \/ p \in a .. a + k - 1
      BY <1>3, <2>1
    <3> QED
      BY <1>2, <2>1, <3>1
  <2> QED
    BY <2>1, <2>3, <2>4 DEF Passed
<1>8. Passed(f, a + k)'
  BY <1>6, <1>7 DEF Passed
<1>9. Aligned(m, a + k, g)'
  <2>1. Aligned(m, a + k, g)
    BY <1>2
  <2> QED
    BY <1>6, <2>1 DEF Aligned, InLiteral, InBlock
<1>10. FoundAre(d, f)' /\ FoundOK(d)'
  <2>1. FoundAre(d, f) /\ FoundOK(d)
    BY <1>2 DEF ScriptInv, ScanInv
  <2> QED
    BY <1>6, <2>1 DEF FoundAre, FoundOK, Text
<1>11. AuthorInv'
  <2>1. m # "idle"
    OBVIOUS
  <2> QED
    BY <1>4, <2>1, TurnKeeps DEF ScriptInv
<1> QED
  BY <1>4, <1>5, <1>8, <1>9, <1>10, <1>11 DEF ScriptInv, ScanInv

LEMMA PassIs ==
  ASSUME SplitterOK, NEW k, NEW m, Pass(k, m)
  PROVE  splitter' = [mode |-> m, at |-> splitter.at + k, tag |-> splitter.tag,
                      from |-> splitter.from, found |-> splitter.found]
BY DEF Pass, SplitterOK

\* Where the splitter is when it reads.
LEMMA ReadsAt ==
  ASSUME ScriptInv, NEW m \in {"plain", "comment", "quote", "dollar"}, InMode(m)
  PROVE  /\ splitter.at \in 1 .. Len(written) /\ splitter.mode = m
         /\ Aligned(m, splitter.at, splitter.tag) /\ ScriptOK /\ SplitterOK
         /\ Len(written) \in Nat /\ splitter.tag \in Seq(Char)
         /\ Passed(splitter.from, splitter.at)
<1>1. splitter.mode = m /\ splitter.at <= Len(Text) /\ m \notin {"idle", "done"}
  BY DEF InMode
<1>2. ScriptOK /\ SplitterOK
  BY DEF ScriptInv, AuthorInv, ScanInv
<1>3. Len(Text) = Len(written) /\ Len(written) \in Nat
  BY <1>2, TextIs
<1>4. Aligned(m, splitter.at, splitter.tag) /\ Passed(splitter.from, splitter.at)
  BY <1>1 DEF ScriptInv, ScanInv
<1>5. splitter.at \in 1 .. Len(written) + 1
  BY <1>4 DEF Passed
<1>6. splitter.tag \in Seq(Char)
  BY <1>2 DEF SplitterOK
<1> QED
  BY <1>1, <1>2, <1>3, <1>4, <1>5, <1>6

\* One more character, in the token or after it.
LEMMA CommentKeeps ==
  ASSUME ScriptInv, InComment, UNCHANGED <<written, opened, statements>>
  PROVE  ScriptInv'
<1>1. InMode("comment")
  BY DEF InComment
<1>2. PICK a : a = splitter.at
  OBVIOUS
<1>3. /\ a \in 1 .. Len(written) /\ splitter.mode = "comment" /\ ScriptOK /\ SplitterOK
      /\ Aligned("comment", a, splitter.tag) /\ Len(written) \in Nat
      /\ splitter.tag \in Seq(Char)
  BY <1>1, <1>2, ReadsAt
<1>4. PICK t \in AnyToken, h \in Nat, n \in Nat, off \in Nat : Spans(a, t, h, n, off)
  BY <1>3, TokenAt
<1>5. /\ t = written[a].token /\ off = written[a].offset /\ n = Len(t)
      /\ off >= 1 /\ off <= n /\ a = h + off /\ h + n <= Len(written)
      /\ h \in Nat /\ n \in Nat /\ off \in Nat
      /\ Text[a] = t[off]
  BY <1>3, <1>4, SpanIs
<1>6. t \in Comment /\ off > 1
  BY <1>3, <1>5 DEF Aligned
<1>7. \A i \in 1 .. n : t[i] = "\n" => i = n
  BY <1>5, <1>6, TokenIs
<1>7a. off \in 1 .. n /\ (t[off] = "\n" => off = n)
  <2>1. off \in 1 .. n
    BY <1>5
  <2> QED
    BY <1>7, <2>1
<1>8. PICK m \in {"plain", "comment"} : Pass(1, m) /\ (m = "plain" <=> Text[a] = "\n")
  BY <1>2 DEF InComment
<1>9. splitter' = [mode |-> m, at |-> splitter.at + 1, tag |-> splitter.tag,
                   from |-> splitter.from, found |-> splitter.found]
  BY <1>3, <1>8, PassIs
<1>10. \A p \in a .. a + 1 - 1 : written[p].token # Separator
  <2>1. t \in Code \cup Comment \cup Blank
    BY <1>6
  <2>2. t # Separator
    BY <2>1, NotSeparator
  <2> QED
    BY <1>3, <1>5, <2>2
<1>11. Aligned(m, a + 1, splitter.tag)
  <2>0. CASE off = n /\ t[n] # "\n"
    <3>1. m = "comment"
      BY <1>5, <1>8, <2>0
    <3>2. Unended(t) /\ h = Before(a)
      BY <1>4, <1>5, <1>6, <2>0 DEF Unended, Spans
    <3>3. h + n = Len(written)
      <4>1. Before(a) + Len(written[a].token) = Len(written)
        BY <1>3, <1>5, <3>2 DEF ScriptOK, SignsAlone
      <4> QED
        BY <1>5, <3>2, <4>1
    <3>4. ~(a + 1 <= Len(written))
      <4>1. a = Len(written) /\ Len(written) \in Nat
        BY <1>3, <1>5, <2>0, <3>3
      <4> QED
        BY <4>1
    <3> QED
      BY <3>1, <3>4 DEF Aligned
  <2>1. CASE off = n /\ t[n] = "\n"
    <3>1. m = "plain"
      BY <1>5, <1>7a, <1>8, <2>1
    <3>2. a + 1 = h + n + 1
      BY <1>5, <2>1
    <3>3. a + 1 <= Len(written) => written[a + 1].offset = 1
      BY <1>3, <1>4, <3>2, AfterToken
    <3> QED
      BY <3>1, <3>3 DEF Aligned
  <2>2. CASE off # n
    <3>1. m = "comment"
      BY <1>5, <1>7a, <1>8, <2>2
    <3>2. PICK j \in 1 .. n : j = off + 1 /\ h + j = a + 1
      <4>0. h \in Nat /\ n \in Nat /\ off \in Nat /\ off <= n /\ off # n /\ a = h + off
        BY <1>5, <2>2
      <4>1. off + 1 \in 1 .. n
        BY <4>0
      <4>2. h + (off + 1) = a + 1
        BY <4>0
      <4> QED
        BY <4>1, <4>2
    <3>3. /\ a + 1 \in 1 .. Len(written) /\ written[a + 1].token = t
          /\ written[a + 1].offset = j
      <4>1. /\ h + j \in 1 .. Len(written) /\ written[h + j].token = t
            /\ written[h + j].offset = j
        BY <1>4, <3>2 DEF Spans
      <4> QED
        BY <3>2, <4>1
    <3>4. a + 1 <= Len(written)
      BY <1>3, <3>3
    <3>5. j > 1
      <4>1. off \in Nat /\ off >= 1
        BY <1>5
      <4> QED
        BY <3>2, <4>1
    <3> QED
      BY <1>6, <3>1, <3>3, <3>4, <3>5 DEF Aligned
  <2> QED
    BY <2>0, <2>1, <2>2
<1> QED
  <2>1. splitter.at + 1 <= Len(written) + 1
    BY <1>2, <1>3
  <2> QED
    BY <1>2, <1>3, <1>9, <1>10, <1>11, <2>1, PassKeeps

\* Further in the same token.
LEMMA Further ==
  ASSUME ScriptOK, NEW p \in 1 .. Len(written),
         NEW t, NEW h, NEW n, NEW off, Spans(p, t, h, n, off),
         NEW k \in Nat, off + k <= n
  PROVE  /\ p + k \in 1 .. Len(written) /\ Text[p + k] = t[off + k]
         /\ written[p + k].token = t /\ written[p + k].offset = off + k
<1>1. h \in Nat /\ n \in Nat /\ off \in Nat /\ off >= 1 /\ p = h + off
  BY SpanIs
<1>2. off + k \in 1 .. n /\ h + (off + k) = p + k
  BY <1>1
<1>3. PICK j : j = off + k
  OBVIOUS
<1>4. /\ h + j \in 1 .. Len(written) /\ Text[h + j] = t[j]
      /\ written[h + j].token = t /\ written[h + j].offset = j
  BY <1>2, <1>3, SpanMoves
<1> QED
  BY <1>2, <1>3, <1>4

TokenIsAt(q, t, o) ==
  q \in 1 .. Len(written) /\ written[q].token = t /\ written[q].offset = o

LEMMA FurtherAt ==
  ASSUME ScriptOK, NEW p \in 1 .. Len(written),
         NEW t, NEW h, NEW n, NEW off, Spans(p, t, h, n, off),
         NEW k \in Nat, off + k <= n, NEW q, NEW o, q = p + k, o = off + k
  PROVE  TokenIsAt(q, t, o)
BY Further DEF TokenIsAt

\* At the end of a token.
LEMMA Past ==
  ASSUME ScriptOK, NEW p \in 1 .. Len(written),
         NEW t, NEW h, NEW n, NEW off, Spans(p, t, h, n, off),
         NEW k \in Nat, off + k = n + 1, NEW g
  PROVE  Aligned("plain", p + k, g)
<1>1. h \in Nat /\ n \in Nat /\ off \in Nat /\ off >= 1 /\ p = h + off
  BY SpanIs
<1>2. p + k = h + n + 1
  BY <1>1
<1>3. p + k <= Len(written) => written[p + k].offset = 1
  BY <1>2, AfterToken
<1> QED
  BY <1>3 DEF Aligned

\* There is no separator in what is taken of another token.
LEMMA NoCut ==
  ASSUME ScriptOK, NEW p \in 1 .. Len(written),
         NEW t, NEW h, NEW n, NEW off, Spans(p, t, h, n, off), t # Separator,
         NEW k \in Nat, off + k <= n + 1
  PROVE  /\ p + k <= Len(written) + 1
         /\ \A q \in p .. p + k - 1 : written[q].token # Separator
<1>1. h \in Nat /\ n \in Nat /\ off \in Nat /\ off >= 1 /\ off <= n /\ p = h + off
      /\ h + n <= Len(written) /\ Len(written) \in Nat
  BY SpanIs
<1>2. p + k <= Len(written) + 1
  BY <1>1
<1>3. ASSUME NEW q \in p .. p + k - 1 PROVE written[q].token # Separator
  <2>1. PICK j \in Nat : q = p + j /\ off + j <= n
    <3>1. q - p \in Nat /\ q = p + (q - p) /\ off + (q - p) <= n
      BY <1>1
    <3> QED
      BY <3>1
  <2>2. written[p + j].token = t
    BY <2>1, Further
  <2> QED
    BY <2>1, <2>2
<1> QED
  BY <1>2, <1>3

\* What a token says of the character it begins with.
LEMMA BeginsWith ==
  ASSUME NEW token \in AnyToken
  PROVE  /\ token[1] = "'" <=> token \in Literal
         /\ token[1] = "$" <=> token \in Block \/ token = <<"$">>
         /\ token[1] = "-" <=> token \in Comment \/ token = <<"-">>
         /\ token[1] = "semicolon" <=> token = Separator
<1>1. /\ token \in Word => token[1] \notin {"'", "semicolon"}
      /\ token \in Literal => token[1] = "'"
      /\ token \in Block => token[1] = "$"
      /\ token \in Comment => token[1] = "-"
      /\ token \in Blank => token[1] \in White
      /\ token = Separator => token[1] = "semicolon"
  BY TokenIs
<1>2. \/ token \in Word \/ token \in Literal \/ token \in Block
      \/ token \in Comment \/ token \in Blank \/ token = Separator
  BY DEF AnyToken, Code
<1>3. /\ token[1] = "-" => token = <<"-">> \/ token \in Comment
      /\ token[1] = "$" => token = <<"$">> \/ token \in Block
      /\ token = <<"-">> => token[1] = "-"
      /\ token = <<"$">> => token[1] = "$"
  BY SignIs
<1> QED
  BY <1>1, <1>2, <1>3 DEF White

LEMMA PairsOf ==
  ASSUME NEW t, NEW pairs \in Pairs(t)
  PROVE  /\ \A i \in pairs : i \in 2 .. Len(t) - 2 /\ i + 1 \notin pairs
         /\ \A i \in 2 .. Len(t) - 1 :
              t[i] = "'" <=> (i \in pairs \/ i - 1 \in pairs)
BY DEF Pairs

\* In a literal the splitter comes to its end and nowhere else out of it.
LEMMA QuoteKeeps ==
  ASSUME ScriptInv, InQuote, UNCHANGED <<written, opened, statements>>
  PROVE  ScriptInv'
<1>1. InMode("quote")
  BY DEF InQuote
<1>2. PICK a, g : a = splitter.at /\ g = splitter.tag
  OBVIOUS
<1>3. /\ a \in 1 .. Len(written) /\ splitter.mode = "quote" /\ ScriptOK /\ SplitterOK
      /\ Aligned("quote", a, g) /\ Len(written) \in Nat /\ g \in Seq(Char)
  BY <1>1, <1>2, ReadsAt
<1>4. PICK t \in AnyToken, h \in Nat, n \in Nat, off \in Nat : Spans(a, t, h, n, off)
  BY <1>3, TokenAt
<1>5. t = written[a].token /\ off = written[a].offset /\ n = Len(t) /\ Text[a] = t[off]
  BY <1>3, <1>4, SpanIs
<1>6. /\ h \in Nat /\ n \in Nat /\ off \in Nat /\ off >= 1 /\ off <= n /\ a = h + off
      /\ h + n <= Len(written) /\ Len(written) \in Nat
  BY <1>3, <1>4, SpanIs
<1>7. t \in Literal /\ off > 1 /\ \E pairs \in Pairs(t) : off - 1 \notin pairs
  BY <1>3, <1>5 DEF Aligned, InLiteral
<1>8. PICK pairs \in Pairs(t) : off - 1 \notin pairs
  BY <1>7
<1>9. /\ \A i \in pairs : i \in 2 .. n - 2 /\ i + 1 \notin pairs
      /\ \A i \in 2 .. n - 1 : t[i] = "'" <=> (i \in pairs \/ i - 1 \in pairs)
  BY <1>5, <1>8, PairsOf
<1>10. t[n] = "'" /\ t # Separator
  <2>1. t \in Code \cup Comment \cup Blank
    BY <1>7 DEF Code
  <2> QED
    BY <1>5, <1>7, <2>1, NotSeparator, TokenIs
<1>11. AtToken(Text, a, <<"'", "'">>) <=> a + 1 <= Len(written) /\ Text[a] = "'" /\ Text[a + 1] = "'"
  <2>1. Text \in Seq(Char) /\ Len(Text) = Len(written) /\ "'" \in Char /\ a \in 1 .. Len(Text)
    BY <1>3, TextIs, StatementsAssumption
  <2> QED
    BY <2>1, TwoAt
<1>12. ASSUME NEW k \in Nat, NEW m \in {"plain", "quote"}, Pass(k, m),
              a + k <= Len(written) + 1, Aligned(m, a + k, g),
              \A p \in a .. a + k - 1 : written[p].token # Separator
       PROVE  ScriptInv'
  <2>1. splitter' = [mode |-> m, at |-> splitter.at + k, tag |-> splitter.tag,
                     from |-> splitter.from, found |-> splitter.found]
    BY <1>3, <1>12, PassIs
  <2> QED
    BY <1>2, <1>3, <1>12, <2>1, PassKeeps
<1>13. CASE t[off] # "'"
  <2>1. Pass(1, "quote")
    BY <1>2, <1>5, <1>13 DEF InQuote
  <2>2. off # n
    BY <1>10, <1>13
  <2>3. off \in 2 .. n - 1 /\ off + 1 <= n /\ off + 1 <= n + 1
    BY <1>6, <1>7, <2>2
  <2>4. off \notin pairs
    BY <1>9, <1>13, <2>3
  <2>5. /\ a + 1 \in 1 .. Len(written) /\ written[a + 1].token = t
        /\ written[a + 1].offset = off + 1
    <3>1. off + 1 <= n
      BY <2>3
    <3> QED
      BY <1>3, <1>4, <3>1, Further
  <2>6. InLiteral(a + 1)
    <3>1. off + 1 > 1 /\ (off + 1) - 1 = off
      BY <1>6
    <3> QED
      BY <1>7, <1>8, <2>4, <2>5, <3>1 DEF InLiteral
  <2>7. Aligned("quote", a + 1, g)
    <3>1. a + 1 <= Len(written)
      BY <1>6, <2>5
    <3> QED
      BY <2>6, <3>1 DEF Aligned
  <2>8. /\ a + 1 <= Len(written) + 1
        /\ \A q \in a .. a + 1 - 1 : written[q].token # Separator
    BY <1>3, <1>4, <1>10, <2>3, NoCut
  <2> QED
    BY <1>12, <2>1, <2>7, <2>8
<1>14. CASE t[off] = "'" /\ off # n
  <2>1. off \in 2 .. n - 1
    BY <1>6, <1>7, <1>14
  <2>2. off \in pairs
    BY <1>8, <1>9, <1>14, <2>1
  <2>3. off + 1 \in 2 .. n - 1 /\ off + 2 <= n /\ off + 1 <= n /\ off + 2 <= n + 1
        /\ (off + 1) - 1 = off /\ off + 2 > 1 /\ (off + 2) - 1 = off + 1
    <3>1. off \in 2 .. n - 2
      BY <1>9, <2>2
    <3> QED
      BY <1>6, <3>1
  <2>4. t[off + 1] = "'"
    BY <1>9, <2>2, <2>3
  <2>5. a + 1 \in 1 .. Len(written) /\ Text[a + 1] = t[off + 1]
    BY <1>3, <1>4, <2>3, Further
  <2>6. AtToken(Text, a, <<"'", "'">>)
    <3>1. a + 1 <= Len(written)
      BY <1>6, <2>5
    <3> QED
      BY <1>5, <1>11, <1>14, <2>4, <2>5, <3>1
  <2>7. Pass(2, "quote")
    BY <1>2, <1>5, <1>14, <2>6 DEF InQuote
  <2>8. /\ a + 2 \in 1 .. Len(written) /\ written[a + 2].token = t
        /\ written[a + 2].offset = off + 2
    <3>1. PICK q, o : q = a + 2 /\ o = off + 2
      OBVIOUS
    <3>2. off + 2 <= n
      BY <2>3
    <3>3. TokenIsAt(q, t, o)
      BY <1>3, <1>4, <3>1, <3>2, FurtherAt
    <3> QED
      BY <3>1, <3>3 DEF TokenIsAt
  <2>9. off + 1 \notin pairs
    BY <1>9, <2>2
  <2>10. Aligned("quote", a + 2, g)
    <3>1. a + 2 <= Len(written)
      BY <1>6, <2>8
    <3>2. InLiteral(a + 2)
      BY <1>7, <1>8, <2>3, <2>8, <2>9 DEF InLiteral
    <3> QED
      BY <3>1, <3>2 DEF Aligned
  <2>11. /\ a + 2 <= Len(written) + 1
         /\ \A q \in a .. a + 2 - 1 : written[q].token # Separator
    BY <1>3, <1>4, <1>10, <2>3, NoCut
  <2> QED
    BY <1>12, <2>7, <2>10, <2>11
<1>15. CASE off = n /\ ~AtToken(Text, a, <<"'", "'">>)
  <2>1. Pass(1, "plain")
    BY <1>2, <1>5, <1>10, <1>15 DEF InQuote
  <2>2. off + 1 = n + 1 /\ off + 1 <= n + 1
    BY <1>6, <1>15
  <2>3. Aligned("plain", a + 1, g)
    BY <1>3, <1>4, <2>2, Past
  <2>4. /\ a + 1 <= Len(written) + 1
        /\ \A q \in a .. a + 1 - 1 : written[q].token # Separator
    BY <1>3, <1>4, <1>10, <2>2, NoCut
  <2> QED
    BY <1>12, <2>1, <2>3, <2>4
\* A literal that follows at once is taken for the rest of this one.
<1>16. CASE off = n /\ AtToken(Text, a, <<"'", "'">>)
  <2>1. Pass(2, "quote")
    BY <1>2, <1>5, <1>10, <1>16 DEF InQuote
  <2>2. PICK b : b = a + 1
    OBVIOUS
  <2>3. b \in 1 .. Len(written) /\ Text[b] = "'" /\ b = h + n + 1
    BY <1>6, <1>11, <1>16, <2>2
  <2>4. written[b].offset = 1
    <3>1. h + n + 1 <= Len(written)
      BY <1>6, <2>3
    <3> QED
      BY <1>3, <1>4, <2>3, <3>1, AfterToken
  <2>5. PICK u \in AnyToken, e \in Nat, l \in Nat, o \in Nat : Spans(b, u, e, l, o)
    <3>1. ScriptOK /\ b \in 1 .. Len(written)
      BY <1>3, <2>3
    <3> QED
      BY <3>1, TokenAt
  <2>6. u = written[b].token /\ o = written[b].offset /\ l = Len(u) /\ Text[b] = u[o]
    BY <1>3, <2>3, <2>5, SpanIs
  <2>7. o = 1 /\ u[1] = "'" /\ u \in AnyToken
    BY <2>3, <2>4, <2>5, <2>6
  <2>8. u \in Literal
    BY <2>7, BeginsWith
  <2>9. l \in Nat /\ l >= 2 /\ o + 1 <= l
    <3>1. Len(u) \in Nat /\ Len(u) >= 2
      BY <2>7, <2>8, TokenIs
    <3> QED
      BY <2>6, <2>7, <3>1
  <2>10. /\ b + 1 \in 1 .. Len(written) /\ written[b + 1].token = u
         /\ written[b + 1].offset = o + 1
    BY <1>3, <2>3, <2>5, <2>9, Further
  <2>11. a + 2 = b + 1 /\ o + 1 = 2 /\ a + 2 <= Len(written) /\ a + 2 <= Len(written) + 1
         /\ 2 - 1 = 1
    BY <1>6, <2>2, <2>7, <2>10
  <2>12. InLiteral(a + 2)
    <3>1. PICK qs \in Pairs(u) : TRUE
      BY <2>8, StatementsAssumption
    <3>2. 1 \notin qs
      <4>1. \A i \in qs : i \in 2 .. l - 2
        BY <2>6, <3>1, PairsOf
      <4>2. 1 \notin 2 .. l - 2
        BY <2>9
      <4> QED
        BY <4>1, <4>2
    <3> QED
      BY <2>8, <2>10, <2>11, <3>1, <3>2 DEF InLiteral
  <2>13. Aligned("quote", a + 2, g)
    BY <2>11, <2>12 DEF Aligned
  <2>14. \A q \in a .. a + 2 - 1 : written[q].token # Separator
    <3>1. \A q \in a .. a + 2 - 1 : q = a \/ q = b
      BY <1>6, <2>2
    <3>2. u # Separator
      <4>1. u \in Code \cup Comment \cup Blank
        BY <2>8 DEF Code
      <4> QED
        BY <4>1, NotSeparator
    <3> QED
      BY <1>5, <1>10, <2>6, <3>1, <3>2
  <2> QED
    BY <1>12, <2>1, <2>11, <2>13, <2>14
<1> QED
  BY <1>10, <1>13, <1>14, <1>15, <1>16

\* What begins here, and ends in the same token, is that token's.
LEMMA TextAt ==
  ASSUME ScriptOK, NEW p \in 1 .. Len(written),
         NEW t, NEW h, NEW n, NEW off, Spans(p, t, h, n, off),
         NEW g, Len(g) \in Nat, Len(g) >= 1, off + Len(g) <= n + 1
  PROVE  AtToken(Text, p, g) <=> AtToken(t, off, g)
<1>1. PICK a, A, B, b, m : /\ a = off /\ A = p /\ B = p + m - 1 /\ b = off + m - 1
                           /\ m = Len(g)
  OBVIOUS
<1>2. /\ h \in Nat /\ n \in Nat /\ off \in Nat /\ off >= 1 /\ off <= n /\ p = h + off
      /\ h + n <= Len(written) /\ Len(written) \in Nat
  BY SpanIs
<1>3. n = Len(t)
  BY SpanIs
<1>4. /\ a \in 1 .. n /\ b \in 1 .. n /\ a <= b /\ A = h + a /\ B = h + b
  BY <1>1, <1>2
<1>5. SubSeq(Text, A, B) = SubSeq(t, a, b)
  <2>1. TextOf(t, h, a, b)
    BY <1>4, TokenText
  <2> QED
    BY <1>4, <2>1 DEF TextOf
<1>6. Len(Text) = Len(written)
  BY TextIs
<1>7. AtToken(Text, p, g) <=> B <= Len(written) /\ SubSeq(Text, A, B) = g
  BY <1>1, <1>6 DEF AtToken
<1>8. AtToken(t, off, g) <=> b <= n /\ SubSeq(t, a, b) = g
  BY <1>1, <1>3 DEF AtToken
<1>9. B <= Len(written) /\ b <= n
  BY <1>2, <1>4
<1> QED
  BY <1>5, <1>7, <1>8, <1>9

\* In a block the splitter comes to its last mark and takes it for the end.
LEMMA DollarKeeps ==
  ASSUME ScriptInv, InDollar, UNCHANGED <<written, opened, statements>>
  PROVE  ScriptInv'
<1>1. InMode("dollar")
  BY DEF InDollar
<1>2. PICK a, g : a = splitter.at /\ g = splitter.tag
  OBVIOUS
<1>3. /\ a \in 1 .. Len(written) /\ splitter.mode = "dollar" /\ ScriptOK /\ SplitterOK
      /\ Aligned("dollar", a, g) /\ Len(written) \in Nat /\ g \in Seq(Char)
  BY <1>1, <1>2, ReadsAt
<1>4. PICK t \in AnyToken, h \in Nat, n \in Nat, off \in Nat : Spans(a, t, h, n, off)
  BY <1>3, TokenAt
<1>5. t = written[a].token /\ off = written[a].offset /\ n = Len(t) /\ t \in AnyToken
  BY <1>3, <1>4, SpanIs
<1>6. /\ h \in Nat /\ n \in Nat /\ off \in Nat /\ off >= 1 /\ off <= n /\ a = h + off
      /\ h + n <= Len(written) /\ Len(written) \in Nat
  BY <1>3, <1>4, SpanIs
<1>7. t \in Block
  BY <1>3, <1>5 DEF Aligned, InBlock
<1>8. PICK m \in 1 .. n : /\ Marked(t, m) /\ g = SubSeq(t, 1, m)
                          /\ m < off /\ off <= n - m + 1
  BY <1>3, <1>5 DEF Aligned, InBlock
<1>9. 2 <= m /\ 2 * m <= n /\ Len(g) = m /\ m \in Nat
  BY <1>5, <1>8, MarkIs
<1>10. t # Separator
  <2>1. t \in Code \cup Comment \cup Blank
    BY <1>7 DEF Code
  <2> QED
    BY <2>1, NotSeparator
<1>11. AtToken(Text, a, g) <=> AtToken(t, off, g)
  <2>1. off + Len(g) <= n + 1 /\ Len(g) >= 1
    BY <1>6, <1>8, <1>9
  <2> QED
    BY <1>3, <1>4, <1>9, <2>1, TextAt
<1>12. ASSUME NEW k \in Nat, NEW l \in {"plain", "dollar"}, Pass(k, l),
              a + k <= Len(written) + 1, Aligned(l, a + k, g),
              \A p \in a .. a + k - 1 : written[p].token # Separator
       PROVE  ScriptInv'
  <2>1. splitter' = [mode |-> l, at |-> splitter.at + k, tag |-> splitter.tag,
                     from |-> splitter.from, found |-> splitter.found]
    BY <1>3, <1>12, PassIs
  <2> QED
    BY <1>2, <1>3, <1>12, <2>1, PassKeeps
<1>13. CASE off = n - m + 1
  <2>1. AtToken(t, off, g)
    BY <1>5, <1>8, <1>13 DEF Marked
  <2>2. Pass(m, "plain")
    BY <1>2, <1>9, <1>11, <2>1 DEF InDollar
  <2>3. off + m = n + 1 /\ off + m <= n + 1
    BY <1>6, <1>9, <1>13
  <2>4. Aligned("plain", a + m, g)
    BY <1>3, <1>4, <1>9, <2>3, Past
  <2>5. /\ a + m <= Len(written) + 1
        /\ \A q \in a .. a + m - 1 : written[q].token # Separator
    BY <1>3, <1>4, <1>9, <1>10, <2>3, NoCut
  <2> QED
    BY <1>9, <1>12, <2>2, <2>4, <2>5
<1>14. CASE off # n - m + 1
  <2>1. off \in m + 1 .. n - m /\ off + 1 <= n /\ off + 1 <= n + 1
        /\ m < off + 1 /\ off + 1 <= n - m + 1
    BY <1>6, <1>8, <1>9, <1>14
  <2>2. ~AtToken(t, off, g)
    BY <1>5, <1>8, <2>1 DEF Marked
  <2>3. Pass(1, "dollar")
    BY <1>2, <1>11, <2>2 DEF InDollar
  <2>4. /\ a + 1 \in 1 .. Len(written) /\ written[a + 1].token = t
        /\ written[a + 1].offset = off + 1
    <3>1. off + 1 <= n
      BY <2>1
    <3> QED
      BY <1>3, <1>4, <3>1, Further
  <2>5. InBlock(a + 1, g)
    <3>1. m < off + 1 /\ off + 1 <= n - m + 1
      BY <2>1
    <3>2. written[a + 1].token = t /\ written[a + 1].offset = off + 1
      BY <2>4
    <3> QED
      BY <1>5, <1>7, <1>8, <3>1, <3>2 DEF InBlock
  <2>6. Aligned("dollar", a + 1, g)
    <3>1. a + 1 <= Len(written)
      BY <1>6, <2>4
    <3> QED
      BY <2>5, <3>1 DEF Aligned
  <2>7. /\ a + 1 <= Len(written) + 1
        /\ \A q \in a .. a + 1 - 1 : written[q].token # Separator
    <3>1. off + 1 <= n + 1
      BY <2>1
    <3> QED
      BY <1>3, <1>4, <1>10, <3>1, NoCut
  <2> QED
    BY <1>12, <2>3, <2>6, <2>7
<1> QED
  BY <1>13, <1>14

\* The loop outside of literals, blocks and comments, but for separators.
LEMMA PlainKeeps ==
  ASSUME ScriptInv, InPlain, Text[splitter.at] # "semicolon",
         UNCHANGED <<written, opened, statements>>
  PROVE  ScriptInv'
<1>1. InMode("plain")
  BY DEF InPlain
<1>2. PICK a, g : a = splitter.at /\ g = splitter.tag
  OBVIOUS
<1>3. /\ a \in 1 .. Len(written) /\ splitter.mode = "plain" /\ ScriptOK /\ SplitterOK
      /\ Aligned("plain", a, g) /\ Len(written) \in Nat /\ g \in Seq(Char)
  BY <1>1, <1>2, ReadsAt
<1>4. PICK t \in AnyToken, h \in Nat, n \in Nat, off \in Nat : Spans(a, t, h, n, off)
  BY <1>3, TokenAt
<1>5. t = written[a].token /\ off = written[a].offset /\ n = Len(t) /\ t \in AnyToken
      /\ Text[a] = t[off]
  BY <1>3, <1>4, SpanIs
<1>6. /\ h \in Nat /\ n \in Nat /\ n >= 1 /\ a = h + off /\ off = 1
      /\ h + n <= Len(written) /\ Len(written) \in Nat
  <2>1. off = 1
    <3>1. a <= Len(written)
      BY <1>3
    <3> QED
      BY <1>3, <1>5, <3>1 DEF Aligned
  <2> QED
    BY <1>3, <1>4, <2>1, SpanIs
<1>7. Text[a] = t[1] /\ t # Separator
  BY <1>2, <1>5, <1>6, BeginsWith
<1>8. /\ t[1] = "'" <=> t \in Literal
      /\ t[1] = "$" <=> t \in Block \/ t = <<"$">>
      /\ t[1] = "-" <=> t \in Comment \/ t = <<"-">>
  BY <1>5, BeginsWith
<1>9. AtToken(Text, a, <<"-", "-">>) <=> t \in Comment
  <2>1. Text \in Seq(Char) /\ Len(Text) = Len(written) /\ "-" \in Char /\ a \in 1 .. Len(Text)
    BY <1>3, TextIs, StatementsAssumption
  <2>2. AtToken(Text, a, <<"-", "-">>)
          <=> a + 1 <= Len(written) /\ Text[a] = "-" /\ Text[a + 1] = "-"
    BY <2>1, TwoAt
  <2>3. ASSUME t \in Comment PROVE a + 1 <= Len(written) /\ Text[a + 1] = "-"
    <3>1. n >= 2 /\ t[2] = "-"
      BY <1>5, <2>3, TokenIs
    <3>2. off + 1 <= n /\ off + 1 = 2
      BY <1>6, <3>1
    <3>3. a + 1 \in 1 .. Len(written) /\ Text[a + 1] = t[off + 1]
      BY <1>3, <1>4, <3>2, Further
    <3> QED
      BY <1>6, <3>1, <3>2, <3>3
  <2>4. ASSUME t = <<"-">>, a + 1 <= Len(written) PROVE Text[a + 1] # "-"
    BY <1>3, <1>5, <2>4 DEF ScriptOK, SignsAlone
  <2> QED
    BY <1>7, <1>8, <2>2, <2>3, <2>4
<1>10. ASSUME NEW k \in Nat, NEW l \in {"plain", "comment", "quote"}, Pass(k, l),
              off + k <= n + 1, Aligned(l, a + k, g)
       PROVE  ScriptInv'
  <2>1. splitter' = [mode |-> l, at |-> splitter.at + k, tag |-> splitter.tag,
                     from |-> splitter.from, found |-> splitter.found]
    BY <1>3, <1>10, PassIs
  <2>2. /\ a + k <= Len(written) + 1
        /\ \A q \in a .. a + k - 1 : written[q].token # Separator
    BY <1>3, <1>4, <1>7, <1>10, NoCut
  <2> QED
    BY <1>2, <1>3, <1>10, <2>1, <2>2, PassKeeps
<1>11. t \in Comment \/ t \in Literal \/ t \in Block \/ t \in Word \/ t \in Blank
  BY <1>5, <1>7 DEF AnyToken, Code
<1>12. CASE t \in Comment
  <2>1. Pass(1, "comment")
    BY <1>2, <1>7, <1>8, <1>9, <1>12, NoTag DEF InPlain, OpensComment
  <2>2. n >= 2
    BY <1>5, <1>12, TokenIs
  <2>3. off + 1 <= n /\ off + 1 <= n + 1 /\ off + 1 = 2
    BY <1>6, <2>2
  <2>4. /\ a + 1 \in 1 .. Len(written) /\ written[a + 1].token = t
        /\ written[a + 1].offset = off + 1
    BY <1>3, <1>4, <2>3, Further
  <2>5. Aligned("comment", a + 1, g)
    <3>1. a + 1 <= Len(written) /\ written[a + 1].offset > 1
      BY <1>6, <2>3, <2>4
    <3> QED
      BY <1>12, <2>4, <3>1 DEF Aligned
  <2> QED
    BY <1>10, <2>1, <2>3, <2>5
<1>13. CASE t \in Literal
  <2>0. t \notin Comment /\ Text[a] = "'"
    BY <1>7, <1>8, <1>13
  <2>1. Pass(1, "quote")
    BY <1>2, <1>9, <2>0, NoTag DEF InPlain, OpensComment
  <2>2. n >= 2
    BY <1>5, <1>13, TokenIs
  <2>3. off + 1 <= n /\ off + 1 <= n + 1 /\ off + 1 = 2
    BY <1>6, <2>2
  <2>4. /\ a + 1 \in 1 .. Len(written) /\ written[a + 1].token = t
        /\ written[a + 1].offset = 2
    BY <1>3, <1>4, <2>3, Further
  <2>5. InLiteral(a + 1)
    <3>1. PICK pairs \in Pairs(t) : TRUE
      BY <1>13, StatementsAssumption
    <3>2. 2 - 1 \notin pairs
      BY <1>5, <1>6, <3>1, PairsOf
    <3> QED
      BY <1>13, <2>4, <3>1, <3>2 DEF InLiteral
  <2>6. Aligned("quote", a + 1, g)
    <3>1. a + 1 <= Len(written)
      BY <1>6, <2>4
    <3> QED
      BY <2>5, <3>1 DEF Aligned
  <2> QED
    BY <1>10, <2>1, <2>3, <2>6
<1>14. CASE t \in Block
  <2>0. t \notin Comment /\ t \notin Literal /\ Text[a] = "$"
    BY <1>7, <1>8, <1>14
  <2>1. PICK m \in 1 .. n : Marked(t, m)
    BY <1>5, <1>14, StatementsAssumption
  <2>2. PICK mark : mark = SubSeq(t, 1, m)
    OBVIOUS
  <2>3. 2 <= m /\ 2 * m <= n /\ Len(mark) = m /\ m \in Nat /\ mark \in Seq(Char)
    <3>1. m \in 1 .. Len(t) /\ m \in Nat
      BY <1>5, <1>6, <2>1
    <3>2. 2 <= m /\ 2 * m <= Len(t) /\ Len(mark) = m /\ mark \in Seq(Char)
      BY <1>5, <2>1, <2>2, <3>1, MarkIs
    <3> QED
      BY <1>5, <3>1, <3>2
  <2>4. Tag(a) = mark
    BY <1>3, <1>4, <1>6, <2>1, <2>2, TagOfBlock
  <2>5. mark # <<>>
    BY <2>3
  <2>6. splitter' = [splitter EXCEPT !.at = a + Len(mark), !.mode = "dollar", !.tag = mark]
    BY <1>2, <1>7, <1>8, <1>9, <2>0, <2>4, <2>5 DEF InPlain, OpensComment
  <2>7. splitter' = [mode |-> "dollar", at |-> splitter.at + m, tag |-> mark,
                     from |-> splitter.from, found |-> splitter.found]
    BY <1>2, <1>3, <2>3, <2>6 DEF SplitterOK
  <2>8. off + m <= n /\ off + m <= n + 1 /\ off + m = m + 1 /\ m < m + 1
        /\ m + 1 <= n - m + 1
    BY <1>6, <2>3
  <2>9. /\ a + m \in 1 .. Len(written) /\ written[a + m].token = t
        /\ written[a + m].offset = off + m
    <3>1. off + m <= n /\ m \in Nat
      BY <2>3, <2>8
    <3>2. PICK q, o : q = a + m /\ o = off + m
      OBVIOUS
    <3>3. TokenIsAt(q, t, o)
      BY <1>3, <1>4, <3>1, <3>2, FurtherAt
    <3> QED
      BY <3>2, <3>3 DEF TokenIsAt
  <2>10. InBlock(a + m, mark)
    BY <1>5, <1>14, <2>1, <2>2, <2>8, <2>9 DEF InBlock
  <2>11. Aligned("dollar", a + m, mark)
    <3>1. a + m <= Len(written)
      BY <1>6, <2>9
    <3> QED
      BY <2>10, <3>1 DEF Aligned
  <2>12. /\ a + m <= Len(written) + 1
         /\ \A q \in a .. a + m - 1 : written[q].token # Separator
    BY <1>3, <1>4, <1>7, <2>3, <2>8, NoCut
  <2> QED
    BY <1>2, <1>3, <2>3, <2>7, <2>11, <2>12, PassKeeps
<1>15. CASE t \in Word \/ t \in Blank
  <2>0. n = 1 /\ t[1] # "'" /\ t \notin Comment /\ t \notin Block
    BY <1>5, <1>15, TokenIs DEF White
  <2>1. t \notin Comment /\ Text[a] \notin {"'", "semicolon"}
    BY <1>2, <1>7, <2>0
  <2>2. Tag(a) = <<>>
    <3>1. CASE t = <<"$">>
      BY <1>3, <1>5, <3>1, NoTagAlone
    <3>2. CASE t # <<"$">>
      BY <1>7, <1>8, <2>0, <3>2, NoTag
    <3> QED
      BY <3>1, <3>2
  <2>3. Pass(1, "plain")
    BY <1>2, <1>9, <2>1, <2>2 DEF InPlain, OpensComment
  <2>4. off + 1 = n + 1 /\ off + 1 <= n + 1
    BY <1>6, <2>0
  <2>5. Aligned("plain", a + 1, g)
    BY <1>3, <1>4, <2>4, Past
  <2> QED
    BY <1>10, <2>3, <2>4, <2>5
<1> QED
  BY <1>11, <1>12, <1>13, <1>14, <1>15

-----------------------------------------------------------------------------
(* Statements: what the splitter finds.                                    *)

LEMMA SameStart ==
  ASSUME ScriptOK, NEW f \in Nat, NEW t \in Nat, NEW u \in Nat,
         Segment(f, t), Segment(f, u)
  PROVE  t = u
<1>1. ASSUME NEW x \in Nat, NEW y \in Nat, Segment(f, x), Segment(f, y), x < y
      PROVE  FALSE
  <2>1. /\ Len(written) \in Nat /\ x + 1 >= f /\ y <= Len(written)
        /\ \A p \in f .. y : written[p].token # Separator
    BY <1>1, SegmentIs
  <2>2. written[x + 1].token = Separator
    <3>1. x # Len(written)
      BY <1>1, <2>1
    <3> QED
      BY <1>1, <3>1 DEF Segment
  <2>3. x + 1 \in f .. y
    BY <1>1, <2>1
  <2> QED
    BY <2>1, <2>2, <2>3
<1>2. ~(t < u) /\ ~(u < t)
  BY <1>1
<1> QED
  BY <1>2

\* Of two statements the later begins after the end of the earlier.
LEMMA SegmentsApart ==
  ASSUME ScriptOK, NEW f \in Nat, NEW t \in Nat, NEW g \in Nat, NEW u \in Nat,
         Segment(f, t), Segment(g, u), f < g
  PROVE  t + 2 <= g
<1>1. /\ Len(written) \in Nat /\ f >= 1
      /\ \A p \in f .. t : written[p].token # Separator
  BY SegmentIs
<1>2. written[g - 1].token = Separator
  BY <1>1 DEF Segment
<1>3. g - 1 \notin f .. t
  BY <1>1, <1>2
<1> QED
  BY <1>3

\* The statement that ends here is the next with code, or has none.
LEMMA NextFound ==
  ASSUME AuthorInv, splitter.mode # "idle",
         NEW f \in Nat, NEW t \in Nat, Segment(f, t),
         NEW found \in Seq(Seq(Char)), FoundAre(found, f)
  PROVE  /\ Len(found) \in Nat /\ Len(statements) \in Nat
         /\ HasCode(f, t) =>
              /\ Len(found) + 1 \in 1 .. Len(statements)
              /\ statements[Len(found) + 1].from = f
              /\ statements[Len(found) + 1].to = t
              /\ \A i \in Len(found) + 2 .. Len(statements) :
                   t + 2 <= statements[i].from
         /\ ~HasCode(f, t) =>
              \A i \in Len(found) + 1 .. Len(statements) :
                t + 2 <= statements[i].from
<1>1. PICK n, l : n = Len(found) /\ l = Len(statements)
  OBVIOUS
<1>2. n \in Nat /\ l \in Nat
  <2>1. statements \in Seq([from : Nat, to : Nat])
    BY DEF AuthorInv, ListOK
  <2> QED
    BY <1>1, <2>1, LenProperties
<1>3. /\ n <= l
      /\ \A i \in 1 .. n : statements[i].to < f
      /\ \A i \in n + 1 .. l : f <= statements[i].from
  BY <1>1 DEF FoundAre
<1>4. ScriptOK
  BY DEF AuthorInv
<1>5. \A i \in 1 .. l : /\ statements[i].from \in Nat /\ statements[i].to \in Nat
                        /\ Segment(statements[i].from, statements[i].to)
                        /\ HasCode(statements[i].from, statements[i].to)
  BY <1>1, ListedIs
<1>6. \A i, j \in 1 .. l : i < j => statements[i].to < statements[j].from
  BY <1>1 DEF AuthorInv, ListOK
<1>7. ASSUME NEW i \in n + 1 .. l, statements[i].from # f
      PROVE  t + 2 <= statements[i].from
  <2>1. PICK g, u : g = statements[i].from /\ u = statements[i].to
    OBVIOUS
  <2>2. i \in 1 .. l
    BY <1>2
  <2>3. g \in Nat /\ u \in Nat /\ Segment(g, u) /\ f < g
    BY <1>3, <1>5, <1>7, <2>1, <2>2
  <2>4. t + 2 <= g
    BY <1>4, <2>3, SegmentsApart
  <2> QED
    BY <2>1, <2>4
<1>8. ASSUME NEW i \in n + 1 .. l, statements[i].from = f
      PROVE  statements[i].to = t /\ HasCode(f, t) /\ i = n + 1
  <2>1. PICK u : u = statements[i].to
    OBVIOUS
  <2>2. i \in 1 .. l
    BY <1>2
  <2>3. u \in Nat /\ Segment(f, u) /\ HasCode(f, u)
    BY <1>5, <1>8, <2>1, <2>2
  <2>4. u = t
    BY <1>4, <2>3, SameStart
  <2>5. i = n + 1
    <3> SUFFICES ASSUME i # n + 1 PROVE FALSE
      OBVIOUS
    <3>1. PICK j : j = n + 1
      OBVIOUS
    <3>2. j \in 1 .. l /\ j \in n + 1 .. l /\ j < i
      BY <1>2, <3>1
    <3>3. PICK g, v : g = statements[j].from /\ v = statements[j].to
      OBVIOUS
    <3>4. g \in Nat /\ v \in Nat /\ HasCode(g, v) /\ v < f /\ f <= g
      BY <1>3, <1>5, <1>6, <1>8, <2>2, <3>2, <3>3
    <3>5. PICK p \in g .. v : TRUE
      BY <3>4 DEF HasCode
    <3> QED
      BY <3>4, <3>5
  <2> QED
    BY <2>1, <2>3, <2>4, <2>5
<1>9. CASE ~HasCode(f, t)
  <2>1. \A i \in n + 1 .. l : t + 2 <= statements[i].from
    BY <1>7, <1>8, <1>9
  <2> QED
    BY <1>1, <1>2, <1>9, <2>1
<1>10. CASE HasCode(f, t)
  <2>1. PICK p \in f .. t : written[p].token \in Code
    BY <1>10 DEF HasCode
  <2>2. p \in 1 .. Len(written)
    BY <1>4, SegmentIs
  <2>3. PICK i \in 1 .. l : statements[i].from <= p /\ p <= statements[i].to
    BY <1>1, <2>1, <2>2 DEF AuthorInv, AllListed
  <2>4. PICK g, u : g = statements[i].from /\ u = statements[i].to
    OBVIOUS
  <2>5. g \in Nat /\ u \in Nat /\ g <= p /\ p <= u /\ p \in Nat /\ f <= p /\ p <= t
    BY <1>5, <2>1, <2>3, <2>4
  <2>6. i \in n + 1 .. l
    <3>1. CASE i \in 1 .. n
      <4>1. u < f
        BY <1>3, <2>4, <3>1
      <4> QED
        BY <2>5, <4>1
    <3> QED
      BY <1>2, <3>1
  <2>7. g = f
    <3> SUFFICES ASSUME g # f PROVE FALSE
      OBVIOUS
    <3>1. t + 2 <= g
      BY <1>7, <2>4, <2>6
    <3> QED
      BY <2>5, <3>1
  <2>8. statements[i].from = f /\ statements[i].to = t /\ i = n + 1
    BY <1>8, <2>4, <2>6, <2>7
  <2>9. n + 1 \in 1 .. l
    BY <2>8
  <2>10. ASSUME NEW j \in n + 2 .. l PROVE t + 2 <= statements[j].from
    <3>1. j \in n + 1 .. l /\ j # n + 1
      BY <1>2
    <3>2. statements[j].from # f
      BY <1>8, <3>1
    <3> QED
      BY <1>7, <3>1, <3>2
  <2> QED
    BY <1>1, <1>2, <1>10, <2>8, <2>9, <2>10
<1> QED
  BY <1>9, <1>10

\* What Found makes of it.
LEMMA FoundKeeps ==
  ASSUME ScriptInv, splitter.mode \notin {"idle", "done"},
         NEW t \in Nat, t = splitter.at - 1, Segment(splitter.from, t)
  PROVE  /\ Found \in Seq(Seq(Char)) /\ Len(Found) \in Nat /\ FoundOK(Found)
         /\ Len(Found) <= Len(statements) /\ Len(statements) \in Nat
         /\ \A i \in 1 .. Len(Found) : statements[i].to <= t
         /\ \A i \in Len(Found) + 1 .. Len(statements) : t + 2 <= statements[i].from
<1>1. PICK f, d, e : /\ f = splitter.from /\ d = splitter.found
                     /\ e = Strip(SubSeq(Text, f, t))
  OBVIOUS
<1>2. /\ splitter.at \in Nat /\ f \in Nat /\ d \in Seq(Seq(Char))
  BY <1>1 DEF ScriptInv, ScanInv, SplitterOK
<1>3. /\ AuthorInv /\ ScriptOK /\ Segment(f, t) /\ FoundAre(d, f) /\ FoundOK(d)
      /\ splitter.mode # "idle"
  BY <1>1 DEF ScriptInv, ScanInv, AuthorInv
<1>4. Found = IF e # <<>> /\ Meaningful(e) THEN Append(d, e) ELSE d
  BY <1>1 DEF Found, Buffer
<1>5. PICK n, l : n = Len(d) /\ l = Len(statements)
  OBVIOUS
<1>6. /\ n \in Nat /\ l \in Nat
      /\ HasCode(f, t) =>
           /\ n + 1 \in 1 .. l
           /\ statements[n + 1].from = f
           /\ statements[n + 1].to = t
           /\ \A i \in n + 2 .. l : t + 2 <= statements[i].from
      /\ ~HasCode(f, t) =>
           \A i \in n + 1 .. l : t + 2 <= statements[i].from
  BY <1>2, <1>3, <1>5, NextFound
<1>7. /\ n <= l
      /\ \A i \in 1 .. n : statements[i].to < f
      /\ \A i \in 1 .. n : i <= l =>
           d[i] = Strip(SubSeq(Text, statements[i].from, statements[i].to))
  BY <1>3, <1>5 DEF FoundAre, FoundOK
<1>8. f <= t + 1
  BY <1>3 DEF Segment
<1>8a. \A i \in 1 .. n : statements[i].to <= t
  <2>1. \A i \in 1 .. n : statements[i].to \in Nat
    <3>1. \A i \in 1 .. n : i \in 1 .. Len(statements)
      BY <1>5, <1>6, <1>7
    <3> QED
      BY <1>3, <3>1, ListedIs
  <2> QED
    BY <1>2, <1>7, <1>8, <2>1
<1>9. CASE HasCode(f, t)
  <2>1. e # <<>> /\ Meaningful(e)
    BY <1>1, <1>3, <1>9, CodeShows
  <2>2. e \in Seq(Char)
    <3>1. SubSeq(Text, f, t) \in Seq(Char)
      BY <1>3, SegmentText
    <3> QED
      BY <1>1, <3>1, StripTyped
  <2>3. PICK F : F = Append(d, e)
    OBVIOUS
  <2>4. Found = F
    BY <1>4, <2>1, <2>3
  <2>5. /\ F \in Seq(Seq(Char)) /\ Len(F) = n + 1 /\ F[n + 1] = e
        /\ \A i \in 1 .. n : F[i] = d[i]
    BY <1>2, <1>5, <2>2, <2>3, AppendProperties
  <2>6. /\ n + 1 \in 1 .. l /\ n + 1 <= l
        /\ statements[n + 1].from = f /\ statements[n + 1].to = t
        /\ \A i \in n + 2 .. l : t + 2 <= statements[i].from
    BY <1>6, <1>9
  <2>7. ASSUME NEW i \in 1 .. n + 1
        PROVE  F[i] = Strip(SubSeq(Text, statements[i].from, statements[i].to))
               /\ statements[i].to <= t
    <3>1. CASE i = n + 1
      BY <1>1, <2>5, <2>6, <3>1
    <3>2. CASE i # n + 1
      <4>1. i \in 1 .. n /\ i <= l
        BY <1>6, <1>7, <3>2
      <4> QED
        BY <1>7, <1>8a, <2>5, <4>1
    <3> QED
      BY <3>1, <3>2
  <2>8. FoundOK(F)
    BY <2>5, <2>7 DEF FoundOK
  <2>9. n + 1 + 1 = n + 2 /\ n + 1 \in Nat
    BY <1>6
  <2> QED
    BY <1>5, <1>6, <2>4, <2>5, <2>6, <2>7, <2>8, <2>9
<1>10. CASE ~HasCode(f, t)
  <2>1. ~(e # <<>> /\ Meaningful(e))
    BY <1>1, <1>3, <1>10, NoCodeShows
  <2>2. Found = d
    BY <1>4, <2>1
  <2> QED
    BY <1>2, <1>3, <1>5, <1>6, <1>7, <1>8a, <1>10, <2>2
<1> QED
  BY <1>9, <1>10

LEMMA SeparatorKeeps ==
  ASSUME ScriptInv, InPlain, Text[splitter.at] = "semicolon",
         UNCHANGED <<written, opened, statements>>
  PROVE  ScriptInv'
<1>1. InMode("plain")
  BY DEF InPlain
<1>2. PICK a, f : a = splitter.at /\ f = splitter.from
  OBVIOUS
<1>3. /\ a \in 1 .. Len(written) /\ splitter.mode = "plain" /\ ScriptOK /\ SplitterOK
      /\ Aligned("plain", a, splitter.tag) /\ Len(written) \in Nat
      /\ Passed(f, a)
  BY <1>1, <1>2, ReadsAt
<1>4. PICK t \in AnyToken, h \in Nat, n \in Nat, off \in Nat : Spans(a, t, h, n, off)
  BY <1>3, TokenAt
<1>5. t = written[a].token /\ off = written[a].offset /\ n = Len(t) /\ t \in AnyToken
      /\ Text[a] = t[off]
  BY <1>3, <1>4, SpanIs
<1>6. off = 1
  <2>1. a <= Len(written)
    BY <1>3
  <2> QED
    BY <1>3, <1>5, <2>1 DEF Aligned
<1>7. t = Separator
  BY <1>2, <1>5, <1>6, BeginsWith
<1>8. n = 1
  BY <1>5, <1>7, TokenIs
<1>9. ~AtToken(Text, a, <<"-", "-">>)
  <2>1. Text \in Seq(Char) /\ Len(Text) = Len(written) /\ "-" \in Char /\ a \in 1 .. Len(Text)
    BY <1>3, TextIs, StatementsAssumption
  <2> QED
    BY <1>2, <2>1, TwoAt
<1>10. Tag(a) = <<>>
  BY <1>2, NoTag
<1>11. splitter' = [splitter EXCEPT !.at = a + 1, !.from = a + 1, !.found = Found]
  BY <1>2, <1>9, <1>10 DEF InPlain, OpensComment
<1>12. PICK c : c = a - 1
  OBVIOUS
<1>13. c \in Nat /\ a \in Nat /\ c + 1 = a /\ c # Len(written) /\ c \in 0 .. Len(written)
  BY <1>3, <1>12
<1>14. Segment(f, c)
  <2>1. /\ f \in 1 .. a
        /\ f = 1 \/ written[f - 1].token = Separator
        /\ \A p \in f .. c : written[p].token # Separator
    BY <1>3, <1>12 DEF Passed
  <2>2. written[c + 1].token = Separator
    BY <1>5, <1>7, <1>13
  <2>3. f \in 1 .. Len(written) + 1 /\ f <= c + 1
    BY <1>3, <1>13, <2>1
  <2> QED
    BY <1>13, <2>1, <2>2, <2>3 DEF Segment
<1>15. /\ Found \in Seq(Seq(Char)) /\ Len(Found) \in Nat /\ FoundOK(Found)
       /\ Len(Found) <= Len(statements) /\ Len(statements) \in Nat
       /\ \A i \in 1 .. Len(Found) : statements[i].to <= c
       /\ \A i \in Len(Found) + 1 .. Len(statements) : c + 2 <= statements[i].from
  BY <1>2, <1>3, <1>12, <1>13, <1>14, FoundKeeps
<1>16. PICK F, b : F = Found /\ b = a + 1
  OBVIOUS
<1>17. /\ splitter' = [splitter EXCEPT !.at = b, !.from = b, !.found = F]
       /\ b \in Nat /\ F \in Seq(Seq(Char))
  BY <1>11, <1>13, <1>15, <1>16
<1>18. SplitterOK'
  BY <1>3, <1>17 DEF SplitterOK
<1>19. /\ splitter'.at = b /\ splitter'.from = b /\ splitter'.found = F
       /\ splitter'.mode = "plain" /\ splitter'.tag = splitter.tag
  BY <1>3, <1>17 DEF SplitterOK
<1>20. written' = written /\ opened' = opened /\ statements' = statements
  OBVIOUS
<1>21. Passed(b, b)'
  <2>1. b \in 1 .. Len(written) + 1 /\ b \in 1 .. b /\ b - 1 = a
        /\ \A p \in b .. b - 1 : FALSE
    BY <1>3, <1>13, <1>16
  <2>2. written[b - 1].token = Separator
    BY <1>5, <1>7, <2>1
  <2> QED
    BY <1>20, <2>1, <2>2 DEF Passed
<1>22. Aligned("plain", b, splitter.tag)'
  <2>1. Aligned("plain", a + 1, splitter.tag)
    <3>1. off + 1 = n + 1
      BY <1>6, <1>8
    <3> QED
      BY <1>3, <1>4, <3>1, Past
  <2>2. b <= Len(written) => written[b].offset = 1
    BY <1>16, <2>1 DEF Aligned
  <2> QED
    BY <1>19, <1>20, <2>2 DEF Aligned
<1>23. FoundAre(F, b)' /\ FoundOK(F)'
  <2>1. \A i \in 1 .. Len(F) : statements[i].to < b
    <3>1. \A i \in 1 .. Len(F) : statements[i].to <= c /\ statements[i].to \in Nat
      <4>1. \A i \in 1 .. Len(F) : i \in 1 .. Len(statements)
        BY <1>15, <1>16
      <4>2. AuthorInv
        BY DEF ScriptInv
      <4> QED
        BY <1>15, <1>16, <4>1, <4>2, ListedIs
    <3> QED
      BY <1>13, <1>16, <3>1
  <2>2. \A i \in Len(F) + 1 .. Len(statements) : b <= statements[i].from
    <3>1. b = c + 2
      BY <1>13, <1>16
    <3> QED
      BY <1>15, <1>16, <3>1
  <2>3. FoundAre(F, b)
    BY <1>15, <1>16, <2>1, <2>2 DEF FoundAre
  <2>4. FoundOK(F)
    BY <1>15, <1>16
  <2> QED
    BY <1>20, <2>3, <2>4 DEF FoundAre, FoundOK, Text
<1>24. AuthorInv'
  BY <1>3, <1>19, TurnKeeps DEF ScriptInv
<1> QED
  BY <1>18, <1>19, <1>21, <1>22, <1>23, <1>24 DEF ScriptInv, ScanInv

LEMMA FinishKeeps ==
  ASSUME ScriptInv, Finish, UNCHANGED <<written, opened, statements>>
  PROVE  ScriptInv'
<1>1. splitter.mode \notin {"idle", "done"} /\ splitter.at > Len(Text)
      /\ splitter' = [splitter EXCEPT !.mode = "done", !.found = Found]
  BY DEF Finish
<1>2. PICK a, f, F : a = splitter.at /\ f = splitter.from /\ F = Found
  OBVIOUS
<1>3. /\ AuthorInv /\ ScriptOK /\ SplitterOK /\ Passed(f, a)
  BY <1>1, <1>2 DEF ScriptInv, ScanInv, AuthorInv
<1>4. Len(Text) = Len(written) /\ Len(written) \in Nat
  BY <1>3, TextIs
<1>5. PICK c : c = a - 1
  OBVIOUS
<1>6. a = Len(written) + 1 /\ c = Len(written) /\ c \in Nat /\ c \in 0 .. Len(written)
  <2>1. a \in 1 .. Len(written) + 1 /\ a > Len(written)
    BY <1>1, <1>2, <1>3, <1>4 DEF Passed
  <2> QED
    BY <1>4, <1>5, <2>1
<1>7. Segment(f, c)
  <2>1. /\ f \in 1 .. a
        /\ f = 1 \/ written[f - 1].token = Separator
        /\ \A p \in f .. c : written[p].token # Separator
    BY <1>3, <1>5 DEF Passed
  <2>2. f \in 1 .. Len(written) + 1 /\ f <= c + 1
    BY <1>4, <1>6, <2>1
  <2> QED
    BY <1>6, <2>1, <2>2 DEF Segment
<1>8. /\ F \in Seq(Seq(Char)) /\ Len(F) \in Nat /\ FoundOK(F)
      /\ Len(F) <= Len(statements) /\ Len(statements) \in Nat
      /\ \A i \in Len(F) + 1 .. Len(statements) : c + 2 <= statements[i].from
  BY <1>1, <1>2, <1>5, <1>6, <1>7, FoundKeeps
<1>9. Len(F) = Len(statements)
  <2> SUFFICES ASSUME Len(F) # Len(statements) PROVE FALSE
    OBVIOUS
  <2>1. PICK i : i = Len(F) + 1
    OBVIOUS
  <2>2. i \in Len(F) + 1 .. Len(statements) /\ i \in 1 .. Len(statements)
    BY <1>8, <2>1
  <2>3. PICK g, u : g = statements[i].from /\ u = statements[i].to
    OBVIOUS
  <2>4. c + 2 <= g /\ Segment(g, u)
    BY <1>3, <1>8, <2>2, <2>3, ListedIs
  <2>5. g \in 1 .. Len(written) + 1
    BY <2>4 DEF Segment
  <2> QED
    BY <1>6, <2>4, <2>5
<1>10. splitter' = [splitter EXCEPT !.mode = "done", !.found = F]
  BY <1>1, <1>2
<1>11. SplitterOK'
  BY <1>3, <1>8, <1>10 DEF SplitterOK, Modes
<1>12. splitter'.mode = "done" /\ splitter'.found = F
  BY <1>3, <1>10 DEF SplitterOK
<1>13. FoundOK(F)'
  BY <1>8 DEF FoundOK, Text
<1>14. AuthorInv'
  BY <1>1, <1>3, <1>12, TurnKeeps
<1> QED
  BY <1>9, <1>11, <1>12, <1>13, <1>14 DEF ScriptInv, ScanInv

LEMMA SplitStarts ==
  ASSUME ScriptInv, Split
  PROVE  ScriptInv'
<1>1. /\ splitter.mode = "idle" /\ Ended /\ written' = written /\ opened' = opened
      /\ splitter' = [splitter EXCEPT !.mode = "plain"]
  BY DEF Split
<1>2. /\ AuthorInv /\ ScriptOK /\ SplitterOK
      /\ splitter.at = 1 /\ splitter.from = 1 /\ splitter.found = <<>>
  BY <1>1 DEF ScriptInv, ScanInv, AuthorInv
<1>3. PICK g : g = splitter.tag
  OBVIOUS
<1>4. /\ splitter'.mode = "plain" /\ splitter'.at = 1 /\ splitter'.from = 1
      /\ splitter'.found = <<>> /\ splitter'.tag = g
  BY <1>1, <1>2, <1>3 DEF SplitterOK
<1>5. SplitterOK'
  BY <1>1, <1>2 DEF SplitterOK, Modes
<1>6. AuthorInv'
  <2>1. splitter'.mode # "idle"
    BY <1>4
  <2> QED
    BY <1>1, <1>2, <2>1, SplitKeeps
<1>7. Len(written) \in Nat
  BY <1>2, TextIs
<1>8. Passed(1, 1)'
  <2>1. 1 \in 1 .. Len(written) + 1 /\ 1 \in 1 .. 1 /\ \A p \in 1 .. 1 - 1 : FALSE
    BY <1>7
  <2> QED
    BY <1>1, <2>1 DEF Passed
<1>9. Aligned("plain", 1, g)'
  <2>1. ASSUME 1 <= Len(written) PROVE written[1].offset = 1
    <3>1. PICK p \in 1 .. Len(written) : p = 1
      BY <1>7, <2>1
    <3>2. PICK t \in AnyToken, h \in Nat, n \in Nat, off \in Nat : Spans(p, t, h, n, off)
      BY <1>2, TokenAt
    <3>3. h \in Nat /\ off \in Nat /\ off >= 1 /\ p = h + off
      BY <1>2, <3>2, SpanIs
    <3>4. off = 1
      BY <3>1, <3>3
    <3> QED
      BY <1>2, <3>1, <3>2, <3>4, SpanIs
  <2> QED
    BY <1>1, <2>1 DEF Aligned
<1>10. FoundAre(<<>>, 1)' /\ FoundOK(<<>>)'
  <2>1. Len(<<>>) = 0
    OBVIOUS
  <2>2. Len(statements') \in Nat
    <3>1. statements' \in Seq([from : Nat, to : Nat])
      BY <1>6 DEF AuthorInv, ListOK
    <3> QED
      BY <3>1, LenProperties
  <2>3. ASSUME NEW i \in 1 .. Len(statements') PROVE 1 <= statements'[i].from
    <3>1. Segment(statements[i].from, statements[i].to)'
      BY <1>6, <2>3 DEF AuthorInv, ListOK, Listed
    <3>2. statements'[i].from \in 1 .. Len(written') + 1
      BY <3>1 DEF Segment
    <3> QED
      BY <1>1, <1>7, <3>2
  <2> QED
    BY <2>1, <2>2, <2>3 DEF FoundAre, FoundOK
<1> QED
  BY <1>4, <1>5, <1>6, <1>8, <1>9, <1>10 DEF ScriptInv, ScanInv

LEMMA ScriptStarts ==
  ASSUME ScriptInit
  PROVE  ScriptInv
<1>1. /\ written = <<>> /\ opened = 1 /\ statements = <<>>
      /\ splitter = [mode |-> "idle", at |-> 1, tag |-> <<>>, from |-> 1, found |-> <<>>]
  BY DEF ScriptInit
<1>2. Len(<<>>) = 0 /\ \A p \in 1 .. 0 : FALSE
  OBVIOUS
<1>3. ScriptOK
  BY <1>1, <1>2 DEF ScriptOK, SignsAlone
<1>4. ListOK
  BY <1>1, <1>2 DEF ListOK
<1>5. OpenOK
  BY <1>1, <1>2 DEF OpenOK
<1>6. AllListed
  BY <1>1, <1>2 DEF AllListed
<1>7. SplitterOK
  <2>1. <<>> \in Seq(Char) /\ <<>> \in Seq(Seq(Char)) /\ 1 \in Nat
    OBVIOUS
  <2> QED
    BY <1>1, <2>1 DEF SplitterOK, Modes
<1>8. ScanInv
  <2>1. /\ splitter.mode = "idle" /\ splitter.at = 1 /\ splitter.from = 1
        /\ splitter.found = <<>>
    BY <1>1
  <2> QED
    BY <1>7, <2>1 DEF ScanInv
<1> QED
  BY <1>3, <1>4, <1>5, <1>6, <1>8 DEF ScriptInv, AuthorInv

LEMMA ScriptInvStep ==
  ASSUME ScriptInv, [ScriptNext]_scriptVars
  PROVE  ScriptInv'
<1>1. ASSUME NEW token \in Code \cup Comment \cup Blank, Write(token)
      PROVE  ScriptInv'
  <2>1. splitter.mode = "idle" /\ splitter' = splitter
    BY <1>1 DEF Write
  <2>2. AuthorInv'
    BY <1>1, WriteKeeps DEF ScriptInv
  <2> QED
    BY <2>1, <2>2 DEF ScriptInv, ScanInv, SplitterOK
<1>2. CASE EndStatement
  <2>1. splitter.mode = "idle" /\ splitter' = splitter
    BY <1>2 DEF EndStatement
  <2>2. AuthorInv'
    BY <1>2, EndStatementKeeps DEF ScriptInv
  <2> QED
    BY <2>1, <2>2 DEF ScriptInv, ScanInv, SplitterOK
<1>3. CASE Split
  BY <1>3, SplitStarts
<1>4. CASE Turn
  <2>0. UNCHANGED <<written, opened, statements>>
    BY <1>4 DEF Turn
  <2>1. CASE InComment
    BY <2>0, <2>1, CommentKeeps
  <2>2. CASE InDollar
    BY <2>0, <2>2, DollarKeeps
  <2>3. CASE InQuote
    BY <2>0, <2>3, QuoteKeeps
  <2>4. CASE InPlain
    BY <2>0, <2>4, PlainKeeps, SeparatorKeeps
  <2>5. CASE Finish
    BY <2>0, <2>5, FinishKeeps
  <2> QED
    BY <1>4, <2>1, <2>2, <2>3, <2>4, <2>5 DEF Turn
<1>5. CASE UNCHANGED scriptVars
  <2>1. /\ written' = written /\ opened' = opened /\ statements' = statements
        /\ splitter' = splitter
    BY <1>5 DEF scriptVars
  <2>2. AuthorInv'
    <3>1. ScriptOK'
      BY <2>1, ScriptStays DEF ScriptInv, AuthorInv
    <3>2. ListOK' /\ OpenOK' /\ AllListed'
      BY <2>1 DEF ScriptInv, AuthorInv, ListOK, Listed, Segment, HasCode, OpenOK, AllListed
    <3> QED
      BY <3>1, <3>2 DEF AuthorInv
  <2>3. ScanInv'
    BY <2>1 DEF ScriptInv, ScanInv, SplitterOK, Passed, Aligned, InLiteral, InBlock,
                FoundAre, FoundOK, Text
  <2> QED
    BY <2>2, <2>3 DEF ScriptInv
<1> QED
  BY <1>1, <1>2, <1>3, <1>4, <1>5 DEF ScriptNext

LEMMA AllFound ==
  ASSUME ScriptInv
  PROVE  SplitsAsWritten
<1> SUFFICES ASSUME splitter.mode = "done"
             PROVE  splitter.found =
                      [i \in DOMAIN statements |->
                         Strip(SubSeq(Text, statements[i].from, statements[i].to))]
  BY DEF SplitsAsWritten
<1>1. PICK d : d = splitter.found
  OBVIOUS
<1>2. /\ d \in Seq(Seq(Char)) /\ FoundOK(d) /\ Len(d) = Len(statements)
  BY <1>1 DEF ScriptInv, ScanInv, SplitterOK
<1>3. statements \in Seq([from : Nat, to : Nat])
  BY DEF ScriptInv, AuthorInv, ListOK
<1>4. DOMAIN statements = 1 .. Len(statements) /\ Len(statements) \in Nat
  BY <1>3, LenProperties
<1>5. d \in [1 .. Len(statements) -> Seq(Char)]
  BY <1>2, LenProperties
<1>6. \A i \in 1 .. Len(statements) :
        d[i] = Strip(SubSeq(Text, statements[i].from, statements[i].to))
  BY <1>2, <1>4 DEF FoundOK
<1> QED
  BY <1>1, <1>4, <1>5, <1>6

\* A script is split into its statements with code, as they were written and in
\* order (sql_files.py:72-164): every literal, block and comment is passed whole,
\* and what ends at a separator is the next statement with code or nothing.
THEOREM ScriptsAreSplit == ScriptSpec => []SplitsAsWritten
<1>1. ScriptInit => ScriptInv
  BY ScriptStarts
<1>2. ScriptInv /\ [ScriptNext]_scriptVars => ScriptInv'
  BY ScriptInvStep
<1>3. ScriptInv => SplitsAsWritten
  BY AllFound
<1> QED
  BY <1>1, <1>2, <1>3, PTL DEF ScriptSpec
=============================================================================
