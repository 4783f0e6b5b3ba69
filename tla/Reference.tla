----------------------------- MODULE Reference ------------------------------
(***************************************************************************)
(* The promotion of reference data (promote_reference in                   *)
(* src/helios/load/promote.py), statement by statement: seven upserts in   *)
(* one transaction at READ COMMITTED, each over what raw holds when it     *)
(* runs, while ingests go on landing rows.  Module Promotion has the       *)
(* readings, and of this one only the sites and the meters.                *)
(*                                                                         *)
(* A row is a record of a source: its natural key, the instant of its      *)
(* version, and what it refers to.  A place is a table of core and a       *)
(* primary key; core keeps the version of the row that it was written      *)
(* from.  Two versions of a record never have the same instant.            *)
(*                                                                         *)
(* A site that names no tariff, or no date from which it has one, is       *)
(* stored with a null there: its row is selected for site_tariff all the   *)
(* same, and refused.  What else the tables refuse is in module Contracts; *)
(* here the other columns of a row are such that they take it.             *)
(***************************************************************************)
EXTENDS Integers, Sequences

CONSTANTS
  Row,       \* every row the reference sources will deliver
  Batch,     \* the batches they are landed under
  RunBatch,  \* those of helios run, which promotes its own batch
  Nowhere,   \* the batch of a row that has not landed
  Null       \* what a site's row has for a tariff or a date it does not name

ASSUME ReferenceAssumption ==
  /\ RunBatch \subseteq Batch /\ Nowhere \notin Batch
  /\ \A v, w \in Row :
       /\ v.version \in Nat \ {0}
       /\ v.source = w.source /\ v.key = w.key /\ v.version = w.version => v = w

VARIABLES
  raw,       \* raw.record: the batch of each row
  ran,       \* the batches that helios run has begun to promote
  core,      \* the version at each place, 0 if there is none
  promoter,  \* the transaction under way
  covered,   \* history: the rows found by promotions of the whole of raw
  exact      \* history: those of the last one, until a batch is promoted

referenceVars == <<raw, ran, core, promoter, covered, exact>>

\* The statements, in order.
Tables == <<"site", "meter", "tariff", "tariff_band", "site_tariff",
            "weather_station", "weather_daily">>

SourceOf ==
  [site            |-> "sites",   meter         |-> "meters",
   tariff          |-> "tariffs", tariff_band   |-> "tariffs",
   site_tariff     |-> "sites",
   weather_station |-> "weather", weather_daily |-> "weather"]

\* The tables with a guard on source_updated_at.
Guarded == {"site", "meter", "tariff", "weather_daily"}

\* The primary keys of a table that a row of its source writes.  Every site is
\* selected for an assignment: payload ? 'tariff_id' holds for a null, too.
Keys(table, w) ==
  CASE table = "tariff_band"     -> {<<w.key, band>> : band \in w.bands}
    [] table = "site_tariff"     -> {<<w.key, w.assigned.from>>}
    [] table = "weather_station" -> {w.station}
    [] OTHER                     -> {w.key}

RowsFor(table) == {w \in Row : w.source = SourceOf[table]}

Place ==
  UNION {{table} \X UNION {Keys(table, w) : w \in RowsFor(table)} :
           table \in DOMAIN SourceOf}

\* The foreign keys of what a row writes.
References(table, w) ==
  CASE table = "meter"         -> {<<"site", w.site>>}
    [] table = "tariff_band"   -> {<<"tariff", w.key>>}
    [] table = "site_tariff"   -> {<<"site", w.key>>, <<"tariff", w.assigned.tariff>>}
    [] table = "weather_daily" -> {<<"weather_station", w.station>>}
    [] OTHER                   -> {}

Idle ==
  [next |-> 0, scope |-> {}, found |-> {}, work |-> [p \in Place |-> 0]]

Landed == {w \in Row : raw[w] # Nowhere}

-----------------------------------------------------------------------------
(* One statement.                                                          *)

\* DISTINCT ON: an assignment is the only one of its site.
SameGroup(table, key, other) ==
  IF table = "site_tariff" THEN key[1] = other[1] ELSE key = other

Stalest(table, rows, w, key) ==
  /\ w \in rows
  /\ key \in Keys(table, w)
  /\ \A v \in rows :
       (\E other \in Keys(table, v) : SameGroup(table, key, other))
         => v.version >= w.version

\* ORDER BY source_updated_at DESC.
Freshest(table, rows, w, key) ==
  /\ w \in rows
  /\ key \in Keys(table, w)
  /\ \A v \in rows :
       (\E other \in Keys(table, v) : SameGroup(table, key, other))
         => v.version <= w.version

\* Only some of the tables are guarded by the version they hold.
Wins(table, rows, w, key) ==
  /\ Freshest(table, rows, w, key)
  /\ table \in Guarded => w.version >= promoter.work[<<table, key>>]

Upserted(table, rows) ==
  [p \in Place |->
     IF p[1] = table /\ \E w \in rows : Wins(table, rows, w, p[2])
     THEN (CHOOSE w \in rows : Wins(table, rows, w, p[2])).version
     ELSE promoter.work[p]]

\* NOT NULL tariff_id and valid_from of site_tariff.
NothingNull(table, w) ==
  table = "site_tariff" => Null \notin {w.assigned.from, w.assigned.tariff}

\* The statement succeeds if the tables take every row it writes.
Succeeds(table, rows) ==
  \A w \in rows :
    (\E key \in Keys(table, w) : Wins(table, rows, w, key))
      => /\ NothingNull(table, w)
         /\ \A p \in References(table, w) : p \in Place /\ promoter.work[p] # 0

-----------------------------------------------------------------------------
(* Ingests and promotions.                                                 *)

\* A row lands under the batch of its command, before that is promoted.
Land(w, batch) ==
  /\ raw[w] = Nowhere
  /\ batch \notin ran
  /\ raw' = [raw EXCEPT ![w] = batch]
  /\ UNCHANGED <<ran, core, promoter, covered, exact>>

Begin(scope, found) ==
  /\ promoter = Idle
  /\ promoter' = [next |-> 1, scope |-> scope, found |-> found, work |-> core]
  /\ UNCHANGED <<raw, core, covered, exact>>

\* helios promote, and the promotion of its own batch in helios run.
PromoteWhole == Begin(Batch, Landed) /\ UNCHANGED ran

PromoteBatch(batch) ==
  /\ batch \notin ran
  /\ ran' = ran \cup {batch}
  /\ Begin({batch}, {})

\* The next statement, or the end of the transaction if a row is refused.
Statement ==
  LET table == Tables[promoter.next]
      rows  == {w \in RowsFor(table) : raw[w] \in promoter.scope}
  IN  /\ promoter.next \in DOMAIN Tables
      /\ promoter' =
           IF Succeeds(table, rows)
           THEN [promoter EXCEPT !.next = @ + 1, !.work = Upserted(table, rows)]
           ELSE Idle
      /\ UNCHANGED <<raw, ran, core, covered, exact>>

Commit ==
  /\ promoter.next = Len(Tables) + 1
  /\ core' = promoter.work
  /\ covered' = covered \cup promoter.found
  /\ exact' = promoter.found
  /\ promoter' = Idle
  /\ UNCHANGED <<raw, ran>>

\* The command is killed.
Die ==
  /\ promoter # Idle
  /\ promoter' = Idle
  /\ UNCHANGED <<raw, ran, core, covered, exact>>

ReferenceInit ==
  /\ raw = [w \in Row |-> Nowhere]
  /\ ran = {}
  /\ core = [p \in Place |-> 0]
  /\ promoter = Idle
  /\ covered = {}
  /\ exact = {}

\* Of all rows, these are delivered.
ReferenceNext(delivered) ==
  \/ \E w \in delivered, batch \in Batch : Land(w, batch)
  \/ PromoteWhole
  \/ \E batch \in RunBatch : PromoteBatch(batch)
  \/ Statement
  \/ Commit
  \/ Die

-----------------------------------------------------------------------------
(* Properties.                                                             *)

\* What a promotion of the whole of raw found is in core, statements and late
\* rows interleaved as they may: a guarded table keeps it, whatever is promoted
\* later; bands, assignments and stations, which have no guard, keep the newest
\* of it until a batch is promoted (promote_reference.sql:7-13).
WholeIsInCore ==
  /\ \A table \in Guarded :
       \A w \in covered \cap RowsFor(table) :
         \A key \in Keys(table, w) : core[<<table, key>>] >= w.version
  /\ \A table \in DOMAIN SourceOf \ Guarded :
       \A w \in exact \cap RowsFor(table) :
         \A key \in Keys(table, w) :
           \E p \in Place :
             /\ p[1] = table /\ SameGroup(table, key, p[2])
             /\ core[p] >= w.version
=============================================================================
