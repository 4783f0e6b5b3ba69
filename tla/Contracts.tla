------------------------------ MODULE Contracts ------------------------------
(***************************************************************************)
(* The schema contracts of the five sources                                *)
(* (src/helios/contracts/registry.py), what validation makes of a record   *)
(* (models.py) and what the tables behind raw make of a record that was    *)
(* accepted (src/sql/schema/003_raw.sql, 004_core_reference.sql,           *)
(* 005_core_readings.sql and the promotion queries).                       *)
(*                                                                         *)
(* A value is its class and, for numbers, dates and lists, a number; a     *)
(* record is a function of the fields of its source.  Register values are  *)
(* in units of 10^9 kWh.  The classes:                                     *)
(*                                                                         *)
(*   number          n                                                     *)
(*   above, below    n and less than what its column rounds away, or n     *)
(*                   less that much: the column holds n                    *)
(*   nan, inf        what float() makes of these names                     *)
(*   date, moment    a date, n if that matters; an instant                 *)
(*   retold          a date written otherwise than before, so that two     *)
(*                   natural keys name one day                             *)
(*   edge            an instant whose UTC is outside the calendar          *)
(*   final           one in the last month of the calendar                 *)
(*   text            a string that is no number, date or choice            *)
(*   long            one that is longer than its field may be              *)
(*   stranger        one that is the key of no row in core                 *)
(*   taken           one that another row has in this column               *)
(*   unstorable      one with a character that JSONB and TEXT refuse (NUL, *)
(*                   half of a surrogate pair); a date or an instant can   *)
(*                   be read from it all the same                          *)
(*   known           a choice                                              *)
(*   list            bands, 1 if tariff_band takes every one of them       *)
(*   missing         null or blank                                         *)
(***************************************************************************)
EXTENDS Integers, SequencesExt

CONSTANTS
  Source,      \* the sources whose records are checked
  Multiplier,  \* the multipliers that meters in core have
  MaxFlaws     \* how many fields of a good record are changed

ASSUME ContractsAssumption ==
  /\ Source \subseteq {"meter_readings", "sites", "meters", "tariffs", "weather"}
  /\ Multiplier \subseteq Nat

VARIABLES
  source,  \* where the record comes from
  record,  \* the record
  flaws    \* the fields that were changed

recordVars == <<source, record, flaws>>

Value(is, n) == [is |-> is, n |-> n]
Number(n) == Value("number", n)
Date(n) == Value("date", n)
Missing == Value("missing", 0)

-----------------------------------------------------------------------------
(* Contracts.                                                              *)

\* FieldSpec: the bounds are those of numbers; a choice is a string with an
\* allowed set.
Field(name, kind, required) ==
  [name |-> name, kind |-> kind, required |-> required, min |-> 0, max |-> 0]

Bounded(name, kind, required, min, max) ==
  [Field(name, kind, required) EXCEPT !.min = min, !.max = max]

MeterReadings ==
  << Field("meter_id", "string", TRUE),
     Field("reading_ts", "timestamp", TRUE),
     Bounded("register_value", "number", TRUE, 0, 1000),
     Field("quality_flag", "choice", FALSE),
     Field("updated_at", "timestamp", TRUE) >>

Sites ==
  << Field("site_id", "string", TRUE),
     Field("site_name", "string", TRUE),
     Field("city", "string", TRUE),
     Field("region_code", "string", TRUE),
     Field("sector", "choice", TRUE),
     Bounded("floor_area_m2", "number", TRUE, 1, 10000000),
     Field("commissioned_on", "date", FALSE),
     Field("is_active", "boolean", FALSE),
     Field("tariff_id", "string", FALSE),
     Field("valid_from", "date", FALSE),
     Field("valid_to", "date", FALSE),
     Field("updated_at", "timestamp", TRUE) >>

MetersWideRegister ==
  << Field("meter_id", "string", TRUE),
     Field("site_id", "string", TRUE),
     Field("meter_type", "choice", TRUE),
     Field("unit", "choice", FALSE),
     Bounded("multiplier", "number", FALSE, 0, 10000),
     Bounded("index_digits", "integer", FALSE, 4, 16),
     Bounded("interval_minutes", "integer", FALSE, 1, 1440),
     Field("installed_on", "date", FALSE),
     Field("is_active", "boolean", FALSE),
     Field("updated_at", "timestamp", TRUE) >>

\* The multiplier is at least 0.0001, here the smallest whole number above 0.
Meters ==
  << Field("meter_id", "string", TRUE),
     Field("site_id", "string", TRUE),
     Field("meter_type", "choice", TRUE),
     Field("unit", "choice", FALSE),
     Bounded("multiplier", "number", FALSE, 1, 10000),
     Bounded("index_digits", "integer", FALSE, 4, 12),
     Bounded("interval_minutes", "integer", FALSE, 1, 1440),
     Field("installed_on", "date", FALSE),
     Field("is_active", "boolean", FALSE),
     Field("updated_at", "timestamp", TRUE) >>

Tariffs ==
  << Field("tariff_id", "string", TRUE),
     Field("tariff_name", "string", TRUE),
     Field("supplier", "string", TRUE),
     Field("currency", "choice", FALSE),
     Bounded("standing_charge_per_day", "number", FALSE, 0, 1000),
     Field("valid_from", "date", TRUE),
     Field("valid_to", "date", FALSE),
     Field("bands", "array", TRUE),
     Field("updated_at", "timestamp", TRUE) >>

Weather ==
  << Field("station_id", "string", TRUE),
     Field("station_name", "string", TRUE),
     Field("region_code", "string", TRUE),
     Field("observed_on", "date", TRUE),
     Bounded("temp_min_c", "number", TRUE, -60, 60),
     Bounded("temp_max_c", "number", TRUE, -60, 60),
     Bounded("temp_avg_c", "number", TRUE, -60, 60),
     Field("updated_at", "timestamp", TRUE) >>

FieldsOf(s) ==
  CASE s = "meter_readings" -> MeterReadings
    [] s = "sites"          -> Sites
    [] s = "meters"         -> Meters
    [] s = "tariffs"        -> Tariffs
    [] s = "weather"        -> Weather

KeyFields(s) ==
  CASE s = "meter_readings" -> {"meter_id", "reading_ts"}
    [] s = "sites"          -> {"site_id"}
    [] s = "meters"         -> {"meter_id"}
    [] s = "tariffs"        -> {"tariff_id"}
    [] s = "weather"        -> {"station_id", "observed_on"}

-----------------------------------------------------------------------------
(* Validation.                                                             *)

InBounds(f, n) == f.min <= n /\ n <= f.max

\* The classes of values each kind takes.  A NaN is below no minimum and above
\* no maximum; anything has a text, so anything is a boolean or a string; a
\* date is also a timestamp and the other way round.
Takes(f, v) ==
  CASE f.kind = "timestamp" -> v.is \in {"moment", "final", "date", "unstorable"}
    [] f.kind = "date"      -> v.is \in {"moment", "edge", "final", "date", "retold",
                                        "unstorable"}
    [] f.kind = "boolean"   -> TRUE
    [] f.kind = "number"    -> \/ v.is = "nan"
                               \/ v.is = "number" /\ InBounds(f, v.n)
                               \/ v.is = "above" /\ InBounds(f, v.n) /\ v.n # f.max
                               \/ v.is = "below" /\ InBounds(f, v.n) /\ v.n # f.min
    [] f.kind = "integer"   -> v.is = "number" /\ InBounds(f, v.n)
    [] f.kind = "array"     -> v.is = "list"
    [] f.kind = "choice"    -> v.is = "known"
    [] f.kind = "string"    -> v.is # "long"

\* What leaves _coerce as something else than a ContractViolation: int() of a
\* number that is not finite, and an instant whose UTC is outside the calendar.
Breaks(f, v) ==
  \/ f.kind = "integer" /\ v.is \in {"nan", "inf"}
  \/ f.kind = "timestamp" /\ v.is = "edge"

VerdictNullable(f, v) ==
  IF v.is = "missing" THEN "accepted"
  ELSE IF Breaks(f, v) THEN "error"
  ELSE IF Takes(f, v) THEN "accepted"
  ELSE "violation"

FieldVerdict(f, v) ==
  IF v.is = "missing"
    THEN IF f.required THEN "violation" ELSE "accepted"
  ELSE IF Breaks(f, v) THEN "error"
  ELSE IF Takes(f, v) THEN "accepted"
  ELSE "violation"

\* The first field that is not accepted decides.
Validate(s, r) ==
  LET fields == FieldsOf(s)
      wrong  == {i \in DOMAIN fields :
                   FieldVerdict(fields[i], r[fields[i].name]) # "accepted"}
      first  == fields[Min(wrong)]
  IN  IF wrong = {} THEN "accepted" ELSE FieldVerdict(first, r[first.name])

Accepted == Validate(source, record) = "accepted"

-----------------------------------------------------------------------------
(* The tables: what they make of a record on its own account, at whatever  *)
(* moment it is promoted.  A column holds n of a value that is above or    *)
(* below n.                                                                *)

Given(v) == v.is # "missing"

\* A column that has a default takes what is missing.
NullableWithin(v, low, high) == Given(v) => low <= v.n /\ v.n <= high

\* The payload is JSONB and the natural key, which has the values as they came,
\* is TEXT.  JSONB has no NaN.
RawTakes(r) == \A name \in DOMAIN r : r[name].is \notin {"nan", "unstorable"}

\* CHECK (valid_to IS NULL OR valid_to > valid_from)
ValidityHolds(r) == Given(r.valid_to) => r.valid_to.n > r.valid_from.n

\* index_kwh is NUMERIC(14, 3) and holds the value times the multiplier.  The
\* loop that creates the partitions steps to the month after the last reading.
\* A reading of a meter that core does not have is left out by the join.
ReadingTaken(r) ==
  /\ Given(r.meter_id)
  /\ r.reading_ts.is # "final"
  /\ r.quality_flag.is \in {"known", "missing"}
  /\ r.register_value.n >= 0
  /\ \A m \in Multiplier : r.register_value.n * m < 100

\* A site row and its row in site_tariff, which every site gets.
SiteTaken(r) ==
  /\ r.sector.is = "known"
  /\ r.floor_area_m2.n > 0 /\ r.floor_area_m2.n < 1000000000
  /\ Given(r.tariff_id) /\ r.tariff_id.is # "stranger"
  /\ Given(r.valid_from)
  /\ ValidityHolds(r)

MeterTaken(r) ==
  /\ r.site_id.is # "stranger"
  /\ r.meter_type.is = "known"
  /\ NullableWithin(r.multiplier, 1, 999999)
  /\ NullableWithin(r.index_digits, 4, 12)
  /\ NullableWithin(r.interval_minutes, 1, 1440)
  /\ Given(r.interval_minutes) => 1440 % r.interval_minutes.n = 0

TariffTaken(r) ==
  /\ NullableWithin(r.standing_charge_per_day, -999999, 999999)
  /\ Given(r.valid_from)
  /\ ValidityHolds(r)
  /\ r.bands.n = 1

\* A region has one station.  One upsert cannot write the row of a day twice.
WeatherTaken(r) ==
  /\ r.region_code.is # "taken"
  /\ Given(r.observed_on) /\ r.observed_on.is # "retold"
  /\ r.temp_max_c.n >= r.temp_min_c.n
  /\ r.temp_min_c.n > -60 /\ r.temp_max_c.n < 60
  /\ r.temp_avg_c.n > -1000 /\ r.temp_avg_c.n < 1000

CoreTakes(s, r) ==
  CASE s = "meter_readings" -> ReadingTaken(r)
    [] s = "sites"          -> SiteTaken(r)
    [] s = "meters"         -> MeterTaken(r)
    [] s = "tariffs"        -> TariffTaken(r)
    [] s = "weather"        -> WeatherTaken(r)

-----------------------------------------------------------------------------
(* Records.                                                                *)

GoodValue(f) ==
  CASE f.kind = "timestamp" -> Value("moment", 1)
    [] f.kind = "date"      -> Date(IF f.name = "valid_to" THEN 2 ELSE 1)
    [] f.kind = "number"    -> Number(f.min + 1)
    [] f.kind = "integer"   -> Number(f.min + 1)
    [] f.kind = "array"     -> Value("list", 1)
    [] f.kind = "choice"    -> Value("known", 0)
    [] OTHER                -> Value("text", 0)

\* What a source may send instead: the violations the simulated upstream
\* injects, values at the bounds, one beyond and next to them, and values of
\* another class.
FlawedValues(f) ==
  CASE f.kind \in {"number", "integer"} ->
         {Missing, Value("text", 0), Value("nan", 0), Value("inf", 0),
          Number(7), Value("below", 100)} \cup
         {Number(n) : n \in {f.min - 1, f.min, f.max, f.max + 1}} \cup
         [is : {"above", "below"}, n : {f.min, f.max}]
    [] f.kind = "date" -> {Missing, Value("text", 0), Date(1), Date(2),
                           Value("retold", 1), Value("unstorable", 1)}
    [] f.kind = "timestamp" -> {Missing, Value("text", 0), Value("edge", 0), Date(1),
                                Value("final", 0), Value("unstorable", 0)}
    [] f.kind = "array" -> {Missing, Value("text", 0), Value("list", 0)}
    [] f.kind = "boolean" -> {Missing}
    [] OTHER -> {Missing, Value("long", 0), Number(1)} \cup
                [is : {"stranger", "taken", "unstorable"}, n : {0}]

RecordInit ==
  /\ source \in Source
  /\ record = [name \in {FieldsOf(source)[i].name : i \in DOMAIN FieldsOf(source)} |->
                 GoodValue(CHOOSE f \in ToSet(FieldsOf(source)) : f.name = name)]
  /\ flaws = {}

Flaw(f, v) ==
  /\ Cardinality(flaws) < MaxFlaws
  /\ f.name \notin flaws
  /\ record' = [record EXCEPT ![f.name] = v]
  /\ flaws' = flaws \cup {f.name}
  /\ UNCHANGED source

RecordNext == \E f \in ToSet(FieldsOf(source)) : \E v \in FlawedValues(f) : Flaw(f, v)

-----------------------------------------------------------------------------
(* Properties.                                                             *)

UnevenInterval(r) ==
  \E k \in 1 .. 1440 : r.interval_minutes.n = k /\ 1440 % k # 0

\* What the contracts do not express although the tables ask for it: values that
\* JSON has no form for; a register beyond its column and a reading in the last
\* month of the calendar; a site without a tariff that core has; a meter whose
\* site core does not have, or whose interval does not divide the day; bands
\* that are no bands; dates and temperatures in the wrong order; temperatures
\* at the limit once they are rounded; the region of another station; a day
\* under two keys.
KnownGap(r) ==
  \/ \E name \in DOMAIN r : r[name].is \in {"nan", "unstorable"}
  \/ CASE source = "meter_readings" -> \/ \E m \in Multiplier : r.register_value.n * m >= 100
                                       \/ r.reading_ts.is = "final"
       [] source = "sites"   -> \/ r.tariff_id.is \in {"missing", "stranger"}
                                \/ ~Given(r.valid_from)
                                \/ ~ValidityHolds(r)
       [] source = "meters"  -> UnevenInterval(r) \/ r.site_id.is = "stranger"
       [] source = "tariffs" -> \/ r.bands.n # 1
                                \/ ~ValidityHolds(r)
       [] source = "weather" -> \/ r.temp_max_c.n < r.temp_min_c.n
                                \/ r.temp_min_c.n = -60 \/ r.temp_max_c.n = 60
                                \/ r.region_code.is = "taken"
                                \/ r.observed_on.is = "retold"

\* Of the values that the classes above tell apart, a record that its contract
\* accepts is one that raw and core take, so that a promotion of the whole of
\* raw is not stopped by it, except through the gaps above (registry.py:26-196
\* against 003_raw.sql:19-34, 004_core_reference.sql:13-129 and
\* 005_core_readings.sql:18-34).
AcceptedIsPromotable ==
  Accepted => (RawTakes(record) /\ CoreTakes(source, record)) \/ KnownGap(record)

\* The identity of an accepted record is made of values of its own: no part of
\* it is the text of a missing value (models.py:140-147, 177-184).
AcceptedHasKey ==
  Accepted => \A name \in KeyFields(source) : Given(record[name])
=============================================================================
