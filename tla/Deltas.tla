------------------------------- MODULE Deltas -------------------------------
(***************************************************************************)
(* From the cumulative index of a meter to its consumption: the statistics *)
(* and the classification of src/sql/queries/refresh_consumption.sql over  *)
(* the series of readings that the simulated upstream generates            *)
(* (src/helios/generation/upstream.py) with its register, gaps, stuck      *)
(* stretches, corrections, resets and corrupted magnitudes.                *)
(*                                                                         *)
(* Time is counted in reporting intervals and energy in units of the       *)
(* register.  Statistics are twenty times their value, which makes the     *)
(* interpolation of the percentiles exact.                                 *)
(***************************************************************************)
EXTENDS Integers, SequencesExt

CONSTANTS
  RegisterMax,    \* 10 ^ index_digits
  StartRegister,  \* what the register may show in the beginning
  Energy,         \* what may be consumed in an interval
  AfterReset,     \* what it may show after a reset
  Nudge,          \* what a correction may add
  MaxIntervals,   \* bound on the intervals
  MaxMissed,      \* bound on the readings that are never reported
  MaxCorrected,   \* bound on the readings that are sent again
  MaxReset,       \* bound on the resets
  MaxSpikes       \* bound on the corrupted readings

ASSUME DeltasAssumption ==
  /\ RegisterMax \in Nat \ {0}
  /\ StartRegister \subseteq Nat /\ Energy \subseteq Nat
  /\ AfterReset \subseteq Nat /\ Nudge \subseteq Int
  /\ MaxMissed \in Nat

VARIABLES
  clock,    \* intervals so far
  total,    \* energy consumed so far
  base,     \* what the register would show had nothing been consumed
  feed,     \* the readings core holds of the meter, in time order
  mishaps   \* how often what went wrong

meterVars == <<clock, total, base, feed, mishaps>>

-----------------------------------------------------------------------------
(* The query.                                                              *)

\* A step is a reading and its predecessor, named by the place of the reading.
Steps == 2 .. Len(feed)

Delta(i) == feed[i].value - feed[i - 1].value

Span(i) == feed[i].at - feed[i - 1].at

WrappedShort(i) == (RegisterMax - 1 - feed[i - 1].value) + feed[i].value

\* wrapped_delta
Wrapped(i) == (RegisterMax - feed[i - 1].value) + feed[i].value

\* The steps before a step in the order of their deltas.
Below(i, steps) ==
  {j \in steps : Delta(j) < Delta(i) \/ (Delta(j) = Delta(i) /\ j < i)}

\* The delta that n deltas of these steps come before.
Nth(n, steps) == Delta(CHOOSE i \in steps : Cardinality(Below(i, steps)) = n)

\* PERCENTILE_CONT(q / 20) of the deltas of some steps, times 20;
\* COALESCE(..., 0).
Percentile(q, steps) ==
  LET place  == q * (Cardinality(steps) - 1)
      lower  == Nth(place \div 20, steps)
      upper  == IF place % 20 = 0 THEN lower ELSE Nth(place \div 20 + 1, steps)
  IN  IF steps = {} THEN 0 ELSE 20 * lower + (place % 20) * (upper - lower)

Forward == {i \in Steps : Delta(i) >= 0}

\* meter_median
Median == Percentile(10, Forward)

\* meter_scale: the p95 of the steps that the median considers sane.
P95 ==
  LET median == Median
  IN  Percentile(19, {i \in Forward : median <= 0 \/ 20 * Delta(i) <= 100 * median})

RolledUnguarded(i, p95) == p95 > 0 /\ 20 * Wrapped(i) <= 10 * p95 * Span(i)

\* A backward step that the width of the register explains.
Rolled(i, p95) ==
  /\ p95 > 0
  /\ Wrapped(i) > 0
  /\ 20 * Wrapped(i) <= 10 * p95 * Span(i)

\* classified.step_kind
Kind(i, p95, median) ==
  IF i = 1 THEN "first_reading"
  ELSE IF Delta(i) < 0
    THEN IF p95 > 0 /\ -20 * Delta(i) <= p95 * Span(i) THEN "correction"
         ELSE IF Rolled(i, p95) THEN "rollover"
         ELSE "reset"
  ELSE IF median > 0 /\ 20 * Delta(i) > 25 * median * Span(i) THEN "implausible"
  ELSE "forward"

\* valued.consumption_kwh
Consumption(i, p95, median) ==
  LET kind == Kind(i, p95, median)
  IN  CASE kind \in {"first_reading", "reset", "implausible"} -> {}
        [] kind = "rollover"   -> {Wrapped(i)}
        [] kind = "correction" -> {0}
        [] kind = "forward"    -> {Delta(i)}

-----------------------------------------------------------------------------
(* The meter.                                                              *)

MeterInit ==
  /\ clock = 0
  /\ total = 0
  /\ base \in StartRegister
  /\ feed = <<>>
  /\ mishaps = [missed |-> 0, corrected |-> 0, reset |-> 0, spikes |-> 0]

Happens(kind, max) ==
  /\ mishaps[kind] < max
  /\ mishaps' = [mishaps EXCEPT ![kind] = @ + 1]

Consume(e) ==
  /\ clock < MaxIntervals
  /\ clock' = clock + 1
  /\ total' = total + e

\* A reading as it reaches core; truth and moved are history.
Reading(at, register, truth) ==
  [at |-> at, value |-> register % RegisterMax, truth |-> truth, moved |-> 0]

\* An interval in which nothing is consumed is a stuck register's, too.
Report(e) ==
  /\ Consume(e)
  /\ feed' = Append(feed, Reading(clock', base + total', total'))
  /\ UNCHANGED <<base, mishaps>>

\* A reading that is never sent.
Miss(e) ==
  /\ Consume(e)
  /\ Happens("missed", MaxMissed)
  /\ UNCHANGED <<base, feed>>

\* The register starts again from a small value.
Reset(e, register) ==
  /\ Consume(e)
  /\ Happens("reset", MaxReset)
  /\ base' = register - total'
  /\ feed' = Append(feed, Reading(clock', register, total'))

Abs(n) == IF n < 0 THEN -n ELSE n

\* A reading that comes again with another value, which replaces it in core.
\* Corrections are drawn before anything is corrupted; nothing keeps one below
\* the width of the register.
Correct(i, nudge) ==
  LET value == IF feed[i].value + nudge < 0 THEN 0 ELSE feed[i].value + nudge
  IN  /\ feed[i].moved = 0 /\ mishaps.spikes = 0
      /\ Happens("corrected", MaxCorrected)
      /\ feed' = [feed EXCEPT ![i].value = value,
                              ![i].moved = Abs(value - feed[i].value)]
      /\ UNCHANGED <<clock, total, base>>

\* A transmission fault that scales a value by 1.6.
Spike(i) ==
  /\ Happens("spikes", MaxSpikes)
  /\ feed' = [feed EXCEPT ![i].value = (@ * 8) \div 5]
  /\ UNCHANGED <<clock, total, base>>

MeterNext ==
  \/ \E e \in Energy : Report(e) \/ Miss(e)
  \/ \E e \in Energy, register \in AfterReset : Reset(e, register)
  \/ \E i \in DOMAIN feed : Spike(i) \/ \E nudge \in Nudge : Correct(i, nudge)

-----------------------------------------------------------------------------
(* Properties.                                                             *)

\* What the thresholds of the classification take for granted: with e the most
\* that an interval consumes, m the most that a correction moves a reading by,
\* and g the longest time between two readings, ten of the largest steps, over
\* the longest time, are within the width of the register.
StepsAreSmall(e, m, g) ==
  /\ \A x \in Energy : x <= e
  /\ \A n \in Nudge : -m <= n /\ n <= m
  /\ 10 * ((e * g + 2 * m) * g) + 2 * m < RegisterMax

\* No series of readings, whatever was reset, corrected or corrupted in it,
\* makes a negative consumption: the table refuses one, and with it the refresh
\* of the whole window (refresh_consumption.sql:158-163, 006_mart.sql:39).
NonNegative ==
  LET median == Median
      p95    == P95
  IN  \A i \in DOMAIN feed : \A c \in Consumption(i, p95, median) : c >= 0

\* Where the register was neither reset nor corrupted, a consumption that is
\* reported is the energy that was consumed since the reading before, give or
\* take what corrections moved the two values by: a wrap loses nothing, a gap
\* is bridged, and no correction is taken for a wrap
\* (refresh_consumption.sql:130-200).
Truthful ==
  LET median == Median
      p95    == P95
  IN  mishaps.reset + mishaps.spikes = 0 =>
        \A i \in Steps : \A c \in Consumption(i, p95, median) :
          Abs(c - (feed[i].truth - feed[i - 1].truth))
            <= feed[i].moved + feed[i - 1].moved
=============================================================================
