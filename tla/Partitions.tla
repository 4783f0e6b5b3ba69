----------------------------- MODULE Partitions -----------------------------
(***************************************************************************)
(* The monthly partitions of core.meter_reading: promotions look at the    *)
(* span of raw, create the partitions it needs (ensure_reading_partitions  *)
(* in src/helios/db/schema.py, ensure_reading_partition in                 *)
(* src/sql/schema/005_core_readings.sql) and insert, in transactions of    *)
(* their own, while other promotions and ingests do the same.              *)
(*                                                                         *)
(* Every reading has its meter; which version of a reading core holds is   *)
(* the subject of module Promotion.                                        *)
(***************************************************************************)
EXTENDS Integers, FiniteSetsExt

CONSTANTS
  Reading,    \* the readings that may land
  Day,        \* the day of their reading_ts, in UTC
  LastMonth,  \* the last month of the calendar
  First,      \* the first day of each month
  Scheduled,  \* the processes that promote the whole of raw, again and again
  Operator,   \* the processes that promote one batch
  Careful,    \* TRUE: see MayLand
  MaxFaults   \* bound on the promotions that are killed

Loader == Scheduled \cup Operator

Month == 0 .. LastMonth

ASSUME PartitionsAssumption ==
  /\ LastMonth \in Nat
  /\ First \in [0 .. LastMonth + 1 -> Nat]
  /\ \A m \in Month : First[m + 1] - First[m] \in 28 .. 31
  /\ \A m, n \in 0 .. LastMonth + 1 : m < n => First[m] < First[n]
  /\ Day \in [Reading -> First[0] .. First[LastMonth] - 1]
  /\ Careful \in BOOLEAN
  /\ MaxFaults \in Nat

VARIABLES
  raw,         \* the readings that have landed
  core,        \* the readings that were promoted
  stray,       \* the readings in the DEFAULT partition
  partitions,  \* the months that have a partition
  loader,      \* the promotion each process runs
  faults       \* promotions killed so far

vars == <<raw, core, stray, partitions, loader, faults>>

MonthOf(day) == CHOOSE m \in Month : First[m] <= day /\ day < First[m + 1]

MonthOfReading(r) == MonthOf(Day[r])

MonthAfterMonths(m) == m + 32

\* (cursor + 32 days).replace(day=1)
MonthAfter(m) == MonthOf(First[m] + 32)

Idle ==
  [pc |-> "idle", scope |-> {}, cursor |-> 0, last |-> 0, created |-> {}]

Pc == {"idle", "months", "create", "insert"}

LoaderState ==
  [pc      : Pc,
   scope   : SUBSET Reading,   \* the batch, or everything
   cursor  : Month,            \* the month the loop is at
   last    : Month,            \* the month it ends with
   created : SUBSET Month]     \* partitions created and not committed

Goes(l, state) == loader' = [loader EXCEPT ![l] = state]

\* CREATE TABLE ... PARTITION OF locks the parent until its transaction ends.
ParentFree(l) == \A k \in Loader \ {l} : loader[k].created = {}

-----------------------------------------------------------------------------
(* Ingests.                                                                *)

Promotes(l, r) == loader[l].pc # "idle" /\ r \in loader[l].scope

\* With Careful, what lands while a promotion that would take it is in flight
\* belongs to a month that has its partition.  The code does not see to that.
MayLand(r) ==
  \/ ~Careful
  \/ MonthOfReading(r) \in partitions
  \/ \A l \in Loader : ~Promotes(l, r)

Land(r) ==
  /\ r \notin raw
  /\ MayLand(r)
  /\ raw' = raw \cup {r}
  /\ UNCHANGED <<core, stray, partitions, loader, faults>>

-----------------------------------------------------------------------------
(* One promotion.                                                          *)

SpanFromEnd(l, scope) ==
  LET months == {MonthOfReading(r) : r \in raw \cap scope}
  IN  /\ loader[l].pc = "idle"
      /\ months # {}
      /\ Goes(l, [pc |-> "months", scope |-> scope, cursor |-> Max(months),
                  last |-> Max(months), created |-> {}])
      /\ UNCHANGED <<raw, core, stray, partitions, faults>>

\* The span of what waits in raw; without any there is nothing to do.
Span(l, scope) ==
  LET months == {MonthOfReading(r) : r \in raw \cap scope}
  IN  /\ loader[l].pc = "idle"
      /\ months # {}
      /\ Goes(l, [pc |-> "months", scope |-> scope, cursor |-> Min(months),
                  last |-> Max(months), created |-> {}])
      /\ UNCHANGED <<raw, core, stray, partitions, faults>>

SpanAll(l) == Span(l, Reading)

\* A batch that is closed is a set of rows that have landed.
SpanBatch(l) == \E batch \in SUBSET raw : Span(l, batch)

NextStartsAt(state, m) == [state EXCEPT !.pc = "months", !.cursor = m]

EnsureUnchecked(l) ==
  /\ loader[l].pc = "months"
  /\ loader[l].cursor <= loader[l].last
  /\ Goes(l, [loader[l] EXCEPT !.pc = "create"])
  /\ UNCHANGED <<raw, core, stray, partitions, faults>>

\* A partition that exists needs nothing.
Ensure(l) ==
  /\ loader[l].pc = "months"
  /\ loader[l].cursor <= loader[l].last
  /\ IF loader[l].cursor \in partitions \cup loader[l].created
       THEN Goes(l, NextStartsAt(loader[l], MonthAfter(loader[l].cursor)))
       ELSE Goes(l, [loader[l] EXCEPT !.pc = "create"])
  /\ UNCHANGED <<raw, core, stray, partitions, faults>>

\* The creation waits for the parent; it fails, and the transaction with it,
\* when the partition has come to exist since the check or when the DEFAULT
\* partition holds rows of the month.
Create(l) ==
  LET m == loader[l].cursor
  IN  /\ loader[l].pc = "create"
      /\ ParentFree(l)
      /\ IF \/ m \in partitions
            \/ \E r \in stray : MonthOfReading(r) = m
           THEN Goes(l, Idle)
           ELSE Goes(l, NextStartsAt([loader[l] EXCEPT !.created = @ \cup {m}],
                                     MonthAfter(m)))
      /\ UNCHANGED <<raw, core, stray, partitions, faults>>

\* The loop is done and its transaction commits.
Ensured(l) ==
  /\ loader[l].pc = "months"
  /\ loader[l].cursor > loader[l].last
  /\ partitions' = partitions \cup loader[l].created
  /\ Goes(l, [loader[l] EXCEPT !.pc = "insert", !.created = {}])
  /\ UNCHANGED <<raw, core, stray, faults>>

\* What raw holds by now is inserted; a row without a partition for its month
\* goes to DEFAULT, and a row that is there stays where it is.
Insert(l) ==
  LET new == (raw \cap loader[l].scope) \ core
  IN  /\ loader[l].pc = "insert"
      /\ ParentFree(l)
      /\ core' = core \cup new
      /\ stray' = stray \cup {r \in new : MonthOfReading(r) \notin partitions}
      /\ Goes(l, Idle)
      /\ UNCHANGED <<raw, partitions, faults>>

\* The process is killed: what it has not committed is rolled back.
Die(l) ==
  /\ loader[l].pc # "idle"
  /\ faults < MaxFaults
  /\ faults' = faults + 1
  /\ Goes(l, Idle)
  /\ UNCHANGED <<raw, core, stray, partitions>>

-----------------------------------------------------------------------------
Init ==
  /\ raw = {}
  /\ core = {}
  /\ stray = {}
  /\ partitions = {}
  /\ loader = [l \in Loader |-> Idle]
  /\ faults = 0

Step(l) == Ensure(l) \/ Create(l) \/ Ensured(l) \/ Insert(l)

Next ==
  \/ \E r \in Reading : Land(r)
  \/ \E l \in Scheduled : SpanAll(l)
  \/ \E l \in Operator : SpanBatch(l)
  \/ \E l \in Loader : Step(l) \/ Die(l)

Spec == Init /\ [][Next]_vars

\* A promotion that has begun goes on, and that of the whole of raw is repeated.
FairSpec ==
  /\ Spec
  /\ \A l \in Loader : WF_vars(Step(l))
  /\ \A l \in Scheduled : WF_vars(SpanAll(l))

-----------------------------------------------------------------------------
(* Properties.                                                             *)

\* The state of the table and of the promotions; what was promoted had landed.
TypeOK ==
  /\ raw \subseteq Reading
  /\ core \subseteq raw
  /\ stray \subseteq core
  /\ partitions \subseteq Month
  /\ loader \in [Loader -> LoaderState]
  /\ faults \in 0 .. MaxFaults

\* No row is ever routed to the DEFAULT partition, whoever else creates
\* partitions, fails or dies between the look at raw and the insert: from there
\* it would keep the partition of its month from being created
\* (005_core_readings.sql:85-90, 100-104).
NothingStray == stray = {}

\* A collision of two loaders fails one of them and is over: whatever has landed
\* is promoted in the end (db/schema.py:100-109, promote.py:87-98).
EventuallyPromoted ==
  \A r \in Reading : r \in raw ~> r \in core
=============================================================================
