# Helios in TLA+

Helios is a batch pipeline for energy telemetry: it reads six sources incrementally,
lands them in a raw layer, parks what its contracts refuse, promotes raw into typed
tables and rebuilds a consumption mart. The pipeline has no threads of its own; the
simulated upstream it reads serves requests from several. What makes it hard is that
every command is a sequence of separate transactions on one database, beside an upstream
that publishes late and a scheduler and operators that start, kill and repeat those
commands.

This directory holds TLA+ modules for that core and for what surrounds it (the
upstream it reads, the tables it fills, the rules it applies), the configurations
that model-check them, and proofs, for every value of their parameters, of nearly
every safety property that the runs check.

    tlc -workers 2 -config MCIngest.cfg MCIngest     # any run of the table below
    tlapm Ingest_proofs.tla                          # any module of proofs

## The system

Paths are relative to `src/`.

| Component | State it keeps | Operations | What makes it correct |
|---|---|---|---|
| Ingestion: `src/helios/ingest/runner.py`, `watermark.py`, `load/copy_loader.py` | `meta.source_watermark`, `raw.record`, per call a page, a buffer and the highest `updated_at` seen | read the watermark, page through the feed, validate, COPY a chunk, park, advance, reset | no record is passed over; the watermark follows what landed and goes back only by reset; every record is accounted for in the end |
| Upstream store: `api/store.py`, `api/routers/source.py`, `generation/upstream.py` | the feed file; a cache of it with the file's time, a lock | serve a page, reload, rewrite the file in place | the cache is the file; an answer is not older than its request |
| Paging and retry: `sources/http_source.py`, `sources/retry.py` | a cursor, an attempt count | one page at or after a bound and after a cursor; retry a page | pages, ties and retries skip and repeat nothing; a budget bounds the retries; a walk ends |
| File sources: `sources/file_sources.py` | none | read a whole snapshot | a snapshot is read in full |
| Contracts: `contracts/` | none | build a key, coerce, accept or refuse | a key names one record; what is accepted can be stored behind raw |
| Dead-letter queue: `ingest/deadletter.py` | `meta.dead_letter`; per process a buffer and a list | park, list pending, resolve, count a failure | no parked record is lost; RESOLVED means landed; a poison record ends |
| Promotion: `load/promote.py`, `sql/queries/promote_*.sql` | `core.*` | promote reference tables, promote readings, whole or one batch | core is raw's latest versions in whatever order they land; an old batch changes nothing |
| Mart: `sql/queries/refresh_consumption.sql` | `mart.consumption_interval` | delete and insert a window of days; difference, judge and value each step of a register | overlapping refreshes lose and roll back nothing; a consumption is the energy that was used |
| Partitions: `sql/schema/005_core_readings.sql`, `db/schema.py` | the partitions of `core.meter_reading` | find the span of raw, create each month's partition, route a row | two loaders can create the same month; no row is put where it blocks its month |
| SQL scripts: `db/sql_files.py` | none | split a script into statements | a statement comes out as it was written |
| Run history: `run_record.py`, `pipeline.py`, `quality/checks.py` | `meta.pipeline_run`, `meta.quality_result` | open and close nested records; run checks | a status is the truth about what it covers, once and for all |
| Health: `sql/marts/110_operations_views.sql`, `api/routers/pipeline.py` | none | report the last run | a failed run is seen |
| Scheduling: `orchestration/airflow/dags/helios_pipeline.py`, `cli.py` | none | start commands, one DAG run at a time | overlap with an operator does no harm |

They meet only in the database. `helios ingest` writes raw and the queue;
`helios dlq replay` moves entries from the queue to raw; `helios promote`
reads raw and writes core; `helios run` does ingestion, promotion, refresh and
checks in one process, nesting their run records. Nothing calls back, and
nothing but the DAG's `max_active_runs=1` serialises commands: an operator's
command may run beside a scheduled one at any point.

The hard behaviours are therefore interleavings of transactions of two
commands, a process killed between two of them, records that become visible
out of order, corrections of the same reading, and reference data that comes
after the data that refers to it. `PROJECT.json` lists each hazard at its line
with the properties that would catch it.

## Modules

    Feed                         the abstract promise of ingestion
     ^ implemented by
    Ingest     <- MCIngest       one source, from the feed to the watermark
               <- Ingest_proofs  its theorems, and so on below
    Store <- Fetch <- MCFetch    the feed file, its cache, a walk over its pages
                   <- Fetch_proofs
    DeadLetter <- MCDeadLetter   the queue, ingests and replays
               <- DeadLetter_proofs
    Layer                        the abstract promise of a layer of the warehouse
     ^ implemented by Promotion and Mart
    Promotion  <- MCPromotion    raw to core, whole or by batch
               <- Promotion_proofs
    Partitions <- MCPartitions   the months of core.meter_reading
               <- Partitions_proofs
    Mart       <- MCMart         refreshes of the consumption mart
               <- Mart_proofs
    Runs       <- MCRuns         run records, quality results, health
               <- Runs_proofs
    Contracts, Statements, Deltas, Reference <- MCRules
                                 the rules that need no process, and the
                                 statements of the promotion of reference data
    Contracts, Deltas, Reference, Statements <- Rules_proofs

### Ingest and Feed

A record is `<<updated_at, reading_id>>`, the pair the upstream sorts and pages
by, so two versions of a reading are two records. `visible` is the feed,
`watermark` the row of `meta.source_watermark`, `raw` and `parked` the two
places a record can end in, and `job[p]` one call of `ingest_source`:

| Action | Code |
|---|---|
| `Incremental`, `Full`, `Backfill` | `ingest_source` up to the loop: `read_watermark` and the choice of `since` |
| `ReadPage`, `ReadLastPage` | `HttpSource.fetch` asking `ReadingStore.page`: inclusive bound, exclusive cursor |
| `Accept`, `Reject` | one turn of the loop: validate, observe `updated_at`, buffer, commit a full chunk |
| `EndOfFeed` | `RawWriter.__exit__`, which writes the last chunk |
| `Park` | `dead_letters.flush()` |
| `Advance` | `advance_watermark`, with its `GREATEST` |
| `Fail` | an exception or a kill: committed chunks stay, buffers are gone |
| `ResetWatermark` | `helios reset-source` |
| `Publish`, `Tick` | the upstream and its clock, external |

Two assumptions about time are in the guards and have no counterpart in code:
a record becomes visible at most `Lag` after its `updated_at`, and a job reads
its last page at most `RunSpan` after it read the watermark. With a grace
window shorter than their sum the code loses records; the documentation speaks
of lateness only.

`Feed` says the same without jobs, pages or clocks: a frontier that the read
position plays, which may pass a record only once it is held.

### DeadLetter

`queue` is `meta.dead_letter` as a function of the natural key; a job is an ingest or a
replay. A key may stand for several readings: the key of a rejected record is made of
the raw text of its key fields, and every record of one instant whose `meter_id` is
empty, as the simulated upstream injects them, has the same. A record of a source with
one key field has no key at all when that field is empty (`NoKey`), and is parked under
its place in the buffer. `Ingest` is the reading of a window up to its parking (its walk
in detail is module Ingest's matter), `List`, `Validate`, `MarkResolved` and `Flush` are
the four transactions of `replay_dead_letters`, and `Deploy` replaces the contract. A
process validates with the contract it started with. Attempts are counted up to
`MaxAttempts`, above which nothing tells them apart. `OneAtATime` says whether commands
take turns.

### Promotion

A row is `<<entity, updated_at>>`; `raw[w]` is the batch it landed in, `core[e]`
the version core holds, `factor[r]` the version of the meter a reading was
multiplied with. The reference statement and the readings statement are a
transaction each at READ COMMITTED, so `ReadSites`, `PromoteReference`,
`ReadReadings` and `UpsertReadings` each see what has been committed by then.
`RejectReference` is the foreign key failing. A promoter promotes the whole of
raw (`helios promote`), a runner only what it landed (`helios run`).
`Overlap = FALSE` is `max_active_runs=1` with no operator beside it.

Sites stand for every table without a parent.

### Layer

What a layer promises of the versions in it, without jobs, statements or snapshots:
`Offer` gives the layer below more versions, `Take` brings some of them into this one,
which only advances, holds nothing that was not offered, and keeps, or has overtaken,
whatever a job that is done was to bring (`owed`). Promotion implements it with core
over raw, where every full promotion owes what it found and could refer to; Mart
implements it with the mart over core, where a row's version is the latest of its
reading and the last undisturbed refresh owes what it saw. The two definitions of
`owed` are what a reader of a `SUCCESS` in the run history relies on.

### Reference

The reference transaction again, with all its tables and a step per statement, while
ingests land rows between them. A row is a record of a source with what it refers to;
`core` holds the version at each place, a table and a key; `promoter` is the
transaction: the next statement, the batches it takes, its uncommitted `work`.

| Action | Code |
|---|---|
| `PromoteWhole`, `PromoteBatch` | `promote_reference(None)` by `helios promote`, and with its own batch by `helios run` |
| `Statement` | the next of the seven INSERTs: `DISTINCT ON` (`Freshest`), `ON CONFLICT` with or without its guard (`Wins`), the foreign keys (`Succeeds`) and the columns that take no null (`NothingNull`), whose failure ends the transaction |
| `Commit`, `Die` | the end of `engine.begin()` |
| `Land` | `copy_loader.py` |

Every site gets an assignment: validation stores a missing tariff or date as a null, and
`payload ? 'tariff_id'` holds for a null, so the row is selected and refused, and the
transaction fails until a newer version of the site has landed. What else the tables
refuse of a row (a region with two stations, a value out of range) is in module
Contracts. Promotions take turns, and two versions of a record have different instants:
ties are not modelled.

### Store and Fetch

A record is its place in the order of the texts `(updated_at, reading_id)`, by
which the store sorts and the cursor compares; `Instant` is what the bound
compares, and need not agree with it. `disk` is the feed file with the records a
writer still has to write (`goal`), `cache` and `stamp` are
`ReadingStore._records` and `_loaded_mtime`, `lock` its lock, and `thread[t]`
the request a worker thread serves, one action per step of `records()`: the
unlocked `Check` and `Take`, then `Lock` with its second check, `Load` or
`OpenMissing` or `OpenTorn`, and `Keep`, which stamps what was loaded with the
time read before. `Reset` is `reload`. The file changes between any two of them:
`AppendRecord`, or `StartWrite` and `Write`, which rewrite it in place and may
leave half a line. `Restart` is the API process dying.

`client` is one call of `ApiSource.fetch`: `Ask` sends the request of a page,
`Reach` is its acceptance by a thread, `Receive`, `Retry` and `Refuse` the three
kinds of answer, `Lose` a timeout or a transport error at any moment, after which
the thread goes on and its answer is nobody's. A page is the records of the least
ranks, and a rank is how many records come before. `slept` adds up the delays
`compute_delay` may draw. `Other` and `reload` requests come from anyone.

This is what Ingest takes as its atomic `ReadPage`: a walk that ends has handed
over, in order and once, what the feed held all along.

### Partitions

Months and days are numbered, and `MonthAfter` is
`(cursor + timedelta(days=32)).replace(day=1)` on a calendar given by the first
day of each month. A promotion of readings is `Span` (the look at raw),
`Ensure` and `Create` for each month (the check in
`core.ensure_reading_partition` and the creation, which waits for the lock of
another creator), `Ensured` (the commit) and `Insert`, which routes a row to its
month or to DEFAULT. With `Careful`, no reading of a month without a partition
lands while a promotion that would take it is in flight; the code does not see
to that, and `partitions_wedged` shows what happens without it.

### Mart

One meter. A row of the mart stands for all readings its refresh looked at, each with
the time of its last promotion: any of them may change the statistics that judge the
row. A refresh is `BeginScheduled` (the task of the DAG, whose window begins the day
before `today`, the logical date, and has no end) or `BeginAsked` (an operator, with one
date, both or none), `StartDelete` (the rows the DELETE finds), `Delete` (it has them
locked), `StartInsert` (the INSERT's own snapshot of core) and `Commit`, with `ON
CONFLICT DO NOTHING` for keys another refresh has written meanwhile. Business dates and
UTC midnights are kept apart, as in the query. `NextDay` moves the date on, whether or
not the runs of the day before succeeded: nothing makes up for a run that is missed.
`promised[r]` is history: what the last undisturbed refresh of a row had to see.

### Contracts, Statements, Deltas

The rules that need no process. Each module builds its inputs by actions, so that
TLC covers every input within the bounds. MCRules puts them and Reference into one
run; they share no state and one of them moves in a behaviour.

`Contracts` has the five contracts field by field, a value as its class and a
number, `Validate` as models.py decides (the first field that is not accepted;
`error` is an exception that is no ContractViolation), and for each source what
the tables behind raw accept. A record starts good and some of its fields are
replaced by what a source may send. The classes tell apart what a conversion or a column
treats differently: a number and one that a `NUMERIC` rounds to it (`above`, `below`), an
instant in the last month of the calendar, at which the loop over the months overflows
(`final`) and one whose UTC is outside of it (`edge`), a text that JSONB and TEXT refuse
(`unstorable`), the key of nothing in core (`stranger`), a region that another station
has (`taken`), a day that is written otherwise than before (`retold`). What concerns the
size of things is left out: a natural key too long for a B-tree page, a span of months
so long that its partitions exhaust the lock table, memory.

`Statements` is `split_statements` over a script that is written token by token, so
that where its statements with code begin and end is known (`statements`); a character
is a place in its token. The splitter's locals are `splitter`:

| Action | Code |
|---|---|
| `InComment`, `InDollar`, `InQuote`, `InPlain` | a turn of the loop, by its mode: `in_line_comment`, `dollar_tag`, `in_single_quote` or none of them; `Tag` is the candidate of a dollar quote |
| `Found` | what ends at a semicolon or with the text, without its white ends; the filter at the end of the function, which looks at each of them alone, is applied at once |
| `Finish` | the loop is over and the tail is left |
| `Write`, `EndStatement`, `Split` | the author: a token, a semicolon, the call |

`StatementsAssumption` says what a token looks like: a literal has its inner quotes in
pairs, a block has its mark at both ends and not between, a comment goes to the end of
its line or of the script, anything else is one character, a lone `-` or `$` among them.
`MayFollow` is what SQL itself reads otherwise: two signs side by side are a comment, and
letters between two dollars are a mark, so neither is written as lone signs. A line ends
with `\n`; the other line ends of `str.splitlines`, which only the filter knows, are left
out.

`Deltas` is the series of one register, as the simulated upstream makes it, and
the statistics, the classification and the valuation that
`refresh_consumption.sql` makes of it. Each reading carries, as history, the
energy that was truly used and how far a correction moved it.

### Runs

| Run | Checks | Result |
|---|---|---|
| `ingest` | `TypeOK`, `NoLoss`, `JobCovers`, `WatermarkLanded`, `WatermarkMonotone`, `ImplementsFeed` | hold; 0.8 million states |
| `ingest_live` | `EventuallyAccounted` | holds with two crashes |
| `ingest_backfill` | `NoLoss` | **violated**: a backfill from above the read position takes the watermark over a gap |
| `fetch` | `TypeOK`, `CacheCoherent`, `ServedFresh`, `NothingTwice`, `NothingSkipped`, `PageBounded`, `FetchEnds` | hold, with lost answers, restarts, reloads and a file that changes under the walk |
| `dlq` | `TypeOK`, `Kept`, `ResolvedLanded`, `BudgetDecides`, `PoisonEnds` | hold when commands take turns, with two kills and two readings under one key |
| `promotion` | `TypeOK`, `FullCovers`, `ImplementsLayer`, `EventuallyInCore` | hold when promotions take turns, with a kill |
| `partitions` | `TypeOK`, `NothingStray`, `EventuallyPromoted` | hold when nothing of a new month lands during a promotion, with a kill |
| `partitions_wedged` | `EventuallyPromoted` | **violated**: one row in the DEFAULT partition, and no later promotion succeeds |
| `mart` | `TypeOK`, `RefreshCovers`, `ImplementsLayer`, `EventuallyExact` | hold with overlapping refreshes, promotions, one failure and a schedule of windows |
| `runs` | `TypeOK`, `StatusHonest`, `OrphansOfFaults`, `ClosedForever` | hold |
| `runs_health` | `HealthSeesFailure` | **violated**, with one process: after a run that failed in its refresh the view looks at the promotion nested in it |
| `rules` | `NonNegative`, `Truthful`, `AcceptedIsPromotable`, `AcceptedHasKey`, `SplitsAsWritten`, `WholeIsInCore` | hold over every input within the bounds; 1.5 million states |

A violated property states what a document or a comment of the repository says;
`PROJECT.json` quotes the line in `findings`, together with the disagreements that
were met while modelling and have no run. Some of those can be seen by changing a
constant of a run that holds:

| Change | Fails | Because |
|---|---|---|
| `INVARIANTS ReadingKept` in `MCDeadLetter.cfg` | `ReadingKept` | of two readings of one instant without a meter, the one that is parked later takes the entry of the other, with one process only |
| `OneAtATime = FALSE` there | `Kept` | a replay or an ingest writes an older payload over the version that another process just parked |
| `OneAtATime = FALSE` there, without `Kept` | `ResolvedLanded` | `mark_resolved` marks an entry that holds another payload by then |
| `KeyOf <- MCUnkeyed`, `Contracts <- MCNeverB` and `SPECIFICATION FairSpec` there | `PoisonEnds` | a record without a key never spends its budget |
| `Overlap = TRUE` in `MCPromotion.cfg` | `FullCovers` | the promotion that joined the older multiplier writes last |
| `PROPERTIES EventuallyShown` in `MCMart.cfg` | `EventuallyShown` | a reading that is promoted when the schedule no longer takes its day never gets a row |

What the properties say, in short:

- `NoLoss`: the next run never starts above a record that is neither in raw nor
  in the queue. `JobCovers`: nor does a job under way, at any point of its
  walk. `WatermarkLanded`: the watermark is the instant of a landed record.
- `Kept`: of what was parked under a natural key, each record has reached raw or the
  entry of the key holds one that is no older. Where a key stands for one reading this
  is the record or a later version of it; where it stands for several, a reading may be
  lost: `ReadingKept` says that none is, and fails (a finding). `ResolvedLanded`: what a
  RESOLVED entry holds is in raw. `BudgetDecides`: the status is that of the attempts.
- `FullCovers`: once a full promotion has ended, core keeps what was in raw when
  it began, with the multipliers that were. `ImplementsLayer` of Promotion: no version
  in core is replaced by an older one (`NoRollback`), none is there that did not land,
  and what a full promotion owes stays.
- `EventuallyInCore`: a reading reaches core in whatever order it, its meter and
  its site land.
- `CacheCoherent`: a cache that the unlocked check takes for current holds what
  the file holds. `ServedFresh`: an answer is from the file as it was at some
  moment of its request. `NothingTwice`, `NothingSkipped`: the walk hands over no
  record twice and passes over none that the feed held from its beginning on.
  `PageBounded`: a page costs no more requests and no more sleep than the budget
  says, whatever `Retry-After` says. `FetchEnds`: every walk comes to an end.
- `NothingStray`: no row is routed to the DEFAULT partition, where it would keep
  the partition of its month from being created. `EventuallyPromoted`: a
  collision of two loaders is over after one of them has failed.
- `RefreshCovers`: what an undisturbed refresh saw when it began is in its rows,
  then and later. `ImplementsLayer` of Mart: a row never goes away, never returns to
  an older version of its reading (`RowsOnlyAdvance`) and is never ahead of core.
  `EventuallyExact`: once promotions and operators have come to an end, the rows of the
  day before the date of the schedule and of later ones are what a single refresh of
  that window would make them. It says nothing of older days, which the schedule no
  longer takes: a late correction of one of them stays out of the mart until an operator
  refreshes it (`EventuallyShown` says otherwise, and fails).
- `NonNegative`: no series makes a negative consumption, on which the table's
  CHECK would abort a refresh. `Truthful`: without resets and spikes, a reported
  consumption is the energy used, up to what corrections moved.
- `WholeIsInCore`: what a promotion of the whole of raw found is in core although its
  statements read raw at different times. Guarded tables keep it for good; bands,
  assignments and stations only until a batch is promoted, which a run with the
  property for every covered row shows at once (see the findings).
- `AcceptedIsPromotable`: an accepted record is one that raw and core take,
  except through the gaps named in `KnownGap`, each of which is a finding; "no other"
  is of the classes of values that the module tells apart.
  `AcceptedHasKey`: its natural key has no missing part.
- `SplitsAsWritten`: statements come out whole, in order, and nothing else does; a minus
  or a dollar on its own opens nothing.
- `StatusHonest`: SUCCESS hides no failure, PARTIAL is failed sources and no more,
  FAILED has a cause. It leaves out the rows of single sources: `EndSource` shows
  a failed one closed as SUCCESS, which is one of the findings.

### Bounds

| Run | Instance | Why it is enough |
|---|---|---|
| `ingest*` | four records over four instants, two of them tied, one refused; pages of one, chunks of two; a scheduled and an operator's job; one or two deaths | a tie straddles a page, a chunk is left partial, a record is late by the whole `Lag`, and the newest instant puts the oldest ones behind the grace window |
| `dlq` | a reading in two versions, and two readings of one instant that share a key; two processes; budget 3, `--limit 1`; three contracts | a newer version supersedes an entry, a replay sees part of the queue, the budget is spent by ingests, by replays and by both, and one reading takes the entry of another |
| `fetch` | three records, of which one orders otherwise by text than by instant and one is below the bound; pages of one; two threads; two attempts; three versions of the file | a walk has two pages; a request is served while the other thread loads, reloads or a writer is half done; a tie of the bound is there |
| `promotion` | one site, a meter whose multiplier changes, a corrected reading; one promoter and one runner | every order of landing of a parent, its child and their versions |
| `partitions*` | January to April of a common year, four readings in three months; a whole and a batch loader; one kill | 32 days from the first of January, of February and of March are the three different cases; the two loaders want the same months |
| `mart` | two readings, of which the second is of the next day by local time and not by UTC and the first is too early for the lookback of that day; three promotions; a scheduled refresh on two dates and an operator's, one of three windows requested, one failure | a window begins between a reading and its predecessor; a reading is corrected before, between and after the statements of two refreshes, and while the schedule takes its day or no longer does |
| `rules` | five intervals, a register of 210 that starts at 20 or three below its width, one each of a missed, a corrected and a corrupted reading and of a reset; two flawed fields of a record; four tokens of a script with its semicolons, of two marks, three literals, a comment with and one without an end, and a lone `-` and `$`; for Reference, in turn, a site with two assignments and a tariff of two versions, a site that has no tariff in its first version, with its tariff and a meter, and two observations of a station, each under two batches | a register wraps in a gap, beside a correction and after a spike; fields interact in pairs at most (validity dates, temperatures, a value and its multiplier); a dollar quote contains the mark of another; a sign stands before and after every kind of token, and at the end; no foreign key connects the three parts of the reference data, a version may land before, between and after the statements that read it, and a batch may hold the older one |
| `runs*` | two processes, two sources, a history of two rows before the last command starts; one kill or lost write | one source fails and the other does not; three records nest and interleave with those of another process |

`MaxNow`, `MaxFailures`, `MaxRows`, `MaxFaults`, `MaxMtime`, `MaxClock`,
`MaxRequests` and those of the rules are bounds on what has none in the code;
they stand in guards, so that they cut behaviours short and add none. A deadlock
is looked for in every run but two, `fetch` because the model ends with the walk
and `rules` because an input within the bounds cannot grow for ever; elsewhere
the system is never stuck at a bound, because a command that begins can always
fail, end or go on. `runs` uses the symmetry of processes and of sources; it
checks no liveness.

### Fairness

`FairSpec` of Ingest: the DAG starts an ingest every 15 minutes whatever the last one
did, and a job that is not killed goes on (weak fairness of `Incremental` and of
`Step`). Nothing is assumed of operators or of the upstream. In DeadLetter a process
that is not killed finishes, and replays keep being started while something is pending
(strong fairness, because another process may be in the way now and then); `PoisonEnds`
holds without any, since every attempt counts. In Promotion every row is landed in the
end, which is `EventuallyAccounted` of Ingest; the scheduled promotion is repeated, and
strong fairness says that it gets its turn between other commands. In Partitions and
Mart a command that has begun goes on and the scheduled one is repeated every 15 minutes
(weak fairness, since nothing but a lock that is released in the end makes them wait).
In Mart what is repeated is the task as the DAG has it, the window from the day before
the logical date on; the date need not move on, and nobody has to ask for any other
window, or for everything. In Fetch only the client is fair: it sends what it has to
send, and a request that is not answered runs into the timeout of the HTTP client, which
is `Lose`; of the server, which may loop, die or never answer, nothing is assumed.

## Proofs

### Ingest_proofs

For every set of records, grace window, page and chunk size, set of jobs and number
of failures:

| Theorem | Establishes | Assumes |
|---|---|---|
| `TypeCorrect` | `[]TypeOK` | the assumptions on the constants |
| `WatermarkIsLanded` | `[]WatermarkLanded` | |
| `WatermarkIsMonotone` | `WatermarkMonotone` | |
| `NoSilentLoss` | `[]NoLoss` | `Disciplined` |
| `NothingSkipped` | `[]JobCovers` | `Disciplined` |
| `IngestImplementsFeed` | `ImplementsFeed` | `Disciplined` |

`Disciplined` is `CarefulOperator /\ Lag + RunSpan <= Grace`: operators backfill
from at or before the read position, and the grace window is as long as lateness
and reading time together. Without the first, `ingest_backfill` is a
counterexample.

The argument. `WatermarkLanded` is not inductive: `Advance` stores `seen`, which
the job only remembers. `LandInv` adds that a job's `seen` is the instant of a
record in raw or in its buffer, that the buffer is empty once the walk is over,
and that clocks are ordered. `NoLoss` is not inductive either: when a job
advances the watermark, it must know about every record below the new read
position. That is `JobCovers`: from the job's point of view a record is held, in
memory, still ahead of its cursor, or stamped within `Lag` of its start. The last
kind is above the new read position because a job lasts at most `RunSpan` and
the grace window covers both. `IInv == LandInv /\ JobCovers /\ NoLoss` is
inductive; `LandStep` and `CoverStep` have a step per action. The refinement maps
`Publish` to `Feed!Publish`, landing and parking to `Account`, advancing and
resetting to `Move`, and the rest to a stutter.

### Fetch_proofs

For every set of records, number of worker threads, retry budget, delay and fault
bound, from the assumptions on the constants alone:

| Theorem | Establishes |
|---|---|
| `CacheIsCoherent` | `[]CacheCoherent` |
| `AnswersAreFresh` | `[]ServedFresh` |
| `PageIsBounded` | `[]PageBounded` |
| `TypeCorrect` | `[]TypeOK` |
| `NothingIsTwice` | `[]NothingTwice` |
| `NothingIsSkipped` | `[]NothingSkipped` |

`Store` has no specification of its own, so its two invariants are proved of Fetch,
whose steps are the store's, the client's and the feed file's. `ServedFresh` is not
inductive: it is about an answer, and says nothing of what a thread read before. A
load takes the modification time before it opens the file, so a stamp can only be
older than what was read: the version of the cached records is at least their stamp,
and the stamp at most the present modification time (`CacheInv`). While a thread loads,
under the lock, the cache stays outdated, so no request decides to take it meanwhile;
and a load is as fresh as any request that had decided before (`LoadsFreshEnough`).
Those two and `ThreadInv`, what a request knows at each place, are `StoreInv`.
`ClientInv` counts: every
attempt but the last is followed by one sleep, and a sleep is at most the cap,
whether it is drawn or named by Retry-After.

`NothingSkipped` says what has been yielded, and needs to know what will be. First,
what a page is: a finite set of records has one record of each rank (`RanksAreAll`, by
counting), so `InOrder` is the sequence of the page's records in their order (`Sorted`),
its last one is the greatest (`LastIsGreatest`), and whatever is left out of the page is
above it (`PageIs`). So a cursor leaves nothing behind that the answer had. `SightInv`
says that every answer had what was there all along: the file, the cache and whatever a
thread has loaded or answers with contain `throughout`, since only a rewriting takes
records away and it takes them from `throughout` as well. `ReadInv` joins the two: what
is yielded increases and is at or below the cursor. `WalkInv` is the three invariants
together.

### Partitions_proofs

For every calendar with months of 28 to 31 days, every set of readings and every
number of loaders:

| Theorem | Establishes | Assumes |
|---|---|---|
| `TypeCorrect` | `[]TypeOK` | the assumptions on the constants |
| `NothingIsStray` | `[]NothingStray` | `Careful` |

Two lemmas on the calendar come first: a day is in one month, and 32 days from the
first of a month are in the next one (`NextMonth`). `TypeOK` needs `LoopInv`: the loop
ends before the calendar does, so that its cursor is always a month. `NothingStray`
is about the insert alone; `CoverInv` follows the promotion that leads to it: every
reading that a promotion may insert is of a month that has a partition, that this
promotion has created, or that its loop has still to come to. One lemma per action
(`SpanMove` to `EnsuredMove`) shows that the loop keeps that, and a landing keeps it
because of `Careful`; without it `partitions_wedged` is a counterexample.

### DeadLetter_proofs

For every set of records, sequence of contracts, budget, limit and number of
processes and kills:

| Theorem | Establishes | Assumes |
|---|---|---|
| `TypeCorrect` | `[]TypeOK` | the assumptions on the constants |
| `BudgetIsDecisive` | `[]BudgetDecides` | |
| `ResolvedIsLanded` | `[]ResolvedLanded` | `OneAtATime` |
| `ParkedIsKept` | `[]Kept` | `OneAtATime` |

The constants are assumed to be such that finitely many records are as old as any given
one. Nothing is assumed of the keys: any number of readings may share one, and any may
have none, of which `Kept` says nothing. Without `OneAtATime` the property fails, as the
changes above show.

Each action is shown to be one of a few kinds of step of one process (`Moves`: it
starts, validates what it listed, marks, flushes, dies), and the invariants are proved of
those. `LandedInv` makes `ResolvedLanded` inductive: processes take turns (`Alone`), so
an entry still holds what was listed when it is marked, and what is to be marked is in
raw. `KeptInv` does so for `Kept`: what a process has in its buffer covers what its
flush will overwrite, because the last row of each key is the newest one
(`RowsInHand`), whether the rows come from a window of the feed, in the order of their
`updated_at`, or from the queue, one for each key. An entry holds a record of its own key
unless that key is an unkeyed name, so a replay files what it listed under the key it
came from.

### Promotion_proofs

For every set of sites, meters, readings, rows, promoters and runners:

| Theorem | Establishes | Assumes |
|---|---|---|
| `TypeCorrect` | `[]TypeOK`, with its foreign keys | the assumptions on the constants |
| `NeverRollsBack` | `NoRollback` | |
| `PromotionImplementsLayer` | `ImplementsLayer` | |
| `FullPromotionCovers` | `[]FullCovers` | `~Overlap` |

`TypeOK` holds with `JoinHolds`: a reading is joined only with a meter that core has,
and core loses none. `FullCovers` is about a promotion that is over. `CoverInv` follows
one through its four statements: what it is to cover has landed (`HistoryIsLanded`);
its sites are among those it read (`SitesInHand`); after the reference transaction its
sites and meters are in core (`ReferencesDone`); the readings it holds are those it is
to cover and are nowhere behind core (`ReadingsInHand`), with the multipliers that core
has (`MetersInHand`). The last two are true because promotions take turns (`Alone`); with
`Overlap` the property fails, as the changes above show. Of two full promotions the later
one covers more, since raw only grows (`Chain`), so what was covered need not be
remembered by promotion.

`PromotionImplementsLayer` needs no turns: promotions that overlap may leave a reading
with an older multiplier, but no version is lost. `LayerInv` follows a full promotion
only through what it has in hand, the rows it is to cover and the versions core must
reach before it is done (`OwedInHand`, `OwedIsHeld`). Another promotion may put newer
versions in between, never older ones, because the guards of the upserts compare with
what is there when they write.

### Mart_proofs

For every finite set of readings, their times and days, every schedule of windows, and
every number of processes, requests, promotions and failures:

| Theorem | Establishes |
|---|---|
| `TypeCorrect` | `[]TypeOK` |
| `RowsAdvance` | `RowsOnlyAdvance` |
| `MartImplementsLayer` | `ImplementsLayer` |
| `RefreshIsComplete` | `[]RefreshCovers` |

None assumes that refreshes take turns. A row that a transaction has deleted is
touched by no other one (`Locked`), so when it commits the mart holds what it deleted,
and what it inserts was read from core later (`Versions`: nothing is newer than core).
That it inserts each row it deleted is arithmetic: the DELETE's window of business dates
lies within the INSERT's window of timestamps. `RefreshCovers` promises something only of
a refresh that was alone from its beginning to its end; `Undisturbed` says that such a one
has found every row of its window, and that nobody else has promised anything meanwhile.
`SeesPromises` says that an INSERT has read, within its scope, whatever was promised
before. For the layer `SeenLast` adds that a refresh which is alone saw nothing older
than what is promised of its rows, so that its promise replaces theirs and takes nothing
back (`OwedStays`); a row is never ahead of core because `Versions` bounds
it, and the latest version of a row only grows because `RowsOnlyAdvance` says so of each
version (`NewerIsLater`).

### Runs_proofs

For every set of processes and sources, every length of the history and every number of
kills and lost writes:

| Theorem | Establishes |
|---|---|
| `TypeCorrect` | `[]TypeOK` |
| `StatusIsHonest` | `[]StatusHonest` |
| `ClosedIsFinal` | `ClosedForever` |
| `OrphansHaveCauses` | `[]OrphansOfFaults` |

A status is chosen from what the process remembers (`failed`), while the property is
about what went wrong under the row. `RowsInv` connects them: the rows a process has
open are RUNNING, are of no other process (`Apart`), and list as wrong what the process
has noted so far. Every action is shown to be one kind of step, `Move`, which changes only
open rows and leaves none of them RUNNING unless it goes on to hold it or a fault is
counted. `OrphansOfFaults` counts rows; `UnclosedOfFaults` is the form of it that a step
keeps, with two rows to a fault.

### Rules_proofs

For every set of reference rows and batches, any number of flaws in a record and any
multipliers, every register, and scripts of any length of whatever tokens
`StatementsAssumption` allows:

| Theorem | Establishes | Of |
|---|---|---|
| `WholeLands` | `[]WholeIsInCore` | Reference |
| `AcceptedIsTaken` | `[]AcceptedIsPromotable` | Contracts |
| `KeysAreGiven` | `[]AcceptedHasKey` | Contracts |
| `NothingIsNegative` | `[]NonNegative` | Deltas |
| `ConsumptionIsTrue` | `[]Truthful`, if `StepsAreSmall(e, m, MaxMissed + 1)` | Deltas |
| `SmallStepsAreTrue` | `Truthful` wherever no gap is longer than `g`, if `StepsAreSmall(e, m, g)` | Deltas |
| `ScriptsAreSplit` | `[]SplitsAsWritten` | Statements |

Each is proved of a specification of its own module (`ReferenceSpec`, `RecordSpec`,
`MeterSpec`, `ScriptSpec`), since the modules share no state. `ReferenceInv` has the
rows that a whole promotion found and that the statements done so far have dealt with in
the transaction's work (`Dealt`), and the guarded tables of the work nowhere behind core
(`Ahead`), so that a commit loses nothing that was covered before (`Settled`). One
statement deals with all its rows because a finite set of rows has a latest one for each
place (`StatementHolds`); at any time finitely many rows have landed, which is part of
the invariant and no assumption. Contracts are proved of any value with a whole number,
not only of those the run enumerates: `FieldShows` says what an accepted field shows,
and a lemma for each source lists what that is.  In Deltas, `NothingIsNegative` takes
any percentiles. `Truthful` needs to know what they are. `StepsAreSmall(e, m, g)` is the
hypothesis, with `e` the most that an interval consumes, `m` the most that a correction
moves a reading by and `g` the longest time between two readings: `10 * ((e * g + 2 * m)
* g) + 2 * m < RegisterMax`. The code takes this for granted: a backward step is a
rollover when the wrapped difference is at most half of p95 times its span, and p95,
which is of steps and not of rates, may be as large as the longest step. A register of
six digits has room for steps of some hundred units over gaps of ten intervals. Without
some such hypothesis the property is false: on a register of width 20 that consumes 5 in
each interval, TLC finds a turn in a gap (11, a reading missed, then 1) taken for a
correction and valued as 0. The argument: `SeriesInv` says what a value of the feed is,
the register modulo its width, moved by its correction; so a step is what was consumed,
or that less one turn, up to what corrections moved. A percentile lies between two of
the deltas it is taken of, because every rank below the number of steps is the rank of
one of them (by counting what is below it), so p95 is at most the largest forward step.
If that is small, what the thresholds call a rollover is one, and what they call forward
has not turned.

`ScriptsAreSplit` takes two invariants. The author's (`AuthorInv`): every character is
in a token that is there as a whole (`WholeAt`), the list has exactly the statements
with code, apart and in order, and a sign on its own is where it may be (`SignsAlone`):
no dash follows it, no mark begins at it, and a comment without an end is the last
token. The splitter's (`ScanInv`): outside of a mode it is at the first character of a
token, within one it is in a token of that kind (`Aligned`), in a literal never between
the two quotes of a pair, in a block never within its last mark; what it has found is
the list as far as the last separator (`FoundAre`). Each turn keeps that
(`CommentKeeps`, `DollarKeeps`, `QuoteKeeps`, `PlainKeeps`): a lone dash opens no
comment because the next character is none, and a lone dollar has no `Tag`, because the
next dollar after it, if there is one, is beyond a character that is no letter
(`NoTagAlone`). A literal that follows another at once is the one place where the
splitter crosses from token to token within a mode, and it comes out of it at the right
end. What ends at a separator has code if and only if it survives the filter
(`CodeShows`, `NoCodeShows`): the first token with code is the first ink of its line,
and without code the first ink of a line begins a comment, because a comment ends with
its line or with the script.

### Only model-checked

Liveness, which is out of the prover's reach: `EventuallyAccounted`, `FetchEnds`,
`PoisonEnds`, `EventuallyInCore`, `EventuallyPromoted`, `EventuallyExact`.

## Not modelled

- The energy views, the statistics endpoints and the lag overviews: they read.
- The API application, configuration, logging, connections and the pool: wiring.
  The retry budget, the grace window, page and chunk sizes are constants here.
- The parsing of CSV and JSON files, the content hash, `register_contracts`.
  Content hashes are the identity of a record: the same
  `<<updated_at, reading_id>>` is the same content.
- Load shapes, weather and random draws of the simulated upstream: data.
- That the statistics of a window differ from those of the whole series: Mart
  says which readings a row is computed from, Deltas what is computed from a whole
  series. The difference is among the findings.

## Plan

1. Done: Ingest with Feed; DeadLetter; Promotion and Reference; Runs; Store and
   Fetch; Partitions; Mart; Contracts, Statements and Deltas.
2. Done: proofs of every safety property that a run checks to hold; three refinements
   (Ingest of Feed, Promotion and Mart of Layer).
3. Left: what overlapping promotions keep of the multipliers (a bound on how far one
   may lag); an abstract walk that Fetch implements and Ingest uses.
