-------------------------------- MODULE Mart --------------------------------
(***************************************************************************)
(* The consumption mart of one meter: refreshes of date windows            *)
(* (refresh_consumption in src/helios/load/promote.py and the two          *)
(* statements of src/sql/queries/refresh_consumption.sql) that overlap     *)
(* with promotions and with one another, each statement at READ COMMITTED. *)
(*                                                                         *)
(* What a row says depends on every reading its refresh looked at: the     *)
(* predecessor gives the delta and all of them the statistics that judge   *)
(* it.  So a row is represented by the readings it was computed from, each *)
(* with the time it was last promoted.  The judgement is in module Deltas. *)
(***************************************************************************)
EXTENDS Integers, FiniteSetsExt

CONSTANTS
  Reading,     \* the readings of the meter
  Time,        \* reading_ts
  DayLength,   \* length of a day, in units of Time
  Offset,      \* what the business timezone is ahead of UTC
  FirstDay,    \* the logical date of the first scheduled run
  LastDay,     \* bound on that date
  Scheduled,   \* the processes that refresh yesterday and today, again and again
  Operator,    \* the processes that refresh what they are asked for
  Requests,    \* the windows operators ask for
  MaxClock,    \* bound on the promotions
  MaxRequests, \* bound on the refreshes of operators
  MaxFaults    \* bound on the refreshes that fail

Job == Scheduled \cup Operator

\* A request that does not give a date: None in Python.
NoDate == -1

ASSUME MartAssumption ==
  /\ IsFiniteSet(Reading)
  /\ Time \in [Reading -> Nat]
  /\ DayLength \in Nat \ {0}
  /\ Offset \in 0 .. DayLength - 1
  /\ FirstDay \in Nat \ {0} /\ LastDay \in Nat
  /\ Requests \subseteq [from : Nat \cup {NoDate}, to : Nat \cup {NoDate}]
  /\ MaxClock \in Nat /\ MaxRequests \in Nat /\ MaxFaults \in Nat

VARIABLES
  core,      \* time of the last promotion of each reading, 0 when absent
  mart,      \* consumption_interval: the basis of each row, {} when absent
  job,       \* the refresh each process runs
  today,     \* the logical date of the schedule: ds
  asked,     \* refreshes of operators so far
  faults,    \* refreshes that failed
  promised   \* history: what the last undisturbed refresh of a row had to see

vars == <<core, mart, job, today, asked, faults, promised>>

Idle ==
  [pc |-> "idle", lo |-> 0, hi |-> 0, target |-> {}, deleted |-> {},
   rows |-> {}, seen |-> {}, alone |-> FALSE]

Basis == SUBSET (Reading \X (1 .. MaxClock))

JobState ==
  [pc      : {"idle", "begin", "delete", "deleted", "insert"},
   lo      : Nat,               \* from_date
   hi      : Nat,               \* to_date
   target  : SUBSET Reading,    \* rows the DELETE has found
   deleted : SUBSET Reading,    \* rows it has deleted
   rows    : Basis,             \* what the INSERT has read
   seen    : Basis,             \* history: the same when the job began
   alone   : BOOLEAN]           \* history: no other refresh was in flight

Present(c) == {r \in Reading : c[r] # 0}

Clock == Max({core[r] : r \in Reading} \cup {0})

\* Dates are those of the business timezone ...
DayOf(r) == (Time[r] + Offset) \div DayLength

\* ... and windows of timestamps are cut at midnight UTC.
Midnight(day) == day * DayLength

InWindow(lo, hi) == {r \in Reading : lo <= DayOf(r) /\ DayOf(r) <= hi}

\* The readings a refresh looks at, with one day of lookback.
InScope(r, lo, hi) == Time[r] >= Midnight(lo - 1) /\ Time[r] < Midnight(hi + 1)

Scoped(c, lo, hi) ==
  {<<r, c[r]>> : r \in {r \in Present(c) : InScope(r, lo, hi)}}

Holds(basis, r) == \E s \in 1 .. MaxClock : <<r, s>> \in basis

-----------------------------------------------------------------------------
(* One refresh.                                                            *)

Goes(j, state) == job' = [job EXCEPT ![j] = state]

\* A process that starts while another is in flight disturbs both.
Joined(j, state) ==
  LET others == {k \in Job \ {j} : job[k].pc # "idle"}
  IN  job' = [k \in Job |->
                IF k = j THEN [state EXCEPT !.alone = others = {}]
                ELSE IF k \in others THEN [job[k] EXCEPT !.alone = FALSE]
                ELSE job[k]]

BeginWithoutEnd(j, from, to) ==
  LET days == {DayOf(r) : r \in Present(core)}
      lo   == IF from = NoDate THEN Min(days) ELSE from
  IN  /\ job[j].pc = "idle"
      /\ NoDate \in {from, to} => days # {}
      /\ Joined(j, [Idle EXCEPT !.pc = "begin", !.lo = lo, !.hi = to,
                                !.seen = Scoped(core, lo, to)])
      /\ UNCHANGED <<core, mart, today, faults, promised>>

\* A date that is not given is taken from the span of core; there is nothing
\* to do when core is empty.
Begin(j, from, to) ==
  LET days == {DayOf(r) : r \in Present(core)}
      lo   == IF from = NoDate THEN Min(days) ELSE from
      hi   == IF to = NoDate THEN Max(days) ELSE to
  IN  /\ job[j].pc = "idle"
      /\ NoDate \in {from, to} => days # {}
      /\ Joined(j, [Idle EXCEPT !.pc = "begin", !.lo = lo, !.hi = hi,
                                !.seen = Scoped(core, lo, hi)])
      /\ UNCHANGED <<core, mart, today, faults, promised>>

BeginScheduledToday(j) == Begin(j, today, NoDate) /\ UNCHANGED asked

\* refresh-marts --from-date, the day before the logical date of the run.
BeginScheduled(j) == Begin(j, today - 1, NoDate) /\ UNCHANGED asked

\* refresh-marts with the dates an operator gives, or with none, as in helios
\* run.
BeginAsked(j) ==
  /\ asked < MaxRequests
  /\ \E q \in Requests : Begin(j, q.from, q.to)
  /\ asked' = asked + 1

StartDeleteBelow(j) ==
  /\ job[j].pc = "begin"
  /\ Goes(j, [job[j] EXCEPT
                !.pc = "delete",
                !.target = {r \in InWindow(job[j].lo, job[j].hi - 1) :
                              mart[r] # {}}])
  /\ UNCHANGED <<core, mart, today, asked, faults, promised>>

\* The DELETE takes its snapshot.
StartDelete(j) ==
  /\ job[j].pc = "begin"
  /\ Goes(j, [job[j] EXCEPT
                !.pc = "delete",
                !.target = {r \in InWindow(job[j].lo, job[j].hi) :
                              mart[r] # {}}])
  /\ UNCHANGED <<core, mart, today, asked, faults, promised>>

\* It waits for whoever is deleting the same rows.
Delete(j) ==
  /\ job[j].pc = "delete"
  /\ \A k \in Job \ {j} : job[k].deleted \cap job[j].target = {}
  /\ Goes(j, [job[j] EXCEPT !.pc = "deleted", !.deleted = job[j].target])
  /\ UNCHANGED <<core, mart, today, asked, faults, promised>>

InsertAsBegun(j) ==
  /\ job[j].pc = "deleted"
  /\ Goes(j, [job[j] EXCEPT !.pc = "insert", !.rows = job[j].seen])
  /\ UNCHANGED <<core, mart, today, asked, faults, promised>>

\* The INSERT takes its own snapshot of core.
StartInsert(j) ==
  /\ job[j].pc = "deleted"
  /\ Goes(j, [job[j] EXCEPT
                !.pc = "insert",
                !.rows = Scoped(core, job[j].lo, job[j].hi)])
  /\ UNCHANGED <<core, mart, today, asked, faults, promised>>

Rows(j) == {r \in InWindow(job[j].lo, job[j].hi) : Holds(job[j].rows, r)}

\* ON CONFLICT DO NOTHING: a row that is there and that this transaction has
\* not deleted stays.
Inserts(j, r) == r \in Rows(j) /\ (mart[r] = {} \/ r \in job[j].deleted)

\* The rows are written and the transaction commits.  A key whose row another
\* transaction is deleting has to wait for it, and a DELETE that waited for
\* this one finds its rows gone.
Commit(j) ==
  /\ job[j].pc = "insert"
  /\ \A k \in Job \ {j} : job[k].deleted \cap Rows(j) = {}
  /\ mart' = [r \in Reading |-> IF Inserts(j, r) THEN job[j].rows
                                ELSE IF r \in job[j].deleted THEN {}
                                ELSE mart[r]]
  /\ job' = [k \in Job |->
               IF k = j THEN Idle
               ELSE [job[k] EXCEPT !.target = @ \ job[j].deleted]]
  /\ promised' = [r \in Reading |->
                    IF r \notin InWindow(job[j].lo, job[j].hi)
                      THEN promised[r]
                    ELSE IF job[j].alone /\ Holds(job[j].seen, r)
                      THEN job[j].seen
                    ELSE {p \in promised[r] :
                            InScope(p[1], job[j].lo, job[j].hi)}]
  /\ UNCHANGED <<core, today, asked, faults>>

\* A LoadError, a deadlock between two refreshes or a killed process.
Fail(j) ==
  /\ job[j].pc # "idle"
  /\ faults < MaxFaults
  /\ faults' = faults + 1
  /\ Goes(j, Idle)
  /\ UNCHANGED <<core, mart, today, asked, promised>>

\* A promotion brings a reading into core, or a corrected one.
Promote(r) ==
  /\ Clock < MaxClock
  /\ core' = [core EXCEPT ![r] = Clock + 1]
  /\ UNCHANGED <<mart, job, today, asked, faults, promised>>

\* The date moves on, whether or not a run of the day before succeeded: runs
\* that are missed are not made up for (catchup=False).
NextDay ==
  /\ today < LastDay
  /\ today' = today + 1
  /\ UNCHANGED <<core, mart, job, asked, faults, promised>>

-----------------------------------------------------------------------------
Init ==
  /\ core = [r \in Reading |-> 0]
  /\ mart = [r \in Reading |-> {}]
  /\ job = [j \in Job |-> Idle]
  /\ today = FirstDay
  /\ asked = 0
  /\ faults = 0
  /\ promised = [r \in Reading |-> {}]

Refresh(j) == StartDelete(j) \/ Delete(j) \/ StartInsert(j) \/ Commit(j)

Next ==
  \/ \E r \in Reading : Promote(r)
  \/ NextDay
  \/ \E j \in Scheduled : BeginScheduled(j)
  \/ \E j \in Operator : BeginAsked(j)
  \/ \E j \in Job : Refresh(j) \/ Fail(j)

\* A refresh that has begun goes on, and the task of the schedule is repeated;
\* nobody has to ask for another window, or for everything.
Fairness ==
  /\ \A j \in Job : WF_vars(Refresh(j))
  /\ \A j \in Scheduled : WF_vars(BeginScheduled(j))

Spec == Init /\ [][Next]_vars /\ Fairness

-----------------------------------------------------------------------------
(* Properties.                                                             *)

\* The state of the mart and of the refreshes; a row is computed from its own
\* reading.
TypeOK ==
  /\ core \in [Reading -> 0 .. MaxClock]
  /\ mart \in [Reading -> Basis]
  /\ \A r \in Reading : mart[r] # {} => Holds(mart[r], r)
  /\ job \in [Job -> JobState]
  /\ today \in Nat \ {0}
  /\ asked \in 0 .. MaxRequests
  /\ faults \in 0 .. MaxFaults
  /\ promised \in [Reading -> Basis]

\* After a refresh that no other one disturbed, every row of its window was
\* computed from each reading the refresh could see when it began, in that
\* version or a newer one (refresh_consumption.sql:53-75).  A later one that was
\* disturbed or failed takes nothing of that back but what its own window no
\* longer looks at.
RefreshCovers ==
  \A r \in Reading : \A p \in promised[r] :
    \E s \in p[2] .. MaxClock : <<p[1], s>> \in mart[r]

\* However refreshes and promotions overlap and fail, a row that the mart has
\* shown never goes away and never returns to an older version of its reading
\* (refresh_consumption.sql:53, 231).
RowsOnlyAdvance ==
  [][\A r \in Reading : \A s \in 1 .. MaxClock :
       <<r, s>> \in mart[r] => \E t \in s .. MaxClock : <<r, t>> \in mart'[r]]_vars

\* The version of a reading in a basis, 0 when it is not in it.
VersionIn(basis, r) == Max({s \in 1 .. MaxClock : <<r, s>> \in basis} \cup {0})

\* The abstract promise, with the mart as the layer over core: the row of a
\* reading is its version, and the last undisturbed refresh owes what it saw.
Promise == INSTANCE Layer WITH
  Key     <- Reading,
  offered <- {v \in Reading \X (1 .. MaxClock) : v[2] <= core[v[1]]},
  held    <- [r \in Reading |-> VersionIn(mart[r], r)],
  owed    <- {v \in Reading \X (1 .. MaxClock) :
                \E s \in v[2] .. MaxClock : <<v[1], s>> \in promised[v[1]]}

\* The mart implements Layer: however refreshes and promotions overlap and fail,
\* a row that the mart has shown never goes away and never returns to an older
\* version of its reading, none is ahead of core, and what an undisturbed
\* refresh saw is in the mart or overtaken from then on
\* (refresh_consumption.sql:53, 231).
ImplementsLayer == Promise!Spec

\* When promotions and operators come to an end, the schedule leaves the rows of
\* the day before its date and of later ones as one refresh of that window over
\* the last core would have made them, whatever overlapped and failed before
\* (helios_pipeline.py:84-90, promote.py:157-163).
EventuallyExact ==
  <>[](LET from == today - 1
           to   == Max({DayOf(r) : r \in Present(core)})
       IN  \A r \in Reading :
             DayOf(r) >= from =>
               mart[r] = IF core[r] = 0 THEN {} ELSE Scoped(core, from, to))

\* What the schedule is said to be and is not, lossless when runs are skipped:
\* a reading that is in core comes to have a row
\* (helios_pipeline.py:59-60 "skipping one is lossless because the watermark did
\* not move").
EventuallyShown ==
  <>[](\A r \in Reading : core[r] # 0 => Holds(mart[r], r))
=============================================================================
