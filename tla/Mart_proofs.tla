----------------------------- MODULE Mart_proofs ------------------------------
(***************************************************************************)
(* Proofs about the consumption mart for every meter, every timezone and   *)
(* every number of refreshes and promotions.                               *)
(*                                                                         *)
(* RowsOnlyAdvance rests on the row locks: what one transaction deletes    *)
(* no other touches, so that the rows it inserts, read from core after     *)
(* the DELETE, are as new as those it deleted and leave none out, the      *)
(* window of dates being within the window of timestamps (WindowInScope).  *)
(* RefreshCovers needs in addition that a refresh which was alone found    *)
(* every row of its window, and that an INSERT has read whatever was       *)
(* promised before: nobody can promise anything while it is in flight.     *)
(* That the mart is a layer over core follows from both: what is promised  *)
(* anew of a row is no older than what was.                                *)
(***************************************************************************)
EXTENDS Mart, FiniteSetTheorems, WellFoundedInduction, TLAPS

-----------------------------------------------------------------------------
(* Numbers and dates.                                                      *)

LEMMA LeastNatural ==
  ASSUME NEW S \in SUBSET Nat, S # {}
  PROVE  \E x \in S : \A y \in S : x <= y
<1>1. PICK x \in S : \A y \in S : ~ (<<y, x>> \in OpToRel(<, Nat))
  BY NatLessThanWellFounded, WFMin
<1>2. \A y \in S : ~(y < x)
  BY <1>1 DEF OpToRel
<1> QED
  BY <1>2

\* A finite set of naturals has a greatest element: one that the fewest others
\* exceed.
LEMMA GreatestNatural ==
  ASSUME NEW S \in SUBSET Nat, S # {}, IsFiniteSet(S)
  PROVE  \E x \in S : \A y \in S : y <= x
<1> DEFINE above(x) == {y \in S : y > x}
           count(x) == Cardinality(above(x))
           C == {count(x) : x \in S}
<1>1. \A x \in S : above(x) \in SUBSET S /\ IsFiniteSet(above(x)) /\ count(x) \in Nat
  BY FS_Subset, FS_CardinalityType
<1>2. C \in SUBSET Nat /\ C # {}
  BY <1>1
<1>3. PICK n \in C : \A m \in C : n <= m
  BY <1>2, LeastNatural
<1>4. PICK x \in S : count(x) = n
  OBVIOUS
<1> HIDE DEF count
<1>5. \A y \in S : count(x) <= count(y)
  BY <1>3, <1>4
<1>6. ASSUME NEW y \in S, y > x
      PROVE  FALSE
  <2>1. above(y) \in SUBSET above(x) /\ y \in above(x) /\ y \notin above(y)
    <3>1. x \in Nat /\ y \in Nat /\ \A z \in S : z \in Nat
      OBVIOUS
    <3>2. \A z \in S : z > y => z > x
      BY <1>6, <3>1
    <3>3. ~(y > y)
      BY <3>1
    <3> QED
      BY <1>6, <3>2, <3>3
  <2>2. count(x) <= count(y)
    BY <1>5
  <2>3. IsFiniteSet(above(x)) /\ count(x) \in Nat /\ count(y) \in Nat
    BY <1>1
  <2> HIDE DEF above
  <2>4. Cardinality(above(y)) <= Cardinality(above(x))
    BY <2>1, <2>3, FS_Subset
  <2>5. Cardinality(above(y)) = Cardinality(above(x))
    BY <2>2, <2>3, <2>4 DEF count
  <2>6. above(x) = above(y)
    BY <2>1, <2>3, <2>5, FS_Subset
  <2> QED
    BY <2>1, <2>6
<1> QED
  BY <1>6

LEMMA Product ==
  ASSUME NEW a \in Int, NEW b \in Int, a <= b, NEW l \in Nat
  PROVE  a * l <= b * l
  BY SMT

LEMMA Quotient ==
  ASSUME NEW n \in Nat, NEW l \in Nat \ {0}
  PROVE  /\ n \div l \in Nat
         /\ (n \div l) * l <= n
         /\ n < (n \div l) * l + l
  BY SMT

LEMMA ReadingFacts ==
  \A r \in Reading :
    /\ Time[r] \in Nat /\ DayOf(r) \in Nat
    /\ DayOf(r) * DayLength <= Time[r] + Offset
    /\ Time[r] + Offset < DayOf(r) * DayLength + DayLength
<1> TAKE r \in Reading
<1>1. /\ Time[r] \in Nat /\ DayLength \in Nat \ {0}
      /\ Offset \in Nat
  BY MartAssumption
<1>2. PICK n \in Nat : n = Time[r] + Offset
  BY <1>1
<1>3. /\ n \div DayLength \in Nat
      /\ (n \div DayLength) * DayLength <= n
      /\ n < (n \div DayLength) * DayLength + DayLength
  BY <1>1, <1>2, Quotient
<1>4. DayOf(r) = n \div DayLength
  BY <1>2 DEF DayOf
<1> QED
  BY <1>1, <1>2, <1>3, <1>4

\* A refresh looks at every reading of its window: one day of lookback is more
\* than any timezone is ahead of UTC.
LEMMA WindowInScope ==
  ASSUME NEW lo \in Nat, NEW hi \in Nat, NEW r \in InWindow(lo, hi)
  PROVE  InScope(r, lo, hi)
<1> DEFINE l == DayLength
           t == Time[r]
           d == DayOf(r)
<1>1. r \in Reading /\ lo <= d /\ d <= hi
  BY DEF InWindow
<1>2. /\ t \in Nat /\ d \in Nat /\ l \in Nat \ {0} /\ l > 0
      /\ Offset \in Nat /\ Offset < l
  BY <1>1, ReadingFacts, MartAssumption
<1>3. d * l <= t + Offset /\ t + Offset < d * l + l
  BY <1>1, ReadingFacts
<1>4. (lo - 1) * l <= (d - 1) * l /\ (d + 1) * l <= (hi + 1) * l
  BY <1>1, <1>2, Product
<1>5. (d - 1) * l = d * l - l /\ (d + 1) * l = d * l + l
  BY <1>2, SMT
<1>6. d * l \in Nat /\ (lo - 1) * l \in Int /\ (hi + 1) * l \in Int
  BY <1>2, SMT
<1> HIDE DEF d, l, t
<1>7. t >= (lo - 1) * l /\ t < (hi + 1) * l
  BY <1>2, <1>3, <1>4, <1>5, <1>6
<1> QED
  BY <1>7 DEF InScope, Midnight, l, t

-----------------------------------------------------------------------------
(* Versions, and what a snapshot of core holds.                            *)

Stamp == 1 .. MaxClock

LEMMA BasisParts ==
  ASSUME NEW b \in Basis, NEW p \in b
  PROVE  p[1] \in Reading /\ p[2] \in Stamp /\ p = <<p[1], p[2]>>
  BY DEF Basis, Stamp

CoreOK(c) == c \in [Reading -> 0 .. MaxClock]

LEMMA CoreParts ==
  ASSUME CoreOK(core), NEW r \in Reading
  PROVE  /\ core[r] \in Nat /\ core[r] \in 0 .. MaxClock
         /\ core[r] # 0 => core[r] \in Stamp
  BY MartAssumption DEF CoreOK, Stamp

LEMMA ClockIs ==
  ASSUME CoreOK(core)
  PROVE  Clock \in 0 .. MaxClock /\ \A r \in Reading : core[r] <= Clock
<1> DEFINE S == {core[r] : r \in Reading} \cup {0}
<1>1. MaxClock \in Nat
  BY MartAssumption
<1>2. S \in SUBSET (0 .. MaxClock) /\ S \in SUBSET Nat /\ S # {}
  BY <1>1, CoreParts
<1>3. IsFiniteSet(S)
  <2>1. IsFiniteSet(0 .. MaxClock)
    BY <1>1, FS_Interval
  <2> QED
    BY <1>2, <2>1, FS_Subset
<1>4. \A r \in Reading : core[r] \in S
  OBVIOUS
<1>5. Clock = Max(S)
  BY DEF Clock
<1> HIDE DEF S
<1>6. \E x \in S : \A y \in S : y <= x
  BY <1>2, <1>3, GreatestNatural
<1>7. \E x \in S : \A y \in S : x >= y
  BY <1>2, <1>6
<1>8. Max(S) \in S /\ \A y \in S : Max(S) >= y
  BY <1>7 DEF Max
<1> QED
  BY <1>2, <1>4, <1>5, <1>8

\* The readings of core that the window looks at, in the versions of core.
LEMMA ScopedIs ==
  ASSUME CoreOK(core), NEW lo, NEW hi
  PROVE  /\ Scoped(core, lo, hi) \in Basis
         /\ \A p \in Scoped(core, lo, hi) :
              /\ p[1] \in Reading /\ p[2] = core[p[1]] /\ p[2] # 0
              /\ InScope(p[1], lo, hi)
         /\ \A r \in Reading :
              core[r] # 0 /\ InScope(r, lo, hi)
                => <<r, core[r]>> \in Scoped(core, lo, hi)
<1>1. \A p \in Scoped(core, lo, hi) :
        /\ p[1] \in Reading /\ p[2] = core[p[1]] /\ p[2] # 0
        /\ InScope(p[1], lo, hi)
        /\ p = <<p[1], p[2]>>
  BY DEF Scoped, Present
<1>2. \A p \in Scoped(core, lo, hi) : p[2] \in Stamp
  BY <1>1, CoreParts
<1>3. Scoped(core, lo, hi) \in Basis
  BY <1>1, <1>2 DEF Basis, Stamp
<1>4. \A r \in Reading :
        core[r] # 0 /\ InScope(r, lo, hi)
          => <<r, core[r]>> \in Scoped(core, lo, hi)
  BY DEF Scoped, Present
<1> QED
  BY <1>1, <1>3, <1>4

\* The dates of what core holds have a first and a last.
LEMMA DaysAre ==
  ASSUME NEW c,
         {DayOf(r) : r \in Present(c)} # {}
  PROVE  /\ Min({DayOf(r) : r \in Present(c)}) \in Nat
         /\ Max({DayOf(r) : r \in Present(c)}) \in Nat
<1> DEFINE days == {DayOf(r) : r \in Present(c)}
           f == [r \in Present(c) |-> DayOf(r)]
<1>1. Present(c) \in SUBSET Reading
  BY DEF Present
<1>2. days \in SUBSET Nat /\ days # {}
  BY <1>1, ReadingFacts
<1>3. IsFiniteSet(Present(c))
  BY <1>1, FS_Subset, MartAssumption
<1>4. f \in Surjection(Present(c), days)
  BY DEF Surjection
<1> HIDE DEF days, f
<1>5. IsFiniteSet(days)
  BY <1>3, <1>4, FS_Surjection
<1>6. \E x \in days : \A y \in days : y <= x
  BY <1>2, <1>5, GreatestNatural
<1>7. \E x \in days : \A y \in days : x >= y
  BY <1>2, <1>6
<1>8. \E x \in days : \A y \in days : x <= y
  BY <1>2, LeastNatural
<1>9. Max(days) \in days /\ Min(days) \in days
  BY <1>7, <1>8 DEF Max, Min
<1> QED
  BY <1>2, <1>9 DEF days

-----------------------------------------------------------------------------
(* What each action does.                                                  *)

Pc == {"idle", "begin", "delete", "deleted", "insert"}

LEMMA PcFacts ==
  /\ "idle" \in Pc /\ "begin" \in Pc /\ "delete" \in Pc /\ "deleted" \in Pc
  /\ "insert" \in Pc
  BY DEF Pc

LEMMA JobStateIs ==
  JobState = [pc : Pc, lo : Nat, hi : Nat, target : SUBSET Reading,
              deleted : SUBSET Reading, rows : Basis, seen : Basis,
              alone : BOOLEAN]
  BY DEF JobState, Pc

LEMMA JobParts ==
  ASSUME NEW t \in JobState
  PROVE  /\ t.pc \in Pc /\ t.lo \in Nat /\ t.hi \in Nat
         /\ t.target \in SUBSET Reading /\ t.deleted \in SUBSET Reading
         /\ t.rows \in Basis /\ t.seen \in Basis /\ t.alone \in BOOLEAN
  BY JobStateIs

LEMMA IdleIs ==
  /\ Idle \in JobState
  /\ Idle.pc = "idle" /\ Idle.target = {} /\ Idle.deleted = {}
  /\ Idle.rows = {} /\ Idle.seen = {} /\ Idle.alone = FALSE
<1>1. {} \in Basis /\ {} \in SUBSET Reading
  BY DEF Basis
<1> QED
  BY <1>1, JobStateIs, PcFacts DEF Idle

\* A process that is not the one that moves may find that it has been joined, or
\* that rows it was to delete are gone.
Stays(a, b) ==
  /\ b \in JobState
  /\ b.pc = a.pc /\ b.lo = a.lo /\ b.hi = a.hi
  /\ b.target \subseteq a.target /\ b.deleted = a.deleted
  /\ b.rows = a.rows /\ b.seen = a.seen
  /\ b.alone => a.alone

LEMMA StaysSame ==
  ASSUME NEW a \in JobState
  PROVE  Stays(a, a)
  BY DEF Stays

\* Process j goes to state t.
Becomes(j, t) ==
  /\ job' \in [Job -> JobState]
  /\ job'[j] = t
  /\ \A k \in Job \ {j} : Stays(job[k], job'[k])

LEMMA GoesBecomes ==
  ASSUME job \in [Job -> JobState], NEW j \in Job, NEW t \in JobState, Goes(j, t)
  PROVE  Becomes(j, t) /\ \A k \in Job \ {j} : job'[k] = job[k]
<1>1. /\ job' \in [Job -> JobState] /\ job'[j] = t
      /\ \A k \in Job \ {j} : job'[k] = job[k]
  BY DEF Goes
<1>2. \A k \in Job \ {j} : job[k] \in JobState
  OBVIOUS
<1> QED
  BY <1>1, <1>2, StaysSame DEF Becomes

\* A refresh begins; it is alone if every other process is idle, and no other
\* one is alone from then on.
Begins(j, t) ==
  /\ job[j].pc = "idle"
  /\ t.pc = "begin" /\ t.target = {} /\ t.deleted = {} /\ t.rows = {}
  /\ t.seen = Scoped(core, t.lo, t.hi)
  /\ t.alone => \A k \in Job \ {j} : job[k].pc = "idle"
  /\ \A k \in Job \ {j} : job'[k].alone => job[k].pc = "idle"

LEMMA BeginDoes ==
  ASSUME CoreOK(core), job \in [Job -> JobState], NEW j \in Job,
         NEW from \in Nat \cup {NoDate}, NEW to \in Nat \cup {NoDate},
         Begin(j, from, to)
  PROVE  \E t \in JobState : Becomes(j, t) /\ Begins(j, t)
<1> DEFINE days == {DayOf(r) : r \in Present(core)}
           lo == IF from = NoDate THEN Min(days) ELSE from
           hi == IF to = NoDate THEN Max(days) ELSE to
           others == {k \in Job \ {j} : job[k].pc # "idle"}
<1>1. /\ job[j].pc = "idle"
      /\ NoDate \in {from, to} => days # {}
      /\ Joined(j, [Idle EXCEPT !.pc = "begin", !.lo = lo, !.hi = hi,
                                !.seen = Scoped(core, lo, hi)])
  BY DEF Begin
<1>2. days # {} => Min(days) \in Nat /\ Max(days) \in Nat
  BY DaysAre
<1>3. lo \in Nat /\ hi \in Nat
  BY <1>1, <1>2
<1>4. Scoped(core, lo, hi) \in Basis
  BY ScopedIs
<1> HIDE DEF lo, hi
<1>5. PICK s : s = [Idle EXCEPT !.pc = "begin", !.lo = lo, !.hi = hi,
                                !.seen = Scoped(core, lo, hi)]
  OBVIOUS
<1>6. /\ s \in JobState /\ s.pc = "begin" /\ s.lo = lo /\ s.hi = hi
      /\ s.target = {} /\ s.deleted = {} /\ s.rows = {}
      /\ s.seen = Scoped(core, lo, hi)
  <2>1. {} \in Basis /\ {} \in SUBSET Reading
    BY DEF Basis
  <2> QED
    BY <1>3, <1>4, <1>5, <2>1, JobStateIs, PcFacts DEF Idle
<1>7. job' = [k \in Job |->
                IF k = j THEN [s EXCEPT !.alone = others = {}]
                ELSE IF k \in others THEN [job[k] EXCEPT !.alone = FALSE]
                ELSE job[k]]
  BY <1>1, <1>5 DEF Joined
<1>8. PICK t : t = [s EXCEPT !.alone = others = {}]
  OBVIOUS
<1>9. /\ t \in JobState /\ t.pc = "begin" /\ t.lo = lo /\ t.hi = hi
      /\ t.target = {} /\ t.deleted = {} /\ t.rows = {}
      /\ t.seen = Scoped(core, lo, hi)
      /\ t.alone = (others = {})
  <2>1. (others = {}) \in BOOLEAN
    OBVIOUS
  <2> HIDE DEF others
  <2> QED
    BY <1>6, <1>8, <2>1, JobStateIs
<1>10. ASSUME NEW k \in Job \ {j}
       PROVE  Stays(job[k], job'[k]) /\ (job'[k].alone => job[k].pc = "idle")
  <2>1. job[k] \in JobState
    OBVIOUS
  <2>2. CASE k \in others
    <3>1. job'[k] = [job[k] EXCEPT !.alone = FALSE]
      BY <1>7, <2>2
    <3>2. Stays(job[k], job'[k]) /\ ~job'[k].alone
      BY <2>1, <3>1, JobStateIs DEF Stays
    <3> QED
      BY <3>2
  <2>3. CASE k \notin others
    <3>1. job'[k] = job[k] /\ job[k].pc = "idle"
      BY <1>7, <2>3
    <3> QED
      BY <2>1, <3>1, StaysSame
  <2> QED
    BY <2>2, <2>3
<1>11. job'[j] = t
  BY <1>7, <1>8
<1>12. job' \in [Job -> JobState]
  <2>1. \A k \in Job : job'[k] \in JobState
    BY <1>9, <1>10, <1>11 DEF Stays
  <2> HIDE DEF others
  <2> QED
    BY <1>7, <2>1
<1>13. Becomes(j, t)
  BY <1>10, <1>11, <1>12 DEF Becomes
<1>14. Begins(j, t)
  BY <1>1, <1>9, <1>10 DEF Begins
<1> QED
  BY <1>9, <1>13, <1>14

\* What a step of a refresh leaves as it is in the process itself.
SameJob(a, b) == b.lo = a.lo /\ b.hi = a.hi /\ b.seen = a.seen /\ b.alone = a.alone

\* The DELETE finds the rows of the window.
Finds(j, t) ==
  /\ SameJob(job[j], t)
  /\ job[j].pc = "begin" /\ t.pc = "delete"
  /\ t.target = {r \in InWindow(t.lo, t.hi) : mart[r] # {}}
  /\ t.deleted = job[j].deleted /\ t.rows = job[j].rows

LEMMA FindDoes ==
  ASSUME job \in [Job -> JobState], NEW j \in Job, StartDelete(j)
  PROVE  /\ \A k \in Job \ {j} : job'[k] = job[k]
         /\ \E t \in JobState : Becomes(j, t) /\ Finds(j, t)
<1> DEFINE target == {r \in InWindow(job[j].lo, job[j].hi) : mart[r] # {}}
<1>1. job[j] \in JobState /\ job[j].pc = "begin"
  BY DEF StartDelete
<1>2. target \in SUBSET Reading
  BY DEF InWindow
<1>3. Goes(j, [job[j] EXCEPT !.pc = "delete", !.target = target])
  BY DEF StartDelete
<1>4. PICK found : found = target
  OBVIOUS
<1>5. PICK t : t = [job[j] EXCEPT !.pc = "delete", !.target = found]
  OBVIOUS
<1> HIDE DEF target
<1>6. /\ t \in JobState /\ SameJob(job[j], t) /\ t.pc = "delete"
      /\ t.target = found /\ t.deleted = job[j].deleted
      /\ t.rows = job[j].rows
  BY <1>1, <1>2, <1>4, <1>5, JobStateIs, PcFacts DEF SameJob
<1>7. Becomes(j, t) /\ \A k \in Job \ {j} : job'[k] = job[k]
  BY <1>3, <1>4, <1>5, <1>6, GoesBecomes
<1>8. Finds(j, t)
  BY <1>1, <1>4, <1>6 DEF Finds, SameJob, target
<1> QED
  BY <1>6, <1>7, <1>8

\* It deletes them, when no other transaction is deleting any of them.
Deletes(j, t) ==
  /\ SameJob(job[j], t)
  /\ job[j].pc = "delete" /\ t.pc = "deleted"
  /\ t.target = job[j].target /\ t.deleted = job[j].target
  /\ t.rows = job[j].rows
  /\ \A k \in Job \ {j} : job[k].deleted \cap job[j].target = {}

LEMMA DeleteDoes ==
  ASSUME job \in [Job -> JobState], NEW j \in Job, Delete(j)
  PROVE  /\ \A k \in Job \ {j} : job'[k] = job[k]
         /\ \E t \in JobState : Becomes(j, t) /\ Deletes(j, t)
<1>1. job[j] \in JobState /\ job[j].pc = "delete"
  BY DEF Delete
<1>2. PICK t : t = [job[j] EXCEPT !.pc = "deleted", !.deleted = job[j].target]
  OBVIOUS
<1>3. /\ t \in JobState /\ SameJob(job[j], t) /\ t.pc = "deleted"
      /\ t.target = job[j].target /\ t.deleted = job[j].target
      /\ t.rows = job[j].rows
  BY <1>1, <1>2, JobStateIs, PcFacts DEF SameJob
<1>4. Becomes(j, t) /\ \A k \in Job \ {j} : job'[k] = job[k]
  BY <1>2, <1>3, GoesBecomes DEF Delete
<1>5. Deletes(j, t)
  BY <1>1, <1>3 DEF Deletes, Delete
<1> QED
  BY <1>3, <1>4, <1>5

\* The INSERT reads core.
Reads(j, t) ==
  /\ SameJob(job[j], t)
  /\ job[j].pc = "deleted" /\ t.pc = "insert"
  /\ t.target = job[j].target /\ t.deleted = job[j].deleted
  /\ t.rows = Scoped(core, t.lo, t.hi)

LEMMA ReadDoes ==
  ASSUME CoreOK(core), job \in [Job -> JobState], NEW j \in Job, StartInsert(j)
  PROVE  /\ \A k \in Job \ {j} : job'[k] = job[k]
         /\ \E t \in JobState : Becomes(j, t) /\ Reads(j, t)
<1>1. job[j] \in JobState /\ job[j].pc = "deleted"
  BY DEF StartInsert
<1>2. PICK rows \in Basis : rows = Scoped(core, job[j].lo, job[j].hi)
  BY ScopedIs
<1>3. PICK t : t = [job[j] EXCEPT !.pc = "insert", !.rows = rows]
  OBVIOUS
<1>4. /\ t \in JobState /\ SameJob(job[j], t) /\ t.pc = "insert"
      /\ t.target = job[j].target /\ t.deleted = job[j].deleted
      /\ t.rows = rows
  BY <1>1, <1>3, JobStateIs, PcFacts DEF SameJob
<1>5. Becomes(j, t) /\ \A k \in Job \ {j} : job'[k] = job[k]
  BY <1>2, <1>3, <1>4, GoesBecomes DEF StartInsert
<1>6. Reads(j, t)
  BY <1>1, <1>2, <1>4 DEF Reads, SameJob
<1> QED
  BY <1>4, <1>5, <1>6

\* The commit: the rows that are inserted, and what is promised from then on.
Promises(j, r) ==
  IF r \notin InWindow(job[j].lo, job[j].hi) THEN promised[r]
  ELSE IF job[j].alone /\ Holds(job[j].seen, r) THEN job[j].seen
  ELSE {p \in promised[r] : InScope(p[1], job[j].lo, job[j].hi)}

Commits(j) ==
  /\ job[j].pc = "insert"
  /\ \A k \in Job \ {j} : job[k].deleted \cap Rows(j) = {}
  /\ mart' = [r \in Reading |-> IF Inserts(j, r) THEN job[j].rows
                                ELSE IF r \in job[j].deleted THEN {}
                                ELSE mart[r]]
  /\ promised' = [r \in Reading |-> Promises(j, r)]

LEMMA CommitDoes ==
  ASSUME job \in [Job -> JobState], NEW j \in Job, Commit(j)
  PROVE  /\ Becomes(j, Idle) /\ Commits(j)
         /\ \A k \in Job \ {j} : /\ job'[k].alone = job[k].alone
                                 /\ job'[k].target = job[k].target \ job[j].deleted
<1>1. job' = [k \in Job |->
                IF k = j THEN Idle
                ELSE [job[k] EXCEPT !.target = job[k].target \ job[j].deleted]]
  BY DEF Commit
<1>2. ASSUME NEW k \in Job \ {j}
      PROVE  /\ Stays(job[k], job'[k])
             /\ job'[k].alone = job[k].alone
             /\ job'[k].target = job[k].target \ job[j].deleted
  <2>1. job[k] \in JobState
    OBVIOUS
  <2>2. job'[k] = [job[k] EXCEPT !.target = job[k].target \ job[j].deleted]
    BY <1>1
  <2>3. job[k].target \ job[j].deleted \in SUBSET Reading
    BY <2>1, JobParts
  <2>4. PICK target \in SUBSET Reading : target = job[k].target \ job[j].deleted
    BY <2>3
  <2>5. job'[k] = [job[k] EXCEPT !.target = target]
    BY <2>2, <2>4
  <2> QED
    BY <2>1, <2>4, <2>5, JobStateIs DEF Stays
<1>3. job'[j] = Idle
  BY <1>1
<1>4. job' \in [Job -> JobState]
  <2>1. \A k \in Job : job'[k] \in JobState
    BY <1>2, <1>3, IdleIs DEF Stays
  <2> QED
    BY <1>1, <2>1
<1>5. Becomes(j, Idle)
  BY <1>2, <1>3, <1>4 DEF Becomes
<1>6. Commits(j)
  BY DEF Commit, Commits, Promises
<1> QED
  BY <1>2, <1>5, <1>6

LEMMA FailDoes ==
  ASSUME job \in [Job -> JobState], NEW j \in Job, Fail(j)
  PROVE  Becomes(j, Idle) /\ \A k \in Job \ {j} : job'[k] = job[k]
  BY IdleIs, GoesBecomes DEF Fail

\* A promotion gives a reading a version above all there are.
Promoted(r) ==
  /\ core' \in [Reading -> 0 .. MaxClock]
  /\ core'[r] # 0
  /\ \A q \in Reading : core[q] <= core'[q]

LEMMA PromoteDoes ==
  ASSUME CoreOK(core), NEW r \in Reading, Promote(r)
  PROVE  Promoted(r)
<1>1. Clock \in 0 .. MaxClock /\ \A q \in Reading : core[q] <= Clock
  BY ClockIs
<1>2. Clock < MaxClock /\ MaxClock \in Nat
  BY MartAssumption DEF Promote
<1>3. PICK n : n = Clock + 1
  OBVIOUS
<1>4. n \in 0 .. MaxClock /\ n # 0 /\ \A q \in Reading : core[q] <= n
  BY <1>1, <1>2, <1>3, CoreParts
<1>5. core' = [core EXCEPT ![r] = n]
  BY <1>3 DEF Promote
<1>6. core' \in [Reading -> 0 .. MaxClock] /\ core'[r] = n
  BY <1>4, <1>5 DEF CoreOK
<1>7. \A q \in Reading : core[q] <= core'[q]
  BY <1>4, <1>5, CoreParts DEF CoreOK
<1> QED
  BY <1>4, <1>6, <1>7 DEF Promoted

-----------------------------------------------------------------------------
(* Types.                                                                  *)

StateOK ==
  /\ today \in Nat \ {0}
  /\ CoreOK(core)
  /\ mart \in [Reading -> Basis]
  /\ \A r \in Reading : mart[r] # {} => Holds(mart[r], r)
  /\ job \in [Job -> JobState]
  /\ promised \in [Reading -> Basis]

\* The kinds of steps there are.
Apart(j) == \A k \in Job \ {j} : job'[k] = job[k]

Moves(j, t) ==
  \/ Begins(j, t) /\ UNCHANGED <<core, mart, promised>>
  \/ Finds(j, t) /\ Apart(j) /\ UNCHANGED <<core, mart, promised>>
  \/ Deletes(j, t) /\ Apart(j) /\ UNCHANGED <<core, mart, promised>>
  \/ Reads(j, t) /\ Apart(j) /\ UNCHANGED <<core, mart, promised>>
  \/ /\ t = Idle /\ Commits(j) /\ UNCHANGED core
     /\ \A k \in Job \ {j} : /\ job'[k].alone = job[k].alone
                             /\ job'[k].target = job[k].target \ job[j].deleted
  \/ /\ t = Idle /\ job[j].pc # "idle" /\ Apart(j)
     /\ UNCHANGED <<core, mart, promised>>

JobMoves == \E j \in Job, t \in JobState : Becomes(j, t) /\ Moves(j, t)

CoreMoves ==
  (\E r \in Reading : Promoted(r)) /\ UNCHANGED <<mart, job, promised>>

LEMMA RefreshMoves ==
  ASSUME StateOK, NEW j \in Job, Refresh(j) \/ Fail(j)
  PROVE  JobMoves
<1>1. CASE StartDelete(j)
  <2>1. UNCHANGED <<core, mart, promised>>
    BY <1>1 DEF StartDelete
  <2> QED
    BY <1>1, <2>1, FindDoes DEF JobMoves, Moves, Apart, StateOK
<1>2. CASE Delete(j)
  <2>1. UNCHANGED <<core, mart, promised>>
    BY <1>2 DEF Delete
  <2> QED
    BY <1>2, <2>1, DeleteDoes DEF JobMoves, Moves, Apart, StateOK
<1>3. CASE StartInsert(j)
  <2>1. UNCHANGED <<core, mart, promised>>
    BY <1>3 DEF StartInsert
  <2> QED
    BY <1>3, <2>1, ReadDoes DEF JobMoves, Moves, Apart, StateOK
<1>4. CASE Commit(j)
  <2>1. UNCHANGED core
    BY <1>4 DEF Commit
  <2>2. Moves(j, Idle) /\ Becomes(j, Idle)
    BY <1>4, <2>1, CommitDoes DEF Moves, StateOK
  <2> QED
    BY <2>2, IdleIs DEF JobMoves
<1>5. CASE Fail(j)
  <2>1. job[j].pc # "idle" /\ UNCHANGED <<core, mart, promised>>
    BY <1>5 DEF Fail
  <2>2. Moves(j, Idle) /\ Becomes(j, Idle)
    BY <1>5, <2>1, FailDoes DEF Moves, Apart, StateOK
  <2> QED
    BY <2>2, IdleIs DEF JobMoves
<1> QED
  BY <1>1, <1>2, <1>3, <1>4, <1>5 DEF Refresh

LEMMA BeginMoves ==
  ASSUME StateOK, NEW j \in Job, BeginScheduled(j) \/ BeginAsked(j)
  PROVE  JobMoves
<1>1. PICK from \in Nat \cup {NoDate}, to \in Nat \cup {NoDate} :
        Begin(j, from, to)
  <2>1. today - 1 \in Nat
    BY DEF StateOK
  <2> QED
    BY <2>1, MartAssumption DEF BeginScheduled, BeginAsked
<1>2. UNCHANGED <<core, mart, promised>>
  BY <1>1 DEF Begin
<1>3. PICK t \in JobState : Becomes(j, t) /\ Begins(j, t)
  BY <1>1, BeginDoes DEF StateOK
<1> QED
  BY <1>2, <1>3 DEF JobMoves, Moves

LEMMA NextMoves ==
  ASSUME StateOK, [Next]_vars
  PROVE  JobMoves \/ CoreMoves \/ UNCHANGED <<core, mart, job, promised>>
<1>1. ASSUME NEW r \in Reading, Promote(r)
      PROVE  CoreMoves
  BY <1>1, PromoteDoes DEF Promote, CoreMoves, StateOK
<1>2. CASE UNCHANGED vars
  BY <1>2 DEF vars
<1>3. CASE \E j \in Scheduled : BeginScheduled(j)
  BY <1>3, BeginMoves DEF Job
<1>4. CASE \E j \in Operator : BeginAsked(j)
  BY <1>4, BeginMoves DEF Job
<1>5. CASE \E j \in Job : Refresh(j) \/ Fail(j)
  BY <1>5, RefreshMoves
<1>6. CASE NextDay
  BY <1>6 DEF NextDay
<1> QED
  BY <1>1, <1>2, <1>3, <1>4, <1>5, <1>6 DEF Next

LEMMA NextToday ==
  ASSUME StateOK, [Next]_vars
  PROVE  today' \in Nat \ {0}
<1>1. today \in Nat \ {0}
  BY DEF StateOK
<1>2. CASE NextDay
  BY <1>1, <1>2 DEF NextDay
<1>3. CASE UNCHANGED today
  BY <1>1, <1>3
<1> QED
  BY <1>2, <1>3 DEF Next, Promote, BeginScheduled, BeginAsked, Begin, Refresh,
     StartDelete, Delete, StartInsert, Commit, Fail, vars

LEMMA PromisesType ==
  ASSUME StateOK, NEW j \in Job, NEW r \in Reading
  PROVE  Promises(j, r) \in Basis
<1>1. promised[r] \in Basis /\ job[j].seen \in Basis
  BY JobParts DEF StateOK
<1> QED
  BY <1>1 DEF Promises, Basis

LEMMA NextState ==
  ASSUME StateOK, [Next]_vars
  PROVE  StateOK'
<1>0. today' \in Nat \ {0}
  BY NextToday
<1>1. CASE JobMoves
  <2>1. PICK j \in Job, t \in JobState : Becomes(j, t) /\ Moves(j, t)
    BY <1>1 DEF JobMoves
  <2>2. job' \in [Job -> JobState] /\ UNCHANGED core
    BY <2>1 DEF Becomes, Moves
  <2>3. CASE UNCHANGED <<mart, promised>>
    BY <1>0, <2>2, <2>3 DEF StateOK, CoreOK
  <2>4. CASE Commits(j)
    <3>1. job[j].rows \in Basis /\ {} \in Basis
      BY JobParts DEF StateOK, Basis
    <3>2. \A r \in Reading : Inserts(j, r) => Holds(job[j].rows, r)
      BY DEF Inserts, Rows
    <3>3. mart' \in [Reading -> Basis]
      BY <2>4, <3>1 DEF Commits, StateOK
    <3>4. \A r \in Reading : mart'[r] # {} => Holds(mart'[r], r)
      BY <2>4, <3>2 DEF Commits, StateOK
    <3>5. promised' \in [Reading -> Basis]
      BY <2>4, PromisesType DEF Commits
    <3> QED
      BY <1>0, <2>2, <3>3, <3>4, <3>5 DEF StateOK, CoreOK
  <2> QED
    BY <2>1, <2>3, <2>4 DEF Moves
<1>2. CASE CoreMoves
  BY <1>0, <1>2 DEF CoreMoves, Promoted, StateOK, CoreOK
<1>3. CASE UNCHANGED <<core, mart, job, promised>>
  BY <1>0, <1>3 DEF StateOK, CoreOK
<1> QED
  BY <1>1, <1>2, <1>3, NextMoves

LEMMA InitState == Init => StateOK
<1> SUFFICES ASSUME Init
             PROVE  StateOK
  OBVIOUS
<1>1. {} \in Basis
  BY DEF Basis
<1>2. core \in [Reading -> 0 .. MaxClock]
  BY MartAssumption DEF Init
<1>3. job \in [Job -> JobState]
  BY IdleIs DEF Init
<1>4. today \in Nat \ {0}
  BY MartAssumption DEF Init
<1> QED
  BY <1>1, <1>2, <1>3, <1>4 DEF Init, StateOK, CoreOK

LEMMA StateHolds == Spec => []StateOK
  BY InitState, NextState, PTL DEF Spec

Bounds == asked \in 0 .. MaxRequests /\ faults \in 0 .. MaxFaults

LEMMA BoundsHold == Spec => []Bounds
<1>1. Init => Bounds
  BY MartAssumption DEF Init, Bounds
<1>2. Bounds /\ [Next]_vars => Bounds'
  <2> SUFFICES ASSUME Bounds, [Next]_vars
               PROVE  Bounds'
    OBVIOUS
  <2>1. ASSUME NEW j \in Operator, BeginAsked(j)
        PROVE  Bounds'
    BY <2>1, MartAssumption DEF BeginAsked, Begin, Bounds
  <2>2. ASSUME NEW j \in Job, Fail(j)
        PROVE  Bounds'
    BY <2>2, MartAssumption DEF Fail, Bounds
  <2>3. ASSUME UNCHANGED <<asked, faults>>
        PROVE  Bounds'
    BY <2>3 DEF Bounds
  <2> QED
    BY <2>1, <2>2, <2>3 DEF Next, NextDay, Promote, BeginScheduled, Begin, Refresh,
       StartDelete, Delete, StartInsert, Commit, vars
<1> QED
  BY <1>1, <1>2, PTL DEF Spec

\* Every variable keeps its type, and a row of the mart is computed from its own
\* reading.
THEOREM TypeCorrect == Spec => []TypeOK
<1>1. StateOK /\ Bounds => TypeOK
  BY DEF StateOK, Bounds, CoreOK, TypeOK
<1> QED
  BY <1>1, StateHolds, BoundsHold, PTL

-----------------------------------------------------------------------------
(* Versions.                                                               *)

\* A basis has the reading in this version or a newer one.
Newer(b, q, s) == \E n \in s .. MaxClock : <<q, n>> \in b

\* Nothing is newer than core.
OfCore(b) == \A p \in b : p[2] <= core[p[1]]

Versions ==
  /\ \A r \in Reading : OfCore(mart[r]) /\ OfCore(promised[r])
  /\ \A j \in Job : OfCore(job[j].rows) /\ OfCore(job[j].seen)

LEMMA HeldIsPresent ==
  ASSUME CoreOK(core), NEW b \in Basis, OfCore(b), NEW r \in Reading, Holds(b, r)
  PROVE  core[r] # 0
<1>1. PICK s \in Stamp : <<r, s>> \in b
  BY DEF Holds, Stamp
<1>2. s <= core[r]
  BY <1>1 DEF OfCore
<1> QED
  BY <1>1, <1>2, CoreParts, MartAssumption DEF Stamp

\* A snapshot has whatever core has in scope, in a version as new as any.
LEMMA SnapshotIsNewest ==
  ASSUME CoreOK(core), NEW lo, NEW hi, NEW b \in Basis, OfCore(b),
         NEW p \in b, InScope(p[1], lo, hi)
  PROVE  Newer(Scoped(core, lo, hi), p[1], p[2])
<1>1. p[1] \in Reading /\ p[2] \in Stamp /\ p[2] <= core[p[1]]
  BY BasisParts DEF OfCore
<1>2. core[p[1]] \in p[2] .. MaxClock /\ core[p[1]] # 0
  BY <1>1, CoreParts, MartAssumption DEF Stamp
<1>3. <<p[1], core[p[1]]>> \in Scoped(core, lo, hi)
  BY <1>1, <1>2, ScopedIs
<1> QED
  BY <1>2, <1>3 DEF Newer

LEMMA NewerHolds ==
  ASSUME NEW b \in Basis, NEW r \in Reading, NEW s \in Stamp, Newer(b, r, s)
  PROVE  Holds(b, r)
<1>1. PICK n \in s .. MaxClock : <<r, n>> \in b
  BY DEF Newer
<1>2. n \in 1 .. MaxClock
  BY <1>1, MartAssumption DEF Stamp
<1> QED
  BY <1>1, <1>2 DEF Holds

LEMMA SnapshotOfCore ==
  ASSUME CoreOK(core), NEW lo, NEW hi
  PROVE  OfCore(Scoped(core, lo, hi))
<1> SUFFICES ASSUME NEW p \in Scoped(core, lo, hi)
             PROVE  p[2] <= core[p[1]]
  BY DEF OfCore
<1>1. p[1] \in Reading /\ p[2] = core[p[1]]
  BY ScopedIs
<1> QED
  BY <1>1, CoreParts

LEMMA NextVersions ==
  ASSUME StateOK, Versions, [Next]_vars
  PROVE  Versions'
<1>1. CASE CoreMoves
  <2>1. ASSUME NEW b \in Basis, OfCore(b)
        PROVE  \A p \in b : p[2] <= core'[p[1]]
    <3> TAKE p \in b
    <3>1. p[1] \in Reading /\ p[2] \in Stamp /\ p[2] <= core[p[1]]
      BY <2>1, BasisParts DEF OfCore
    <3>2. core[p[1]] <= core'[p[1]] /\ core'[p[1]] \in 0 .. MaxClock
      BY <1>1, <3>1 DEF CoreMoves, Promoted
    <3> QED
      BY <3>1, <3>2, CoreParts, MartAssumption DEF StateOK, Stamp
  <2>2. \A r \in Reading : mart[r] \in Basis /\ promised[r] \in Basis
    BY DEF StateOK
  <2>3. \A j \in Job : job[j].rows \in Basis /\ job[j].seen \in Basis
    BY JobParts DEF StateOK
  <2>4. \A r \in Reading : OfCore(mart[r])' /\ OfCore(promised[r])'
    BY <1>1, <2>1, <2>2 DEF CoreMoves, Versions, OfCore
  <2>5. \A j \in Job : OfCore(job[j].rows)' /\ OfCore(job[j].seen)'
    BY <1>1, <2>1, <2>3 DEF CoreMoves, Versions, OfCore
  <2> QED
    BY <2>4, <2>5 DEF Versions
<1>2. CASE JobMoves
  <2>1. PICK j \in Job, t \in JobState : Becomes(j, t) /\ Moves(j, t)
    BY <1>2 DEF JobMoves
  <2>2. UNCHANGED core /\ CoreOK(core)
    BY <2>1 DEF Moves, StateOK
  <2>3. OfCore({})
    BY DEF OfCore
  <2>4. OfCore(t.rows) /\ OfCore(t.seen)
    <3>1. CASE Begins(j, t)
      BY <2>2, <2>3, <3>1, SnapshotOfCore DEF Begins
    <3>2. CASE Reads(j, t)
      BY <2>2, <3>2, SnapshotOfCore DEF Reads, SameJob, Versions
    <3>3. CASE t = Idle
      BY <2>3, <3>3, IdleIs
    <3>4. CASE Finds(j, t) \/ Deletes(j, t)
      BY <3>4 DEF Finds, Deletes, SameJob, Versions
    <3> QED
      BY <2>1, <3>1, <3>2, <3>3, <3>4 DEF Moves
  <2>5. ASSUME NEW k \in Job
        PROVE  OfCore(job'[k].rows) /\ OfCore(job'[k].seen)
    <3>1. CASE k = j
      BY <2>1, <2>4, <3>1 DEF Becomes
    <3>2. CASE k # j
      BY <2>1, <3>2 DEF Becomes, Stays, Versions
    <3> QED
      BY <3>1, <3>2
  <2>6. \A k \in Job : OfCore(job[k].rows)' /\ OfCore(job[k].seen)'
    BY <2>2, <2>5 DEF OfCore
  <2>7. ASSUME NEW r \in Reading
        PROVE  OfCore(mart'[r]) /\ OfCore(promised'[r])
    <3>1. CASE UNCHANGED <<mart, promised>>
      BY <3>1 DEF Versions
    <3>2. CASE Commits(j)
      <4>1. mart'[r] \in {job[j].rows, {}, mart[r]}
        BY <3>2 DEF Commits
      <4>2. promised'[r] \subseteq promised[r] \/ promised'[r] = job[j].seen
        BY <3>2 DEF Commits, Promises
      <4> QED
        BY <2>3, <4>1, <4>2 DEF Versions, OfCore
    <3> QED
      BY <2>1, <3>1, <3>2 DEF Moves
  <2>8. \A r \in Reading : OfCore(mart[r])' /\ OfCore(promised[r])'
    BY <2>2, <2>7 DEF OfCore
  <2> QED
    BY <2>6, <2>8 DEF Versions
<1>3. CASE UNCHANGED <<core, mart, job, promised>>
  BY <1>3 DEF Versions, OfCore
<1> QED
  BY <1>1, <1>2, <1>3, NextMoves

-----------------------------------------------------------------------------
(* Rows that are being deleted.                                            *)

\* They are of the window and in core, no other transaction deletes them, and
\* once the INSERT has read core they are among its rows, as new as they were.
RowsInHand(t) ==
  /\ \A r \in t.target \cup t.deleted :
       r \in InWindow(t.lo, t.hi) /\ core[r] # 0
  /\ t.pc = "insert" =>
       \A r \in t.deleted :
         /\ Holds(t.rows, r)
         /\ \A p \in mart[r] : p[1] = r => Newer(t.rows, r, p[2])

Locked ==
  /\ \A j \in Job : RowsInHand(job[j])
  /\ \A j, k \in Job : j # k => job[j].deleted \cap job[k].deleted = {}

\* A row that is being deleted by one process is not touched by another.
LEMMA LockedStays ==
  ASSUME StateOK, Locked, NEW j \in Job, Commits(j),
         NEW k \in Job \ {j}, NEW r \in job[k].deleted
  PROVE  mart'[r] = mart[r]
<1>1. r \in Reading
  BY JobParts DEF StateOK
<1>2. r \notin Rows(j) /\ r \notin job[j].deleted
  BY DEF Commits, Locked
<1> QED
  BY <1>1, <1>2 DEF Commits, Inserts

LEMMA MoverInHand ==
  ASSUME StateOK, Versions, Locked, NEW j \in Job, NEW t \in JobState,
         Becomes(j, t), Moves(j, t)
  PROVE  RowsInHand(t)'
<1>1. RowsInHand(job[j]) /\ job[j] \in JobState /\ CoreOK(core)
  BY DEF Locked, StateOK
<1>2. CASE t.target = {} /\ t.deleted = {}
  BY <1>2 DEF RowsInHand
<1>3. CASE Finds(j, t) /\ UNCHANGED core
  <2>1. ASSUME NEW r \in t.target
        PROVE  r \in InWindow(t.lo, t.hi) /\ core[r] # 0
    <3>1. r \in InWindow(t.lo, t.hi) /\ r \in Reading /\ mart[r] # {}
      BY <1>3 DEF Finds, InWindow
    <3>2. mart[r] \in Basis /\ Holds(mart[r], r) /\ OfCore(mart[r])
      BY <3>1 DEF StateOK, Versions
    <3> QED
      BY <1>1, <3>1, <3>2, HeldIsPresent
  <2>2. \A r \in t.deleted : r \in InWindow(t.lo, t.hi) /\ core[r] # 0
    BY <1>1, <1>3 DEF Finds, SameJob, RowsInHand
  <2> QED
    BY <1>3, <2>1, <2>2 DEF Finds, RowsInHand
<1>4. CASE Deletes(j, t) /\ UNCHANGED core
  BY <1>1, <1>4 DEF Deletes, SameJob, RowsInHand
<1>5. CASE Reads(j, t) /\ UNCHANGED <<core, mart>>
  <2>1. \A r \in t.target \cup t.deleted :
          r \in InWindow(t.lo, t.hi) /\ core[r] # 0
    BY <1>1, <1>5 DEF Reads, SameJob, RowsInHand
  <2>2. ASSUME NEW r \in t.deleted
        PROVE  /\ Holds(t.rows, r)
               /\ \A p \in mart[r] : p[1] = r => Newer(t.rows, r, p[2])
    <3>1. r \in Reading /\ core[r] # 0 /\ InScope(r, t.lo, t.hi)
      BY <2>1, JobParts, WindowInScope DEF InWindow
    <3>2. <<r, core[r]>> \in t.rows
      BY <1>1, <1>5, <3>1, ScopedIs DEF Reads
    <3>3. core[r] \in Stamp
      BY <1>1, <3>1, CoreParts
    <3>4. Holds(t.rows, r)
      BY <3>2, <3>3 DEF Holds, Stamp
    <3>5. ASSUME NEW p \in mart[r], p[1] = r
          PROVE  Newer(t.rows, r, p[2])
      <4>1. mart[r] \in Basis /\ OfCore(mart[r])
        BY <3>1 DEF StateOK, Versions
      <4>2. Newer(Scoped(core, t.lo, t.hi), p[1], p[2])
        BY <1>1, <3>1, <3>5, <4>1, SnapshotIsNewest
      <4> QED
        BY <1>5, <3>5, <4>2 DEF Reads
    <3> QED
      BY <3>4, <3>5
  <2> QED
    BY <1>5, <2>1, <2>2 DEF RowsInHand
<1> QED
  BY <1>2, <1>3, <1>4, <1>5, IdleIs DEF Moves, Begins

LEMMA NextLocked ==
  ASSUME StateOK, Versions, Locked, [Next]_vars
  PROVE  Locked'
<1>1. CASE CoreMoves
  <2>1. ASSUME NEW r \in Reading, core[r] # 0
        PROVE  core'[r] # 0
    <3>1. core[r] <= core'[r] /\ core'[r] \in 0 .. MaxClock
      BY <1>1 DEF CoreMoves, Promoted
    <3>2. core[r] \in Nat
      BY CoreParts DEF StateOK
    <3> QED
      BY <2>1, <3>1, <3>2, MartAssumption
  <2>2. \A j \in Job : \A r \in job[j].target \cup job[j].deleted : r \in Reading
    BY JobParts DEF StateOK
  <2> QED
    BY <1>1, <2>1, <2>2 DEF CoreMoves, Locked, RowsInHand
<1>2. CASE JobMoves
  <2>1. PICK j \in Job, t \in JobState : Becomes(j, t) /\ Moves(j, t)
    BY <1>2 DEF JobMoves
  <2>2. ASSUME NEW k \in Job \ {j}
        PROVE  RowsInHand(job[k])'
    <3>1. RowsInHand(job[k]) /\ Stays(job[k], job'[k]) /\ UNCHANGED core
      BY <2>1 DEF Locked, Becomes, Moves
    <3>2. \A r \in job[k].deleted : mart'[r] = mart[r]
      BY <2>1, LockedStays DEF Moves
    <3> QED
      BY <3>1, <3>2 DEF RowsInHand, Stays
  <2>3. RowsInHand(job[j])'
    BY <2>1, MoverInHand DEF Becomes, RowsInHand
  <2>4. ASSUME NEW k \in Job \ {j}
        PROVE  t.deleted \cap job[k].deleted = {}
    BY <2>1, IdleIs DEF Moves, Begins, Finds, Deletes, Reads, Locked
  <2>5. \A k \in Job \ {j} : job'[k].deleted = job[k].deleted
    BY <2>1 DEF Becomes, Stays
  <2>6. \A k, l \in Job : k # l => job'[k].deleted \cap job'[l].deleted = {}
    BY <2>1, <2>4, <2>5 DEF Becomes, Locked
  <2> QED
    BY <2>2, <2>3, <2>6 DEF Locked
<1>3. CASE UNCHANGED <<core, mart, job, promised>>
  BY <1>3 DEF Locked, RowsInHand
<1> QED
  BY <1>1, <1>2, <1>3, NextMoves

LEMMA InitLocked == Init => Versions /\ Locked
<1> SUFFICES ASSUME Init
             PROVE  Versions /\ Locked
  OBVIOUS
<1>1. \A j \in Job : job[j] = Idle
  BY DEF Init
<1>2. \A r \in Reading : mart[r] = {} /\ promised[r] = {}
  BY DEF Init
<1> QED
  BY <1>1, <1>2, IdleIs DEF Versions, OfCore, Locked, RowsInHand

LEMMA LockedHolds == Spec => [](StateOK /\ Versions /\ Locked)
<1>1. StateOK /\ Versions /\ Locked /\ [Next]_vars => Versions' /\ Locked'
  BY NextVersions, NextLocked
<1> QED
  BY <1>1, StateHolds, InitLocked, PTL DEF Spec

\* A row that a commit deletes is one that it inserts again, as new as it was.
LEMMA DeletedReturns ==
  ASSUME StateOK, Locked, NEW j \in Job, Commits(j), NEW r \in job[j].deleted
  PROVE  /\ Inserts(j, r)
         /\ \A p \in mart[r] : p[1] = r => Newer(job[j].rows, r, p[2])
<1>1. RowsInHand(job[j]) /\ job[j].pc = "insert"
  BY DEF Locked, Commits
<1>2. r \in InWindow(job[j].lo, job[j].hi) /\ Holds(job[j].rows, r)
  BY <1>1 DEF RowsInHand
<1> QED
  BY <1>1, <1>2 DEF RowsInHand, Inserts, Rows

LEMMA NextAdvances ==
  ASSUME StateOK, Locked, [Next]_vars, NEW r \in Reading, NEW s \in Stamp,
         <<r, s>> \in mart[r]
  PROVE  Newer(mart'[r], r, s)
<1>1. MaxClock \in Nat /\ s \in s .. MaxClock
  BY MartAssumption DEF Stamp
<1>2. CASE mart'[r] = mart[r]
  BY <1>1, <1>2 DEF Newer
<1>3. ASSUME NEW j \in Job, Commits(j)
      PROVE  Newer(mart'[r], r, s)
  <2>1. CASE r \in job[j].deleted
    <3>1. Inserts(j, r) /\ Newer(job[j].rows, r, s)
      BY <1>3, <2>1, DeletedReturns
    <3> QED
      BY <1>3, <3>1 DEF Commits
  <2>2. CASE r \notin job[j].deleted
    <3>1. ~Inserts(j, r)
      BY <2>2 DEF Inserts
    <3>2. mart'[r] = mart[r]
      BY <1>3, <2>2, <3>1 DEF Commits
    <3> QED
      BY <1>2, <3>2
  <2> QED
    BY <2>1, <2>2
<1> QED
  BY <1>2, <1>3, NextMoves DEF JobMoves, CoreMoves, Moves

\* However refreshes and promotions overlap and fail: a row that the mart has
\* shown never goes away, and its reading never returns to an older version
\* (refresh_consumption.sql:53, 231).
THEOREM RowsAdvance == Spec => RowsOnlyAdvance
<1>1. StateOK /\ Locked /\ [Next]_vars
        => [\A r \in Reading : \A s \in 1 .. MaxClock :
              <<r, s>> \in mart[r]
                => \E t \in s .. MaxClock : <<r, t>> \in mart'[r]]_vars
  BY NextAdvances DEF Newer, Stamp
<1> QED
  BY <1>1, LockedHolds, PTL DEF Spec, RowsOnlyAdvance

-----------------------------------------------------------------------------
(* A refresh that nobody disturbs.                                         *)

\* While a refresh is alone the others are idle, and what it does not delete of
\* its window is not there.
AloneWith(j, t) ==
  t.alone =>
    /\ t.pc # "idle"
    /\ \A k \in Job \ {j} : job[k].pc = "idle"
    /\ t.pc = "delete" =>
         \A r \in InWindow(t.lo, t.hi) : mart[r] # {} => r \in t.target
    /\ t.pc \in {"deleted", "insert"} =>
         \A r \in InWindow(t.lo, t.hi) : mart[r] # {} => r \in t.deleted

Undisturbed == \A j \in Job : AloneWith(j, job[j])

\* Once somebody moves, nobody else is alone.
LEMMA MoverDisturbs ==
  ASSUME StateOK, Undisturbed, NEW j \in Job, NEW t \in JobState,
         Becomes(j, t), Moves(j, t)
  PROVE  \A k \in Job \ {j} : ~job'[k].alone
<1> TAKE k \in Job \ {j}
<1>1. CASE Begins(j, t)
  BY <1>1 DEF Begins, Becomes, Stays, Undisturbed, AloneWith
<1>2. CASE job[j].pc # "idle"
  <2>1. ~job[k].alone
    BY <1>2 DEF Undisturbed, AloneWith
  <2> QED
    BY <2>1 DEF Becomes, Stays
<1> QED
  BY <1>1, <1>2 DEF Moves, Finds, Deletes, Reads, Commits

LEMMA NextUndisturbed ==
  ASSUME StateOK, Undisturbed, [Next]_vars
  PROVE  Undisturbed'
<1>1. CASE UNCHANGED <<mart, job>>
  BY <1>1 DEF Undisturbed, AloneWith
<1>2. CASE JobMoves
  <2>1. PICK j \in Job, t \in JobState : Becomes(j, t) /\ Moves(j, t)
    BY <1>2 DEF JobMoves
  <2>2. \A k \in Job \ {j} : AloneWith(k, job[k])'
    BY <2>1, MoverDisturbs DEF AloneWith
  <2>3. /\ AloneWith(j, job[j])
        /\ \A k \in Job \ {j} : job'[k].pc = job[k].pc
        /\ job'[j] = t
    BY <2>1 DEF Undisturbed, Becomes, Stays
  <2>4. AloneWith(j, job[j])'
    <3>1. CASE Begins(j, t)
      BY <2>3, <3>1 DEF Begins, AloneWith
    <3>2. CASE Finds(j, t) /\ UNCHANGED mart
      BY <2>3, <3>2 DEF Finds, SameJob, AloneWith
    <3>3. CASE Deletes(j, t) /\ UNCHANGED mart
      BY <2>3, <3>3 DEF Deletes, SameJob, AloneWith
    <3>4. CASE Reads(j, t) /\ UNCHANGED mart
      BY <2>3, <3>4 DEF Reads, SameJob, AloneWith
    <3>5. CASE t = Idle
      BY <2>3, <3>5, IdleIs DEF AloneWith
    <3> QED
      BY <2>1, <3>1, <3>2, <3>3, <3>4, <3>5 DEF Moves
  <2> QED
    BY <2>2, <2>4 DEF Undisturbed
<1> QED
  BY <1>1, <1>2, NextMoves DEF CoreMoves

-----------------------------------------------------------------------------
(* What is promised.                                                       *)

\* The INSERT has read what the refresh could see when it began, and what is
\* promised as far as it looks.
Sees(t) ==
  /\ \A p \in t.seen : InScope(p[1], t.lo, t.hi)
  /\ t.pc = "insert" =>
       /\ \A p \in t.seen : Newer(t.rows, p[1], p[2])
       /\ \A r \in Reading : \A p \in promised[r] :
            InScope(p[1], t.lo, t.hi) => Newer(t.rows, p[1], p[2])

SeesPromises == \A j \in Job : Sees(job[j])

LEMMA MoverSees ==
  ASSUME StateOK, Versions, SeesPromises, NEW j \in Job, NEW t \in JobState,
         Becomes(j, t), Moves(j, t)
  PROVE  Sees(t)'
<1>1. Sees(job[j]) /\ CoreOK(core)
  BY DEF SeesPromises, StateOK
<1>2. CASE Begins(j, t)
  <2>1. \A p \in t.seen : InScope(p[1], t.lo, t.hi)
    BY <1>1, <1>2, ScopedIs DEF Begins
  <2> QED
    BY <1>2, <2>1 DEF Begins, Sees
<1>3. CASE Finds(j, t) \/ Deletes(j, t)
  BY <1>1, <1>3 DEF Finds, Deletes, SameJob, Sees
<1>4. CASE Reads(j, t) /\ UNCHANGED promised
  <2>1. \A p \in t.seen : InScope(p[1], t.lo, t.hi)
    BY <1>1, <1>4 DEF Reads, SameJob, Sees
  <2>2. t.seen \in Basis /\ OfCore(t.seen)
    BY <1>4, JobParts DEF Reads, SameJob, Versions
  <2>3. \A p \in t.seen : Newer(t.rows, p[1], p[2])
    BY <1>1, <1>4, <2>1, <2>2, SnapshotIsNewest DEF Reads
  <2>4. \A r \in Reading : promised[r] \in Basis /\ OfCore(promised[r])
    BY DEF StateOK, Versions
  <2>5. \A r \in Reading : \A p \in promised[r] :
          InScope(p[1], t.lo, t.hi) => Newer(t.rows, p[1], p[2])
    BY <1>1, <1>4, <2>4, SnapshotIsNewest DEF Reads
  <2> QED
    BY <1>4, <2>1, <2>3, <2>5 DEF Sees
<1>5. CASE t = Idle
  BY <1>5, IdleIs DEF Sees
<1> QED
  BY <1>2, <1>3, <1>4, <1>5 DEF Moves

LEMMA NextSees ==
  ASSUME StateOK, Versions, Undisturbed, SeesPromises, [Next]_vars
  PROVE  SeesPromises'
<1>1. CASE UNCHANGED <<job, promised>>
  BY <1>1 DEF SeesPromises, Sees
<1>2. CASE JobMoves
  <2>1. PICK j \in Job, t \in JobState : Becomes(j, t) /\ Moves(j, t)
    BY <1>2 DEF JobMoves
  <2>2. ASSUME NEW k \in Job \ {j}
        PROVE  Sees(job[k])'
    <3>1. Sees(job[k]) /\ Stays(job[k], job'[k])
      BY <2>1 DEF SeesPromises, Becomes
    <3>2. job[k].pc = "insert"
            => \A r \in Reading : promised'[r] \subseteq promised[r]
      <4>1. CASE Commits(j)
        <5>1. job[k].pc = "insert" => ~job[j].alone
          BY DEF Undisturbed, AloneWith
        <5> QED
          BY <4>1, <5>1 DEF Commits, Promises
      <4>2. CASE UNCHANGED promised
        BY <4>2
      <4> QED
        BY <2>1, <4>1, <4>2 DEF Moves
    <3> QED
      BY <3>1, <3>2 DEF Sees, Stays
  <2>3. Sees(job[j])'
    BY <2>1, MoverSees DEF Becomes, Sees
  <2> QED
    BY <2>2, <2>3 DEF SeesPromises
<1> QED
  BY <1>1, <1>2, NextMoves DEF CoreMoves

\* A commit keeps what is promised of a row.
LEMMA CommitCovers ==
  ASSUME StateOK, Versions, Locked, Undisturbed, SeesPromises, RefreshCovers,
         NEW j \in Job, Commits(j), NEW r \in Reading, NEW p \in promised'[r]
  PROVE  Newer(mart'[r], p[1], p[2])
<1> DEFINE rows == job[j].rows
           inside == r \in InWindow(job[j].lo, job[j].hi)
<1>1. /\ RowsInHand(job[j]) /\ AloneWith(j, job[j]) /\ Sees(job[j])
      /\ job[j].pc = "insert" /\ job[j] \in JobState
  BY DEF Locked, Undisturbed, SeesPromises, Commits, StateOK
<1>2. /\ Inserts(j, r) => mart'[r] = rows
      /\ ~Inserts(j, r) /\ r \notin job[j].deleted => mart'[r] = mart[r]
      /\ p \in Promises(j, r)
  BY DEF Commits
<1>3. r \in job[j].deleted => Inserts(j, r) /\ inside
  BY <1>1, DeletedReturns DEF RowsInHand
<1>4. p \in promised[r] => Newer(mart[r], p[1], p[2])
  BY DEF RefreshCovers, Newer
<1>5. CASE ~inside
  <2>1. ~Inserts(j, r) /\ r \notin job[j].deleted /\ p \in promised[r]
    BY <1>2, <1>3, <1>5 DEF Inserts, Rows, Promises
  <2> QED
    BY <1>2, <1>4, <2>1
<1>6. CASE inside /\ job[j].alone /\ Holds(job[j].seen, r)
  <2>1. p \in job[j].seen
    BY <1>2, <1>6 DEF Promises
  <2>2. Newer(rows, p[1], p[2])
    BY <1>1, <2>1 DEF Sees
  <2>3. PICK s \in Stamp : <<r, s>> \in job[j].seen
    BY <1>6 DEF Holds, Stamp
  <2>4. Newer(rows, r, s)
    <3>1. PICK e \in job[j].seen : e = <<r, s>>
      BY <2>3
    <3>2. e[1] = r /\ e[2] = s
      BY <3>1
    <3>3. Newer(rows, e[1], e[2])
      BY <1>1, <3>1 DEF Sees
    <3> QED
      BY <3>2, <3>3
  <2>5. Holds(rows, r)
    BY <1>1, <2>4, JobParts, NewerHolds
  <2>6. mart[r] = {} \/ r \in job[j].deleted
    BY <1>1, <1>6 DEF AloneWith
  <2>7. Inserts(j, r)
    BY <1>6, <2>5, <2>6 DEF Inserts, Rows
  <2> QED
    BY <1>2, <2>2, <2>7
<1>7. CASE inside /\ ~(job[j].alone /\ Holds(job[j].seen, r))
  <2>1. p \in promised[r] /\ InScope(p[1], job[j].lo, job[j].hi)
    BY <1>2, <1>7 DEF Promises
  <2>2. Newer(rows, p[1], p[2])
    BY <1>1, <2>1 DEF Sees
  <2> QED
    BY <1>2, <1>3, <1>4, <2>1, <2>2
<1> QED
  BY <1>5, <1>6, <1>7

LEMMA NextCovers ==
  ASSUME StateOK, Versions, Locked, Undisturbed, SeesPromises, RefreshCovers,
         [Next]_vars
  PROVE  RefreshCovers'
<1>1. CASE UNCHANGED <<mart, promised>>
  BY <1>1 DEF RefreshCovers
<1>2. ASSUME NEW j \in Job, Commits(j)
      PROVE  RefreshCovers'
  <2>1. \A r \in Reading : \A p \in promised'[r] : Newer(mart'[r], p[1], p[2])
    BY <1>2, CommitCovers
  <2> QED
    BY <2>1 DEF RefreshCovers, Newer
<1> QED
  BY <1>1, <1>2, NextMoves DEF JobMoves, CoreMoves, Moves

LEMMA InitCovers == Init => Undisturbed /\ SeesPromises /\ RefreshCovers
<1> SUFFICES ASSUME Init
             PROVE  Undisturbed /\ SeesPromises /\ RefreshCovers
  OBVIOUS
<1>1. \A j \in Job : job[j] = Idle
  BY DEF Init
<1>2. \A r \in Reading : promised[r] = {}
  BY DEF Init
<1> QED
  BY <1>1, <1>2, IdleIs
     DEF Undisturbed, AloneWith, SeesPromises, Sees, RefreshCovers

\* After a refresh that no other one disturbed, every row of its window was
\* computed from each reading it could see when it began, in that version or a
\* newer one, and no later refresh, disturbed or failed, takes that back as far
\* as it looks (refresh_consumption.sql:53-75).
THEOREM RefreshIsComplete == Spec => []RefreshCovers
<1> DEFINE Before == StateOK /\ Versions /\ Locked
           Inv == Undisturbed /\ SeesPromises /\ RefreshCovers
<1>1. Init => Inv
  BY InitCovers
<1>2. Before /\ Inv /\ [Next]_vars => Inv'
  BY NextUndisturbed, NextSees, NextCovers
<1>3. Spec => []Before
  BY LockedHolds
<1>4. Inv => RefreshCovers
  OBVIOUS
<1> HIDE DEF Before, Inv
<1> QED
  BY <1>1, <1>2, <1>3, <1>4, PTL DEF Spec

-----------------------------------------------------------------------------
(* The mart as a layer over core.                                          *)

LEMMA VersionIs ==
  ASSUME NEW b, NEW r \in Reading
  PROVE  /\ VersionIn(b, r) \in 0 .. MaxClock
         /\ VersionIn(b, r) # 0 =>
              VersionIn(b, r) \in Stamp /\ <<r, VersionIn(b, r)>> \in b
         /\ \A s \in Stamp : <<r, s>> \in b => s <= VersionIn(b, r)
<1> DEFINE S == {s \in 1 .. MaxClock : <<r, s>> \in b} \cup {0}
<1>1. MaxClock \in Nat
  BY MartAssumption
<1>2. S \in SUBSET (0 .. MaxClock) /\ S \in SUBSET Nat /\ S # {}
  BY <1>1
<1>3. IsFiniteSet(S)
  <2>1. IsFiniteSet(0 .. MaxClock)
    BY <1>1, FS_Interval
  <2> QED
    BY <1>2, <2>1, FS_Subset
<1>4. VersionIn(b, r) = Max(S)
  BY DEF VersionIn
<1>5. \A s \in S : s # 0 => s \in Stamp /\ <<r, s>> \in b
  BY DEF Stamp
<1>6. \A s \in Stamp : <<r, s>> \in b => s \in S
  BY DEF Stamp
<1> HIDE DEF S
<1>7. \E x \in S : \A y \in S : x >= y
  <2>1. \E x \in S : \A y \in S : y <= x
    BY <1>2, <1>3, GreatestNatural
  <2> QED
    BY <1>2, <2>1
<1>8. Max(S) \in S /\ \A y \in S : Max(S) >= y
  BY <1>7 DEF Max
<1>9. \A y \in S : y <= Max(S)
  BY <1>2, <1>8
<1> QED
  BY <1>2, <1>4, <1>5, <1>6, <1>8, <1>9

\* A newer reading is a later version.
LEMMA NewerIsLater ==
  ASSUME NEW b, NEW r \in Reading, NEW s \in Stamp, Newer(b, r, s)
  PROVE  s <= VersionIn(b, r)
<1>1. PICK n \in s .. MaxClock : <<r, n>> \in b
  BY DEF Newer
<1>2. s \in Nat /\ n \in Stamp /\ s <= n
  BY MartAssumption DEF Stamp
<1>3. VersionIn(b, r) \in 0 .. MaxClock /\ n <= VersionIn(b, r)
  BY <1>1, <1>2, VersionIs
<1>4. VersionIn(b, r) \in Nat
  BY <1>3, MartAssumption
<1> QED
  BY <1>2, <1>3, <1>4 DEF Stamp

\* What a refresh that is alone saw is no older than what is promised of the
\* rows of its window.
SeenSince(t) ==
  t.alone =>
    \A r \in InWindow(t.lo, t.hi) : \A p \in promised[r] :
      p[1] = r => Newer(t.seen, r, p[2])

SeenLast == \A j \in Job : SeenSince(job[j])

LEMMA NextSeenLast ==
  ASSUME StateOK, Versions, Undisturbed, SeenLast, [Next]_vars
  PROVE  SeenLast'
<1>1. CASE UNCHANGED <<job, promised>>
  BY <1>1 DEF SeenLast, SeenSince
<1>2. CASE JobMoves
  <2>1. PICK j \in Job, t \in JobState : Becomes(j, t) /\ Moves(j, t)
    BY <1>2 DEF JobMoves
  <2>2. \A k \in Job \ {j} : ~job'[k].alone
    BY <2>1, MoverDisturbs
  <2>3. job'[j] = t /\ SeenSince(job[j])
    BY <2>1 DEF Becomes, SeenLast
  <2>4. SeenSince(job[j])'
    <3>1. CASE Begins(j, t) /\ UNCHANGED promised
      <4>1. ASSUME NEW r \in InWindow(t.lo, t.hi), NEW p \in promised[r], p[1] = r
            PROVE  Newer(t.seen, r, p[2])
        <5>1. r \in Reading /\ InScope(r, t.lo, t.hi)
          BY JobParts, WindowInScope DEF InWindow
        <5>2. promised[r] \in Basis /\ OfCore(promised[r]) /\ CoreOK(core)
          BY <5>1 DEF StateOK, Versions
        <5>3. Newer(Scoped(core, t.lo, t.hi), p[1], p[2])
          BY <4>1, <5>1, <5>2, SnapshotIsNewest
        <5> QED
          BY <3>1, <4>1, <5>3 DEF Begins
      <4> QED
        BY <2>3, <3>1, <4>1 DEF SeenSince
    <3>2. CASE (Finds(j, t) \/ Deletes(j, t) \/ Reads(j, t)) /\ UNCHANGED promised
      BY <2>3, <3>2 DEF Finds, Deletes, Reads, SameJob, SeenSince
    <3>3. CASE t = Idle
      BY <2>3, <3>3, IdleIs DEF SeenSince
    <3> QED
      BY <2>1, <3>1, <3>2, <3>3 DEF Moves
  <2> QED
    BY <2>2, <2>4 DEF SeenLast, SeenSince
<1> QED
  BY <1>1, <1>2, NextMoves DEF CoreMoves

\* What is owed of a row stays owed, or is overtaken.
LEMMA OwedStays ==
  ASSUME StateOK, Versions, SeenLast, [Next]_vars, NEW r \in Reading,
         NEW s \in Stamp, <<r, s>> \in promised[r]
  PROVE  Newer(promised'[r], r, s)
<1>1. MaxClock \in Nat /\ s \in s .. MaxClock
  BY MartAssumption DEF Stamp
<1>2. CASE <<r, s>> \in promised'[r]
  BY <1>1, <1>2 DEF Newer
<1>3. ASSUME NEW j \in Job, Commits(j)
      PROVE  Newer(promised'[r], r, s)
  <2>1. promised'[r] = Promises(j, r) /\ SeenSince(job[j]) /\ job[j] \in JobState
    BY <1>3 DEF Commits, SeenLast, StateOK
  <2>2. CASE r \notin InWindow(job[j].lo, job[j].hi)
    BY <1>2, <2>1, <2>2 DEF Promises
  <2>3. CASE /\ r \in InWindow(job[j].lo, job[j].hi)
             /\ job[j].alone /\ Holds(job[j].seen, r)
    <3>1. promised'[r] = job[j].seen
      BY <2>1, <2>3 DEF Promises
    <3>2. PICK p \in promised[r] : p = <<r, s>>
      OBVIOUS
    <3>3. p[1] = r /\ p[2] = s
      BY <3>2
    <3> QED
      BY <2>1, <2>3, <3>1, <3>3 DEF SeenSince
  <2>4. CASE /\ r \in InWindow(job[j].lo, job[j].hi)
             /\ ~(job[j].alone /\ Holds(job[j].seen, r))
    <3>1. InScope(r, job[j].lo, job[j].hi)
      BY <2>1, <2>4, JobParts, WindowInScope DEF InWindow
    <3>2. promised'[r] = {p \in promised[r] : InScope(p[1], job[j].lo, job[j].hi)}
      BY <2>1, <2>4 DEF Promises
    <3> QED
      BY <1>2, <3>1, <3>2
  <2> QED
    BY <2>2, <2>3, <2>4
<1> QED
  BY <1>2, <1>3, NextMoves DEF JobMoves, CoreMoves, Moves

LayerInv ==
  /\ StateOK /\ Versions /\ Locked
  /\ Undisturbed /\ SeesPromises /\ RefreshCovers
  /\ SeenLast

LEMMA LayerHolds == Spec => []LayerInv
<1>1. Init => LayerInv
  <2> SUFFICES ASSUME Init PROVE LayerInv
    OBVIOUS
  <2>1. \A r \in Reading : promised[r] = {}
    BY DEF Init
  <2>2. \A j \in Job : job[j] = Idle
    BY DEF Init
  <2>3. SeenLast
    BY <2>2, IdleIs DEF SeenLast, SeenSince
  <2> QED
    BY <2>3, InitState, InitLocked, InitCovers DEF LayerInv
<1>2. LayerInv /\ [Next]_vars => LayerInv'
  BY NextState, NextVersions, NextLocked, NextUndisturbed, NextSees, NextCovers,
     NextSeenLast DEF LayerInv
<1> QED
  BY <1>1, <1>2, PTL DEF Spec

Offered == {v \in Reading \X (1 .. MaxClock) : v[2] <= core[v[1]]}

Owed ==
  {v \in Reading \X (1 .. MaxClock) :
     \E s \in v[2] .. MaxClock : <<v[1], s>> \in promised[v[1]]}

\* Core grows, or a job that commits takes versions from core.
LEMMA LayerStep ==
  ASSUME LayerInv, LayerInv', [Next]_vars
  PROVE  [Promise!Next]_(Promise!vars)
<1> DEFINE held == [r \in Reading |-> VersionIn(mart[r], r)]
<1>0. /\ StateOK /\ Versions /\ Locked /\ SeenLast
      /\ StateOK' /\ Versions' /\ RefreshCovers'
      /\ MaxClock \in Nat
  BY MartAssumption DEF LayerInv
<1>1. Offered \subseteq Reading \X (Nat \ {0})
      /\ Offered' \subseteq Reading \X (Nat \ {0})
  BY <1>0 DEF Offered
<1>2. ASSUME NEW r \in Reading, NEW s \in Stamp, <<r, s>> \in promised'[r]
      PROVE  s <= core'[r] /\ s <= VersionIn(mart'[r], r)
  <2>1. PICK p \in promised'[r] : p = <<r, s>> /\ p[1] = r /\ p[2] = s
    BY <1>2
  <2>2. s <= core'[r]
    BY <1>0, <2>1 DEF Versions, OfCore
  <2>3. Newer(mart'[r], r, s)
    BY <1>0, <2>1 DEF RefreshCovers, Newer
  <2> QED
    BY <2>2, <2>3, NewerIsLater
<1>3. ASSUME NEW v \in Owed'
      PROVE  v[1] \in Reading /\ v[2] <= core'[v[1]]
             /\ v[2] <= VersionIn(mart'[v[1]], v[1])
  <2>1. v[1] \in Reading /\ v[2] \in 1 .. MaxClock
    BY DEF Owed
  <2>2. PICK s \in v[2] .. MaxClock : <<v[1], s>> \in promised'[v[1]]
    BY DEF Owed
  <2>3. s \in Stamp /\ v[2] <= s
    BY <1>0, <2>1, <2>2 DEF Stamp
  <2>4. s <= core'[v[1]] /\ s <= VersionIn(mart'[v[1]], v[1])
    BY <1>2, <2>1, <2>2, <2>3
  <2>5. core'[v[1]] \in 0 .. MaxClock /\ VersionIn(mart'[v[1]], v[1]) \in 0 .. MaxClock
    BY <1>0, <2>1, VersionIs DEF StateOK, CoreOK
  <2> QED
    BY <1>0, <2>1, <2>3, <2>4, <2>5 DEF Stamp
<1>4. Owed \subseteq Owed'
  <2> SUFFICES ASSUME NEW v \in Owed PROVE v \in Owed'
    OBVIOUS
  <2>1. v[1] \in Reading /\ v[2] \in 1 .. MaxClock /\ v \in Reading \X (1 .. MaxClock)
    BY DEF Owed
  <2>2. PICK s \in v[2] .. MaxClock : <<v[1], s>> \in promised[v[1]]
    BY DEF Owed
  <2>3. s \in Stamp /\ v[2] <= s
    BY <1>0, <2>1, <2>2 DEF Stamp
  <2>4. Newer(promised'[v[1]], v[1], s)
    BY <1>0, <2>1, <2>2, <2>3, OwedStays
  <2>5. PICK n \in s .. MaxClock : <<v[1], n>> \in promised'[v[1]]
    BY <2>4 DEF Newer
  <2>6. n \in v[2] .. MaxClock
    BY <1>0, <2>1, <2>3, <2>5 DEF Stamp
  <2> QED
    BY <2>1, <2>5, <2>6 DEF Owed
<1>5. CASE UNCHANGED <<mart, promised>> /\ \A q \in Reading : core[q] <= core'[q]
  <2>1. held' = held /\ Owed' = Owed
    BY <1>5 DEF Owed
  <2>2. Offered \subseteq Offered'
    <3> SUFFICES ASSUME NEW v \in Offered PROVE v \in Offered'
      OBVIOUS
    <3>1. v \in Reading \X (1 .. MaxClock) /\ v[1] \in Reading /\ v[2] \in 1 .. MaxClock
          /\ v[2] <= core[v[1]]
      BY DEF Offered
    <3>2. /\ core[v[1]] \in 0 .. MaxClock /\ core'[v[1]] \in 0 .. MaxClock
          /\ core[v[1]] <= core'[v[1]]
      BY <1>0, <1>5, <3>1 DEF StateOK, CoreOK
    <3>3. v[2] <= core'[v[1]]
      BY <1>0, <3>1, <3>2
    <3> QED
      BY <3>1, <3>3 DEF Offered
  <2> QED
    BY <1>1, <2>1, <2>2
    DEF Promise!Next, Promise!Offer, Promise!Version, Offered, Owed
<1>6. CASE core' = core
  <2>1. Offered' = Offered
    BY <1>6 DEF Offered
  <2>2. ASSUME NEW r \in Reading
        PROVE  /\ VersionIn(mart'[r], r) \in Nat
               /\ VersionIn(mart'[r], r) >= VersionIn(mart[r], r)
               /\ VersionIn(mart'[r], r) # VersionIn(mart[r], r)
                    => <<r, VersionIn(mart'[r], r)>> \in Offered
    <3>1. PICK s \in 0 .. MaxClock, t \in 0 .. MaxClock :
            s = VersionIn(mart[r], r) /\ t = VersionIn(mart'[r], r)
      BY VersionIs
    <3>2. s # 0 => t >= s
      <4> SUFFICES ASSUME s # 0 PROVE t >= s
        OBVIOUS
      <4>1. s \in Stamp /\ <<r, s>> \in mart[r]
        BY <3>1, VersionIs
      <4>2. Newer(mart'[r], r, s)
        BY <1>0, <4>1, NextAdvances
      <4>3. s <= t
        BY <3>1, <4>1, <4>2, NewerIsLater
      <4> QED
        BY <1>0, <4>3
    <3>3. t # 0 => t \in Stamp /\ t <= core[r]
      <4> SUFFICES ASSUME t # 0 PROVE t \in Stamp /\ t <= core[r]
        OBVIOUS
      <4>1. t \in Stamp /\ <<r, t>> \in mart'[r]
        BY <3>1, VersionIs
      <4>2. PICK p \in mart'[r] : p = <<r, t>> /\ p[1] = r /\ p[2] = t
        BY <4>1
      <4> QED
        BY <1>0, <1>6, <4>1, <4>2 DEF Versions, OfCore
    <3>4. t # 0 => <<r, t>> \in Offered
      BY <3>3 DEF Offered, Stamp
    <3> QED
      BY <1>0, <3>1, <3>2, <3>4
  <2>3. held' \in [Reading -> Nat]
    BY <2>2
  <2>4. \A r \in Reading : held'[r] = VersionIn(mart'[r], r)
                           /\ held[r] = VersionIn(mart[r], r)
    OBVIOUS
  <2>5. ASSUME NEW v \in Owed' PROVE v \in Offered /\ held'[v[1]] >= v[2]
    <3>1. v \in Reading \X (1 .. MaxClock) /\ v[1] \in Reading /\ v[2] \in 1 .. MaxClock
      BY DEF Owed
    <3>2. v[2] <= core[v[1]] /\ v[2] <= VersionIn(mart'[v[1]], v[1])
      BY <1>3, <1>6
    <3>3. VersionIn(mart'[v[1]], v[1]) \in Nat
      BY <2>2, <3>1
    <3>4. held'[v[1]] >= v[2]
      BY <1>0, <2>4, <3>1, <3>2, <3>3
    <3> QED
      BY <3>1, <3>2, <3>4 DEF Offered
  <2> HIDE DEF held
  <2>6. \A r \in Reading : /\ held'[r] >= held[r]
                           /\ held'[r] # held[r] => <<r, held'[r]>> \in Offered
    BY <2>2, <2>4
  <2>7. /\ held' \in [Reading -> Nat] /\ Owed \subseteq Owed'
        /\ Owed' \subseteq Offered /\ \A v \in Owed' : held'[v[1]] >= v[2]
        /\ Offered' = Offered
    BY <1>4, <2>1, <2>3, <2>5
  <2> QED
    BY <2>6, <2>7 DEF Promise!Next, Promise!Take, Offered, Owed, held
<1>7. JobMoves \/ CoreMoves \/ UNCHANGED <<core, mart, job, promised>>
  BY <1>0, NextMoves
<1>8. core' = core \/ (UNCHANGED <<mart, promised>> /\ \A q \in Reading : core[q] <= core'[q])
  BY <1>7 DEF JobMoves, Moves, CoreMoves, Promoted
<1> QED
  BY <1>5, <1>6, <1>8

\* The mart is a layer over core, for every calendar, any windows and any number
\* of processes that overlap and fail.
THEOREM MartImplementsLayer == Spec => ImplementsLayer
<1>1. Init => Promise!Init
  <2> SUFFICES ASSUME Init PROVE Promise!Init
    OBVIOUS
  <2>1. \A r \in Reading : core[r] = 0 /\ mart[r] = {} /\ promised[r] = {}
    BY DEF Init
  <2>2. Offered = {}
    <3> SUFFICES ASSUME NEW v \in Offered PROVE FALSE
      OBVIOUS
    <3>1. v[1] \in Reading /\ v[2] \in 1 .. MaxClock /\ v[2] <= core[v[1]]
      BY DEF Offered
    <3>2. core[v[1]] = 0
      BY <2>1, <3>1
    <3> QED
      BY <3>1, <3>2, MartAssumption
  <2>4. Owed = {}
    <3> SUFFICES ASSUME NEW v \in Owed PROVE FALSE
      OBVIOUS
    <3>1. v[1] \in Reading /\ \E s : <<v[1], s>> \in promised[v[1]]
      BY DEF Owed
    <3> QED
      BY <2>1, <3>1
  <2>3. ASSUME NEW r \in Reading PROVE VersionIn(mart[r], r) = 0
    <3>1. PICK b : b = mart[r] /\ b = {}
      BY <2>1
    <3>2. VersionIn(b, r) = 0
      BY <3>1, VersionIs
    <3> QED
      BY <3>1, <3>2
  <2> QED
    BY <2>2, <2>3, <2>4 DEF Promise!Init, Offered, Owed
<1>2. LayerInv /\ LayerInv' /\ [Next]_vars => [Promise!Next]_(Promise!vars)
  BY LayerStep
<1> QED
  BY <1>1, <1>2, LayerHolds, PTL DEF Spec, ImplementsLayer, Promise!Spec
=============================================================================
