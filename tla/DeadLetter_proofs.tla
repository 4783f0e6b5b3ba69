-------------------------- MODULE DeadLetter_proofs ---------------------------
(***************************************************************************)
(* Proofs about the dead-letter queue for every set of records, every      *)
(* sequence of contracts, every budget and every number of processes.      *)
(*                                                                         *)
(* Each action is shown to be one of a few kinds of step (Moves), and the  *)
(* properties follow from those.  Types and BudgetDecides are inductive    *)
(* and need no turns to be taken.  ResolvedLanded and Kept do: the         *)
(* invariant says that while a process has rows or listed entries in hand  *)
(* nobody else writes, so that the entries still hold what was listed and  *)
(* the last row of each key is no older than anything parked under it,     *)
(* whether the rows come from a window of the feed or from the queue.      *)
(* Nothing is assumed of what a key stands for: it may be shared.          *)
(***************************************************************************)
EXTENDS DeadLetter, FiniteSetTheorems, WellFoundedInduction, TLAPS

-----------------------------------------------------------------------------
(* What the state is made of.                                              *)

Pc == {"idle", "replay", "resolve", "flush"}
Status == {"PENDING", "RESOLVED", "ABANDONED"}

\* Rows in the order of their indices.
RowList == UNION {[D -> Row] : D \in {E \in SUBSET Nat : IsFiniteSet(E)}}

Process ==
  [pc : Pc, contract : SUBSET Record, listed : RowList, rows : RowList,
   recovered : SUBSET Key]

LEMMA PcFacts ==
  "idle" \in Pc /\ "replay" \in Pc /\ "resolve" \in Pc /\ "flush" \in Pc
  BY DEF Pc

LEMMA StatusFacts ==
  "PENDING" \in Status /\ "RESOLVED" \in Status /\ "ABANDONED" \in Status
  BY DEF Status

LEMMA EntryIs ==
  Entry = [payload : Record, attempts : 1 .. MaxAttempts, status : Status,
           first : Nat]
  BY DEF Entry, Status

LEMMA EntryOf ==
  ASSUME NEW r \in Record, NEW n \in 1 .. MaxAttempts, NEW s \in Status,
         NEW f \in Nat
  PROVE  [payload |-> r, attempts |-> n, status |-> s, first |-> f] \in Entry
  BY EntryIs

\* Marking an entry changes its status alone.
LEMMA EntryMarked ==
  ASSUME NEW e \in Entry, NEW s \in Status
  PROVE  /\ [e EXCEPT !.status = s] \in Entry
         /\ [e EXCEPT !.status = s].payload = e.payload
         /\ [e EXCEPT !.status = s].attempts = e.attempts
         /\ [e EXCEPT !.status = s].status = s
  BY EntryIs

LEMMA RecordFacts ==
  /\ \A r \in Record : r[1] \in Nat /\ KeyOf[r] \in Key
  /\ \A n \in Nat : <<"unkeyed", n>> \in Key
  BY DeadLetterAssumption DEF Key, Unkeyed

LEMMA RowParts ==
  ASSUME NEW w \in Row
  PROVE  w.key \in Key /\ w.payload \in Record
  BY DEF Row

LEMMA RowListOf ==
  ASSUME NEW D \in SUBSET Nat, IsFiniteSet(D), NEW f \in [D -> Row]
  PROVE  f \in RowList
  BY DEF RowList

LEMMA RowListParts ==
  ASSUME NEW rows \in RowList
  PROVE  /\ DOMAIN rows \subseteq Nat /\ IsFiniteSet(DOMAIN rows)
         /\ \A i \in DOMAIN rows :
              /\ rows[i] \in Row
              /\ rows[i].key \in Key /\ rows[i].payload \in Record
<1>1. PICK D \in SUBSET Nat : IsFiniteSet(D) /\ rows \in [D -> Row]
  BY DEF RowList
<1>2. DOMAIN rows = D /\ \A i \in D : rows[i] \in Row
  BY <1>1
<1> QED
  BY <1>1, <1>2, RowParts

LEMMA NoRows == <<>> \in RowList
<1>1. {} \in SUBSET Nat /\ IsFiniteSet({})
  BY FS_EmptySet
<1>2. <<>> \in [{} -> Row]
  OBVIOUS
<1> QED
  BY <1>1, <1>2, RowListOf

LEMMA IdleIs ==
  /\ Idle \in Process
  /\ Idle.pc = "idle" /\ Idle.listed = <<>> /\ Idle.rows = <<>>
  /\ Idle.recovered = {}
  BY NoRows, PcFacts DEF Idle, Process

\* The keys of a list of rows.
LEMMA KeysFacts ==
  ASSUME NEW rows \in RowList
  PROVE  Keys(rows) \subseteq Key /\ IsFiniteSet(Keys(rows))
<1>1. Keys(rows) \subseteq Key
  BY RowListParts DEF Keys
<1> DEFINE f == [i \in DOMAIN rows |-> rows[i].key]
<1>2. f \in Surjection(DOMAIN rows, Keys(rows))
  BY DEF Surjection, Keys
<1>3. IsFiniteSet(DOMAIN rows)
  BY RowListParts
<1> HIDE DEF f
<1>4. IsFiniteSet(Keys(rows))
  BY <1>2, <1>3, FS_Surjection
<1> QED
  BY <1>1, <1>4

\* The names a record may be parked under.
Names(k, r) == IF KeyOf[r] = NoKey THEN k \in Unkeyed ELSE k = KeyOf[r]

LEMMA NamesFacts ==
  ASSUME NEW k, NEW r \in Record, Names(k, r)
  PROVE  /\ k \notin Unkeyed => KeyOf[r] = k
         /\ KeyOf[r] # NoKey => k = KeyOf[r] /\ k \notin Unkeyed
  BY DeadLetterAssumption DEF Names

\* What a buffer makes of records that arrive in some order.
LEMMA BufferedIs ==
  ASSUME NEW D \in SUBSET Nat, IsFiniteSet(D), NEW records \in [D -> Record]
  PROVE  /\ Buffered(records) \in RowList
         /\ DOMAIN Buffered(records) = D
         /\ \A i \in D : Buffered(records)[i].payload = records[i]
         /\ \A i \in D : Names(Buffered(records)[i].key, records[i])
<1> DEFINE place(i) == Cardinality({j \in DOMAIN records : j < i})
           name(i)  == IF KeyOf[records[i]] = NoKey THEN <<"unkeyed", place(i)>>
                       ELSE KeyOf[records[i]]
<1>1. ASSUME NEW i \in D
      PROVE  place(i) \in Nat
  <2>1. {j \in DOMAIN records : j < i} \in SUBSET D
    OBVIOUS
  <2> QED
    BY <2>1, FS_Subset, FS_CardinalityType
<1> HIDE DEF place
<1>2. \A i \in D : name(i) \in Key
  BY <1>1, RecordFacts
<1>3. Buffered(records) = [i \in D |-> [key |-> name(i), payload |-> records[i]]]
  BY DEF Buffered, place
<1>4. \A i \in D : Names(name(i), records[i])
  BY <1>1 DEF Names, Unkeyed
<1> HIDE DEF name
<1>5. Buffered(records) \in [D -> Row]
  BY <1>2, <1>3 DEF Row
<1>6. Buffered(records) \in RowList
  BY <1>5, RowListOf
<1> QED
  BY <1>3, <1>4, <1>6

-----------------------------------------------------------------------------
(* What the operators of the queue do.                                     *)

QueueOK(q) ==
  /\ q \in [DOMAIN q -> Entry]
  /\ DOMAIN q \subseteq Key /\ IsFiniteSet(DOMAIN q)

\* The attempts an entry is left with: one at least, and one only for the single
\* row of a new entry when the budget is one.
LEMMA AttemptsAre ==
  ASSUME QueueOK(queue), NEW rows \in RowList, NEW k \in Keys(rows)
  PROVE  /\ Attempts(rows, k) \in 1 .. MaxAttempts
         /\ \/ k \in DOMAIN queue \/ Cardinality(RowsOf(rows, k)) > 1
            \/ Attempts(rows, k) = 1
<1> DEFINE c == Cardinality(RowsOf(rows, k))
<1>1. RowsOf(rows, k) \in SUBSET (DOMAIN rows) /\ RowsOf(rows, k) # {}
  BY DEF RowsOf, Keys
<1>2. IsFiniteSet(RowsOf(rows, k))
  BY <1>1, RowListParts, FS_Subset
<1>3. c \in Nat /\ c # 0
  BY <1>1, <1>2, FS_CardinalityType, FS_EmptySet
<1>4. Earlier(k) \in Nat
  BY DEF Earlier, QueueOK, Entry
<1>5. k \notin DOMAIN queue => Earlier(k) = 0
  BY DEF Earlier
<1>6. MaxAttempts \in Nat /\ MaxAttempts >= 1
  BY DeadLetterAssumption
<1>7. Attempts(rows, k) = IF Earlier(k) + c <= MaxAttempts THEN Earlier(k) + c
                          ELSE MaxAttempts
  BY DEF Attempts
<1> HIDE DEF c
<1>8. Attempts(rows, k) \in 1 .. MaxAttempts
  BY <1>3, <1>4, <1>6, <1>7
<1>9. k \in DOMAIN queue \/ c > 1 \/ Attempts(rows, k) = 1
  BY <1>3, <1>4, <1>5, <1>6, <1>7
<1> QED
  BY <1>8, <1>9 DEF c

\* The queue after an upsert: entries of other keys are as they were, and those
\* of the rows hold a payload of theirs and are not resolved.
UpsertOK(q, rows, last) ==
  /\ QueueOK(q)
  /\ DOMAIN q = DOMAIN queue \cup Keys(rows)
  /\ \A k \in DOMAIN q \ Keys(rows) : q[k] = queue[k]
  /\ \A k \in Keys(rows) :
       /\ q[k].payload = rows[last[k]].payload
       /\ q[k].attempts = Attempts(rows, k)
       /\ q[k].status = StatusAfter(rows, k)

LEMMA UpsertIs ==
  ASSUME QueueOK(queue), NEW rows \in RowList, NEW last \in Latest(rows)
  PROVE  UpsertOK(Upsert(rows, last), rows, last)
<1> DEFINE q == Upsert(rows, last)
           start(k) == IF k \in DOMAIN queue THEN queue[k].first
                       ELSE Cardinality(DOMAIN queue)
<1>1. last \in [Keys(rows) -> DOMAIN rows]
  BY DEF Latest
<1>2. Cardinality(DOMAIN queue) \in Nat
  BY FS_CardinalityType DEF QueueOK
<1>3. \A k \in Keys(rows) : start(k) \in Nat
  BY <1>2 DEF QueueOK, Entry
<1>4. \A k \in Keys(rows) : rows[last[k]].payload \in Record
  BY <1>1, RowListParts
<1>5. \A k \in Keys(rows) : StatusAfter(rows, k) \in Status
  BY StatusFacts DEF StatusAfter
<1>6. \A k \in Keys(rows) : Attempts(rows, k) \in 1 .. MaxAttempts
  BY AttemptsAre
<1>7. q = [k \in DOMAIN queue \cup Keys(rows) |->
             IF k \notin Keys(rows) THEN queue[k]
             ELSE [payload  |-> rows[last[k]].payload,
                   attempts |-> Attempts(rows, k),
                   status   |-> StatusAfter(rows, k),
                   first    |-> start(k)]]
  BY DEF Upsert
<1> HIDE DEF q, start
<1>8. DOMAIN q = DOMAIN queue \cup Keys(rows)
  BY <1>7
<1>9. \A k \in DOMAIN q \ Keys(rows) : q[k] = queue[k] /\ q[k] \in Entry
  BY <1>7 DEF QueueOK
<1>10. ASSUME NEW k \in Keys(rows)
       PROVE  /\ q[k] \in Entry
              /\ q[k].payload = rows[last[k]].payload
              /\ q[k].attempts = Attempts(rows, k)
              /\ q[k].status = StatusAfter(rows, k)
  <2>1. q[k] = [payload  |-> rows[last[k]].payload,
                attempts |-> Attempts(rows, k),
                status   |-> StatusAfter(rows, k),
                first    |-> start(k)]
    BY <1>7
  <2>2. q[k] \in Entry
    BY <2>1, <1>3, <1>4, <1>5, <1>6, EntryOf
  <2> QED
    BY <2>1, <2>2
<1>11. q \in [DOMAIN q -> Entry]
  BY <1>7, <1>9, <1>10
<1>12. DOMAIN q \subseteq Key /\ IsFiniteSet(DOMAIN q)
  BY <1>8, KeysFacts, FS_Union DEF QueueOK
<1>13. UpsertOK(q, rows, last)
  BY <1>8, <1>9, <1>10, <1>11, <1>12 DEF UpsertOK, QueueOK
<1> QED
  BY <1>13 DEF q

\* A bounded set of naturals has a greatest element, if it has any.
LEMMA GreatestNatural ==
  ASSUME NEW S \in SUBSET Nat, S # {}, NEW n \in Nat, \A x \in S : x <= n
  PROVE  \E x \in S : \A y \in S : y <= x
<1> DEFINE T == {k \in Nat : n - k \in S}
<1>1. \A x \in S : n - x \in T
  BY SMT
<1>2. PICK k \in T : \A l \in T : ~ (<<l, k>> \in OpToRel(<, Nat))
  BY <1>1, NatLessThanWellFounded, WFMin
<1>3. \A l \in T : ~(l < k)
  BY <1>2 DEF OpToRel
<1>4. n - k \in S /\ \A y \in S : y <= n - k
  BY <1>1, <1>3
<1> QED
  BY <1>4

\* Records that the upstream holds at one time are finite in number.
LEMMA FiniteWindow ==
  ASSUME NEW n \in Nat, NEW window \in SUBSET Record,
         \A r \in window : r[1] <= n
  PROVE  IsFiniteSet(window)
<1>1. CASE window = {}
  BY <1>1, FS_EmptySet
<1>2. CASE window # {}
  <2> DEFINE S == {r[1] : r \in window}
  <2>1. S \in SUBSET Nat /\ S # {} /\ \A x \in S : x <= n
    BY <1>2, RecordFacts
  <2>2. PICK x \in S : \A y \in S : y <= x
    BY <2>1, GreatestNatural
  <2>3. PICK r \in window : r[1] = x
    OBVIOUS
  <2>4. window \in SUBSET {s \in Record : s[1] <= r[1]}
    BY <2>2, <2>3
  <2>5. IsFiniteSet({s \in Record : s[1] <= r[1]})
    BY DeadLetterAssumption
  <2> QED
    BY <2>4, <2>5, FS_Subset
<1> QED
  BY <1>1, <1>2

\* Records in the order of the feed: each of them has its place.
LEMMA FeedOrderIs ==
  ASSUME NEW records \in SUBSET Record, IsFiniteSet(records),
         NEW s \in InFeedOrder(records)
  PROVE  /\ DOMAIN s \in SUBSET Nat /\ IsFiniteSet(DOMAIN s)
         /\ s \in [DOMAIN s -> Record]
         /\ \A i \in DOMAIN s : s[i] \in records
         /\ \A i, j \in DOMAIN s : i <= j => s[i][1] <= s[j][1]
         /\ \A r \in records : \E i \in DOMAIN s : s[i] = r
<1> DEFINE n == Cardinality(records)
<1>1. n \in Nat
  BY FS_CardinalityType
<1>2. s \in [1 .. n -> records]
  BY DEF InFeedOrder
<1>3. \A i, j \in 1 .. n : i < j => s[i] # s[j] /\ s[i][1] <= s[j][1]
  BY <1>2 DEF InFeedOrder
<1> HIDE DEF n
<1>4. DOMAIN s = 1 .. n /\ DOMAIN s \in SUBSET Nat
  BY <1>1, <1>2
<1>5. IsFiniteSet(1 .. n) /\ Cardinality(1 .. n) = n
  BY <1>1, FS_Interval
<1>6. \A i \in 1 .. n : s[i] \in Record /\ s[i][1] \in Nat
  BY <1>2, RecordFacts
<1>7. \A i, j \in 1 .. n : i <= j => s[i][1] <= s[j][1]
  <2> TAKE i, j \in 1 .. n
  <2>1. i \in Nat /\ j \in Nat /\ s[i][1] \in Nat /\ s[j][1] \in Nat
    BY <1>1, <1>6
  <2> QED
    BY <2>1, <1>3
<1>8. \A i, j \in 1 .. n : s[i] = s[j] => i = j
  <2> TAKE i, j \in 1 .. n
  <2>1. i \in Nat /\ j \in Nat /\ s[i][1] \in Nat /\ s[j][1] \in Nat
    BY <1>1, <1>6
  <2> QED
    BY <2>1, <1>3
<1>9. s \in Injection(1 .. n, records)
  BY <1>2, <1>8 DEF Injection, IsInjective
<1>10. s \in Surjection(1 .. n, records)
  BY <1>5, <1>9, FS_Injection DEF n
<1>11. \A r \in records : \E i \in 1 .. n : s[i] = r
  BY <1>10 DEF Surjection
<1> QED
  BY <1>2, <1>4, <1>5, <1>6, <1>7, <1>11

-----------------------------------------------------------------------------
(* Types, and what each action does.                                       *)

Types ==
  /\ now \in Nat
  /\ deployed \in DOMAIN Contracts
  /\ raw \in SUBSET Record /\ parked \in SUBSET Record
  /\ QueueOK(queue)
  /\ job \in [Job -> Process]
  /\ \A p \in Job : /\ Keys(job[p].listed) \subseteq DOMAIN queue
                    /\ job[p].recovered \subseteq DOMAIN queue
  /\ failures \in Nat

LEMMA ProcessParts ==
  ASSUME NEW t \in Process
  PROVE  /\ t.pc \in Pc /\ t.contract \in SUBSET Record
         /\ t.listed \in RowList /\ t.rows \in RowList
         /\ t.recovered \in SUBSET Key
  BY DEF Process

LEMMA ContractType ==
  ASSUME deployed \in DOMAIN Contracts
  PROVE  Contracts[deployed] \in SUBSET Record
  BY DeadLetterAssumption

\* A step of one process leaves the others where they are.
Becomes(p, t) ==
  /\ job' \in [Job -> Process]
  /\ job'[p] = t
  /\ \A q \in Job \ {p} : job'[q] = job[q]

LEMMA GoesBecomes ==
  ASSUME job \in [Job -> Process], NEW p \in Job, NEW t \in Process, Goes(p, t)
  PROVE  Becomes(p, t)
  BY DEF Goes, Becomes

\* A row is named after its payload.
Named(rows) == \A i \in DOMAIN rows : Names(rows[i].key, rows[i].payload)

InOrder(rows) ==
  \A i, j \in DOMAIN rows : i <= j => rows[i].payload[1] <= rows[j].payload[1]

\* An ingest: every record of the window is in raw, or among the rows.
Gathers(t, since) ==
  /\ t.pc = "flush" /\ t.listed = <<>> /\ t.recovered = {}
  /\ Named(t.rows) /\ InOrder(t.rows)
  /\ \A i \in DOMAIN t.rows :
       since <= t.rows[i].payload[1] /\ t.rows[i].payload[1] <= now
  /\ \A r \in Record :
       since <= r[1] /\ r[1] <= now
         => r \in raw' \/ \E i \in DOMAIN t.rows : t.rows[i].payload = r
  /\ raw \subseteq raw' /\ raw' \subseteq Record

LEMMA IngestDoes ==
  ASSUME Types, NEW p \in Job, Ingest(p)
  PROVE  \E t \in Process, since \in Nat : Becomes(p, t) /\ Gathers(t, since)
<1> DEFINE windowOf(since) == {r \in Record : since <= r[1] /\ r[1] <= now}
           passesOf(since) == windowOf(since) \cap Contracts[deployed]
<1>1. PICK since \in 1 .. now :
        /\ raw' = raw \cup passesOf(since)
        /\ \E rejects \in InFeedOrder(windowOf(since) \ passesOf(since)) :
             Goes(p, [Idle EXCEPT !.pc = "flush",
                                  !.contract = Contracts[deployed],
                                  !.rows = Buffered(rejects)])
  BY DEF Ingest
<1> DEFINE window == windowOf(since)
           refused == window \ passesOf(since)
<1>2. PICK rejects \in InFeedOrder(refused) :
        Goes(p, [Idle EXCEPT !.pc = "flush",
                             !.contract = Contracts[deployed],
                             !.rows = Buffered(rejects)])
  BY <1>1
<1>3. since \in Nat /\ now \in Nat
  BY <1>1 DEF Types
<1>4. refused \in SUBSET Record /\ \A r \in refused : since <= r[1] /\ r[1] <= now
  OBVIOUS
<1>5. \A r \in Record : since <= r[1] /\ r[1] <= now => r \in raw' \/ r \in refused
  BY <1>1
<1>6. raw \subseteq raw' /\ raw' \subseteq Record
  BY <1>1 DEF Types
<1> HIDE DEF refused, windowOf, passesOf
<1>7. IsFiniteSet(refused)
  BY <1>3, <1>4, FiniteWindow
<1>8. /\ DOMAIN rejects \in SUBSET Nat /\ IsFiniteSet(DOMAIN rejects)
      /\ rejects \in [DOMAIN rejects -> Record]
      /\ \A i \in DOMAIN rejects : rejects[i] \in refused
      /\ \A i, j \in DOMAIN rejects : i <= j => rejects[i][1] <= rejects[j][1]
      /\ \A r \in refused : \E i \in DOMAIN rejects : rejects[i] = r
  BY <1>2, <1>4, <1>7, FeedOrderIs
<1> DEFINE rows == Buffered(rejects)
<1>9. /\ rows \in RowList
      /\ DOMAIN rows = DOMAIN rejects
      /\ \A i \in DOMAIN rejects : rows[i].payload = rejects[i]
      /\ \A i \in DOMAIN rejects : Names(rows[i].key, rejects[i])
  BY <1>8, BufferedIs
<1>10. PICK t : t = [Idle EXCEPT !.pc = "flush",
                                 !.contract = Contracts[deployed],
                                 !.rows = rows]
  OBVIOUS
<1>11. /\ t.pc = "flush" /\ t.listed = <<>> /\ t.recovered = {} /\ t.rows = rows
  BY <1>10 DEF Idle
<1>12. t \in Process
  BY <1>9, <1>10, PcFacts, NoRows, ContractType DEF Idle, Process, Types
<1>13. Becomes(p, t)
  BY <1>2, <1>10, <1>12, GoesBecomes DEF Types
<1> HIDE DEF rows
<1>14. Named(t.rows) /\ InOrder(t.rows)
  BY <1>8, <1>9, <1>11 DEF Named, InOrder
<1>15. \A i \in DOMAIN t.rows :
         since <= t.rows[i].payload[1] /\ t.rows[i].payload[1] <= now
  BY <1>4, <1>8, <1>9, <1>11
<1>16. \A r \in Record :
         since <= r[1] /\ r[1] <= now
           => r \in raw' \/ \E i \in DOMAIN t.rows : t.rows[i].payload = r
  BY <1>5, <1>8, <1>9, <1>11
<1>17. Gathers(t, since)
  BY <1>6, <1>11, <1>14, <1>15, <1>16 DEF Gathers
<1> QED
  BY <1>3, <1>12, <1>13, <1>17

\* A replay lists entries with the payloads that they hold.
Holds(q, rows) ==
  \A i \in DOMAIN rows :
    rows[i].key \in DOMAIN q /\ rows[i].payload = q[rows[i].key].payload

Lists(t) ==
  /\ t.pc = "replay" /\ t.rows = <<>> /\ t.recovered = {}
  /\ Holds(queue, t.listed)

LEMMA ListDoes ==
  ASSUME Types, NEW p \in Job, List(p)
  PROVE  \E t \in Process : Becomes(p, t) /\ Lists(t)
<1>1. PICK order \in OldestFirst(Pending) :
        LET listed == {i \in DOMAIN order : i <= Limit}
        IN  Goes(p, [Idle EXCEPT
                       !.pc = "replay", !.contract = Contracts[deployed],
                       !.listed = [i \in listed |->
                                     [key     |-> order[i],
                                      payload |-> queue[order[i]].payload]]])
  BY DEF List
<1>2. Pending \in SUBSET (DOMAIN queue)
  BY DEF Pending
<1>3. QueueOK(queue)
  BY DEF Types
<1>4. Cardinality(Pending) \in Nat
  BY <1>2, <1>3, FS_Subset, FS_CardinalityType DEF QueueOK
<1>5. order \in [1 .. Cardinality(Pending) -> Pending]
  BY DEF OldestFirst
<1> DEFINE D == {i \in DOMAIN order : i <= Limit}
           listed == [i \in D |-> [key     |-> order[i],
                                   payload |-> queue[order[i]].payload]]
<1>6. D \in SUBSET (1 .. Cardinality(Pending))
  BY <1>5
<1>7. D \in SUBSET Nat /\ IsFiniteSet(D)
  <2>1. IsFiniteSet(1 .. Cardinality(Pending))
    BY <1>4, FS_Interval
  <2>2. IsFiniteSet(D)
    BY <1>6, <2>1, FS_Subset
  <2> QED
    BY <1>4, <1>6, <2>2
<1>8. \A i \in D : order[i] \in DOMAIN queue
  BY <1>2, <1>5, <1>6
<1> HIDE DEF D
<1>9. \A i \in D : order[i] \in Key /\ queue[order[i]].payload \in Record
  BY <1>3, <1>8 DEF QueueOK, Entry
<1>10. listed \in [D -> Row]
  BY <1>9 DEF Row
<1>11. listed \in RowList
  BY <1>7, <1>10, RowListOf
<1>12. Holds(queue, listed)
  BY <1>8 DEF Holds
<1>13. PICK t : t = [Idle EXCEPT !.pc = "replay",
                                 !.contract = Contracts[deployed],
                                 !.listed = listed]
  OBVIOUS
<1>14. Goes(p, t)
  BY <1>1, <1>13 DEF D
<1> HIDE DEF listed
<1>15. t.pc = "replay" /\ t.rows = <<>> /\ t.recovered = {} /\ t.listed = listed
  BY <1>13 DEF Idle
<1>16. t \in Process
  BY <1>11, <1>13, PcFacts, NoRows, ContractType DEF Idle, Process, Types
<1>17. Becomes(p, t)
  BY <1>14, <1>16, GoesBecomes DEF Types
<1>18. Lists(t)
  BY <1>12, <1>15 DEF Lists
<1> QED
  BY <1>16, <1>17, <1>18

\* A validated replay: what it recovered is in raw, what it did not is a row.
Validates(p, t) ==
  /\ job[p].pc = "replay" /\ t.pc = "resolve"
  /\ t.listed = job[p].listed
  /\ \A k \in t.recovered :
       \E i \in DOMAIN t.listed :
         t.listed[i].key = k /\ t.listed[i].payload \in raw'
  /\ Named(t.rows)
  /\ \A i \in DOMAIN t.rows :
       i \in DOMAIN t.listed /\ t.rows[i].payload = t.listed[i].payload
  /\ raw \subseteq raw' /\ raw' \subseteq Record

LEMMA ValidateDoes ==
  ASSUME Types, NEW p \in Job, Validate(p)
  PROVE  \E t \in Process : Becomes(p, t) /\ Validates(p, t)
<1> DEFINE listed == job[p].listed
           passes == {i \in DOMAIN listed : listed[i].payload \in job[p].contract}
           failed == [i \in DOMAIN listed \ passes |-> listed[i].payload]
<1>1. /\ job[p].pc = "replay"
      /\ raw' = raw \cup {listed[i].payload : i \in passes}
      /\ Goes(p, [job[p] EXCEPT !.pc = "resolve",
                                !.rows = Buffered(failed),
                                !.recovered = {listed[i].key : i \in passes}])
  BY DEF Validate
<1>2. job[p] \in Process
  BY DEF Types
<1>3. listed \in RowList
  BY <1>2, ProcessParts
<1>4. /\ DOMAIN listed \subseteq Nat /\ IsFiniteSet(DOMAIN listed)
      /\ \A i \in DOMAIN listed :
           listed[i].key \in Key /\ listed[i].payload \in Record
  BY <1>3, RowListParts
<1> HIDE DEF listed
<1>5. passes \in SUBSET (DOMAIN listed)
  OBVIOUS
<1> HIDE DEF passes
<1>6. /\ DOMAIN listed \ passes \in SUBSET Nat
      /\ IsFiniteSet(DOMAIN listed \ passes)
  BY <1>4, FS_Difference
<1>7. failed \in [DOMAIN listed \ passes -> Record]
  BY <1>4
<1>8. DOMAIN failed = DOMAIN listed \ passes
      /\ \A i \in DOMAIN failed : failed[i] = listed[i].payload
  OBVIOUS
<1> HIDE DEF failed
<1>9. /\ Buffered(failed) \in RowList
      /\ DOMAIN Buffered(failed) = DOMAIN failed
      /\ \A i \in DOMAIN failed : Buffered(failed)[i].payload = failed[i]
      /\ \A i \in DOMAIN failed : Names(Buffered(failed)[i].key, failed[i])
  BY <1>6, <1>7, <1>8, BufferedIs
<1>10. PICK rows \in RowList : rows = Buffered(failed)
  BY <1>9
<1>11. PICK recovered : recovered = {listed[i].key : i \in passes}
  OBVIOUS
<1>12. recovered \in SUBSET Key
  BY <1>4, <1>5, <1>11
<1>13. PICK t : t = [job[p] EXCEPT !.pc = "resolve", !.rows = rows,
                                   !.recovered = recovered]
  OBVIOUS
<1>14. /\ t \in Process
       /\ t.pc = "resolve" /\ t.listed = listed /\ t.rows = rows
       /\ t.recovered = recovered
  BY <1>2, <1>12, <1>13, PcFacts DEF Process, listed
<1>15. Becomes(p, t)
  BY <1>1, <1>10, <1>11, <1>13, <1>14, GoesBecomes DEF Types
<1>16. raw \subseteq raw' /\ raw' \subseteq Record
  BY <1>1, <1>4, <1>5 DEF Types
<1>17. \A k \in t.recovered :
         \E i \in DOMAIN t.listed :
           t.listed[i].key = k /\ t.listed[i].payload \in raw'
  BY <1>1, <1>5, <1>11, <1>14
<1>18. \A i \in DOMAIN t.rows :
         i \in DOMAIN t.listed /\ t.rows[i].payload = t.listed[i].payload
  BY <1>8, <1>9, <1>10, <1>14
<1>19. Named(t.rows)
  BY <1>9, <1>10, <1>14 DEF Named
<1>20. Validates(p, t)
  BY <1>1, <1>14, <1>16, <1>17, <1>18, <1>19 DEF Validates, listed
<1> QED
  BY <1>14, <1>15, <1>20

\* Marking entries as resolved changes their status and nothing else.
Marks(p, t) ==
  /\ job[p].pc = "resolve" /\ t.pc = "flush"
  /\ t.listed = job[p].listed /\ t.rows = job[p].rows
  /\ t.recovered = job[p].recovered
  /\ QueueOK(queue') /\ DOMAIN queue' = DOMAIN queue
  /\ \A k \in DOMAIN queue :
       /\ queue'[k].payload = queue[k].payload
       /\ queue'[k].attempts = queue[k].attempts
       /\ queue'[k].status = IF k \in job[p].recovered THEN "RESOLVED"
                             ELSE queue[k].status

LEMMA MarkDoes ==
  ASSUME Types, NEW p \in Job, MarkResolved(p)
  PROVE  \E t \in Process : Becomes(p, t) /\ Marks(p, t)
<1>1. /\ job[p].pc = "resolve"
      /\ queue' = [k \in DOMAIN queue |->
                     IF k \in job[p].recovered
                     THEN [queue[k] EXCEPT !.status = "RESOLVED"] ELSE queue[k]]
      /\ Goes(p, [job[p] EXCEPT !.pc = "flush"])
  BY DEF MarkResolved
<1>2. job[p] \in Process
  BY DEF Types
<1>3. PICK t : t = [job[p] EXCEPT !.pc = "flush"]
  OBVIOUS
<1>4. /\ t \in Process
      /\ t.pc = "flush" /\ t.listed = job[p].listed /\ t.rows = job[p].rows
      /\ t.recovered = job[p].recovered
  BY <1>2, <1>3, PcFacts DEF Process
<1>5. Becomes(p, t)
  BY <1>1, <1>3, <1>4, GoesBecomes DEF Types
<1>6. DOMAIN queue' = DOMAIN queue
  BY <1>1
<1>7. ASSUME NEW k \in DOMAIN queue
      PROVE  /\ queue'[k] \in Entry
             /\ queue'[k].payload = queue[k].payload
             /\ queue'[k].attempts = queue[k].attempts
             /\ queue'[k].status = IF k \in job[p].recovered THEN "RESOLVED"
                                   ELSE queue[k].status
  <2>1. queue[k] \in Entry
    BY DEF Types, QueueOK
  <2>2. CASE k \in job[p].recovered
    <3>1. queue'[k] = [queue[k] EXCEPT !.status = "RESOLVED"]
      BY <1>1, <2>2
    <3> QED
      BY <2>1, <2>2, <3>1, EntryMarked, StatusFacts
  <2>3. CASE k \notin job[p].recovered
    BY <1>1, <2>1, <2>3
  <2> QED
    BY <2>2, <2>3
<1>8. QueueOK(queue')
  <2>1. queue' \in [DOMAIN queue' -> Entry]
    BY <1>1, <1>6, <1>7
  <2> QED
    BY <1>6, <2>1 DEF Types, QueueOK
<1>9. Marks(p, t)
  BY <1>1, <1>4, <1>6, <1>7, <1>8 DEF Marks
<1> QED
  BY <1>4, <1>5, <1>9

\* The rows of a process reach the queue.
Flushes(p) ==
  /\ job[p].pc = "flush"
  /\ \E last \in Latest(job[p].rows) : UpsertOK(queue', job[p].rows, last)
  /\ parked' = parked \cup {job[p].rows[i].payload : i \in DOMAIN job[p].rows}

LEMMA FlushDoes ==
  ASSUME Types, NEW p \in Job, Flush(p)
  PROVE  Becomes(p, Idle) /\ Flushes(p)
<1>1. job[p].rows \in RowList
  BY ProcessParts DEF Types
<1>2. QueueOK(queue)
  BY DEF Types
<1>3. PICK last \in Latest(job[p].rows) : queue' = Upsert(job[p].rows, last)
  BY DEF Flush
<1>4. UpsertOK(queue', job[p].rows, last)
  BY <1>1, <1>2, <1>3, UpsertIs
<1>5. Becomes(p, Idle)
  BY IdleIs, GoesBecomes DEF Flush, Types
<1>6. Flushes(p)
  BY <1>4 DEF Flush, Flushes
<1> QED
  BY <1>5, <1>6

LEMMA FailDoes ==
  ASSUME Types, NEW p \in Job, Fail(p)
  PROVE  Becomes(p, Idle)
  BY IdleIs, GoesBecomes DEF Fail, Types

\* What processes have in hand stays in a queue that only grows.
LEMMA HandsKeep ==
  ASSUME Types, NEW p \in Job, NEW t \in Process, Becomes(p, t),
         DOMAIN queue \subseteq DOMAIN queue',
         Keys(t.listed) \subseteq DOMAIN queue',
         t.recovered \subseteq DOMAIN queue'
  PROVE  \A q \in Job : /\ Keys(job'[q].listed) \subseteq DOMAIN queue'
                        /\ job'[q].recovered \subseteq DOMAIN queue'
<1> TAKE q \in Job
<1>1. CASE q = p
  BY <1>1 DEF Becomes
<1>2. CASE q # p
  <2>1. job'[q] = job[q]
    BY <1>2 DEF Becomes
  <2> QED
    BY <2>1 DEF Types
<1> QED
  BY <1>1, <1>2

LEMMA NoKeys == Keys(<<>>) = {}
  BY DEF Keys

LEMMA InitTypes == Init => Types
<1> SUFFICES ASSUME Init
             PROVE  Types
  OBVIOUS
<1>1. QueueOK(queue)
  <2>1. queue = [k \in {} |-> <<>>]
    BY DEF Init
  <2>2. DOMAIN queue = {} /\ queue \in [{} -> Entry]
    BY <2>1
  <2> QED
    BY <2>2, FS_EmptySet DEF QueueOK
<1>2. job \in [Job -> Process] /\ \A p \in Job : job[p] = Idle
  BY IdleIs DEF Init
<1>3. \A p \in Job : Keys(job[p].listed) = {} /\ job[p].recovered = {}
  BY <1>2, IdleIs, NoKeys
<1>4. deployed \in DOMAIN Contracts
  BY DeadLetterAssumption DEF Init
<1> QED
  BY <1>1, <1>2, <1>3, <1>4 DEF Init, Types

LEMMA EnvironmentTypes ==
  ASSUME Types, Tick \/ Deploy
  PROVE  Types'
<1>1. UNCHANGED <<raw, queue, job, parked, failures>>
  BY DEF Tick, Deploy, History
<1>2. now' \in Nat
  BY DEF Tick, Deploy, Types
<1>3. deployed' \in DOMAIN Contracts
  <2>1. Contracts \in Seq(SUBSET Record)
    BY DeadLetterAssumption
  <2>2. DOMAIN Contracts = 1 .. Len(Contracts) /\ Len(Contracts) \in Nat
    BY <2>1
  <2> QED
    BY <2>2 DEF Tick, Deploy, Types
<1> QED
  BY <1>1, <1>2, <1>3 DEF Types, QueueOK

LEMMA ProcessTypes ==
  ASSUME Types, NEW p \in Job, Ingest(p) \/ List(p) \/ Step(p) \/ Fail(p)
  PROVE  Types'
<1>1. CASE Ingest(p)
  <2>1. PICK t \in Process, since \in Nat : Becomes(p, t) /\ Gathers(t, since)
    BY <1>1, IngestDoes
  <2>2. UNCHANGED <<now, deployed, queue, parked, failures>>
    BY <1>1 DEF Ingest, Environment, History
  <2>3. Keys(t.listed) = {} /\ t.recovered = {}
    BY <2>1, NoKeys DEF Gathers
  <2>4. \A q \in Job : /\ Keys(job'[q].listed) \subseteq DOMAIN queue'
                       /\ job'[q].recovered \subseteq DOMAIN queue'
    BY <2>1, <2>2, <2>3, HandsKeep
  <2> QED
    BY <2>1, <2>2, <2>4 DEF Types, QueueOK, Becomes, Gathers
<1>2. CASE List(p)
  <2>1. PICK t \in Process : Becomes(p, t) /\ Lists(t)
    BY <1>2, ListDoes
  <2>2. UNCHANGED <<now, deployed, raw, queue, parked, failures>>
    BY <1>2 DEF List, Environment, History
  <2>3. Keys(t.listed) \subseteq DOMAIN queue' /\ t.recovered = {}
    BY <2>1, <2>2 DEF Lists, Holds, Keys
  <2>4. \A q \in Job : /\ Keys(job'[q].listed) \subseteq DOMAIN queue'
                       /\ job'[q].recovered \subseteq DOMAIN queue'
    BY <2>1, <2>2, <2>3, HandsKeep
  <2> QED
    BY <2>1, <2>2, <2>4 DEF Types, QueueOK, Becomes
<1>3. CASE Validate(p)
  <2>1. PICK t \in Process : Becomes(p, t) /\ Validates(p, t)
    BY <1>3, ValidateDoes
  <2>2. UNCHANGED <<now, deployed, queue, parked, failures>>
    BY <1>3 DEF Validate, Environment, History
  <2>3. Keys(t.listed) \subseteq DOMAIN queue'
    BY <2>1, <2>2 DEF Validates, Types
  <2>4. t.recovered \subseteq Keys(t.listed)
    BY <2>1 DEF Validates, Keys
  <2>5. \A q \in Job : /\ Keys(job'[q].listed) \subseteq DOMAIN queue'
                       /\ job'[q].recovered \subseteq DOMAIN queue'
    BY <2>1, <2>2, <2>3, <2>4, HandsKeep
  <2> QED
    BY <2>1, <2>2, <2>5 DEF Types, QueueOK, Becomes, Validates
<1>4. CASE MarkResolved(p)
  <2>1. PICK t \in Process : Becomes(p, t) /\ Marks(p, t)
    BY <1>4, MarkDoes
  <2>2. UNCHANGED <<now, deployed, raw, parked, failures>>
    BY <1>4 DEF MarkResolved, Environment, History
  <2>3. /\ DOMAIN queue' = DOMAIN queue
        /\ Keys(t.listed) \subseteq DOMAIN queue'
        /\ t.recovered \subseteq DOMAIN queue'
    BY <2>1 DEF Marks, Types
  <2>4. \A q \in Job : /\ Keys(job'[q].listed) \subseteq DOMAIN queue'
                       /\ job'[q].recovered \subseteq DOMAIN queue'
    BY <2>1, <2>3, HandsKeep
  <2> QED
    BY <2>1, <2>2, <2>4 DEF Types, QueueOK, Becomes, Marks
<1>5. CASE Flush(p)
  <2>1. Becomes(p, Idle) /\ Flushes(p)
    BY <1>5, FlushDoes
  <2>2. UNCHANGED <<now, deployed, raw, failures>>
    BY <1>5 DEF Flush, Environment
  <2>3. DOMAIN queue \subseteq DOMAIN queue' /\ QueueOK(queue')
    BY <2>1 DEF Flushes, UpsertOK
  <2>4. Keys(Idle.listed) = {} /\ Idle.recovered = {} /\ Idle \in Process
    BY IdleIs, NoKeys
  <2>5. \A q \in Job : /\ Keys(job'[q].listed) \subseteq DOMAIN queue'
                       /\ job'[q].recovered \subseteq DOMAIN queue'
    BY <2>1, <2>3, <2>4, HandsKeep
  <2>6. job[p].rows \in RowList
    BY ProcessParts DEF Types
  <2>7. parked' \in SUBSET Record
    BY <2>1, <2>6, RowListParts DEF Flushes, Types
  <2> QED
    BY <2>1, <2>2, <2>3, <2>5, <2>7 DEF Types, QueueOK, Becomes
<1>6. CASE Fail(p)
  <2>1. Becomes(p, Idle)
    BY <1>6, FailDoes
  <2>2. UNCHANGED <<now, deployed, raw, queue, parked>>
    BY <1>6 DEF Fail, Environment
  <2>3. Keys(Idle.listed) = {} /\ Idle.recovered = {} /\ Idle \in Process
    BY IdleIs, NoKeys
  <2>4. \A q \in Job : /\ Keys(job'[q].listed) \subseteq DOMAIN queue'
                       /\ job'[q].recovered \subseteq DOMAIN queue'
    BY <2>1, <2>2, <2>3, HandsKeep
  <2>5. failures' \in Nat
    BY <1>6 DEF Fail, Types
  <2> QED
    BY <2>1, <2>2, <2>4, <2>5 DEF Types, QueueOK, Becomes
<1> QED
  BY <1>1, <1>2, <1>3, <1>4, <1>5, <1>6 DEF Step

LEMMA NextTypes ==
  ASSUME Types, [Next]_vars
  PROVE  Types'
<1>1. CASE Tick \/ Deploy
  BY <1>1, EnvironmentTypes
<1>2. CASE \E p \in Job : Ingest(p) \/ List(p) \/ Step(p) \/ Fail(p)
  BY <1>2, ProcessTypes
<1>3. CASE UNCHANGED vars
  BY <1>3 DEF vars, Types, QueueOK
<1> QED
  BY <1>1, <1>2, <1>3 DEF Next

LEMMA TypesImplyTypeOK == Types => TypeOK
<1> SUFFICES ASSUME Types
             PROVE  TypeOK
  OBVIOUS
<1>1. \A k \in DOMAIN queue : queue[k] \in Entry
  BY DEF Types, QueueOK
<1>2. ASSUME NEW p \in Job
      PROVE  /\ job[p].pc \in {"idle", "replay", "resolve", "flush"}
             /\ job[p].contract \subseteq Record
             /\ RowsOK(job[p].listed) /\ RowsOK(job[p].rows)
  <2>1. job[p] \in Process
    BY DEF Types
  <2> QED
    BY <2>1, ProcessParts, RowListParts DEF RowsOK, Pc
<1> QED
  BY <1>1, <1>2 DEF Types, TypeOK, QueueOK

LEMMA TypesHold == Spec => []Types
  BY InitTypes, NextTypes, PTL DEF Spec

\* Every variable keeps its type, and what a process has listed or recovered is
\* in the queue: entries are never deleted.
THEOREM TypeCorrect == Spec => []TypeOK
  BY TypesHold, TypesImplyTypeOK, PTL

\* A step is one of the environment, or one of these of a process.
EnvironmentMoves ==
  now \in Nat /\ now' \in Nat /\ now <= now' /\ UNCHANGED <<raw, queue, job, parked>>

Moves(p, t) ==
  \/ /\ \E since \in Nat : Gathers(t, since)
     /\ MayStart(p) /\ UNCHANGED <<now, queue, parked>>
  \/ Lists(t) /\ MayStart(p) /\ UNCHANGED <<now, raw, queue, parked>>
  \/ Validates(p, t) /\ UNCHANGED <<now, queue, parked>>
  \/ Marks(p, t) /\ UNCHANGED <<now, raw, parked>>
  \/ t = Idle /\ Flushes(p) /\ UNCHANGED <<now, raw>>
  \/ t = Idle /\ job[p].pc # "idle" /\ UNCHANGED <<now, raw, queue, parked>>

LEMMA ProcessMoves ==
  ASSUME Types, NEW p \in Job, Ingest(p) \/ List(p) \/ Step(p) \/ Fail(p)
  PROVE  \E t \in Process : Becomes(p, t) /\ Moves(p, t)
<1>1. CASE Ingest(p)
  <2>1. PICK t \in Process, since \in Nat : Becomes(p, t) /\ Gathers(t, since)
    BY <1>1, IngestDoes
  <2>2. MayStart(p) /\ UNCHANGED <<now, queue, parked>>
    BY <1>1 DEF Ingest, Environment, History
  <2> QED
    BY <2>1, <2>2 DEF Moves
<1>2. CASE List(p)
  <2>1. PICK t \in Process : Becomes(p, t) /\ Lists(t)
    BY <1>2, ListDoes
  <2>2. MayStart(p) /\ UNCHANGED <<now, raw, queue, parked>>
    BY <1>2 DEF List, Environment, History
  <2> QED
    BY <2>1, <2>2 DEF Moves
<1>3. CASE Validate(p)
  <2>1. PICK t \in Process : Becomes(p, t) /\ Validates(p, t)
    BY <1>3, ValidateDoes
  <2>2. UNCHANGED <<now, queue, parked>>
    BY <1>3 DEF Validate, Environment, History
  <2> QED
    BY <2>1, <2>2 DEF Moves
<1>4. CASE MarkResolved(p)
  <2>1. PICK t \in Process : Becomes(p, t) /\ Marks(p, t)
    BY <1>4, MarkDoes
  <2>2. UNCHANGED <<now, raw, parked>>
    BY <1>4 DEF MarkResolved, Environment, History
  <2> QED
    BY <2>1, <2>2 DEF Moves
<1>5. CASE Flush(p)
  <2>1. Becomes(p, Idle) /\ Flushes(p)
    BY <1>5, FlushDoes
  <2>2. UNCHANGED <<now, raw>>
    BY <1>5 DEF Flush, Environment
  <2> QED
    BY <2>1, <2>2, IdleIs DEF Moves
<1>6. CASE Fail(p)
  <2>1. Becomes(p, Idle)
    BY <1>6, FailDoes
  <2>2. job[p].pc # "idle" /\ UNCHANGED <<now, raw, queue, parked>>
    BY <1>6 DEF Fail, Environment
  <2> QED
    BY <2>1, <2>2, IdleIs DEF Moves
<1> QED
  BY <1>1, <1>2, <1>3, <1>4, <1>5, <1>6 DEF Step

LEMMA NextMoves ==
  ASSUME Types, [Next]_vars
  PROVE  \/ EnvironmentMoves
         \/ \E p \in Job, t \in Process : Becomes(p, t) /\ Moves(p, t)
<1>1. CASE Tick \/ Deploy
  <2>1. UNCHANGED <<raw, queue, job, parked>> /\ now' \in {now, now + 1}
    BY <1>1 DEF Tick, Deploy, History
  <2> QED
    BY <2>1 DEF EnvironmentMoves, Types
<1>2. CASE \E p \in Job : Ingest(p) \/ List(p) \/ Step(p) \/ Fail(p)
  BY <1>2, ProcessMoves
<1>3. CASE UNCHANGED vars
  BY <1>3 DEF vars, EnvironmentMoves, Types
<1> QED
  BY <1>1, <1>2, <1>3 DEF Next

-----------------------------------------------------------------------------
(* The budget.                                                             *)

BudgetOf(e) ==
  /\ e.status = "ABANDONED" => e.attempts = MaxAttempts
  /\ e.status = "PENDING" => e.attempts < MaxAttempts \/ MaxAttempts = 1

LEMMA BudgetIs == BudgetDecides <=> \A k \in DOMAIN queue : BudgetOf(queue[k])
  BY DEF BudgetDecides, BudgetOf

\* An upsert leaves every entry of its rows within the budget.
LEMMA UpsertBudget ==
  ASSUME Types, NEW rows \in RowList, NEW k \in Keys(rows),
         NEW e, e.attempts = Attempts(rows, k), e.status = StatusAfter(rows, k)
  PROVE  BudgetOf(e)
<1>1. /\ Attempts(rows, k) \in 1 .. MaxAttempts
      /\ \/ k \in DOMAIN queue \/ Cardinality(RowsOf(rows, k)) > 1
         \/ Attempts(rows, k) = 1
  BY AttemptsAre DEF Types
<1>2. MaxAttempts \in Nat /\ MaxAttempts >= 1
  BY DeadLetterAssumption
<1>3. StatusAfter(rows, k) = "ABANDONED" => Attempts(rows, k) >= MaxAttempts
  BY DEF StatusAfter
<1>4. StatusAfter(rows, k) = "PENDING" =>
        \/ ~(Attempts(rows, k) >= MaxAttempts)
        \/ ~(k \in DOMAIN queue \/ Cardinality(RowsOf(rows, k)) > 1)
  BY DEF StatusAfter
<1> QED
  BY <1>1, <1>2, <1>3, <1>4 DEF BudgetOf

LEMMA NextBudget ==
  ASSUME Types, BudgetDecides, [Next]_vars
  PROVE  BudgetDecides'
<1>1. ASSUME NEW p \in Job, NEW t \in Process, Marks(p, t)
      PROVE  BudgetDecides'
  BY <1>1 DEF Marks, BudgetDecides
<1>2. ASSUME NEW p \in Job, Flushes(p)
      PROVE  BudgetDecides'
  <2> DEFINE rows == job[p].rows
  <2>1. rows \in RowList
    BY ProcessParts DEF Types
  <2>2. PICK last \in Latest(rows) : UpsertOK(queue', rows, last)
    BY <1>2 DEF Flushes
  <2> HIDE DEF rows
  <2>3. \A k \in Keys(rows) : BudgetOf(queue'[k])
    BY <2>1, <2>2, UpsertBudget DEF UpsertOK
  <2>4. \A k \in DOMAIN queue' \ Keys(rows) : BudgetOf(queue'[k])
    BY <2>2, BudgetIs DEF UpsertOK
  <2>5. \A k \in DOMAIN queue' : BudgetOf(queue'[k])
    BY <2>3, <2>4
  <2> QED
    BY <2>5 DEF BudgetDecides, BudgetOf
<1>3. ASSUME UNCHANGED queue
      PROVE  BudgetDecides'
  BY <1>3 DEF BudgetDecides
<1> QED
  BY <1>1, <1>2, <1>3, NextMoves DEF Moves, EnvironmentMoves

\* Whoever spends the attempts of an entry, ingest or replay: it is abandoned
\* when its budget is used up and not before, and not left pending (deadletter.py,
\* CASE WHEN attempts + 1 >= :max_attempts).
THEOREM BudgetIsDecisive == Spec => []BudgetDecides
<1>1. Init => BudgetDecides
  BY DEF Init, BudgetDecides
<1> QED
  BY <1>1, TypesHold, NextBudget, PTL DEF Spec

-----------------------------------------------------------------------------
(* One process at a time.                                                  *)

Alone ==
  \A p, q \in Job : job[p].pc # "idle" /\ job[q].pc # "idle" => p = q

LEMMA OthersIdle ==
  ASSUME OneAtATime, Alone, NEW p \in Job, NEW t \in Process, Moves(p, t)
  PROVE  \A q \in Job \ {p} : job[q].pc = "idle"
<1>1. CASE MayStart(p)
  BY <1>1 DEF MayStart
<1>2. CASE job[p].pc # "idle"
  BY <1>2 DEF Alone
<1> QED
  BY <1>1, <1>2 DEF Moves, Validates, Marks, Flushes

LEMMA AloneNext ==
  ASSUME OneAtATime, Alone, NEW p \in Job, NEW t \in Process,
         Becomes(p, t), Moves(p, t)
  PROVE  /\ \A q \in Job \ {p} : job'[q].pc = "idle"
         /\ Alone'
<1>1. \A q \in Job \ {p} : job'[q].pc = "idle"
  BY OthersIdle DEF Becomes
<1> QED
  BY <1>1 DEF Alone

\* While nobody else writes the queue, what a replay has listed is what the
\* entries hold, and what it recovered is in raw before they are marked.
ReplayInHand(t) ==
  /\ t.pc = "replay" => Holds(queue, t.listed)
  /\ t.pc = "resolve" => \A k \in t.recovered : queue[k].payload \in raw

LandedInv ==
  /\ Alone
  /\ \A p \in Job : ReplayInHand(job[p])
  /\ ResolvedLanded

LEMMA ReplayInHandNext ==
  ASSUME Types, OneAtATime, LandedInv,
         NEW p \in Job, NEW t \in Process, Becomes(p, t), Moves(p, t)
  PROVE  \A q \in Job : ReplayInHand(job[q])'
<1>1. \A q \in Job \ {p} : job'[q].pc = "idle"
  BY AloneNext DEF LandedInv
<1>2. \A q \in Job \ {p} : ReplayInHand(job[q])'
  BY <1>1 DEF ReplayInHand
<1>3. ReplayInHand(job[p]) /\ job'[p] = t
  BY DEF LandedInv, Becomes
<1>4. ASSUME t.pc = "replay" PROVE Holds(queue', t.listed)
  <2>1. Lists(t) /\ UNCHANGED queue
    BY <1>4, IdleIs DEF Moves, Gathers, Validates, Marks
  <2> QED
    BY <2>1 DEF Lists
<1>5. ASSUME t.pc = "resolve", NEW k \in t.recovered
      PROVE  queue'[k].payload \in raw'
  <2>1. Validates(p, t) /\ UNCHANGED queue
    BY <1>5, IdleIs DEF Moves, Gathers, Lists, Marks
  <2>2. PICK i \in DOMAIN t.listed :
          t.listed[i].key = k /\ t.listed[i].payload \in raw'
    BY <1>5, <2>1 DEF Validates
  <2>3. t.listed[i].payload = queue[k].payload
    BY <1>3, <2>1, <2>2 DEF Validates, ReplayInHand, Holds
  <2> QED
    BY <2>1, <2>2, <2>3
<1>6. ReplayInHand(job[p])'
  BY <1>3, <1>4, <1>5 DEF ReplayInHand
<1> QED
  BY <1>2, <1>6

LEMMA ResolvedLandedNext ==
  ASSUME Types, LandedInv, NEW p \in Job, NEW t \in Process, Moves(p, t)
  PROVE  ResolvedLanded'
<1>1. ASSUME Marks(p, t), UNCHANGED raw
      PROVE  ResolvedLanded'
  <2>1. ReplayInHand(job[p])
    BY DEF LandedInv
  <2> QED
    BY <1>1, <2>1 DEF Marks, LandedInv, ResolvedLanded, ReplayInHand
<1>2. ASSUME Flushes(p), UNCHANGED raw
      PROVE  ResolvedLanded'
  <2>1. PICK last \in Latest(job[p].rows) : UpsertOK(queue', job[p].rows, last)
    BY <1>2 DEF Flushes
  <2>2. \A k \in Keys(job[p].rows) : queue'[k].status # "RESOLVED"
    BY <2>1 DEF UpsertOK, StatusAfter
  <2> QED
    BY <1>2, <2>1, <2>2 DEF UpsertOK, LandedInv, ResolvedLanded
<1>3. ASSUME UNCHANGED queue, raw \subseteq raw'
      PROVE  ResolvedLanded'
  BY <1>3 DEF LandedInv, ResolvedLanded
<1> QED
  BY <1>1, <1>2, <1>3 DEF Moves, Gathers, Validates

LEMMA LandedInvNext ==
  ASSUME Types, OneAtATime, LandedInv, [Next]_vars
  PROVE  LandedInv'
<1>1. CASE EnvironmentMoves
  BY <1>1 DEF EnvironmentMoves, LandedInv, Alone, ReplayInHand, ResolvedLanded
<1>2. CASE \E p \in Job, t \in Process : Becomes(p, t) /\ Moves(p, t)
  <2>1. PICK p \in Job, t \in Process : Becomes(p, t) /\ Moves(p, t)
    BY <1>2
  <2>2. Alone'
    BY <2>1, AloneNext DEF LandedInv
  <2>3. \A q \in Job : ReplayInHand(job[q])'
    BY <2>1, ReplayInHandNext
  <2>4. ResolvedLanded'
    BY <2>1, ResolvedLandedNext
  <2> QED
    BY <2>2, <2>3, <2>4 DEF LandedInv
<1> QED
  BY <1>1, <1>2, NextMoves

LEMMA InitLanded == Init => LandedInv
<1> SUFFICES ASSUME Init
             PROVE  LandedInv
  OBVIOUS
<1>1. \A p \in Job : job[p] = Idle
  BY DEF Init
<1>2. DOMAIN queue = {}
  BY DEF Init
<1> QED
  BY <1>1, <1>2, IdleIs DEF LandedInv, Alone, ReplayInHand, ResolvedLanded

LEMMA LandedHolds == OneAtATime => (Spec => []LandedInv)
<1> SUFFICES ASSUME OneAtATime
             PROVE  Spec => []LandedInv
  OBVIOUS
<1>1. LandedInv /\ Types /\ [Next]_vars => LandedInv'
  BY LandedInvNext
<1> QED
  BY <1>1, TypesHold, InitLanded, PTL DEF Spec

\* When processes take turns an entry marked RESOLVED holds what is in raw,
\* though landing the payloads and marking the entries are two transactions and
\* a process may die between them.
THEOREM ResolvedIsLanded == OneAtATime => (Spec => []ResolvedLanded)
<1> SUFFICES ASSUME OneAtATime
             PROVE  Spec => []ResolvedLanded
  OBVIOUS
<1>1. Spec => []LandedInv
  BY LandedHolds
<1>2. LandedInv => ResolvedLanded
  BY DEF LandedInv
<1> QED
  BY <1>1, <1>2, PTL

-----------------------------------------------------------------------------
(* What was parked is not lost.                                            *)

\* The rows of a process, on their way to the queue: of each natural key the
\* last one is the newest, and no older than what was parked under the key,
\* unless that is in raw.
NewestLast(rows) ==
  \A i, j \in DOMAIN rows :
    rows[i].key = rows[j].key /\ rows[i].key \notin Unkeyed /\ i <= j
      => rows[i].payload[1] <= rows[j].payload[1]

Covers(rows) ==
  \A r \in parked :
    KeyOf[r] # NoKey /\ KeyOf[r] \in Keys(rows)
      => r \in raw \/ \E i \in RowsOf(rows, KeyOf[r]) : rows[i].payload[1] >= r[1]

RowsInHand(t) ==
  t.pc \in {"resolve", "flush"} =>
    /\ Named(t.rows) /\ NewestLast(t.rows) /\ Covers(t.rows)
    /\ \A i \in DOMAIN t.rows : t.rows[i].payload[1] <= now

\* An entry is named after its payload, and nothing is newer than the clock.
EntriesOK ==
  \A k \in DOMAIN queue :
    Names(k, queue[k].payload) /\ queue[k].payload[1] <= now

KeptByKey ==
  \A r \in parked :
    /\ r[1] <= now
    /\ \/ r \in raw
       \/ KeyOf[r] = NoKey
       \/ /\ KeyOf[r] \in DOMAIN queue
          /\ queue[KeyOf[r]].payload[1] >= r[1]

KeptInv ==
  /\ \A p \in Job : RowsInHand(job[p])
  /\ EntriesOK
  /\ KeptByKey

LEMMA GathersInHand ==
  ASSUME Types, KeptInv, NEW t \in Process, NEW since \in Nat,
         Gathers(t, since), UNCHANGED <<now, parked>>
  PROVE  RowsInHand(t)'
<1>1. t.rows \in RowList
  BY ProcessParts
<1>2. \A i \in DOMAIN t.rows : t.rows[i].payload \in Record
                               /\ t.rows[i].payload[1] \in Nat
  BY <1>1, RowListParts, RecordFacts
<1>3. \A i \in DOMAIN t.rows :
        KeyOf[t.rows[i].payload] # NoKey => t.rows[i].key = KeyOf[t.rows[i].payload]
  BY <1>2, NamesFacts DEF Gathers, Named
<1>4. ASSUME NEW r \in parked, KeyOf[r] # NoKey, KeyOf[r] \in Keys(t.rows)
      PROVE  \/ r \in raw'
             \/ \E i \in RowsOf(t.rows, KeyOf[r]) : t.rows[i].payload[1] >= r[1]
  <2>1. r \in Record /\ r[1] \in Nat /\ r[1] <= now
    BY RecordFacts DEF Types, KeptInv, KeptByKey
  <2>2. CASE since <= r[1]
    <3>1. r \in raw' \/ \E i \in DOMAIN t.rows : t.rows[i].payload = r
      BY <2>1, <2>2 DEF Gathers
    <3> QED
      BY <1>3, <1>4, <2>1, <3>1 DEF RowsOf
  <2>3. CASE r[1] < since
    <3>1. PICK i \in DOMAIN t.rows : t.rows[i].key = KeyOf[r]
      BY <1>4 DEF Keys
    <3>2. since <= t.rows[i].payload[1]
      BY DEF Gathers
    <3>3. t.rows[i].payload[1] >= r[1]
      BY <1>2, <2>1, <2>3, <3>2
    <3> QED
      BY <3>1, <3>3 DEF RowsOf
  <2> QED
    BY <2>1, <2>2, <2>3
<1>5. Covers(t.rows)'
  BY <1>4 DEF Covers
<1>6. \A i \in DOMAIN t.rows : t.rows[i].payload[1] <= now'
  BY DEF Gathers
<1> QED
  BY <1>5, <1>6 DEF RowsInHand, Gathers, InOrder, NewestLast

LEMMA ValidatesInHand ==
  ASSUME Types, LandedInv, KeptInv, NEW p \in Job, NEW t \in Process,
         Validates(p, t), UNCHANGED <<now, queue, parked>>
  PROVE  RowsInHand(t)'
<1>1. t.rows \in RowList
  BY ProcessParts
<1>2. \A i \in DOMAIN t.rows : t.rows[i].payload \in Record
                               /\ t.rows[i].payload[1] \in Nat
  BY <1>1, RowListParts, RecordFacts
<1>3. Holds(queue, t.listed)
  BY DEF LandedInv, ReplayInHand, Validates
<1>4. ASSUME NEW i \in DOMAIN t.rows
      PROVE  /\ t.rows[i].payload[1] <= now
             /\ t.rows[i].key \notin Unkeyed
                  => /\ t.rows[i].key \in DOMAIN queue
                     /\ t.rows[i].payload = queue[t.rows[i].key].payload
  <2>1. Names(t.rows[i].key, t.rows[i].payload)
    BY DEF Validates, Named
  <2>2. i \in DOMAIN t.listed /\ t.rows[i].payload = t.listed[i].payload
    BY DEF Validates
  <2>3. /\ t.listed[i].key \in DOMAIN queue
        /\ t.listed[i].payload = queue[t.listed[i].key].payload
    BY <1>3, <2>2 DEF Holds
  <2>4. Names(t.listed[i].key, t.rows[i].payload) /\ t.rows[i].payload[1] <= now
    BY <2>2, <2>3 DEF KeptInv, EntriesOK
  <2>5. t.rows[i].key \notin Unkeyed => t.listed[i].key = t.rows[i].key
    BY <1>2, <2>1, <2>4 DEF Names
  <2> QED
    BY <2>2, <2>3, <2>4, <2>5
<1>5. NewestLast(t.rows)
  BY <1>2, <1>4 DEF NewestLast
<1>6. ASSUME NEW r \in parked, KeyOf[r] # NoKey, KeyOf[r] \in Keys(t.rows)
      PROVE  \/ r \in raw'
             \/ \E i \in RowsOf(t.rows, KeyOf[r]) : t.rows[i].payload[1] >= r[1]
  <2>1. PICK i \in DOMAIN t.rows : t.rows[i].key = KeyOf[r]
    BY <1>6 DEF Keys
  <2>2. i \in RowsOf(t.rows, KeyOf[r])
    BY <2>1 DEF RowsOf
  <2>3. r \in raw \/ queue[KeyOf[r]].payload[1] >= r[1]
    BY <1>6 DEF KeptInv, KeptByKey
  <2>4. raw \subseteq raw'
    BY DEF Validates
  <2>5. KeyOf[r] \notin Unkeyed
    BY DeadLetterAssumption DEF Types
  <2> QED
    BY <1>4, <2>1, <2>2, <2>3, <2>4, <2>5
<1>7. Covers(t.rows)'
  BY <1>6 DEF Covers
<1>8. \A i \in DOMAIN t.rows : t.rows[i].payload[1] <= now'
  BY <1>4
<1> QED
  BY <1>5, <1>7, <1>8 DEF RowsInHand, Validates

LEMMA RowsInHandNext ==
  ASSUME Types, OneAtATime, LandedInv, KeptInv,
         NEW p \in Job, NEW t \in Process, Becomes(p, t), Moves(p, t)
  PROVE  \A q \in Job : RowsInHand(job[q])'
<1>1. \A q \in Job \ {p} : job'[q].pc = "idle"
  BY AloneNext DEF LandedInv
<1>2. \A q \in Job \ {p} : RowsInHand(job[q])'
  BY <1>1 DEF RowsInHand
<1>3. RowsInHand(t)'
  <2>1. CASE \E since \in Nat : Gathers(t, since) /\ UNCHANGED <<now, parked>>
    BY <2>1, GathersInHand
  <2>2. CASE t.pc \in {"idle", "replay"}
    BY <2>2 DEF RowsInHand
  <2>3. CASE Validates(p, t) /\ UNCHANGED <<now, queue, parked>>
    BY <2>3, ValidatesInHand
  <2>4. CASE Marks(p, t) /\ UNCHANGED <<now, raw, parked>>
    <3>1. RowsInHand(job[p])
      BY DEF KeptInv
    <3> QED
      BY <2>4, <3>1 DEF Marks, RowsInHand, Covers
  <2> QED
    BY <2>1, <2>2, <2>3, <2>4, IdleIs DEF Moves, Lists
<1>4. RowsInHand(job[p])'
  BY <1>3 DEF Becomes, RowsInHand, Covers
<1> QED
  BY <1>2, <1>4

\* A flush leaves in each entry of its rows the newest of them.
LEMMA FlushKeeps ==
  ASSUME Types, KeptInv, NEW p \in Job, Flushes(p),
         UNCHANGED <<now, raw>>
  PROVE  EntriesOK' /\ KeptByKey'
<1> DEFINE rows == job[p].rows
<1>1. rows \in RowList
  BY ProcessParts DEF Types
<1>2. /\ Named(rows) /\ NewestLast(rows) /\ Covers(rows)
      /\ \A i \in DOMAIN rows : rows[i].payload[1] <= now
  BY DEF Flushes, KeptInv, RowsInHand
<1>3. PICK last \in Latest(rows) : UpsertOK(queue', rows, last)
  BY DEF Flushes
<1>4. parked' = parked \cup {rows[i].payload : i \in DOMAIN rows}
  BY DEF Flushes
<1> HIDE DEF rows
<1>5. \A i \in DOMAIN rows : rows[i].payload \in Record
                             /\ rows[i].payload[1] \in Nat
  BY <1>1, RowListParts, RecordFacts
<1>6. \A i \in DOMAIN rows : Names(rows[i].key, rows[i].payload)
  BY <1>2 DEF Named
<1>7. ASSUME NEW k \in Keys(rows)
      PROVE  /\ k \in DOMAIN queue'
             /\ queue'[k].payload \in Record
             /\ Names(k, queue'[k].payload)
             /\ queue'[k].payload[1] <= now
             /\ k \notin Unkeyed => \A i \in RowsOf(rows, k) :
                  queue'[k].payload[1] >= rows[i].payload[1]
  <2>1. /\ last[k] \in RowsOf(rows, k)
        /\ \A i \in RowsOf(rows, k) : i <= last[k]
    BY <1>3 DEF Latest
  <2>2. last[k] \in DOMAIN rows /\ rows[last[k]].key = k
    BY <2>1 DEF RowsOf
  <2>3. queue'[k].payload = rows[last[k]].payload /\ k \in DOMAIN queue'
    BY <1>3 DEF UpsertOK
  <2>4. k \notin Unkeyed => \A i \in RowsOf(rows, k) :
          rows[last[k]].payload[1] >= rows[i].payload[1]
    BY <1>2, <1>5, <2>1, <2>2 DEF RowsOf, NewestLast
  <2> QED
    BY <1>2, <1>5, <1>6, <2>2, <2>3, <2>4
<1>8. EntriesOK'
  <2>1. \A k \in DOMAIN queue' \ Keys(rows) :
          k \in DOMAIN queue /\ queue'[k] = queue[k]
    BY <1>3 DEF UpsertOK
  <2>2. \A k \in DOMAIN queue' :
          Names(k, queue'[k].payload) /\ queue'[k].payload[1] <= now
    BY <1>7, <2>1 DEF KeptInv, EntriesOK
  <2> QED
    BY <2>2 DEF EntriesOK
<1>9. ASSUME NEW r \in parked'
      PROVE  /\ r[1] <= now
             /\ \/ r \in raw
                \/ KeyOf[r] = NoKey
                \/ /\ KeyOf[r] \in DOMAIN queue'
                   /\ queue'[KeyOf[r]].payload[1] >= r[1]
  <2>1. CASE r \in parked
    <3>1. /\ r \in Record /\ r[1] \in Nat /\ r[1] <= now
          /\ \/ r \in raw
             \/ KeyOf[r] = NoKey
             \/ /\ KeyOf[r] \in DOMAIN queue
                /\ queue[KeyOf[r]].payload[1] >= r[1]
          /\ KeyOf[r] \notin Unkeyed
      BY <2>1, RecordFacts, DeadLetterAssumption DEF Types, KeptInv, KeptByKey
    <3>2. CASE KeyOf[r] \in Keys(rows)
      <4>1. CASE r \in raw \/ KeyOf[r] = NoKey
        BY <3>1, <4>1
      <4>2. CASE r \notin raw /\ KeyOf[r] # NoKey
        <5>1. PICK i \in RowsOf(rows, KeyOf[r]) : rows[i].payload[1] >= r[1]
          BY <1>2, <2>1, <3>2, <4>2 DEF Covers
        <5>2. rows[i].payload[1] \in Nat
          BY <1>5, <5>1 DEF RowsOf
        <5>3. queue'[KeyOf[r]].payload[1] >= rows[i].payload[1]
              /\ queue'[KeyOf[r]].payload[1] \in Nat
          BY <1>7, <3>1, <3>2, <5>1, RecordFacts
        <5>4. queue'[KeyOf[r]].payload[1] >= r[1]
          BY <3>1, <5>1, <5>2, <5>3
        <5> QED
          BY <1>7, <3>1, <3>2, <5>4
      <4> QED
        BY <4>1, <4>2
    <3>3. CASE KeyOf[r] \notin Keys(rows)
      BY <1>3, <3>1, <3>3 DEF UpsertOK
    <3> QED
      BY <3>2, <3>3
  <2>2. CASE r \notin parked
    <3>1. PICK i \in DOMAIN rows : r = rows[i].payload
      BY <1>4, <2>2
    <3>2. CASE KeyOf[r] = NoKey
      BY <1>2, <3>1, <3>2
    <3>3. CASE KeyOf[r] # NoKey
      <4>1. /\ KeyOf[r] \in Keys(rows) /\ i \in RowsOf(rows, KeyOf[r])
            /\ KeyOf[r] \notin Unkeyed
        BY <1>5, <1>6, <3>1, <3>3, NamesFacts DEF Keys, RowsOf
      <4> QED
        BY <1>2, <1>7, <3>1, <4>1
    <3> QED
      BY <3>2, <3>3
  <2> QED
    BY <2>1, <2>2
<1>10. KeptByKey'
  BY <1>9 DEF KeptByKey
<1> QED
  BY <1>8, <1>10

LEMMA KeptInvNext ==
  ASSUME Types, OneAtATime, LandedInv, KeptInv, [Next]_vars
  PROVE  KeptInv'
<1>1. CASE EnvironmentMoves
  <2>1. /\ now \in Nat /\ now' \in Nat /\ now <= now'
        /\ UNCHANGED <<raw, queue, job, parked>>
    BY <1>1 DEF EnvironmentMoves
  <2>2. ASSUME NEW p \in Job
        PROVE  RowsInHand(job[p])'
    <3>1. RowsInHand(job[p]) /\ job[p].rows \in RowList
      BY ProcessParts DEF KeptInv, Types
    <3>2. \A i \in DOMAIN job[p].rows : job[p].rows[i].payload[1] \in Nat
      BY <3>1, RowListParts, RecordFacts
    <3> QED
      BY <2>1, <3>1, <3>2 DEF RowsInHand, Covers
  <2>3. \A k \in DOMAIN queue : queue[k].payload[1] \in Nat
    BY RecordFacts DEF Types, QueueOK, Entry
  <2>4. \A r \in parked : r[1] \in Nat
    BY RecordFacts DEF Types
  <2>5. EntriesOK'
    BY <2>1, <2>3 DEF KeptInv, EntriesOK
  <2>6. KeptByKey'
    BY <2>1, <2>4 DEF KeptInv, KeptByKey
  <2> QED
    BY <2>2, <2>5, <2>6 DEF KeptInv
<1>2. CASE \E p \in Job, t \in Process : Becomes(p, t) /\ Moves(p, t)
  <2>1. PICK p \in Job, t \in Process : Becomes(p, t) /\ Moves(p, t)
    BY <1>2
  <2>2. \A q \in Job : RowsInHand(job[q])'
    BY <2>1, RowsInHandNext
  <2>3. EntriesOK' /\ KeptByKey'
    <3>1. CASE UNCHANGED <<now, queue, parked>> /\ raw \subseteq raw'
      BY <3>1 DEF KeptInv, EntriesOK, KeptByKey
    <3>2. CASE Marks(p, t) /\ UNCHANGED <<now, raw, parked>>
      BY <3>2 DEF Marks, KeptInv, EntriesOK, KeptByKey
    <3>3. CASE Flushes(p) /\ UNCHANGED <<now, raw>>
      BY <3>3, FlushKeeps
    <3> QED
      BY <2>1, <3>1, <3>2, <3>3 DEF Moves, Gathers, Validates
  <2> QED
    BY <2>2, <2>3 DEF KeptInv
<1> QED
  BY <1>1, <1>2, NextMoves

LEMMA InitKept == Init => KeptInv
<1> SUFFICES ASSUME Init
             PROVE  KeptInv
  OBVIOUS
<1>1. \A p \in Job : job[p] = Idle
  BY DEF Init
<1>2. DOMAIN queue = {} /\ parked = {}
  BY DEF Init
<1> QED
  BY <1>1, <1>2, IdleIs DEF KeptInv, RowsInHand, EntriesOK, KeptByKey

LEMMA KeptInvIsKept ==
  ASSUME Types, KeptInv
  PROVE  Kept
<1> SUFFICES ASSUME NEW r \in parked, r \notin raw, KeyOf[r] # NoKey
             PROVE  /\ KeyOf[r] \in DOMAIN queue
                    /\ KeyOf[queue[KeyOf[r]].payload] = KeyOf[r]
                    /\ queue[KeyOf[r]].payload[1] >= r[1]
  BY DEF Kept
<1> DEFINE k == KeyOf[r]
<1>1. k \in DOMAIN queue /\ queue[k].payload[1] >= r[1]
  BY DEF KeptInv, KeptByKey
<1>2. r \in Record /\ queue[k].payload \in Record
  BY <1>1 DEF Types, QueueOK, Entry
<1>3. k \notin Unkeyed
  BY <1>2, DeadLetterAssumption
<1>4. KeyOf[queue[k].payload] = k
  BY <1>1, <1>2, <1>3, NamesFacts DEF KeptInv, EntriesOK
<1> QED
  BY <1>1, <1>4

\* A record that was parked is in raw, or the entry of its natural key holds a
\* record of that key no older than it: re-reading a window, replaying under
\* another contract and dying between two transactions lose none but to another
\* record of the key, when processes take turns (DeadLetterBuffer.flush,
\* replay_dead_letters).
THEOREM ParkedIsKept == OneAtATime => (Spec => []Kept)
<1> SUFFICES ASSUME OneAtATime
             PROVE  Spec => []Kept
  OBVIOUS
<1>1. Spec => []LandedInv
  BY LandedHolds
<1>2. KeptInv /\ Types /\ LandedInv /\ [Next]_vars => KeptInv'
  BY KeptInvNext
<1>3. Types /\ KeptInv => Kept
  BY KeptInvIsKept
<1> QED
  BY <1>1, <1>2, <1>3, TypesHold, InitKept, PTL DEF Spec
=============================================================================
