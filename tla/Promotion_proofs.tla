--------------------------- MODULE Promotion_proofs ---------------------------
(***************************************************************************)
(* Proofs about Promotion for every set of sites, meters, readings, rows   *)
(* and jobs.                                                               *)
(*                                                                         *)
(* Types, foreign keys and NoRollback need no more than that a reading     *)
(* that was joined has its meter in core.  For FullCovers the invariant    *)
(* follows a full promotion from transaction to transaction: what the      *)
(* statements have read contains the rows it is to cover, the reference    *)
(* rows among them are in core once the first transaction is over, and     *)
(* when the readings are written core holds nothing the statement had not  *)
(* seen, so that its rows win and bring the multipliers of core with them. *)
(* The last two hold because promotions take turns.  Of the versions alone *)
(* the same argument needs no turns, since no upsert puts an older version *)
(* over a newer one: core is a layer over raw however promotions overlap.  *)
(***************************************************************************)
EXTENDS Promotion, WellFoundedInduction, TLAPS

\* Entities, the parent of one, and rows are what they seem.
LEMMA EntityFacts ==
  /\ \A m \in Meter : Parent[m] \in Site /\ m \in Entity /\ m \notin Site
  /\ \A r \in Reading : /\ Parent[r] \in Meter /\ r \in Entity
                        /\ r \notin Meter /\ r \notin Site
  /\ \A s \in Site : s \in Entity
  /\ \A w \in Row : w[1] \in Entity /\ w[2] \in Nat /\ w[2] > 0
                    /\ w = <<w[1], w[2]>>
<1>1. Row \subseteq Entity \X (Nat \ {0})
  BY EntityAssumption
<1>2. \A w \in Row : w[1] \in Entity /\ w[2] \in Nat /\ w[2] > 0
                     /\ w = <<w[1], w[2]>>
  BY <1>1
<1> QED
  BY <1>2, EntityAssumption DEF Entity

-----------------------------------------------------------------------------
(* What a statement of a promotion does to core.                           *)

\* The version of an entity after an upsert is the one it had, or that of a row
\* of the upsert that is no older.
LEMMA UpsertedIs ==
  ASSUME core \in [Entity -> Nat], NEW entities, NEW rows \in SUBSET Row,
         NEW e \in Entity
  PROVE  /\ Upserted(entities, rows)[e] \in Nat
         /\ Upserted(entities, rows)[e] >= core[e]
         /\ \/ Upserted(entities, rows)[e] = core[e]
            \/ e \in entities /\ <<e, Upserted(entities, rows)[e]>> \in rows
<1>1. CASE e \in entities /\ \E w \in rows : w[1] = e /\ Wins(rows, w)
  <2>1. PICK w \in rows :
          w = (CHOOSE v \in rows : v[1] = e /\ Wins(rows, v))
          /\ w[1] = e /\ Wins(rows, w)
    BY <1>1
  <2>2. Upserted(entities, rows)[e] = w[2]
    BY <1>1, <2>1 DEF Upserted
  <2>3. w \in Row /\ w[2] \in Nat /\ w = <<w[1], w[2]>>
    BY <2>1, EntityFacts
  <2>4. w[2] >= core[e]
    BY <2>1 DEF Wins
  <2> QED
    BY <1>1, <2>1, <2>2, <2>3, <2>4
<1>2. CASE ~(e \in entities /\ \E w \in rows : w[1] = e /\ Wins(rows, w))
  <2>1. Upserted(entities, rows)[e] = core[e]
    BY <1>2 DEF Upserted
  <2> QED
    BY <2>1
<1> QED
  BY <1>1, <1>2

\* An upsert leaves core a table of versions.
LEMMA UpsertedType ==
  ASSUME core \in [Entity -> Nat], NEW entities, NEW rows \in SUBSET Row
  PROVE  Upserted(entities, rows) \in [Entity -> Nat]
<1>1. \A e \in Entity : Upserted(entities, rows)[e] \in Nat
  BY UpsertedIs
<1> QED
  BY <1>1 DEF Upserted

\* No upsert takes an entity out of core.
LEMMA UpsertedKeeps ==
  ASSUME core \in [Entity -> Nat], NEW entities, NEW rows \in SUBSET Row,
         NEW e \in Entity, core[e] # 0
  PROVE  Upserted(entities, rows)[e] # 0
<1>1. core[e] \in Nat /\ Upserted(entities, rows)[e] \in Nat
      /\ Upserted(entities, rows)[e] >= core[e]
  BY UpsertedIs
<1> QED
  BY <1>1

\* What happens to an entity does not depend on the others in the statement.
LEMMA UpsertedLocal ==
  ASSUME NEW E, NEW F, NEW rows, NEW e \in Entity, e \in E, e \in F
  PROVE  Upserted(E, rows)[e] = Upserted(F, rows)[e]
  BY DEF Upserted

-----------------------------------------------------------------------------
(* Types, the foreign keys and the join.                                   *)

\* The readings a promotion is about to write have their meter in core.
JoinHolds ==
  \A p \in Job :
    pc[p] = "upsert" =>
      \A w \in read[p].rows : w[1] \in Reading /\ core[Parent[w[1]]] # 0

ReadType == [rows : SUBSET Row, meters : [Meter -> Nat]]

LEMMA NothingType == Nothing \in ReadType
  BY DEF Nothing, ReadType

\* A transaction that has read the sites only.
LEMMA SitesRead ==
  ASSUME NEW rows
  PROVE  [Nothing EXCEPT !.rows = rows]
           = [rows |-> rows, meters |-> [m \in Meter |-> 0]]
<1>1. ASSUME NEW r, NEW m
      PROVE  [[rows |-> r, meters |-> m] EXCEPT !.rows = rows]
               = [rows |-> rows, meters |-> m]
  OBVIOUS
<1> QED
  BY <1>1 DEF Nothing

LEMMA SitesReadType ==
  ASSUME NEW rows \in SUBSET Row
  PROVE  [Nothing EXCEPT !.rows = rows] \in ReadType
<1>1. [m \in Meter |-> 0] \in [Meter -> Nat]
  OBVIOUS
<1>2. [rows |-> rows, meters |-> [m \in Meter |-> 0]] \in ReadType
  BY <1>1 DEF ReadType
<1> QED
  BY <1>2, SitesRead

LEMMA LandedIsRow == Landed \subseteq Row
  BY DEF Landed

LEMMA ScopeIsRow ==
  ASSUME NEW p
  PROVE  Scope(p) \subseteq Row
  BY DEF Scope, Landed

\* The rows of the reference statements, and of the join, are rows.
LEMMA RowsAreRow ==
  ASSUME TypeOK, NEW p \in Job
  PROVE  /\ read[p].rows \in SUBSET Row
         /\ References(p) \in SUBSET Row
         /\ Joined(Scope(p)) \in SUBSET Row
         /\ read[p].meters \in [Meter -> Nat]
<1>1. read[p] \in ReadType
  BY DEF TypeOK, ReadType
<1> QED
  BY <1>1, ScopeIsRow DEF ReadType, References, Joined

\* The end of a job leaves everything typed.
LEMMA LeaveType ==
  ASSUME TypeOK, NEW p \in Job, Leave(p)
  PROVE  /\ raw' \in [Row -> {None, Old} \cup Job]
         /\ pc' \in [Job -> {"idle", "ingest", "reference", "meters", "readings",
                             "upsert"}]
         /\ read' \in [Job -> ReadType]
         /\ started' \in [Job -> SUBSET Row]
<1>1. raw' \in [Row -> {None, Old} \cup Job]
  BY DEF Leave, Closed, TypeOK
<1> QED
  BY <1>1, NothingType DEF Leave, TypeOK, ReadType

\* A step never lowers the version of an entity.
LEMMA CoreGrows ==
  ASSUME TypeOK, [Next]_vars, NEW e \in Entity
  PROVE  core'[e] >= core[e]
<1>0. core \in [Entity -> Nat] /\ core[e] \in Nat
  BY DEF TypeOK
<1>1. ASSUME NEW p \in Job, PromoteReference(p)
      PROVE  core'[e] >= core[e]
  BY <1>0, <1>1, RowsAreRow, UpsertedIs DEF PromoteReference
<1>2. ASSUME NEW p \in Job, UpsertReadings(p)
      PROVE  core'[e] >= core[e]
  BY <1>0, <1>2, RowsAreRow, UpsertedIs DEF UpsertReadings
<1>3. CASE core' = core
  BY <1>0, <1>3
<1> QED
  BY <1>1, <1>2, <1>3
  DEF Next, Promote, vars, Deliver, BeginRun, Land, EndIngest, BeginPromote,
      ReadSites, RejectReference, ReadReadings, Fail

\* An entity that is in core stays there.
LEMMA StaysInCore ==
  ASSUME TypeOK, core' \in [Entity -> Nat], [Next]_vars, NEW e \in Entity,
         core[e] # 0
  PROVE  core'[e] # 0
<1>1. core[e] \in Nat /\ core'[e] \in Nat /\ core'[e] >= core[e]
  BY CoreGrows DEF TypeOK
<1> QED
  BY <1>1

\* The statement for the meters leaves no meter without its site.
LEMMA ReferencesKeepKeys ==
  ASSUME TypeOK, core' \in [Entity -> Nat], NEW p \in Job, PromoteReference(p)
  PROVE  \A e \in Meter \cup Reading : core'[e] # 0 => core'[Parent[e]] # 0
<1> DEFINE rows == References(p)
<1>1. rows \in SUBSET Row /\ core \in [Entity -> Nat]
  BY RowsAreRow DEF TypeOK
<1>2. core' = Upserted(Site \cup Meter, rows) /\ ReferencesHold(rows)
  BY DEF PromoteReference
<1> HIDE DEF rows
<1>3. \A e \in Entity : core[e] # 0 => core'[e] # 0
  BY <1>1, <1>2, UpsertedKeeps
<1>4. ASSUME NEW e \in Meter, core'[e] # 0
      PROVE  core'[Parent[e]] # 0
  <2>1. CASE core[e] # 0
    <3>1. core[Parent[e]] # 0
      BY <2>1 DEF TypeOK
    <3> QED
      BY <1>3, <3>1, EntityFacts
  <2>2. CASE core[e] = 0
    <3>1. <<e, core'[e]>> \in rows
      BY <1>1, <1>2, <1>4, <2>2, UpsertedIs, EntityFacts
    <3>2. Upserted(Site, rows)[Parent[e]] # 0
      BY <1>2, <3>1 DEF ReferencesHold
    <3>3. Parent[e] \in Site /\ Parent[e] \in Entity
      BY EntityFacts
    <3>4. Upserted(Site, rows)[Parent[e]]
            = Upserted(Site \cup Meter, rows)[Parent[e]]
      BY <3>3, UpsertedLocal
    <3> QED
      BY <1>2, <3>2, <3>4
  <2> QED
    BY <2>1, <2>2
<1>5. ASSUME NEW e \in Reading, core'[e] # 0
      PROVE  core'[Parent[e]] # 0
  <2>0. e \in Entity /\ e \notin Site \cup Meter
    BY EntityFacts
  <2>1. core'[e] = core[e]
    BY <1>1, <1>2, <2>0, UpsertedIs
  <2>2. core[Parent[e]] # 0
    BY <1>5, <2>1 DEF TypeOK
  <2> QED
    BY <1>3, <2>2, EntityFacts
<1> QED
  BY <1>4, <1>5

\* The readings that were joined are written under meters that are still there.
LEMMA ReadingsKeepKeys ==
  ASSUME TypeOK, JoinHolds, core' \in [Entity -> Nat], NEW p \in Job,
         UpsertReadings(p)
  PROVE  \A e \in Meter \cup Reading : core'[e] # 0 => core'[Parent[e]] # 0
<1> DEFINE rows == read[p].rows
<1>1. rows \in SUBSET Row /\ core \in [Entity -> Nat]
  BY RowsAreRow DEF TypeOK
<1>2. core' = Upserted(Reading, rows) /\ pc[p] = "upsert"
  BY DEF UpsertReadings
<1>3. \A e \in Entity : core[e] # 0 => core'[e] # 0
  BY <1>1, <1>2, UpsertedKeeps
<1>4. ASSUME NEW e \in Meter \cup Reading, core'[e] # 0
      PROVE  core[Parent[e]] # 0
  <2>0. e \in Entity
    BY EntityFacts
  <2>1. CASE core'[e] = core[e]
    BY <1>4, <2>1 DEF TypeOK
  <2>2. CASE core'[e] # core[e]
    <3>1. <<e, core'[e]>> \in rows
      BY <1>1, <1>2, <2>0, <2>2, UpsertedIs
    <3>2. core[Parent[<<e, core'[e]>>[1]]] # 0
      BY <1>2, <3>1 DEF JoinHolds
    <3> QED
      BY <3>2
  <2> QED
    BY <2>1, <2>2
<1> QED
  BY <1>3, <1>4, EntityFacts

\* Every step keeps the state well typed and the foreign keys satisfied.
LEMMA TypeStep == TypeOK /\ JoinHolds /\ [Next]_vars => TypeOK'
<1> SUFFICES ASSUME TypeOK, JoinHolds, [Next]_vars PROVE TypeOK'
  OBVIOUS
<1>1. ASSUME NEW w \in Row, Deliver(w) PROVE TypeOK'
  BY <1>1 DEF Deliver, TypeOK
<1>2. ASSUME NEW p \in Job, BeginRun(p) PROVE TypeOK'
  BY <1>2 DEF BeginRun, TypeOK
<1>3. ASSUME NEW p \in Job, NEW w \in Row, Land(p, w) PROVE TypeOK'
  BY <1>3 DEF Land, TypeOK
<1>4. ASSUME NEW p \in Job, EndIngest(p) PROVE TypeOK'
  BY <1>4 DEF EndIngest, TypeOK
<1>5. ASSUME NEW p \in Job, BeginPromote(p) PROVE TypeOK'
  BY <1>5, LandedIsRow DEF BeginPromote, TypeOK
<1>6. ASSUME NEW p \in Job, ReadSites(p) PROVE TypeOK'
  <2> DEFINE rows == {w \in Scope(p) : w[1] \in Site}
  <2>2. rows \in SUBSET Row
    BY ScopeIsRow
  <2>3. [Nothing EXCEPT !.rows = rows] \in ReadType
    BY <2>2, SitesReadType
  <2>4. read' \in [Job -> ReadType]
    BY <1>6, <2>3 DEF ReadSites, TypeOK, ReadType
  <2> QED
    BY <1>6, <2>4 DEF ReadSites, TypeOK, ReadType
<1>7. ASSUME NEW p \in Job, PromoteReference(p) PROVE TypeOK'
  <2>1. core' \in [Entity -> Nat]
    BY <1>7, UpsertedType, RowsAreRow DEF PromoteReference, TypeOK
  <2>2. \A e \in Meter \cup Reading : core'[e] # 0 => core'[Parent[e]] # 0
    BY <1>7, <2>1, ReferencesKeepKeys
  <2>3. read' \in [Job -> ReadType]
    BY <1>7, NothingType DEF PromoteReference, TypeOK, ReadType
  <2> QED
    BY <1>7, <2>1, <2>2, <2>3 DEF PromoteReference, TypeOK, ReadType
<1>8. ASSUME NEW p \in Job, RejectReference(p) PROVE TypeOK'
  BY <1>8, LeaveType DEF RejectReference, TypeOK, ReadType
<1>9. ASSUME NEW p \in Job, ReadReadings(p) PROVE TypeOK'
  <2>1. [rows |-> Joined(Scope(p)), meters |-> [m \in Meter |-> core[m]]]
          \in ReadType
    <3>1. [m \in Meter |-> core[m]] \in [Meter -> Nat]
      BY EntityFacts DEF TypeOK
    <3> QED
      BY <3>1, RowsAreRow DEF ReadType
  <2>2. read' \in [Job -> ReadType]
    BY <1>9, <2>1 DEF ReadReadings, TypeOK, ReadType
  <2> QED
    BY <1>9, <2>2 DEF ReadReadings, TypeOK, ReadType
<1>10. ASSUME NEW p \in Job, UpsertReadings(p) PROVE TypeOK'
  <2>0. UpsertReadings(p)
    BY <1>10
  <2>1. core' \in [Entity -> Nat]
    BY <2>0, UpsertedType, RowsAreRow DEF UpsertReadings, TypeOK
  <2>2. \A e \in Meter \cup Reading : core'[e] # 0 => core'[Parent[e]] # 0
    BY <2>0, <2>1, ReadingsKeepKeys
  <2>3. factor' \in [Reading -> Nat]
    BY <2>0, RowsAreRow, EntityFacts DEF UpsertReadings, TypeOK
  <2>4. covered' \subseteq Row /\ failures' \in Nat
    BY <2>0 DEF UpsertReadings, TypeOK
  <2> QED
    BY <2>0, <2>1, <2>2, <2>3, <2>4, LeaveType
    DEF UpsertReadings, TypeOK, ReadType
<1>11. ASSUME NEW p \in Job, Fail(p) PROVE TypeOK'
  <2>1. failures' \in Nat
    BY <1>11 DEF Fail, TypeOK
  <2> QED
    BY <1>11, <2>1, LeaveType DEF Fail, TypeOK, ReadType
<1>12. CASE UNCHANGED vars
  BY <1>12 DEF vars, TypeOK
<1> QED
  BY <1>1, <1>2, <1>3, <1>4, <1>5, <1>6, <1>7, <1>8, <1>9, <1>10, <1>11, <1>12
  DEF Next, Promote

\* Once a reading has been joined, its meter does not leave core.
LEMMA JoinStep == TypeOK /\ JoinHolds /\ [Next]_vars => JoinHolds'
<1> SUFFICES ASSUME TypeOK, JoinHolds, [Next]_vars, TypeOK',
                    NEW p \in Job, pc'[p] = "upsert", NEW w \in read'[p].rows
             PROVE  w[1] \in Reading /\ core'[Parent[w[1]]] # 0
  BY TypeStep DEF JoinHolds
<1>1. core' \in [Entity -> Nat]
  BY DEF TypeOK
<1>2. w[1] \in Reading /\ core[Parent[w[1]]] # 0
  <2>1. CASE pc[p] = "upsert" /\ read'[p] = read[p]
    BY <2>1 DEF JoinHolds
  <2>2. CASE ReadReadings(p)
    <3>1. read'[p].rows = Joined(Scope(p))
      BY <2>2 DEF ReadReadings, TypeOK
    <3> QED
      BY <3>1 DEF Joined
  <2> QED
    BY <2>1, <2>2
    DEF Next, Promote, vars, TypeOK, Deliver, BeginRun, Land, EndIngest,
        BeginPromote, ReadSites, PromoteReference, RejectReference, ReadReadings,
        UpsertReadings, Fail, Leave
<1> QED
  BY <1>1, <1>2, StaysInCore, EntityFacts

\* Initially nothing has been read and core is empty.
LEMMA TypeInit == Init => TypeOK /\ JoinHolds
<1> SUFFICES ASSUME Init PROVE TypeOK /\ JoinHolds
  OBVIOUS
<1>1. read \in [Job -> ReadType]
  BY NothingType DEF Init
<1>2. \A e \in Meter \cup Reading : core[e] = 0
  BY EntityFacts DEF Init
<1>3. TypeOK
  BY <1>1, <1>2 DEF Init, TypeOK, ReadType
<1> QED
  BY <1>3 DEF Init, JoinHolds

\* Types hold, and whatever core holds stays or is replaced by a later version.
LEMMA TypesHold == Spec => [](TypeOK /\ JoinHolds)
<1>1. TypeOK /\ JoinHolds /\ [Next]_vars => (TypeOK /\ JoinHolds)'
  BY TypeStep, JoinStep
<1> QED
  BY TypeInit, <1>1, PTL DEF Spec

\* Types, and what the foreign key of a meter and the join of a reading with its
\* meter promise: no meter is in core without its site, no reading without its
\* meter, whatever order they land in and whichever jobs promote at once.
THEOREM TypeCorrect == Spec => []TypeOK
  BY TypesHold, PTL

\* No step takes an entity in core back to an older version, whichever job
\* promotes which batch, and also when promotions overlap: the guard on
\* updated_at in both upserts.
THEOREM NeverRollsBack == Spec => NoRollback
<1>1. TypeOK /\ [Next]_vars => [\A e \in Entity : core'[e] >= core[e]]_vars
  BY CoreGrows
<1> QED
  BY <1>1, TypesHold, PTL DEF Spec, NoRollback

-----------------------------------------------------------------------------
(* The rows in raw.                                                        *)

\* Raw has a latest version.  (Of the rows that ever land there may be none.)
Bounded == \E n \in Nat : \A w \in Landed : w[2] <= n

\* A bounded set of naturals has a greatest element, if it has any.
LEMMA GreatestNatural ==
  ASSUME NEW S \in SUBSET Nat, S # {}, NEW n \in Nat, \A x \in S : x <= n
  PROVE  \E x \in S : \A y \in S : y <= x
<1> DEFINE T == {k \in Nat : n - k \in S}
<1>1. \A x \in S : n - x \in T
  BY SMT
<1>2. PICK k \in T : \A l \in T : ~ (<<l, k>> \in OpToRel(<, Nat))
  BY <1>1, NatLessThanWellFounded, WFMin
<1>3. \A l \in T : ~(l < k)
  BY <1>2 DEF OpToRel
<1>4. n - k \in S /\ \A y \in S : y <= n - k
  BY <1>1, <1>3
<1> QED
  BY <1>4

\* Among rows that have landed every entity has a freshest one.
LEMMA Freshest ==
  ASSUME Bounded, NEW rows \in SUBSET Landed, NEW w \in rows
  PROVE  \E v \in rows : v[1] = w[1] /\ v[2] >= w[2] /\ IsFreshest(rows, v)
<1> DEFINE S == {v[2] : v \in {u \in rows : u[1] = w[1]}}
<1>1. \A v \in rows : v \in Row /\ v \in Landed /\ v[2] \in Nat
  BY LandedIsRow, EntityFacts
<1>2. PICK n \in Nat : \A v \in Landed : v[2] <= n
  BY DEF Bounded
<1>3. w[2] \in S
  OBVIOUS
<1>4. S \in SUBSET Nat /\ \A x \in S : x <= n
  BY <1>1, <1>2
<1>5. PICK x \in S : \A y \in S : y <= x
  BY <1>2, <1>3, <1>4, GreatestNatural
<1>6. PICK v \in rows : v[1] = w[1] /\ v[2] = x
  OBVIOUS
<1>7. \A u \in rows : u[1] = v[1] => u[2] <= v[2]
  BY <1>5, <1>6
<1>8. w[2] \in Nat /\ v[2] \in Nat /\ w[2] <= v[2]
  BY <1>1, <1>6, <1>7
<1> QED
  BY <1>6, <1>7, <1>8 DEF IsFreshest

\* An upsert brings every row it is given into core, unless core is ahead of it.
LEMMA UpsertedReaches ==
  ASSUME TypeOK, Bounded, NEW entities, NEW rows \in SUBSET Landed,
         NEW w \in rows, w[1] \in entities
  PROVE  Upserted(entities, rows)[w[1]] >= w[2]
<1>1. w \in Row /\ w[1] \in Entity /\ w[2] \in Nat /\ rows \in SUBSET Row
  BY LandedIsRow, EntityFacts
<1>2. PICK v \in rows : v[1] = w[1] /\ v[2] >= w[2] /\ IsFreshest(rows, v)
  BY Freshest
<1>3. core \in [Entity -> Nat] /\ core[w[1]] \in Nat /\ v[2] \in Nat
  BY <1>1, EntityFacts DEF TypeOK
<1>4. CASE v[2] >= core[w[1]]
  <2>1. Wins(rows, v)
    BY <1>2, <1>4 DEF Wins
  <2>2. PICK u \in rows :
          u = (CHOOSE z \in rows : z[1] = w[1] /\ Wins(rows, z))
          /\ u[1] = w[1] /\ Wins(rows, u)
    BY <1>2, <2>1
  <2>3. Upserted(entities, rows)[w[1]] = u[2]
    BY <1>1, <2>2 DEF Upserted
  <2>4. w[2] <= u[2] /\ u[2] \in Nat
    BY <1>1, <2>2, EntityFacts DEF Wins, IsFreshest
  <2> QED
    BY <1>1, <2>3, <2>4
<1>5. CASE ~(v[2] >= core[w[1]])
  <2>1. /\ Upserted(entities, rows)[w[1]] \in Nat
        /\ Upserted(entities, rows)[w[1]] >= core[w[1]]
    BY <1>1, <1>3, UpsertedIs
  <2> QED
    BY <1>1, <1>2, <1>3, <1>5, <2>1
<1> QED
  BY <1>4, <1>5

\* Nothing leaves raw, and a step lands one row at most.
LEMMA LandedStep ==
  ASSUME TypeOK, [Next]_vars
  PROVE  /\ Landed \subseteq Landed'
         /\ \/ Landed' = Landed
            \/ \E w \in Row : Landed' = Landed \cup {w}
<1>0. None # Old /\ Old # None /\ \A p \in Job : p # None
  BY JobAssumption
<1>1. ASSUME NEW w \in Row, NEW b \in Job \cup {Old}, raw' = [raw EXCEPT ![w] = b]
      PROVE  Landed' = Landed \cup {w}
  <2>1. b # None
    BY <1>0
  <2>2. \A v \in Row : raw'[v] = IF v = w THEN b ELSE raw[v]
    BY <1>1 DEF TypeOK
  <2>3. \A v \in Row : raw'[v] # None <=> raw[v] # None \/ v = w
    BY <2>1, <2>2
  <2> QED
    BY <2>3 DEF Landed
<1>2. ASSUME NEW p \in Job, raw' = Closed(p)
      PROVE  Landed' = Landed
  BY <1>0, <1>2 DEF Landed, Closed, TypeOK
<1>3. CASE raw' = raw
  BY <1>3 DEF Landed
<1> QED
  BY <1>1, <1>2, <1>3
  DEF Next, Promote, vars, Deliver, BeginRun, Land, EndIngest, BeginPromote,
      ReadSites, PromoteReference, RejectReference, ReadReadings, UpsertReadings,
      Fail, Leave

\* What a job promotes has landed.
LEMMA ScopeIsLanded ==
  ASSUME NEW p \in Job
  PROVE  Scope(p) \subseteq Landed
  BY JobAssumption DEF Scope, Landed

LEMMA BoundedStep == TypeOK /\ Bounded /\ [Next]_vars => Bounded'
<1> SUFFICES ASSUME TypeOK, Bounded, [Next]_vars PROVE Bounded'
  OBVIOUS
<1>1. PICK n \in Nat : \A w \in Landed : w[2] <= n
  BY DEF Bounded
<1>2. CASE Landed' = Landed
  BY <1>1, <1>2 DEF Bounded
<1>3. ASSUME NEW v \in Row, Landed' = Landed \cup {v}
      PROVE  Bounded'
  <2>1. v[2] \in Nat /\ n + v[2] \in Nat
    BY EntityFacts
  <2>2. \A w \in Landed : w[2] \in Nat
    BY LandedIsRow, EntityFacts
  <2>3. \A w \in Landed' : w[2] <= n + v[2]
    BY <1>1, <1>3, <2>1, <2>2
  <2> QED
    BY <2>1, <2>3 DEF Bounded
<1> QED
  BY <1>2, <1>3, LandedStep

-----------------------------------------------------------------------------
(* What a full promotion covers.                                           *)

Comparable(A, B) == A \subseteq B \/ B \subseteq A

\* One job at a time has the transactions of a promotion open.
Alone == \A p, q \in Promoting : p = q

\* What has been read and what is to be covered has landed.
HistoryIsLanded ==
  /\ covered \subseteq Landed
  /\ \A p \in Job : started[p] \subseteq Landed /\ read[p].rows \subseteq Landed
  /\ \A p \in Runner : started[p] = {}

\* Raw only grows, so of two promotions the later one was to cover more.
Chain ==
  /\ \A p \in Job : Comparable(started[p], covered)
  /\ \A p, q \in Job : Comparable(started[p], started[q])

CoreIsLanded == \A e \in Entity : core[e] # 0 => <<e, core[e]>> \in Landed

\* The statement for the sites saw every site it is to cover.
SitesInHand ==
  \A p \in Job :
    pc[p] = "meters" =>
      \A w \in started[p] : w[1] \in Site => w \in read[p].rows

\* The reference transaction is over, and the sites and meters are in core.
ReferencesDone ==
  \A p \in Job :
    pc[p] \in {"readings", "upsert"} =>
      \A w \in started[p] : w[1] \notin Reading => core[w[1]] >= w[2]

\* The statement for the readings holds those it is to cover whose meter it is
\* to cover too, and is nowhere behind core.
ReadingsInHand ==
  \A p \in Promoter :
    pc[p] = "upsert" =>
      /\ \A w \in started[p] :
           w[1] \in Reading /\ (\E v \in started[p] : v[1] = Parent[w[1]])
             => w \in read[p].rows
      /\ \A r \in Reading : core[r] # 0 => <<r, core[r]>> \in read[p].rows

\* The multipliers it joined are those of core still.
MetersInHand ==
  \A p \in Job : pc[p] = "upsert" => \A m \in Meter : read[p].meters[m] = core[m]

CoverInv ==
  /\ Bounded
  /\ Alone
  /\ HistoryIsLanded
  /\ Chain
  /\ CoreIsLanded
  /\ SitesInHand
  /\ ReferencesDone
  /\ ReadingsInHand
  /\ MetersInHand
  /\ FullCovers

\* A job begins the transactions of a promotion only when no other is in them.
LEMMA AloneStep ==
  ASSUME TypeOK, Alone, ~Overlap, [Next]_vars
  PROVE  Alone'
<1>1. ASSUME NEW p \in Job, ReadSites(p)
      PROVE  Promoting' = {p}
  BY <1>1 DEF ReadSites, Promoting, TypeOK
<1>2. ASSUME NEW p \in Job, pc[p] # "idle", pc[p] # "ingest",
             pc[p] # "reference", NEW at, pc' = [pc EXCEPT ![p] = at]
      PROVE  Promoting' \subseteq Promoting
  BY <1>2 DEF Promoting, TypeOK
<1>3. ASSUME NEW p \in Job, NEW at \in {"idle", "ingest", "reference"},
             pc' = [pc EXCEPT ![p] = at]
      PROVE  Promoting' \subseteq Promoting
  BY <1>3 DEF Promoting, TypeOK
<1>4. CASE pc' = pc
  BY <1>4 DEF Promoting, Alone
<1>5. CASE Promoting' \subseteq Promoting
  BY <1>5 DEF Alone
<1>6. ASSUME NEW p \in Job, Promoting' = {p}
      PROVE  Alone'
  BY <1>6 DEF Alone
<1>7. ASSUME NEW p \in Job, PromoteReference(p) \/ ReadReadings(p)
      PROVE  Promoting' \subseteq Promoting
  BY <1>2, <1>7 DEF PromoteReference, ReadReadings
<1> QED
  BY <1>1, <1>3, <1>4, <1>5, <1>6, <1>7
  DEF Next, Promote, vars, Deliver, BeginRun, Land, EndIngest, BeginPromote,
      RejectReference, UpsertReadings, Fail, Leave

\* History is what raw holds.
LEMMA HistoryStep ==
  ASSUME TypeOK, HistoryIsLanded, [Next]_vars
  PROVE  HistoryIsLanded'
<1>0. Landed \subseteq Landed'
  BY LandedStep
<1>1. covered' \subseteq Landed
  BY DEF HistoryIsLanded, Next, Promote, vars, Deliver, BeginRun, Land, EndIngest,
         BeginPromote, ReadSites, PromoteReference, RejectReference, ReadReadings,
         UpsertReadings, Fail
<1>2. ASSUME NEW q \in Job
      PROVE  started'[q] \subseteq Landed /\ (q \in Runner => started'[q] = {})
  <2>0. started[q] \subseteq Landed /\ (q \in Runner => started[q] = {})
    BY DEF HistoryIsLanded
  <2>1. ASSUME NEW p \in Job, BeginPromote(p)
        PROVE  started'[q] \subseteq Landed /\ (q \in Runner => started'[q] = {})
    BY <2>0, <2>1, JobAssumption DEF BeginPromote, TypeOK
  <2>2. ASSUME NEW p \in Job, Leave(p)
        PROVE  started'[q] \subseteq Landed /\ (q \in Runner => started'[q] = {})
    BY <2>0, <2>2 DEF Leave, TypeOK
  <2>3. CASE started' = started
    BY <2>0, <2>3
  <2> QED
    BY <2>1, <2>2, <2>3
    DEF Next, Promote, vars, Deliver, BeginRun, Land, EndIngest, ReadSites,
        PromoteReference, RejectReference, ReadReadings, UpsertReadings, Fail
<1>3. ASSUME NEW q \in Job
      PROVE  read'[q].rows \subseteq Landed
  <2>0. read[q].rows \subseteq Landed /\ Nothing.rows = {}
    BY DEF HistoryIsLanded, Nothing
  <2>2. ASSUME NEW p \in Job, ReadSites(p)
        PROVE  read'[q].rows \subseteq Landed
    <3>1. [Nothing EXCEPT !.rows = {w \in Scope(p) : w[1] \in Site}].rows
            \subseteq Landed
      BY ScopeIsLanded, SitesRead
    <3> QED
      BY <2>0, <2>2, <3>1 DEF ReadSites, TypeOK
  <2>3. ASSUME NEW p \in Job, ReadReadings(p)
        PROVE  read'[q].rows \subseteq Landed
    <3>1. Joined(Scope(p)) \subseteq Landed
      BY ScopeIsLanded DEF Joined
    <3> QED
      BY <2>0, <2>3, <3>1 DEF ReadReadings, TypeOK
  <2>4. ASSUME NEW p \in Job, read' = [read EXCEPT ![p] = Nothing]
        PROVE  read'[q].rows \subseteq Landed
    BY <2>0, <2>4 DEF TypeOK
  <2>5. CASE read' = read
    BY <2>0, <2>5
  <2> QED
    BY <2>2, <2>3, <2>4, <2>5
    DEF Next, Promote, vars, Deliver, BeginRun, Land, EndIngest, BeginPromote,
        PromoteReference, RejectReference, UpsertReadings, Fail, Leave
<1> QED
  BY <1>0, <1>1, <1>2, <1>3 DEF HistoryIsLanded, Job

\* Sets of a chain stay one when one of them is emptied, or becomes the largest.
LEMMA ChainStep ==
  ASSUME TypeOK, HistoryIsLanded, Chain, [Next]_vars
  PROVE  Chain'
<1>0. /\ started \in [Job -> SUBSET Row]
      /\ \A q \in Job : Comparable(started[q], covered)
      /\ \A q, r \in Job : Comparable(started[q], started[r])
  BY DEF TypeOK, Chain
<1>1. ASSUME NEW p \in Job, BeginPromote(p)
      PROVE  Chain'
  <2>1. started' = [started EXCEPT ![p] = Landed] /\ covered' = covered
    BY <1>1 DEF BeginPromote
  <2>2. covered \subseteq Landed /\ \A q \in Job : started[q] \subseteq Landed
    BY DEF HistoryIsLanded
  <2>3. \A q \in Job : started'[q] = IF q = p THEN Landed ELSE started[q]
    BY <1>0, <2>1
  <2> QED
    BY <1>0, <2>1, <2>2, <2>3 DEF Chain, Comparable
<1>2. ASSUME NEW p \in Job, Leave(p),
             covered' = covered \/ covered' = covered \cup started[p]
      PROVE  Chain'
  <2>1. \A q \in Job : started'[q] = IF q = p THEN {} ELSE started[q]
    BY <1>0, <1>2 DEF Leave
  <2>2. \A q, r \in Job : Comparable(started'[q], started'[r])
    BY <1>0, <2>1 DEF Comparable
  <2>3. \A q \in Job : Comparable(started'[q], covered')
    <3> SUFFICES ASSUME NEW q \in Job PROVE Comparable(started'[q], covered')
      OBVIOUS
    <3>1. started'[q] = {} \/ started'[q] = started[q]
      BY <2>1
    <3>2. Comparable(started[q], covered) /\ Comparable(started[q], started[p])
      BY <1>0
    <3> QED
      BY <1>2, <3>1, <3>2, Zenon DEF Comparable
  <2> QED
    BY <2>2, <2>3 DEF Chain
<1>3. CASE UNCHANGED <<started, covered>>
  BY <1>3 DEF Chain, Comparable
<1> QED
  BY <1>1, <1>2, <1>3
  DEF Next, Promote, vars, Deliver, BeginRun, Land, EndIngest, ReadSites,
      PromoteReference, RejectReference, ReadReadings, UpsertReadings, Fail

\* Only what has landed gets into core.
LEMMA CoreStep ==
  ASSUME TypeOK, HistoryIsLanded, CoreIsLanded, [Next]_vars
  PROVE  CoreIsLanded'
<1>0. Landed \subseteq Landed' /\ core \in [Entity -> Nat]
  BY LandedStep DEF TypeOK
<1>1. ASSUME NEW entities, NEW rows \in SUBSET Landed, NEW e \in Entity,
             Upserted(entities, rows)[e] # 0
      PROVE  <<e, Upserted(entities, rows)[e]>> \in Landed
  <2>1. rows \in SUBSET Row
    BY LandedIsRow
  <2>2. \/ Upserted(entities, rows)[e] = core[e]
        \/ <<e, Upserted(entities, rows)[e]>> \in rows
    BY <1>0, <2>1, UpsertedIs
  <2> QED
    BY <1>1, <2>2 DEF CoreIsLanded
<1>2. ASSUME NEW p \in Job, PromoteReference(p)
      PROVE  CoreIsLanded'
  <2>1. References(p) \in SUBSET Landed
    BY ScopeIsLanded DEF References, HistoryIsLanded
  <2> QED
    BY <1>0, <1>1, <1>2, <2>1 DEF PromoteReference, CoreIsLanded
<1>3. ASSUME NEW p \in Job, UpsertReadings(p)
      PROVE  CoreIsLanded'
  <2>1. read[p].rows \in SUBSET Landed
    BY DEF HistoryIsLanded
  <2> QED
    BY <1>0, <1>1, <1>3, <2>1 DEF UpsertReadings, CoreIsLanded
<1>4. CASE core' = core
  BY <1>0, <1>4 DEF CoreIsLanded
<1> QED
  BY <1>2, <1>3, <1>4
  DEF Next, Promote, vars, Deliver, BeginRun, Land, EndIngest, BeginPromote,
      ReadSites, RejectReference, ReadReadings, Fail

\* A job's own part of the state is changed by its own steps alone.
Own(p) == <<pc[p], read[p], started[p]>>

LEMMA OthersKeep ==
  ASSUME TypeOK, NEW p \in Job, NEW q \in Job, p # q,
         \/ BeginRun(p) \/ (\E w \in Row : Land(p, w)) \/ EndIngest(p)
         \/ BeginPromote(p) \/ Promote(p) \/ Fail(p)
  PROVE  UNCHANGED Own(q)
  BY DEF Own, Promote, TypeOK, BeginRun, Land, EndIngest, BeginPromote, ReadSites,
         PromoteReference, RejectReference, ReadReadings, UpsertReadings, Fail,
         Leave

\* What a step leaves of the state of a job that is in a promotion: it, or the
\* work of one of its transactions.
LEMMA OwnStep ==
  ASSUME TypeOK, [Next]_vars, NEW p \in Job,
         pc'[p] \in {"meters", "readings", "upsert"}
  PROVE  \/ UNCHANGED Own(p)
         \/ ReadSites(p) \/ PromoteReference(p) \/ ReadReadings(p)
<1>1. ASSUME NEW w \in Row, Deliver(w)
      PROVE  UNCHANGED Own(p)
  BY <1>1 DEF Deliver, Own
<1>2. CASE UNCHANGED vars
  BY <1>2 DEF vars, Own
<1>3. ASSUME NEW q \in Job, q # p,
             \/ BeginRun(q) \/ (\E w \in Row : Land(q, w)) \/ EndIngest(q)
             \/ BeginPromote(q) \/ Promote(q) \/ Fail(q)
      PROVE  UNCHANGED Own(p)
  BY <1>3, OthersKeep
<1>4. ASSUME \/ BeginRun(p) \/ (\E w \in Row : Land(p, w)) \/ EndIngest(p)
             \/ BeginPromote(p) \/ Promote(p) \/ Fail(p)
      PROVE  \/ ReadSites(p) \/ PromoteReference(p) \/ ReadReadings(p)
             \/ \E w \in Row : Land(p, w)
  BY <1>4 DEF Promote, TypeOK, BeginRun, EndIngest, BeginPromote, RejectReference,
              UpsertReadings, Fail, Leave
<1>5. ASSUME NEW w \in Row, Land(p, w)
      PROVE  UNCHANGED Own(p)
  BY <1>5 DEF Land, Own
<1> QED
  BY <1>1, <1>2, <1>3, <1>4, <1>5 DEF Next

\* While a job has joined readings to write, nobody else writes core.
LEMMA CoreWaits ==
  ASSUME TypeOK, Alone, [Next]_vars, NEW p \in Job,
         pc[p] = "upsert", pc'[p] = "upsert"
  PROVE  core' = core
<1>0. p \in Promoting /\ pc \in [Job -> {"idle", "ingest", "reference", "meters",
                                        "readings", "upsert"}]
  BY DEF Promoting, TypeOK
<1>1. ASSUME NEW q \in Job, PromoteReference(q)
      PROVE  FALSE
  BY <1>0, <1>1 DEF PromoteReference, Alone, Promoting
<1>2. ASSUME NEW q \in Job, UpsertReadings(q)
      PROVE  FALSE
  <2>1. q = p
    BY <1>0, <1>2 DEF UpsertReadings, Alone, Promoting
  <2> QED
    BY <1>0, <1>2, <2>1 DEF UpsertReadings, Leave
<1> QED
  BY <1>1, <1>2
  DEF Next, Promote, vars, Deliver, BeginRun, Land, EndIngest, BeginPromote,
      ReadSites, RejectReference, ReadReadings, Fail

\* A full promotion reads at least the rows it is to cover.
LEMMA FullScope ==
  ASSUME HistoryIsLanded, NEW p \in Job, NEW w \in started[p]
  PROVE  p \in Promoter /\ w \in Scope(p)
  BY DEF HistoryIsLanded, Scope, Job

LEMMA SitesStep ==
  ASSUME TypeOK, HistoryIsLanded, SitesInHand, [Next]_vars
  PROVE  SitesInHand'
<1> SUFFICES ASSUME NEW p \in Job, pc'[p] = "meters", NEW w \in started'[p],
                    w[1] \in Site
             PROVE  w \in read'[p].rows
  BY DEF SitesInHand
<1>1. CASE UNCHANGED Own(p)
  BY <1>1 DEF Own, SitesInHand
<1>2. CASE ReadSites(p)
  <2>1. started'[p] = started[p]
    BY <1>2 DEF ReadSites
  <2>2. read'[p].rows = {v \in Scope(p) : v[1] \in Site}
    BY <1>2, SitesRead DEF ReadSites, TypeOK
  <2> QED
    BY <2>1, <2>2, FullScope
<1>3. CASE PromoteReference(p) \/ ReadReadings(p)
  BY <1>3 DEF PromoteReference, ReadReadings, TypeOK
<1> QED
  BY <1>1, <1>2, <1>3, OwnStep

LEMMA ReferencesStep ==
  ASSUME TypeOK, Bounded, HistoryIsLanded, SitesInHand, ReferencesDone,
         TypeOK', [Next]_vars
  PROVE  ReferencesDone'
<1> SUFFICES ASSUME NEW p \in Job, pc'[p] \in {"readings", "upsert"},
                    NEW w \in started'[p], w[1] \notin Reading
             PROVE  core'[w[1]] >= w[2]
  BY DEF ReferencesDone
<1>0. w \in Row /\ w[1] \in Entity /\ w[2] \in Nat
  BY EntityFacts DEF TypeOK
<1>1. ASSUME core[w[1]] >= w[2]
      PROVE  core'[w[1]] >= w[2]
  <2>1. core'[w[1]] >= core[w[1]]
    BY <1>0, CoreGrows
  <2>2. core[w[1]] \in Nat /\ core'[w[1]] \in Nat
    BY <1>0 DEF TypeOK
  <2> QED
    BY <1>0, <1>1, <2>1, <2>2
<1>2. CASE UNCHANGED Own(p)
  BY <1>1, <1>2 DEF Own, ReferencesDone
<1>3. CASE ReadSites(p)
  BY <1>3 DEF ReadSites, TypeOK
<1>4. CASE PromoteReference(p)
  <2>1. w \in started[p] /\ pc[p] = "meters"
    BY <1>4 DEF PromoteReference
  <2>2. w \in References(p)
    BY <1>0, <2>1, FullScope DEF References, SitesInHand, Entity
  <2>3. References(p) \in SUBSET Landed
    BY ScopeIsLanded DEF References, HistoryIsLanded
  <2>4. w[1] \in Site \cup Meter
    BY <1>0 DEF Entity
  <2> QED
    BY <1>4, <2>2, <2>3, <2>4, UpsertedReaches DEF PromoteReference
<1>5. CASE ReadReadings(p)
  <2>1. w \in started[p] /\ pc[p] = "readings"
    BY <1>5 DEF ReadReadings
  <2> QED
    BY <1>1, <2>1 DEF ReferencesDone
<1> QED
  BY <1>2, <1>3, <1>4, <1>5, OwnStep

LEMMA MetersStep ==
  ASSUME TypeOK, Alone, MetersInHand, [Next]_vars
  PROVE  MetersInHand'
<1> SUFFICES ASSUME NEW p \in Job, pc'[p] = "upsert", NEW m \in Meter
             PROVE  read'[p].meters[m] = core'[m]
  BY DEF MetersInHand
<1>1. CASE UNCHANGED Own(p)
  BY <1>1, CoreWaits DEF Own, MetersInHand
<1>2. CASE ReadReadings(p)
  <2>1. read'[p].meters = [n \in Meter |-> core[n]] /\ core' = core
    BY <1>2 DEF ReadReadings, TypeOK
  <2> QED
    BY <2>1
<1>3. CASE ReadSites(p) \/ PromoteReference(p)
  BY <1>3 DEF PromoteReference, ReadSites, TypeOK
<1> QED
  BY <1>1, <1>2, <1>3, OwnStep

LEMMA ReadingsStep ==
  ASSUME TypeOK, Alone, HistoryIsLanded, CoreIsLanded, ReferencesDone,
         ReadingsInHand, [Next]_vars
  PROVE  ReadingsInHand'
<1> SUFFICES ASSUME NEW p \in Promoter, p \in Job, pc'[p] = "upsert"
             PROVE  /\ \A w \in started'[p] :
                         w[1] \in Reading
                         /\ (\E v \in started'[p] : v[1] = Parent[w[1]])
                           => w \in read'[p].rows
                    /\ \A r \in Reading :
                         core'[r] # 0 => <<r, core'[r]>> \in read'[p].rows
  BY DEF ReadingsInHand, Job
<1>1. CASE UNCHANGED Own(p)
  BY <1>1, CoreWaits DEF Own, ReadingsInHand
<1>2. CASE ReadReadings(p)
  <2>1. /\ read'[p].rows = Joined(Landed) /\ core' = core
        /\ started' = started /\ pc[p] = "readings"
    BY <1>2 DEF ReadReadings, TypeOK, Scope
  <2>2. ASSUME NEW w \in started[p], w[1] \in Reading,
               NEW v \in started[p], v[1] = Parent[w[1]]
        PROVE  w \in Joined(Landed)
    <3>1. v \in Row /\ v[1] \notin Reading /\ v[2] \in Nat /\ v[2] > 0
      BY <2>2, EntityFacts, EntityAssumption DEF TypeOK
    <3>2. core[v[1]] >= v[2] /\ core[v[1]] \in Nat
      BY <2>1, <3>1, EntityFacts DEF ReferencesDone, TypeOK
    <3>3. core[Parent[w[1]]] # 0
      BY <2>2, <3>1, <3>2
    <3> QED
      BY <2>2, <3>3 DEF Joined, HistoryIsLanded
  <2>3. ASSUME NEW r \in Reading, core[r] # 0
        PROVE  <<r, core[r]>> \in Joined(Landed)
    BY <2>3, EntityFacts DEF Joined, CoreIsLanded, TypeOK
  <2> QED
    BY <2>1, <2>2, <2>3
<1>3. CASE ReadSites(p) \/ PromoteReference(p)
  BY <1>3 DEF PromoteReference, ReadSites, TypeOK
<1> QED
  BY <1>1, <1>2, <1>3, OwnStep

-----------------------------------------------------------------------------
(* Nothing is left behind.                                                 *)

\* A covered row that is no reading is in core, and so is its version.
LEMMA CoveredReference ==
  ASSUME NEW S \in SUBSET Row, \A w \in S : InCore(S, w),
         NEW v \in S, v[1] \notin Reading
  PROVE  core[v[1]] >= v[2]
  BY DEF InCore

\* A reading is written with the multiplier in core, which is not behind any
\* meter row that is covered; so what was covered stays covered.
LEMMA UpsertKeepsCovered ==
  ASSUME TypeOK, TypeOK', HistoryIsLanded, MetersInHand,
         NEW p \in Job, UpsertReadings(p), [Next]_vars,
         NEW S \in SUBSET Row, \A w \in S : InCore(S, w), NEW w \in S
  PROVE  InCore(S, w)'
<1>0. /\ w[1] \in Entity /\ w[2] \in Nat
      /\ core[w[1]] \in Nat /\ core'[w[1]] \in Nat /\ core'[w[1]] >= core[w[1]]
  BY CoreGrows, EntityFacts DEF TypeOK
<1>1. InCore(S, w)
  OBVIOUS
<1>2. core[w[1]] >= w[2] => core'[w[1]] >= w[2]
  BY <1>0
<1>3. CASE w[1] \notin Reading
  BY <1>1, <1>2, <1>3 DEF InCore
<1>4. CASE w[1] \in Reading /\ {v \in S : v[1] = Parent[w[1]]} = {}
  BY <1>4 DEF InCore
<1>5. CASE w[1] \in Reading /\ {v \in S : v[1] = Parent[w[1]]} # {}
  <2>1. core'[w[1]] >= w[2] /\ \A v \in S : v[1] = Parent[w[1]] => factor[w[1]] >= v[2]
    BY <1>1, <1>2, <1>5 DEF InCore
  <2>2. ASSUME NEW v \in S, v[1] = Parent[w[1]]
        PROVE  factor'[w[1]] >= v[2]
    <3>1. v[1] \in Meter /\ v[1] \notin Reading
      BY <1>5, <2>2, EntityFacts, EntityAssumption
    <3>2. core[v[1]] >= v[2]
      BY <3>1, CoveredReference
    <3>3. read[p].meters[v[1]] = core[v[1]]
      BY <3>1 DEF MetersInHand, UpsertReadings
    <3>4. \/ factor'[w[1]] = factor[w[1]]
          \/ factor'[w[1]] = read[p].meters[Parent[w[1]]]
      BY <1>5 DEF UpsertReadings
    <3> QED
      BY <2>1, <2>2, <3>2, <3>3, <3>4
  <2> QED
    BY <1>5, <2>1, <2>2 DEF InCore
<1> QED
  BY <1>3, <1>4, <1>5

\* A full promotion that writes its readings covers what it was to cover: its
\* readings win against core, which holds nothing the statement had not seen.
LEMMA UpsertCovers ==
  ASSUME TypeOK, TypeOK', Bounded, HistoryIsLanded, CoreIsLanded,
         ReferencesDone, ReadingsInHand, MetersInHand,
         NEW p \in Job, UpsertReadings(p), [Next]_vars,
         NEW S \in SUBSET Row, S = started[p], NEW w \in S
  PROVE  InCore(S, w)'
<1> DEFINE rows == read[p].rows
<1>0. /\ w \in Row /\ w[1] \in Entity /\ w[2] \in Nat
      /\ core[w[1]] \in Nat /\ core'[w[1]] \in Nat /\ core'[w[1]] >= core[w[1]]
  BY CoreGrows, EntityFacts DEF TypeOK
<1>1. p \in Promoter /\ pc[p] = "upsert"
  BY FullScope DEF UpsertReadings
<1>2. CASE w[1] \notin Reading
  <2>1. core[w[1]] >= w[2]
    BY <1>1, <1>2 DEF ReferencesDone
  <2> QED
    BY <1>0, <1>2, <2>1 DEF InCore
<1>3. CASE w[1] \in Reading /\ {v \in S : v[1] = Parent[w[1]]} = {}
  BY <1>3 DEF InCore
<1>4. CASE w[1] \in Reading /\ {v \in S : v[1] = Parent[w[1]]} # {}
  <2>1. w \in rows
    BY <1>1, <1>4 DEF ReadingsInHand
  <2>2. rows \in SUBSET Landed
    BY DEF HistoryIsLanded
  <2>3. core' = Upserted(Reading, rows)
    BY DEF UpsertReadings
  <2>4. core'[w[1]] >= w[2]
    BY <1>4, <2>1, <2>2, <2>3, UpsertedReaches
  <2>5. \E u \in rows : u[1] = w[1] /\ Wins(rows, u)
    <3>1. PICK u \in rows : u[1] = w[1] /\ u[2] >= w[2] /\ IsFreshest(rows, u)
      BY <2>1, <2>2, Freshest
    <3>2. u[2] \in Nat
      BY <2>2, LandedIsRow, EntityFacts
    <3>3. u[2] >= core[w[1]]
      <4>1. CASE core[w[1]] = 0
        BY <3>2, <4>1
      <4>2. CASE core[w[1]] # 0
        <5>1. <<w[1], core[w[1]]>> \in rows
          BY <1>1, <1>4, <4>2 DEF ReadingsInHand
        <5>2. core[w[1]] <= u[2]
          BY <3>1, <5>1 DEF IsFreshest
        <5> QED
          BY <1>0, <3>2, <5>2
      <4> QED
        BY <4>1, <4>2
    <3> QED
      BY <3>1, <3>3 DEF Wins
  <2>6. factor'[w[1]] = read[p].meters[Parent[w[1]]]
    BY <1>4, <2>5 DEF UpsertReadings
  <2>7. ASSUME NEW v \in S, v[1] = Parent[w[1]]
        PROVE  factor'[w[1]] >= v[2]
    <3>1. v[1] \in Meter /\ v[1] \notin Reading
      BY <1>4, <2>7, EntityFacts, EntityAssumption
    <3>2. core[v[1]] >= v[2]
      BY <1>1, <3>1 DEF ReferencesDone
    <3>3. read[p].meters[v[1]] = core[v[1]]
      BY <1>1, <3>1 DEF MetersInHand
    <3> QED
      BY <2>6, <2>7, <3>2, <3>3
  <2> QED
    BY <1>4, <2>4, <2>7 DEF InCore
<1> QED
  BY <1>2, <1>3, <1>4

\* A step that writes no readings leaves covered rows covered.
LEMMA CoveredStays ==
  ASSUME TypeOK, TypeOK', [Next]_vars, factor' = factor,
         NEW S \in SUBSET Row, NEW w \in S, InCore(S, w)
  PROVE  InCore(S, w)'
<1>1. /\ w[1] \in Entity /\ w[2] \in Nat
      /\ core[w[1]] \in Nat /\ core'[w[1]] \in Nat /\ core'[w[1]] >= core[w[1]]
  BY CoreGrows, EntityFacts DEF TypeOK
<1>2. core[w[1]] >= w[2] => core'[w[1]] >= w[2]
  BY <1>1
<1> QED
  BY <1>2 DEF InCore

LEMMA FullStep ==
  ASSUME TypeOK, TypeOK', CoverInv, [Next]_vars
  PROVE  FullCovers'
<1>0. PICK S \in SUBSET Row : S = covered
  BY DEF TypeOK
<1>1. \A w \in S : InCore(S, w)
  BY <1>0 DEF CoverInv, FullCovers
<1>2. ASSUME NEW p \in Job, UpsertReadings(p)
      PROVE  FullCovers'
  <2>1. PICK T \in SUBSET Row : T = started[p]
    BY DEF TypeOK
  <2>2. covered' = S \cup T
    BY <1>0, <1>2, <2>1 DEF UpsertReadings
  <2>3. covered' = S \/ covered' = T
    BY <1>0, <2>1, <2>2 DEF CoverInv, Chain, Comparable
  <2>4. \A w \in S : InCore(S, w)'
    BY <1>1, <1>2, UpsertKeepsCovered DEF CoverInv
  <2>5. \A w \in T : InCore(T, w)'
    BY <1>2, <2>1, UpsertCovers DEF CoverInv
  <2>6. CASE covered' = S
    BY <2>4, <2>6 DEF FullCovers, InCore
  <2>7. CASE covered' = T
    BY <2>5, <2>7 DEF FullCovers, InCore
  <2> QED
    BY <2>3, <2>6, <2>7
<1>3. ASSUME factor' = factor, covered' = covered
      PROVE  FullCovers'
  <2>1. \A w \in S : InCore(S, w)'
    BY <1>1, <1>3, CoveredStays
  <2>2. covered' = S
    BY <1>0, <1>3
  <2> QED
    BY <2>1, <2>2 DEF FullCovers, InCore
<1> QED
  BY <1>2, <1>3
  DEF Next, Promote, vars, Deliver, BeginRun, Land, EndIngest, BeginPromote,
      ReadSites, PromoteReference, RejectReference, ReadReadings, Fail

LEMMA CoverInit == Init => CoverInv
<1> SUFFICES ASSUME Init PROVE CoverInv
  OBVIOUS
<1>1. Landed = {} /\ Promoting = {} /\ covered = {}
  BY DEF Init, Landed, Promoting
<1>2. \A p \in Job : started[p] = {} /\ read[p].rows = {} /\ pc[p] = "idle"
  BY DEF Init, Nothing
<1>3. \A e \in Entity : core[e] = 0
  BY DEF Init
<1>4. Bounded
  BY <1>1 DEF Bounded
<1>5. Alone /\ HistoryIsLanded /\ Chain /\ CoreIsLanded
  BY <1>1, <1>2, <1>3
  DEF Alone, HistoryIsLanded, Chain, Comparable, CoreIsLanded, Job
<1>6. /\ SitesInHand /\ ReferencesDone /\ ReadingsInHand /\ MetersInHand
      /\ FullCovers
  BY <1>1, <1>2
  DEF SitesInHand, ReferencesDone, ReadingsInHand, MetersInHand, FullCovers, Job
<1> QED
  BY <1>4, <1>5, <1>6 DEF CoverInv

\* A full promotion leaves nothing behind that was in raw when it began, and it
\* stays in core with a multiplier that is no older, for any number of promoting
\* jobs and of runs that die, if promotions take turns (the code: scheduled runs
\* do, by max_active_runs).
THEOREM FullPromotionCovers == ~Overlap => (Spec => []FullCovers)
<1> SUFFICES ASSUME ~Overlap PROVE Spec => []FullCovers
  OBVIOUS
<1>1. TypeOK /\ JoinHolds /\ CoverInv /\ [Next]_vars => CoverInv'
  <2> SUFFICES ASSUME TypeOK, JoinHolds, CoverInv, [Next]_vars PROVE CoverInv'
    OBVIOUS
  <2>1. TypeOK'
    BY TypeStep
  <2>2. Bounded' /\ Alone' /\ HistoryIsLanded' /\ Chain' /\ CoreIsLanded'
    BY BoundedStep, AloneStep, HistoryStep, ChainStep, CoreStep DEF CoverInv
  <2>3. SitesInHand' /\ ReferencesDone' /\ ReadingsInHand' /\ MetersInHand'
    BY <2>1, SitesStep, ReferencesStep, ReadingsStep, MetersStep DEF CoverInv
  <2>4. FullCovers'
    BY <2>1, FullStep
  <2> QED
    BY <2>2, <2>3, <2>4 DEF CoverInv
<1>2. CoverInv => FullCovers
  BY DEF CoverInv
<1> QED
  BY CoverInit, TypesHold, <1>1, <1>2, PTL DEF Spec

-----------------------------------------------------------------------------
(* Versions alone, with promotions that may overlap: the layer over raw.   *)

\* The statement for the readings holds those its promotion owes.
OwedInHand ==
  \A p \in Promoter :
    pc[p] = "upsert" =>
      \A w \in started[p] :
        w[1] \in Reading /\ (\E v \in started[p] : v[1] = Parent[w[1]])
          => w \in read[p].rows

\* What is owed is in core, or overtaken.
OwedIsHeld == \A w \in Owed : core[w[1]] >= w[2]

LayerInv ==
  /\ Bounded
  /\ HistoryIsLanded
  /\ Chain
  /\ CoreIsLanded
  /\ SitesInHand
  /\ ReferencesDone
  /\ OwedInHand
  /\ OwedIsHeld

LEMMA OwedInHandStep ==
  ASSUME TypeOK, HistoryIsLanded, ReferencesDone, OwedInHand, [Next]_vars
  PROVE  OwedInHand'
<1> SUFFICES ASSUME NEW p \in Promoter, p \in Job, pc'[p] = "upsert",
                    NEW w \in started'[p], w[1] \in Reading,
                    NEW v \in started'[p], v[1] = Parent[w[1]]
             PROVE  w \in read'[p].rows
  BY DEF OwedInHand, Job
<1>1. CASE UNCHANGED Own(p)
  BY <1>1 DEF Own, OwedInHand
<1>2. CASE ReadReadings(p)
  <2>1. /\ read'[p].rows = Joined(Landed)
        /\ started' = started /\ pc[p] = "readings"
    BY <1>2 DEF ReadReadings, TypeOK, Scope
  <2>2. v \in Row /\ v[1] \notin Reading /\ v[2] \in Nat /\ v[2] > 0
    BY <2>1, EntityFacts, EntityAssumption DEF TypeOK
  <2>3. core[v[1]] >= v[2] /\ core[v[1]] \in Nat
    BY <2>1, <2>2, EntityFacts DEF ReferencesDone, TypeOK
  <2>4. core[Parent[w[1]]] # 0
    BY <2>2, <2>3
  <2> QED
    BY <2>1, <2>4 DEF Joined, HistoryIsLanded
<1>3. CASE ReadSites(p) \/ PromoteReference(p)
  BY <1>3 DEF PromoteReference, ReadSites, TypeOK
<1> QED
  BY <1>1, <1>2, <1>3, OwnStep

\* A promotion that writes its readings brings what it owes.
LEMMA UpsertBrings ==
  ASSUME TypeOK, TypeOK', Bounded, HistoryIsLanded, ReferencesDone, OwedInHand,
         NEW p \in Job, UpsertReadings(p), [Next]_vars, NEW w \in started[p],
         w[1] \in Reading => \E v \in started[p] : v[1] = Parent[w[1]]
  PROVE  core'[w[1]] >= w[2]
<1>0. /\ w \in Row /\ w[1] \in Entity /\ w[2] \in Nat
      /\ core[w[1]] \in Nat /\ core'[w[1]] \in Nat /\ core'[w[1]] >= core[w[1]]
  BY CoreGrows, EntityFacts DEF TypeOK
<1>1. p \in Promoter /\ pc[p] = "upsert"
  BY FullScope DEF UpsertReadings
<1>2. CASE w[1] \notin Reading
  <2>1. core[w[1]] >= w[2]
    BY <1>1, <1>2 DEF ReferencesDone
  <2> QED
    BY <1>0, <2>1
<1>3. CASE w[1] \in Reading
  <2>1. w \in read[p].rows
    BY <1>1, <1>3 DEF OwedInHand
  <2>2. read[p].rows \in SUBSET Landed
    BY DEF HistoryIsLanded
  <2>3. core' = Upserted(Reading, read[p].rows)
    BY DEF UpsertReadings
  <2> QED
    BY <1>3, <2>1, <2>2, <2>3, UpsertedReaches
<1> QED
  BY <1>2, <1>3

LEMMA OwedStep ==
  ASSUME TypeOK, TypeOK', LayerInv, [Next]_vars
  PROVE  OwedIsHeld' /\ Owed \subseteq Owed'
<1>0. PICK S \in SUBSET Row : S = covered
  BY DEF TypeOK
<1>1. ASSUME NEW w \in Owed PROVE core'[w[1]] >= w[2]
  <2>1. w \in Row /\ core[w[1]] >= w[2]
    BY <1>0 DEF Owed, LayerInv, OwedIsHeld
  <2>2. /\ w[1] \in Entity /\ w[2] \in Nat
        /\ core[w[1]] \in Nat /\ core'[w[1]] \in Nat /\ core'[w[1]] >= core[w[1]]
    BY <2>1, CoreGrows, EntityFacts DEF TypeOK
  <2> QED
    BY <2>1, <2>2
<1>2. ASSUME NEW p \in Job, UpsertReadings(p)
      PROVE  OwedIsHeld' /\ Owed \subseteq Owed'
  <2>1. PICK T \in SUBSET Row : T = started[p]
    BY DEF TypeOK
  <2>2. covered' = S \cup T
    BY <1>0, <1>2, <2>1 DEF UpsertReadings
  <2>3. covered' = S \/ covered' = T
    BY <1>0, <2>1, <2>2 DEF LayerInv, Chain, Comparable
  <2>4. Owed \subseteq Owed'
    BY <1>0, <2>2 DEF Owed
  <2>5. CASE covered' = S
    BY <1>0, <1>1, <2>4, <2>5 DEF Owed, OwedIsHeld
  <2>6. CASE covered' = T
    <3>1. ASSUME NEW w \in T,
                 w[1] \in Reading => \E v \in T : v[1] = Parent[w[1]]
          PROVE  core'[w[1]] >= w[2]
      BY <1>2, <2>1, <3>1, UpsertBrings DEF LayerInv
    <3> QED
      BY <2>4, <2>6, <3>1 DEF Owed, OwedIsHeld
  <2> QED
    BY <2>3, <2>5, <2>6
<1>3. CASE covered' = covered
  BY <1>1, <1>3 DEF Owed, OwedIsHeld
<1> QED
  BY <1>2, <1>3
  DEF Next, Promote, vars, Deliver, BeginRun, Land, EndIngest, BeginPromote,
      ReadSites, PromoteReference, RejectReference, ReadReadings, Fail

LEMMA LayerInit == Init => LayerInv
<1> SUFFICES ASSUME Init PROVE LayerInv
  OBVIOUS
<1>1. /\ Bounded /\ HistoryIsLanded /\ Chain /\ CoreIsLanded
      /\ SitesInHand /\ ReferencesDone
  BY CoverInit DEF CoverInv
<1>2. OwedInHand /\ OwedIsHeld
  BY DEF Init, OwedInHand, OwedIsHeld, Owed, Job
<1> QED
  BY <1>1, <1>2 DEF LayerInv

LEMMA LayerHolds == Spec => [](TypeOK /\ LayerInv)
<1>1. TypeOK /\ JoinHolds /\ LayerInv /\ [Next]_vars => LayerInv'
  <2> SUFFICES ASSUME TypeOK, JoinHolds, LayerInv, [Next]_vars PROVE LayerInv'
    OBVIOUS
  <2>1. TypeOK'
    BY TypeStep
  <2>2. Bounded' /\ HistoryIsLanded' /\ Chain' /\ CoreIsLanded'
    BY BoundedStep, HistoryStep, ChainStep, CoreStep DEF LayerInv
  <2>3. SitesInHand' /\ ReferencesDone' /\ OwedInHand'
    BY <2>1, SitesStep, ReferencesStep, OwedInHandStep DEF LayerInv
  <2>4. OwedIsHeld'
    BY <2>1, OwedStep
  <2> QED
    BY <2>2, <2>3, <2>4 DEF LayerInv
<1> QED
  BY LayerInit, TypesHold, <1>1, PTL DEF Spec

\* A step that leaves core and what is owed alone offers rows, or stutters; one
\* that writes core takes versions from raw.
LEMMA LayerStep ==
  ASSUME TypeOK, TypeOK', LayerInv, LayerInv', [Next]_vars
  PROVE  [Promise!Next]_(Promise!vars)
<1>1. Landed \subseteq Landed' /\ Landed' \subseteq Promise!Version
  BY LandedStep, EntityAssumption DEF Landed, Promise!Version
<1>2. CASE core' = core /\ Owed' = Owed
  BY <1>1, <1>2 DEF Promise!Next, Promise!Offer, Promise!vars
<1>3. CASE Landed' = Landed
  <2>1. core' \in [Entity -> Nat]
    BY DEF TypeOK
  <2>2. ASSUME NEW e \in Entity
        PROVE  /\ core'[e] >= core[e]
               /\ core'[e] # core[e] => <<e, core'[e]>> \in Landed
    <3>1. core[e] \in Nat /\ core'[e] \in Nat /\ core'[e] >= core[e]
      BY CoreGrows DEF TypeOK
    <3>2. core'[e] # 0 => <<e, core'[e]>> \in Landed
      BY <1>3 DEF LayerInv, CoreIsLanded
    <3> QED
      BY <3>1, <3>2
  <2>3. Owed \subseteq Owed' /\ \A w \in Owed' : core'[w[1]] >= w[2]
    BY OwedStep DEF OwedIsHeld
  <2>4. Owed' \subseteq Landed
    BY <1>3 DEF Owed, LayerInv, HistoryIsLanded
  <2> QED
    BY <1>3, <2>1, <2>2, <2>3, <2>4 DEF Promise!Next, Promise!Take
<1>4. ASSUME NEW p \in Job, PromoteReference(p)
      PROVE  Landed' = Landed
  BY <1>4 DEF PromoteReference, Landed
<1>5. ASSUME NEW p \in Job, UpsertReadings(p)
      PROVE  Landed' = Landed
  BY <1>5, JobAssumption DEF UpsertReadings, Leave, Closed, Landed, TypeOK
<1>6. CASE core' = core /\ covered' = covered
  BY <1>2, <1>6 DEF Owed
<1> QED
  BY <1>3, <1>4, <1>5, <1>6
  DEF Next, Promote, vars, Deliver, BeginRun, Land, EndIngest, BeginPromote,
      ReadSites, RejectReference, ReadReadings, Fail

\* Core is a layer over raw, for any number of jobs that overlap, reject and
\* die: what turns are needed for is the multipliers alone.
THEOREM PromotionImplementsLayer == Spec => ImplementsLayer
<1>1. Init => Promise!Init
  <2> SUFFICES ASSUME Init PROVE Promise!Init
    OBVIOUS
  <2>1. Landed = {} /\ Owed = {}
    BY DEF Init, Landed, Owed
  <2> QED
    BY <2>1 DEF Init, Promise!Init
<1>2. /\ TypeOK /\ LayerInv /\ TypeOK' /\ LayerInv' /\ [Next]_vars
      => [Promise!Next]_(Promise!vars)
  BY LayerStep
<1> QED
  BY <1>1, <1>2, LayerHolds, PTL DEF Spec, ImplementsLayer, Promise!Spec
=============================================================================
