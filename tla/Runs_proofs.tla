----------------------------- MODULE Runs_proofs ------------------------------
(***************************************************************************)
(* Proofs about the run history for every set of processes and sources,    *)
(* every length of the history and every number of faults.                 *)
(*                                                                         *)
(* A process has at most two records open, and their rows are RUNNING and  *)
(* of no other process: closing them can overwrite nothing that is closed. *)
(* What the row of a helios run lists as wrong is what its process has     *)
(* noted so far, which is what the status it closes with is chosen by.     *)
(* The actions differ in what they open and close, so each is shown to be  *)
(* one kind of step (Move), and the properties follow from that.           *)
(***************************************************************************)
EXTENDS Runs, FiniteSetTheorems, TLAPS

-----------------------------------------------------------------------------
(* Rows.                                                                   *)

Command == Simple \cup {"run", "ingest", "promote"}
Status == {"RUNNING", "SUCCESS", "PARTIAL", "FAILED"}

LEMMA RowIs == Row = [command : Command, status : Status, wrong : SUBSET Stage]
  BY DEF Row, Command, Status

LEMMA StatusFacts ==
  "RUNNING" \in Status /\ "SUCCESS" \in Status /\ "PARTIAL" \in Status
  /\ "FAILED" \in Status
  BY DEF Status

LEMMA CommandFacts ==
  "run" \in Command /\ "ingest" \in Command /\ "promote" \in Command
  /\ Simple \subseteq Command
  BY DEF Command

LEMMA StageFacts ==
  /\ "source" \in Stage /\ "body" \in Stage /\ "promote" \in Stage
  /\ "refresh" \in Stage /\ "checks" \in Stage
  BY DEF Stage

\* The parts of a row, and rows with another status or more that went wrong.
LEMMA RowParts ==
  ASSUME NEW r \in Row
  PROVE  /\ r.command \in Command /\ r.status \in Status /\ r.wrong \in SUBSET Stage
         /\ r = [command |-> r.command, status |-> r.status, wrong |-> r.wrong]
  BY RowIs

LEMMA RowOf ==
  ASSUME NEW c \in Command, NEW s \in Status, NEW w \in SUBSET Stage
  PROVE  [command |-> c, status |-> s, wrong |-> w] \in Row
  BY RowIs

LEMMA RowUpdates ==
  ASSUME NEW r \in Row, NEW s \in Status, NEW w \in SUBSET Stage
  PROVE  /\ [r EXCEPT !.status = s]
              = [command |-> r.command, status |-> s, wrong |-> r.wrong]
         /\ [r EXCEPT !.wrong = w]
              = [command |-> r.command, status |-> r.status, wrong |-> w]
<1>1. r = [command |-> r.command, status |-> r.status, wrong |-> r.wrong]
  BY RowParts
<1>2. ASSUME NEW a, NEW b, NEW c
      PROVE  /\ [[command |-> a, status |-> b, wrong |-> c] EXCEPT !.status = s]
                  = [command |-> a, status |-> s, wrong |-> c]
             /\ [[command |-> a, status |-> b, wrong |-> c] EXCEPT !.wrong = w]
                  = [command |-> a, status |-> b, wrong |-> w]
  OBVIOUS
<1> QED
  BY <1>1, <1>2

\* A sequence and its elements.
LEMMA SeqParts ==
  ASSUME NEW s \in Seq(Row)
  PROVE  /\ Len(s) \in Nat /\ DOMAIN s = 1 .. Len(s)
         /\ \A i \in 1 .. Len(s) : s[i] \in Row
  OBVIOUS

LEMMA SeqOf ==
  ASSUME NEW n \in Nat, NEW f \in [1 .. n -> Row]
  PROVE  f \in Seq(Row) /\ Len(f) = n
  OBVIOUS

-----------------------------------------------------------------------------
(* What a record does to the history.                                      *)

\* Blaming stages changes what went wrong in some rows and nothing else.
Blames(b, these, what) ==
  /\ DOMAIN b = 1 .. Len(rows)
  /\ b \in [1 .. Len(rows) -> Row]
  /\ \A i \in 1 .. Len(rows) :
       /\ b[i].command = rows[i].command
       /\ b[i].status = rows[i].status
       /\ i \notin these => b[i] = rows[i]
       /\ i \in these => b[i].wrong = rows[i].wrong \cup what

LEMMA BlamedIs ==
  ASSUME rows \in Seq(Row), NEW these, NEW what \in SUBSET Stage
  PROVE  Blames(Blamed(these, what), these, what)
<1> DEFINE b == Blamed(these, what)
<1>1. DOMAIN rows = 1 .. Len(rows) /\ \A i \in 1 .. Len(rows) : rows[i] \in Row
  BY SeqParts
<1>2. b = [i \in 1 .. Len(rows) |->
             IF i \in these
             THEN [rows[i] EXCEPT !.wrong = rows[i].wrong \cup what] ELSE rows[i]]
  BY <1>1 DEF Blamed
<1> HIDE DEF b
<1>3. ASSUME NEW i \in 1 .. Len(rows), i \in these
      PROVE  /\ b[i] \in Row
             /\ b[i].command = rows[i].command
             /\ b[i].status = rows[i].status
             /\ b[i].wrong = rows[i].wrong \cup what
  <2>1. rows[i] \in Row /\ rows[i].wrong \in SUBSET Stage
    BY <1>1, RowParts
  <2>2. rows[i].wrong \cup what \in SUBSET Stage
    BY <2>1
  <2>3. b[i] = [rows[i] EXCEPT !.wrong = rows[i].wrong \cup what]
    BY <1>2, <1>3
  <2>4. b[i] = [command |-> rows[i].command, status |-> rows[i].status,
                wrong |-> rows[i].wrong \cup what]
    BY <2>1, <2>2, <2>3, RowUpdates, StatusFacts
  <2>5. b[i] \in Row
    BY <2>1, <2>2, <2>4, RowParts, RowOf
  <2>6. /\ b[i].command = rows[i].command
        /\ b[i].status = rows[i].status
        /\ b[i].wrong = rows[i].wrong \cup what
    BY <2>4
  <2> QED
    BY <2>5, <2>6
<1>4. \A i \in 1 .. Len(rows) : i \notin these => b[i] = rows[i]
  BY <1>2
<1>5. \A i \in 1 .. Len(rows) : b[i] \in Row
  BY <1>1, <1>3, <1>4
<1>6. DOMAIN b = 1 .. Len(rows) /\ b \in [1 .. Len(rows) -> Row]
  BY <1>2, <1>5
<1>7. \A i \in 1 .. Len(rows) :
        /\ b[i].command = rows[i].command
        /\ b[i].status = rows[i].status
        /\ i \in these => b[i].wrong = rows[i].wrong \cup what
  BY <1>3, <1>4
<1>8. Blames(b, these, what)
  BY <1>4, <1>6, <1>7 DEF Blames
<1> QED
  BY <1>8 DEF b

\* Closing a row gives it a status, unless the update is lost, and blames stages;
\* it changes no other row.
Closes(row, status, these, what) ==
  /\ rows' \in Seq(Row) /\ Len(rows') = Len(rows)
  /\ \A i \in 1 .. Len(rows) :
       /\ rows'[i].command = rows[i].command
       /\ i \notin these \cup {row} => rows'[i] = rows[i]
       /\ i # row => rows'[i].status = rows[i].status
       /\ i = row => rows'[i].status \in {rows[i].status, status}
       /\ i \in these => rows'[i].wrong = rows[i].wrong \cup what
       /\ i \notin these => rows'[i].wrong = rows[i].wrong
  /\ \/ /\ faults' = faults
        /\ row \in 1 .. Len(rows) => rows'[row].status = status
     \/ faults < MaxFaults /\ faults' = faults + 1

LEMMA CloseIs ==
  ASSUME rows \in Seq(Row), NEW row, NEW status \in Status, NEW these,
         NEW what \in SUBSET Stage, Close(row, status, these, what)
  PROVE  Closes(row, status, these, what)
<1> DEFINE b == Blamed(these, what)
<1>1. /\ DOMAIN b = 1 .. Len(rows) /\ b \in [1 .. Len(rows) -> Row]
      /\ \A i \in 1 .. Len(rows) :
           /\ b[i].command = rows[i].command
           /\ b[i].status = rows[i].status
           /\ i \notin these => b[i] = rows[i]
           /\ i \in these => b[i].wrong = rows[i].wrong \cup what
  BY BlamedIs DEF Blames
<1>2. Len(rows) \in Nat /\ DOMAIN rows = 1 .. Len(rows)
  BY SeqParts
<1>3. CASE rows' = b /\ faults < MaxFaults /\ faults' = faults + 1
  <2>1. rows' \in Seq(Row) /\ Len(rows') = Len(rows)
    BY <1>1, <1>2, <1>3, SeqOf
  <2> HIDE DEF b
  <2> QED
    BY <1>1, <1>3, <2>1 DEF Closes
<1>4. CASE /\ rows' = [i \in DOMAIN rows |->
                        IF i = row THEN [b[i] EXCEPT !.status = status]
                        ELSE b[i]]
           /\ faults' = faults
  <2> HIDE DEF b
  <2>1. \A i \in 1 .. Len(rows) : i # row => rows'[i] = b[i]
    BY <1>2, <1>4
  <2>2. ASSUME NEW i \in 1 .. Len(rows), i = row
        PROVE  /\ rows'[i] \in Row
               /\ rows'[i].command = b[i].command
               /\ rows'[i].status = status
               /\ rows'[i].wrong = b[i].wrong
    <3>1. b[i] \in Row
      BY <1>1
    <3>2. rows'[i] = [b[i] EXCEPT !.status = status]
      BY <1>2, <1>4, <2>2
    <3>3. rows'[i] = [command |-> b[i].command, status |-> status,
                      wrong |-> b[i].wrong]
      BY <3>1, <3>2, RowUpdates
    <3>4. rows'[i] \in Row
      BY <3>1, <3>3, RowParts, RowOf
    <3>5. /\ rows'[i].command = b[i].command
          /\ rows'[i].status = status
          /\ rows'[i].wrong = b[i].wrong
      BY <3>3
    <3> QED
      BY <3>4, <3>5
  <2>3. \A i \in 1 .. Len(rows) : rows'[i] \in Row
    BY <1>1, <2>1, <2>2
  <2>4. rows' \in [1 .. Len(rows) -> Row]
    BY <1>2, <1>4, <2>3
  <2>5. rows' \in Seq(Row) /\ Len(rows') = Len(rows)
    BY <1>2, <2>4, SeqOf
  <2>6. \A i \in 1 .. Len(rows) :
          /\ rows'[i].command = b[i].command
          /\ rows'[i].wrong = b[i].wrong
          /\ i # row => rows'[i].status = b[i].status
          /\ i = row => rows'[i].status = status
    BY <2>1, <2>2
  <2>7. \A i \in 1 .. Len(rows) : i \notin these \cup {row} => rows'[i] = rows[i]
    BY <1>1, <2>1
  <2> QED
    BY <1>1, <1>4, <2>5, <2>6, <2>7 DEF Closes
<1> QED
  BY <1>3, <1>4 DEF Close

\* Opening a record appends a running row, unless the insert is lost.
LEMMA OpenIs ==
  ASSUME rows \in Seq(Row), NEW command \in Command, NEW row, Open(command, row)
  PROVE  \/ /\ row = Len(rows) + 1
            /\ rows' \in Seq(Row) /\ Len(rows') = Len(rows) + 1
            /\ \A i \in 1 .. Len(rows) : rows'[i] = rows[i]
            /\ rows'[row] \in Row
            /\ rows'[row].command = command
            /\ rows'[row].status = "RUNNING"
            /\ rows'[row].wrong = {}
            /\ faults' = faults
         \/ /\ row = 0
            /\ rows' = rows
            /\ faults < MaxFaults /\ faults' = faults + 1
<1> DEFINE new == [command |-> command, status |-> "RUNNING", wrong |-> {}]
<1>1. new \in Row
  <2>1. {} \in SUBSET Stage
    OBVIOUS
  <2> QED
    BY <2>1, RowOf, StatusFacts
<1>2. new.command = command /\ new.status = "RUNNING" /\ new.wrong = {}
  OBVIOUS
<1>3. CASE row = Len(rows) + 1 /\ rows' = Append(rows, new) /\ faults' = faults
  <2> HIDE DEF new
  <2>1. rows' \in Seq(Row) /\ Len(rows') = Len(rows) + 1
        /\ \A i \in 1 .. Len(rows) : rows'[i] = rows[i]
    BY <1>1, <1>3
  <2>2. rows'[row] = new
    BY <1>1, <1>3
  <2> QED
    BY <1>1, <1>2, <1>3, <2>1, <2>2
<1>4. CASE row = 0 /\ faults < MaxFaults /\ faults' = faults + 1 /\ rows' = rows
  BY <1>4
<1> QED
  BY <1>3, <1>4 DEF Open

-----------------------------------------------------------------------------
(* The state of a process.                                                 *)

Pc == {"idle", "body", "sources", "source", "promote", "refresh", "checks",
       "finish", "raise"}
Running == Simple \cup {"none", "ingest", "run"}

\* The states of a process when the history has n rows.
State(n) == [pc : Pc, command : Running, outer : 0 .. n, inner : 0 .. n,
             left : SUBSET Source, failed : BOOLEAN]

LEMMA PcFacts ==
  /\ "idle" \in Pc /\ "body" \in Pc /\ "sources" \in Pc /\ "source" \in Pc
  /\ "promote" \in Pc /\ "refresh" \in Pc /\ "checks" \in Pc /\ "finish" \in Pc
  /\ "raise" \in Pc
  BY DEF Pc

LEMMA RunningFacts ==
  Simple \subseteq Running /\ "none" \in Running /\ "ingest" \in Running
  /\ "run" \in Running
  BY DEF Running

LEMMA StateOf ==
  ASSUME NEW n \in Nat, NEW a \in Pc, NEW b \in Running, NEW c \in 0 .. n,
         NEW d \in 0 .. n, NEW e \in SUBSET Source, NEW f \in BOOLEAN
  PROVE  [pc |-> a, command |-> b, outer |-> c, inner |-> d, left |-> e,
          failed |-> f] \in State(n)
  BY DEF State

LEMMA StateParts ==
  ASSUME NEW n \in Nat, NEW s \in State(n)
  PROVE  /\ s.pc \in Pc /\ s.command \in Running /\ s.outer \in 0 .. n
         /\ s.inner \in 0 .. n /\ s.left \in SUBSET Source /\ s.failed \in BOOLEAN
         /\ s = [pc |-> s.pc, command |-> s.command, outer |-> s.outer,
                 inner |-> s.inner, left |-> s.left, failed |-> s.failed]
  BY DEF State

\* A longer history allows every state a shorter one does.
LEMMA StateGrows ==
  ASSUME NEW n \in Nat, NEW m \in Nat, n <= m, NEW s \in State(n)
  PROVE  s \in State(m)
<1>1. s.outer \in 0 .. m /\ s.inner \in 0 .. m
  BY StateParts
<1>2. [pc |-> s.pc, command |-> s.command, outer |-> s.outer, inner |-> s.inner,
       left |-> s.left, failed |-> s.failed] \in State(m)
  BY <1>1, StateParts, StateOf
<1> QED
  BY <1>2, StateParts

\* A process that holds nothing.
LEMMA IdleIs ==
  ASSUME NEW n \in Nat
  PROVE  /\ Idle \in State(n) /\ Idle.pc = "idle" /\ Idle.outer = 0
         /\ Idle.inner = 0 /\ Idle.failed = FALSE
         /\ Idle.command = "none"
<1>1. /\ "idle" \in Pc /\ "none" \in Running /\ 0 \in 0 .. n
      /\ {} \in SUBSET Source /\ FALSE \in BOOLEAN
  BY PcFacts, RunningFacts
<1>2. Idle \in State(n)
  BY <1>1, StateOf, Zenon DEF Idle
<1> QED
  BY <1>2 DEF Idle

-----------------------------------------------------------------------------
(* The invariant.                                                          *)

\* The rows whose records a process has open.
Active(s) ==
  IF s.pc \in {"source", "promote"} THEN {s.outer, s.inner} ELSE {s.outer}

\* A record that is open has its row RUNNING.  The row of a single source tells
\* nothing; that of a body or of a promotion has nothing wrong so far; that of a
\* helios run has what its loop has noted, or what it is about to raise.  A helios
\* ingest has no row of its own.
StateOK(r, s) ==
  /\ s.pc = "idle" => s.outer = 0 /\ s.inner = 0
  /\ s.command = "ingest" => s.pc = "body" \/ s.outer = 0
  /\ s.inner # 0 => s.inner # s.outer
  /\ \A i \in Active(s) : i # 0 => r[i].status = "RUNNING"
  /\ s.inner # 0 =>
       /\ s.pc = "source" => r[s.inner].command = "ingest"
       /\ s.pc = "promote" => r[s.inner].wrong = {}
  /\ s.outer # 0 =>
       /\ s.pc = "body" => r[s.outer].wrong = {}
       /\ s.pc = "raise" => r[s.outer].wrong \ {"source"} # {}
       /\ s.pc \notin {"idle", "body", "raise"} =>
            r[s.outer].wrong = IF s.failed THEN {"source"} ELSE {}

\* No row is of two processes.
Apart(s, t) == {s.outer, s.inner} \cap {t.outer, t.inner} \subseteq {0}

Types ==
  /\ rows \in Seq(Row)
  /\ proc \in [Process -> State(Len(rows))]
  /\ faults \in 0 .. MaxFaults

RowsInv ==
  /\ \A p \in Process : StateOK(rows, proc[p])
  /\ \A p, q \in Process : p # q => Apart(proc[p], proc[q])

\* What StatusHonest says of one row.
Honest(row) ==
  row.command # "ingest" =>
    /\ row.status = "SUCCESS" => row.wrong = {}
    /\ row.status = "PARTIAL" => row.wrong = {"source"}
    /\ row.status = "FAILED" => row.wrong \ {"source"} # {}

\* A step of a process: it goes to a state that fits the new history, holds no
\* row but its own and new ones, changes only rows that it has open, and leaves
\* none of these RUNNING without going on to hold it, unless there is a fault.
Move(p, t) ==
  /\ proc' = [proc EXCEPT ![p] = t]
  /\ rows' \in Seq(Row) /\ Len(rows) <= Len(rows')
  /\ t \in State(Len(rows'))
  /\ StateOK(rows', t)
  /\ \A i \in {t.outer, t.inner} :
       i \in {proc[p].outer, proc[p].inner} \/ i = 0 \/ i > Len(rows)
  /\ \A i \in 1 .. Len(rows) : i \notin Active(proc[p]) => rows'[i] = rows[i]
  /\ \A i \in 1 .. Len(rows) : i \in Active(proc[p]) => Honest(rows'[i])
  /\ \A i \in 1 .. Len(rows') :
       i > Len(rows) => Honest(rows'[i]) /\ i \in Active(t)
  /\ \/ /\ faults' = faults
        /\ \A i \in 1 .. Len(rows) :
             i \in Active(proc[p]) /\ rows'[i].status = "RUNNING"
               => i \in Active(t)
     \/ faults < MaxFaults /\ faults' = faults + 1

\* A running row is honest.
LEMMA RunningIsHonest ==
  ASSUME NEW row, row.status = "RUNNING"
  PROVE  Honest(row)
  BY DEF Honest

\* The history and the state of a process, with the ranges of their parts.
LEMMA TypesParts ==
  ASSUME Types, NEW p \in Process
  PROVE  /\ Len(rows) \in Nat /\ DOMAIN rows = 1 .. Len(rows)
         /\ proc[p] \in State(Len(rows))
         /\ proc[p].outer \in 0 .. Len(rows) /\ proc[p].inner \in 0 .. Len(rows)
         /\ proc[p].left \in SUBSET Source
<1>1. Len(rows) \in Nat /\ DOMAIN rows = 1 .. Len(rows)
  BY SeqParts DEF Types
<1>2. proc[p] \in State(Len(rows))
  BY DEF Types
<1> QED
  BY <1>1, <1>2, StateParts

\* A step of a process keeps the invariant: the other processes hold other rows.
LEMMA MoveKeeps ==
  ASSUME Types, RowsInv, NEW p \in Process, NEW t, Move(p, t)
  PROVE  Types' /\ RowsInv'
<1>0. /\ Len(rows) \in Nat /\ Len(rows') \in Nat /\ Len(rows) <= Len(rows')
      /\ DOMAIN rows' = 1 .. Len(rows')
  BY TypesParts, SeqParts DEF Move
<1>1. \A q \in Process : proc'[q] = IF q = p THEN t ELSE proc[q]
  BY DEF Move, Types
<1>2. \A q \in Process : proc'[q] \in State(Len(rows'))
  BY <1>0, <1>1, TypesParts, StateGrows DEF Move
<1>3. faults' \in 0 .. MaxFaults
  BY RunsAssumption DEF Move, Types
<1>4. Types'
  <2>1. proc' \in [Process -> State(Len(rows'))]
    BY <1>2 DEF Move, Types
  <2> QED
    BY <1>3, <2>1 DEF Types, Move
<1>5. ASSUME NEW q \in Process, q # p
      PROVE  StateOK(rows', proc[q]) /\ Apart(proc[q], t)
  <2>1. /\ proc[q].outer \in 0 .. Len(rows) /\ proc[q].inner \in 0 .. Len(rows)
        /\ proc[p].outer \in 0 .. Len(rows) /\ proc[p].inner \in 0 .. Len(rows)
    BY TypesParts
  <2>2. Apart(proc[q], proc[p]) /\ StateOK(rows, proc[q])
    BY <1>5 DEF RowsInv
  <2>3. ASSUME NEW i \in {proc[q].outer, proc[q].inner}, i # 0
        PROVE  rows'[i] = rows[i]
    <3>1. i \in 1 .. Len(rows)
      BY <1>0, <2>1, <2>3
    <3>2. i \notin {proc[p].outer, proc[p].inner}
      BY <2>2, <2>3 DEF Apart
    <3>3. i \notin Active(proc[p])
      BY <3>2 DEF Active
    <3> QED
      BY <3>1, <3>3 DEF Move
  <2>4. \A i \in Active(proc[q]) : i \in {proc[q].outer, proc[q].inner}
    BY DEF Active
  <2>5. StateOK(rows', proc[q])
    BY <2>2, <2>3, <2>4 DEF StateOK
  <2>6. Apart(proc[q], t)
    BY <1>0, <2>1, <2>2 DEF Move, Apart
  <2> QED
    BY <2>5, <2>6
<1>6. StateOK(rows', t)
  BY DEF Move
<1>7. \A q \in Process : StateOK(rows', proc'[q])
  BY <1>1, <1>5, <1>6
<1>8. ASSUME NEW q \in Process, NEW r \in Process, q # r
      PROVE  Apart(proc'[q], proc'[r])
  <2>1. CASE q = p
    BY <1>1, <1>5, <1>8, <2>1 DEF Apart
  <2>2. CASE r = p
    BY <1>1, <1>5, <1>8, <2>2 DEF Apart
  <2>3. CASE q # p /\ r # p
    BY <1>1, <1>8, <2>3 DEF RowsInv
  <2> QED
    BY <2>1, <2>2, <2>3
<1> QED
  BY <1>4, <1>7, <1>8 DEF RowsInv

-----------------------------------------------------------------------------
(* Every action is such a step.                                            *)

\* An idle process has no record open.
LEMMA IdleHoldsNothing ==
  ASSUME Types, RowsInv, NEW p \in Process, proc[p].pc = "idle"
  PROVE  proc[p].outer = 0 /\ proc[p].inner = 0 /\ Active(proc[p]) = {0}
<1>1. proc[p].outer = 0 /\ proc[p].inner = 0
  BY DEF RowsInv, StateOK
<1> QED
  BY <1>1 DEF Active

\* Opening a record: the process goes on holding what it held, and the new row.
LEMMA OpenMoves ==
  ASSUME Types, RowsInv, NEW p \in Process, NEW command \in Command, NEW row,
         Open(command, row), NEW t, proc' = [proc EXCEPT ![p] = t],
         \A n \in Nat : row \in 0 .. n /\ Len(rows) <= n => t \in State(n),
         StateOK(rows', t),
         {t.outer, t.inner} \subseteq {proc[p].outer, proc[p].inner, row, 0},
         row \in Active(t), Active(proc[p]) \subseteq Active(t) \cup {0}
  PROVE  Move(p, t)
<1>1. /\ Len(rows) \in Nat /\ DOMAIN rows = 1 .. Len(rows) /\ rows \in Seq(Row)
      /\ proc[p].outer \in 0 .. Len(rows) /\ proc[p].inner \in 0 .. Len(rows)
  BY TypesParts DEF Types
<1>2. \A i \in 1 .. Len(rows) :
        i \in Active(proc[p]) => rows[i].status = "RUNNING" /\ i \in Active(t)
  BY DEF RowsInv, StateOK
<1>3. CASE /\ row = Len(rows) + 1
           /\ rows' \in Seq(Row) /\ Len(rows') = Len(rows) + 1
           /\ \A i \in 1 .. Len(rows) : rows'[i] = rows[i]
           /\ rows'[row].status = "RUNNING"
           /\ faults' = faults
  <2>1. t \in State(Len(rows'))
    BY <1>1, <1>3
  <2>2. \A i \in 1 .. Len(rows) : i \in Active(proc[p]) => Honest(rows'[i])
    BY <1>2, <1>3, RunningIsHonest
  <2>3. \A i \in 1 .. Len(rows') :
          i > Len(rows) => Honest(rows'[i]) /\ i \in Active(t)
    BY <1>1, <1>3, RunningIsHonest
  <2>4. \A i \in {t.outer, t.inner} :
          i \in {proc[p].outer, proc[p].inner} \/ i = 0 \/ i > Len(rows)
    BY <1>1, <1>3
  <2> QED
    BY <1>1, <1>2, <1>3, <2>1, <2>2, <2>3, <2>4 DEF Move
<1>4. CASE row = 0 /\ rows' = rows /\ faults < MaxFaults /\ faults' = faults + 1
  <2>1. t \in State(Len(rows'))
    BY <1>1, <1>4
  <2>2. \A i \in 1 .. Len(rows) : i \in Active(proc[p]) => Honest(rows'[i])
    BY <1>2, <1>4, RunningIsHonest
  <2>3. \A i \in 1 .. Len(rows') :
          i > Len(rows) => Honest(rows'[i]) /\ i \in Active(t)
    BY <1>1, <1>4
  <2>4. \A i \in {t.outer, t.inner} :
          i \in {proc[p].outer, proc[p].inner} \/ i = 0 \/ i > Len(rows)
    BY <1>4
  <2> QED
    BY <1>1, <1>4, <2>1, <2>2, <2>3, <2>4 DEF Move
<1> QED
  BY <1>1, <1>3, <1>4, OpenIs

\* Closing a record: the process goes on holding what else it held.
LEMMA CloseMoves ==
  ASSUME Types, RowsInv, NEW p \in Process, NEW row \in Active(proc[p]),
         NEW status \in Status, status # "RUNNING",
         NEW these \in SUBSET Active(proc[p]), NEW what \in SUBSET Stage,
         Closes(row, status, these, what),
         NEW t \in State(Len(rows)), proc' = [proc EXCEPT ![p] = t],
         StateOK(rows', t),
         {t.outer, t.inner} \subseteq {proc[p].outer, proc[p].inner, 0},
         Active(proc[p]) \subseteq Active(t) \cup {row},
         row \in 1 .. Len(rows) => Honest(rows'[row])
  PROVE  Move(p, t)
<1>1. Len(rows) \in Nat /\ rows \in Seq(Row)
  BY TypesParts DEF Types
<1>2. \A i \in 1 .. Len(rows) :
        i \in Active(proc[p]) => rows[i].status = "RUNNING"
  BY DEF RowsInv, StateOK
<1>3. \A i \in 1 .. Len(rows) : i \in Active(proc[p]) => Honest(rows'[i])
  BY <1>2, RunningIsHonest DEF Closes
<1>4. \A i \in 1 .. Len(rows) : i \notin Active(proc[p]) => rows'[i] = rows[i]
  BY DEF Closes
<1>5. \/ /\ faults' = faults
         /\ \A i \in 1 .. Len(rows) :
              i \in Active(proc[p]) /\ rows'[i].status = "RUNNING"
                => i \in Active(t)
      \/ faults < MaxFaults /\ faults' = faults + 1
  <2>1. CASE faults' = faults /\ (row \in 1 .. Len(rows) => rows'[row].status = status)
    BY <2>1
  <2> QED
    BY <2>1 DEF Closes
<1>6. \A i \in 1 .. Len(rows') : ~(i > Len(rows))
  BY <1>1 DEF Closes
<1>7. \A i \in {t.outer, t.inner} : i \in {proc[p].outer, proc[p].inner} \/ i = 0
  OBVIOUS
<1> QED
  BY <1>1, <1>3, <1>4, <1>5, <1>6, <1>7 DEF Move, Closes

\* Going on, or blaming a stage, without opening or closing a record.
LEMMA PassMoves ==
  ASSUME Types, RowsInv, NEW p \in Process, NEW these \in SUBSET Active(proc[p]),
         NEW what \in SUBSET Stage, rows' = rows \/ rows' = Blamed(these, what),
         NEW t \in State(Len(rows)), proc' = [proc EXCEPT ![p] = t],
         StateOK(rows', t),
         {t.outer, t.inner} \subseteq {proc[p].outer, proc[p].inner, 0},
         \/ faults' = faults /\ Active(proc[p]) \subseteq Active(t) \cup {0}
         \/ faults < MaxFaults /\ faults' = faults + 1
  PROVE  Move(p, t)
<1>1. Len(rows) \in Nat /\ rows \in Seq(Row)
  BY TypesParts DEF Types
<1>2. \A i \in 1 .. Len(rows) :
        i \in Active(proc[p]) => rows[i].status = "RUNNING"
  BY DEF RowsInv, StateOK
<1>3. /\ rows' \in Seq(Row) /\ Len(rows') = Len(rows)
      /\ \A i \in 1 .. Len(rows) :
           /\ i \notin these => rows'[i] = rows[i]
           /\ rows'[i].status = rows[i].status
  <2>1. CASE rows' = rows
    BY <1>1, <2>1
  <2>2. CASE rows' = Blamed(these, what)
    <3>1. Blames(rows', these, what)
      BY <1>1, <2>2, BlamedIs
    <3> QED
      BY <1>1, <3>1, SeqOf DEF Blames
  <2> QED
    BY <2>1, <2>2
<1>4. \A i \in 1 .. Len(rows) : i \in Active(proc[p]) => Honest(rows'[i])
  BY <1>2, <1>3, RunningIsHonest
<1>5. \A i \in 1 .. Len(rows) : i \notin Active(proc[p]) => rows'[i] = rows[i]
  BY <1>3
<1>6. \A i \in 1 .. Len(rows') : ~(i > Len(rows))
  BY <1>1, <1>3
<1>7. \A i \in {t.outer, t.inner} : i \in {proc[p].outer, proc[p].inner} \/ i = 0
  OBVIOUS
<1>8. \/ /\ faults' = faults
         /\ \A i \in 1 .. Len(rows) : i \in Active(proc[p]) => i \in Active(t)
      \/ faults < MaxFaults /\ faults' = faults + 1
  OBVIOUS
<1> QED
  BY <1>1, <1>3, <1>4, <1>5, <1>6, <1>7, <1>8 DEF Move

\* What a record finds once it is open, inserted or not.
LEMMA OpenRow ==
  ASSUME rows \in Seq(Row), NEW command \in Command, NEW row, Open(command, row)
  PROVE  /\ row \in Nat /\ row \notin 1 .. Len(rows)
         /\ \A i \in 1 .. Len(rows) : rows'[i] = rows[i]
         /\ row # 0 => /\ rows'[row].command = command
                       /\ rows'[row].status = "RUNNING"
                       /\ rows'[row].wrong = {}
<1>1. Len(rows) \in Nat
  BY SeqParts
<1> QED
  BY <1>1, OpenIs

LEMMA StartSimpleMoves ==
  ASSUME Types, RowsInv, NEW p \in Process, StartSimple(p)
  PROVE  \E t : Move(p, t)
<1>1. PICK command \in Simple, row \in {0, Len(rows) + 1} :
        /\ Open(command, row)
        /\ Goes(p, [Idle EXCEPT !.pc = "body", !.command = command,
                                !.outer = row])
  BY DEF StartSimple
<1>2. PICK t : t = [Idle EXCEPT !.pc = "body", !.command = command, !.outer = row]
  OBVIOUS
<1>3. command \in Command /\ command \in Running /\ "body" \in Pc
  BY CommandFacts, RunningFacts, PcFacts
<1>4. ASSUME NEW n \in Nat, row \in 0 .. n
      PROVE  t \in State(n) /\ t.pc = "body" /\ t.outer = row /\ t.inner = 0
  <2>1. Idle \in State(n) /\ Idle.inner = 0
    BY IdleIs
  <2> QED
    BY <1>2, <1>3, <1>4, <2>1 DEF State
<1>5. /\ row \in Nat
      /\ row # 0 => rows'[row].status = "RUNNING" /\ rows'[row].wrong = {}
  BY <1>1, <1>3, OpenRow DEF Types
<1>6. t.pc = "body" /\ t.outer = row /\ t.inner = 0
  BY <1>4, <1>5
<1>7. StateOK(rows', t) /\ Active(t) = {row}
  BY <1>5, <1>6 DEF StateOK, Active
<1>8. Active(proc[p]) = {0}
  BY IdleHoldsNothing DEF StartSimple, MayStart
<1>9. proc' = [proc EXCEPT ![p] = t]
  BY <1>1, <1>2 DEF Goes
<1>10. Move(p, t)
  BY <1>1, <1>3, <1>4, <1>6, <1>7, <1>8, <1>9, OpenMoves
<1> QED
  BY <1>10

LEMMA StartRunMoves ==
  ASSUME Types, RowsInv, NEW p \in Process, StartRun(p)
  PROVE  \E t : Move(p, t)
<1>1. PICK row \in {0, Len(rows) + 1} :
        /\ Open("run", row)
        /\ Goes(p, [Idle EXCEPT !.pc = "sources", !.command = "run",
                                !.outer = row, !.left = Source])
  BY DEF StartRun
<1>2. PICK t : t = [Idle EXCEPT !.pc = "sources", !.command = "run",
                                !.outer = row, !.left = Source]
  OBVIOUS
<1>3. "run" \in Command /\ "run" \in Running /\ "sources" \in Pc
  BY CommandFacts, RunningFacts, PcFacts
<1>4. ASSUME NEW n \in Nat, row \in 0 .. n
      PROVE  /\ t \in State(n) /\ t.pc = "sources" /\ t.outer = row
             /\ t.inner = 0 /\ t.failed = FALSE /\ t.command = "run"
  <2>1. Idle \in State(n) /\ Idle.inner = 0 /\ Idle.failed = FALSE
    BY IdleIs
  <2> QED
    BY <1>2, <1>3, <1>4, <2>1 DEF State
<1>5. /\ row \in Nat
      /\ row # 0 => rows'[row].status = "RUNNING" /\ rows'[row].wrong = {}
  BY <1>1, <1>3, OpenRow DEF Types
<1>6. /\ t.pc = "sources" /\ t.outer = row /\ t.inner = 0 /\ t.failed = FALSE
      /\ t.command = "run"
  <2>1. row \in Nat /\ row \in 0 .. row
    BY <1>5
  <2> QED
    BY <1>4, <2>1, Zenon
<1>7. StateOK(rows', t) /\ Active(t) = {row}
  BY <1>5, <1>6 DEF StateOK, Active
<1>8. Active(proc[p]) = {0}
  BY IdleHoldsNothing DEF StartRun, MayStart
<1>9. proc' = [proc EXCEPT ![p] = t]
  BY <1>1, <1>2 DEF Goes
<1>10. Move(p, t)
  BY <1>1, <1>3, <1>4, <1>6, <1>7, <1>8, <1>9, OpenMoves
<1> QED
  BY <1>10

LEMMA StartIngestMoves ==
  ASSUME Types, RowsInv, NEW p \in Process, StartIngest(p)
  PROVE  \E t : Move(p, t)
<1>1. PICK names \in SUBSET Source :
        Goes(p, [Idle EXCEPT !.pc = "sources", !.command = "ingest",
                             !.left = names])
  BY DEF StartIngest
<1>2. PICK t : t = [Idle EXCEPT !.pc = "sources", !.command = "ingest",
                                !.left = names]
  OBVIOUS
<1>3. Len(rows) \in Nat /\ "ingest" \in Running /\ "sources" \in Pc
  BY TypesParts, RunningFacts, PcFacts
<1>4. /\ t \in State(Len(rows)) /\ t.pc = "sources" /\ t.outer = 0
      /\ t.inner = 0 /\ t.failed = FALSE
  <2>1. /\ Idle \in State(Len(rows)) /\ Idle.outer = 0 /\ Idle.inner = 0
        /\ Idle.failed = FALSE
    BY <1>3, IdleIs
  <2> QED
    BY <1>2, <1>3, <2>1 DEF State
<1>5. StateOK(rows', t) /\ Active(t) = {0}
  BY <1>4 DEF StateOK, Active
<1>6. Active(proc[p]) = {0}
  BY IdleHoldsNothing DEF StartIngest, MayStart
<1>7. proc' = [proc EXCEPT ![p] = t] /\ rows' = rows /\ faults' = faults
  BY <1>1, <1>2 DEF Goes, StartIngest
<1>8. {} \in SUBSET Active(proc[p]) /\ {} \in SUBSET Stage
  OBVIOUS
<1>9. Move(p, t)
  BY <1>4, <1>5, <1>6, <1>7, <1>8, PassMoves
<1> QED
  BY <1>9

\* A record inside another one, or inside none, is opened by a process that
\* holds what it held before, its last inner row excepted.
LEMMA EnterMoves ==
  ASSUME Types, RowsInv, NEW p \in Process, proc[p].pc = "sources",
         NEW pc, NEW command, NEW left \in SUBSET Source,
         \/ pc = "source" /\ command = "ingest"
         \/ pc = "promote" /\ command = "promote",
         Enter(p, pc, command, left)
  PROVE  \E t : Move(p, t)
<1> DEFINE s == proc[p]
<1>1. PICK row \in {0, Len(rows) + 1} :
        /\ Open(command, row)
        /\ Goes(p, [s EXCEPT !.pc = pc, !.inner = row, !.left = left])
  BY DEF Enter
<1>2. PICK t : t = [s EXCEPT !.pc = pc, !.inner = row, !.left = left]
  OBVIOUS
<1>3. /\ Len(rows) \in Nat /\ s \in State(Len(rows))
      /\ s.outer \in 0 .. Len(rows) /\ s.inner \in 0 .. Len(rows)
      /\ pc \in Pc /\ command \in Command
  BY TypesParts, PcFacts, CommandFacts
<1>4. ASSUME NEW n \in Nat, row \in 0 .. n, Len(rows) <= n
      PROVE  /\ t \in State(n) /\ t.pc = pc /\ t.outer = s.outer
             /\ t.inner = row /\ t.failed = s.failed /\ t.command = s.command
  <2>1. s \in State(n)
    BY <1>3, <1>4, StateGrows
  <2> QED
    BY <1>2, <1>3, <1>4, <2>1 DEF State
<1>5. /\ row \in Nat /\ row \notin 1 .. Len(rows)
      /\ \A i \in 1 .. Len(rows) : rows'[i] = rows[i]
      /\ row # 0 => /\ rows'[row].command = command
                    /\ rows'[row].status = "RUNNING"
                    /\ rows'[row].wrong = {}
  BY <1>1, <1>3, OpenRow DEF Types
<1>6. /\ t.pc = pc /\ t.outer = s.outer /\ t.inner = row /\ t.failed = s.failed
      /\ t.command = s.command
  <2>1. Len(rows) + 1 \in Nat /\ row \in 0 .. Len(rows) + 1
        /\ Len(rows) <= Len(rows) + 1
    BY <1>3
  <2> QED
    BY <1>4, <2>1
<1>7. StateOK(rows, s) /\ Active(s) = {s.outer}
  BY DEF RowsInv, Active
<1>8. Active(t) = {s.outer, row}
  BY <1>6 DEF Active
<1>9. s.outer # 0 => s.outer \in 1 .. Len(rows) /\ s.outer # row
  BY <1>3, <1>5
<1>10. StateOK(rows', t)
  <2>1. s.outer # 0 =>
          /\ rows'[s.outer].status = "RUNNING"
          /\ rows'[s.outer].wrong = IF s.failed THEN {"source"} ELSE {}
    BY <1>5, <1>7, <1>9 DEF StateOK
  <2> QED
    BY <1>5, <1>6, <1>7, <1>8, <1>9, <2>1 DEF StateOK
<1>11. proc' = [proc EXCEPT ![p] = t]
  BY <1>1, <1>2 DEF Goes
<1>12. Move(p, t)
  BY <1>1, <1>3, <1>4, <1>6, <1>7, <1>8, <1>10, <1>11, OpenMoves
<1> QED
  BY <1>12


\* Closing one's record with SUCCESS, nothing having gone wrong or in the record
\* of a source, leaves an honest row.
LEMMA ClosesWell ==
  ASSUME NEW row \in 1 .. Len(rows), rows[row].status = "RUNNING",
         NEW these, NEW what, Closes(row, "SUCCESS", these, what),
         \/ row \notin these /\ rows[row].wrong = {}
         \/ rows[row].command = "ingest"
  PROVE  Honest(rows'[row])
  BY DEF Closes, Honest

LEMMA ClosesFailed ==
  ASSUME NEW row \in 1 .. Len(rows), rows[row].status = "RUNNING",
         NEW these, NEW what, Closes(row, "FAILED", these, what),
         IF row \in these THEN (rows[row].wrong \cup what) \ {"source"} # {}
         ELSE rows[row].wrong \ {"source"} # {}
  PROVE  Honest(rows'[row])
  BY DEF Closes, Honest

\* The end of a command: the process holds nothing any more.
LEMMA EndMoves ==
  ASSUME Types, RowsInv, NEW p \in Process, NEW status \in Status,
         status # "RUNNING", NEW these \in SUBSET {proc[p].outer},
         NEW what \in SUBSET Stage, Closes(proc[p].outer, status, these, what),
         proc[p].pc \notin {"source", "promote"},
         proc' = [proc EXCEPT ![p] = Idle],
         proc[p].outer \in 1 .. Len(rows) => Honest(rows'[proc[p].outer])
  PROVE  Move(p, Idle)
<1>1. Len(rows) \in Nat
  BY TypesParts
<1>2. /\ Idle \in State(Len(rows)) /\ Idle.outer = 0 /\ Idle.inner = 0
      /\ Idle.pc = "idle" /\ Idle.command = "none"
  BY <1>1, IdleIs
<1>3. StateOK(rows', Idle)
  BY <1>2 DEF StateOK, Active
<1>4. Active(proc[p]) = {proc[p].outer}
  BY DEF Active
<1>5. /\ proc[p].outer \in Active(proc[p]) /\ these \in SUBSET Active(proc[p])
      /\ {Idle.outer, Idle.inner} \subseteq {proc[p].outer, proc[p].inner, 0}
      /\ Active(proc[p]) \subseteq Active(Idle) \cup {proc[p].outer}
  BY <1>2, <1>4
<1> QED
  BY <1>2, <1>3, <1>5, CloseMoves

LEMMA EndBodyMoves ==
  ASSUME Types, RowsInv, NEW p \in Process, EndBody(p)
  PROVE  \E t : Move(p, t)
<1>1. /\ proc[p].pc = "body" /\ proc' = [proc EXCEPT ![p] = Idle]
      /\ rows \in Seq(Row)
  BY DEF EndBody, Goes, Types
<1>2. PICK row : row = proc[p].outer
  OBVIOUS
<1>3. row \in 1 .. Len(rows) =>
        rows[row].status = "RUNNING" /\ rows[row].wrong = {}
  BY <1>1, <1>2 DEF RowsInv, StateOK, Active
<1>4. CASE Close(row, "SUCCESS", {}, {})
  <2>1. "SUCCESS" \in Status /\ {} \in SUBSET Stage
    BY StatusFacts
  <2>2. Closes(row, "SUCCESS", {}, {})
    BY <1>1, <1>4, <2>1, CloseIs
  <2>3. row \in 1 .. Len(rows) => Honest(rows'[row])
    BY <1>3, <2>2, ClosesWell
  <2> QED
    BY <1>1, <1>2, <2>1, <2>2, <2>3, EndMoves
<1>5. CASE Close(row, "FAILED", {row}, {"body"})
  <2>1. "FAILED" \in Status /\ {"body"} \in SUBSET Stage
    BY StatusFacts, StageFacts
  <2>2. Closes(row, "FAILED", {row}, {"body"})
    BY <1>1, <1>5, <2>1, CloseIs
  <2>3. row \in 1 .. Len(rows) => Honest(rows'[row])
    BY <1>3, <2>2, ClosesFailed
  <2> QED
    BY <1>1, <1>2, <2>1, <2>2, <2>3, EndMoves
<1> QED
  BY <1>2, <1>4, <1>5 DEF EndBody

LEMMA FinishMoves ==
  ASSUME Types, RowsInv, NEW p \in Process, Finish(p)
  PROVE  \E t : Move(p, t)
<1>1. /\ proc[p].pc = "finish" /\ proc' = [proc EXCEPT ![p] = Idle]
      /\ rows \in Seq(Row)
  BY DEF Finish, Goes, Types
<1>2. PICK row, status :
        row = proc[p].outer
        /\ status = IF proc[p].failed THEN "PARTIAL" ELSE "SUCCESS"
  OBVIOUS
<1>3. row \in 1 .. Len(rows) =>
        /\ rows[row].status = "RUNNING"
        /\ rows[row].wrong = IF proc[p].failed THEN {"source"} ELSE {}
  BY <1>1, <1>2 DEF RowsInv, StateOK, Active
<1>4. status \in Status /\ status # "RUNNING" /\ {} \in SUBSET Stage
  BY <1>2, StatusFacts
<1>5. Closes(row, status, {}, {})
  BY <1>1, <1>2, <1>4, CloseIs DEF Finish
<1>6. row \in 1 .. Len(rows) => Honest(rows'[row])
  BY <1>2, <1>3, <1>5 DEF Closes, Honest
<1>7. {} \in SUBSET {proc[p].outer}
  OBVIOUS
<1> QED
  BY <1>1, <1>2, <1>4, <1>5, <1>6, <1>7, EndMoves

LEMMA RaiseMoves ==
  ASSUME Types, RowsInv, NEW p \in Process, Raise(p)
  PROVE  \E t : Move(p, t)
<1>1. /\ proc[p].pc = "raise" /\ proc' = [proc EXCEPT ![p] = Idle]
      /\ rows \in Seq(Row)
  BY DEF Raise, Goes, Types
<1>2. PICK row : row = proc[p].outer
  OBVIOUS
<1>3. row \in 1 .. Len(rows) =>
        rows[row].status = "RUNNING" /\ rows[row].wrong \ {"source"} # {}
  BY <1>1, <1>2 DEF RowsInv, StateOK, Active
<1>4. "FAILED" \in Status /\ {} \in SUBSET Stage /\ {} \in SUBSET {proc[p].outer}
  BY StatusFacts
<1>5. Closes(row, "FAILED", {}, {})
  BY <1>1, <1>2, <1>4, CloseIs DEF Raise
<1>6. row \in 1 .. Len(rows) => Honest(rows'[row])
  BY <1>3, <1>5, ClosesFailed
<1> QED
  BY <1>1, <1>2, <1>4, <1>5, <1>6, EndMoves

\* What the row of a helios run says of a run that goes on, or is to raise.
Noted(row, t) ==
  IF t.pc = "raise" THEN row.wrong \ {"source"} # {}
  ELSE row.wrong = IF t.failed THEN {"source"} ELSE {}

\* A record inside another one closes; the one around it, if any, stays open.
LEMMA InnerMoves ==
  ASSUME Types, RowsInv, NEW p \in Process, proc[p].pc \in {"source", "promote"},
         NEW status \in Status, status # "RUNNING",
         NEW these \in SUBSET {proc[p].inner, proc[p].outer},
         NEW what \in SUBSET Stage, Closes(proc[p].inner, status, these, what),
         NEW t \in State(Len(rows)), proc' = [proc EXCEPT ![p] = t],
         t.pc \in {"sources", "refresh", "raise"},
         t.outer = proc[p].outer, t.inner = proc[p].inner,
         t.command = proc[p].command,
         proc[p].outer \in 1 .. Len(rows) => Noted(rows'[proc[p].outer], t),
         proc[p].inner \in 1 .. Len(rows) => Honest(rows'[proc[p].inner])
  PROVE  Move(p, t)
<1>1. /\ Len(rows) \in Nat /\ proc[p].outer \in 0 .. Len(rows)
      /\ proc[p].inner \in 0 .. Len(rows)
  BY TypesParts
<1>2. /\ Active(proc[p]) = {proc[p].outer, proc[p].inner}
      /\ Active(t) = {proc[p].outer}
  BY DEF Active
<1>3. /\ proc[p].inner # 0 => proc[p].inner # proc[p].outer
      /\ proc[p].outer # 0 => rows[proc[p].outer].status = "RUNNING"
      /\ t.command = "ingest" => proc[p].outer = 0
  BY <1>2 DEF RowsInv, StateOK
<1>4. proc[p].outer # 0 =>
        /\ proc[p].outer \in 1 .. Len(rows) /\ proc[p].outer # proc[p].inner
        /\ rows'[proc[p].outer].status = "RUNNING"
  BY <1>1, <1>3 DEF Closes
<1>5. StateOK(rows', t)
  BY <1>2, <1>3, <1>4 DEF StateOK, Noted
<1>6. /\ proc[p].inner \in Active(proc[p]) /\ these \in SUBSET Active(proc[p])
      /\ {t.outer, t.inner} \subseteq {proc[p].outer, proc[p].inner, 0}
      /\ Active(proc[p]) \subseteq Active(t) \cup {proc[p].inner}
  BY <1>2
<1> QED
  BY <1>5, <1>6, CloseMoves

LEMMA EndSourceMoves ==
  ASSUME Types, RowsInv, NEW p \in Process, EndSource(p)
  PROVE  \E t : Move(p, t)
<1>1. /\ proc[p].pc = "source" /\ rows \in Seq(Row) /\ Len(rows) \in Nat
      /\ proc[p] \in State(Len(rows)) /\ proc[p].inner \in 0 .. Len(rows)
      /\ proc[p].outer \in 0 .. Len(rows)
  BY TypesParts DEF EndSource, Types
<1>2. PICK row, outer : row = proc[p].inner /\ outer = proc[p].outer
  OBVIOUS
<1>3. /\ row \in 1 .. Len(rows) => /\ rows[row].status = "RUNNING" /\ row # outer
                                   /\ rows[row].command = "ingest"
      /\ outer \in 1 .. Len(rows) =>
           rows[outer].wrong = IF proc[p].failed THEN {"source"} ELSE {}
  BY <1>1, <1>2 DEF RowsInv, StateOK, Active
<1>4. /\ "SUCCESS" \in Status /\ "FAILED" \in Status /\ {} \in SUBSET Stage
      /\ {"source"} \in SUBSET Stage /\ {"body"} \in SUBSET Stage
      /\ "sources" \in Pc /\ "raise" \in Pc
  BY StatusFacts, StageFacts, PcFacts
<1>5. CASE /\ Close(row, "SUCCESS", {}, {})
           /\ Goes(p, [proc[p] EXCEPT !.pc = "sources"])
  <2>1. PICK t : t = [proc[p] EXCEPT !.pc = "sources"]
    OBVIOUS
  <2>2. /\ t \in State(Len(rows)) /\ t.pc = "sources" /\ t.outer = outer
        /\ t.inner = row /\ t.failed = proc[p].failed
        /\ t.command = proc[p].command
    BY <1>1, <1>2, <1>4, <2>1 DEF State
  <2>3. Closes(row, "SUCCESS", {}, {})
    BY <1>1, <1>4, <1>5, CloseIs
  <2>4. row \in 1 .. Len(rows) => Honest(rows'[row])
    BY <1>3, <2>3, ClosesWell
  <2>5. outer \in 1 .. Len(rows) => Noted(rows'[outer], t)
    <3>1. outer \in 1 .. Len(rows) => rows'[outer].wrong = rows[outer].wrong
      BY <2>3 DEF Closes
    <3> QED
      BY <1>3, <2>2, <3>1 DEF Noted
  <2>6. proc' = [proc EXCEPT ![p] = t] /\ {} \in SUBSET {row, outer}
    BY <1>5, <2>1 DEF Goes
  <2> QED
    BY <1>1, <1>2, <1>4, <2>2, <2>3, <2>4, <2>5, <2>6, InnerMoves, Zenon
<1>6. CASE /\ Close(row, "SUCCESS", {row, outer}, {"source"})
           /\ Goes(p, [proc[p] EXCEPT !.pc = "sources", !.failed = TRUE])
  <2>1. PICK t : t = [proc[p] EXCEPT !.pc = "sources", !.failed = TRUE]
    OBVIOUS
  <2>2. /\ t \in State(Len(rows)) /\ t.pc = "sources" /\ t.outer = outer
        /\ t.inner = row /\ t.failed /\ t.command = proc[p].command
    BY <1>1, <1>2, <1>4, <2>1 DEF State
  <2>3. Closes(row, "SUCCESS", {row, outer}, {"source"})
    BY <1>1, <1>4, <1>6, CloseIs
  <2>4. row \in 1 .. Len(rows) => Honest(rows'[row])
    BY <1>3, <2>3, ClosesWell
  <2>5. outer \in 1 .. Len(rows) => Noted(rows'[outer], t)
    <3>1. outer \in 1 .. Len(rows) => rows'[outer].wrong = {"source"}
      BY <1>3, <2>3 DEF Closes
    <3> QED
      BY <2>2, <3>1 DEF Noted
  <2>6. proc' = [proc EXCEPT ![p] = t] /\ {row, outer} \in SUBSET {row, outer}
    BY <1>6, <2>1 DEF Goes
  <2> QED
    BY <1>1, <1>2, <1>4, <2>2, <2>3, <2>4, <2>5, <2>6, InnerMoves, Zenon
<1>7. CASE /\ Close(row, "FAILED", {row, outer}, {"body"})
           /\ Goes(p, [proc[p] EXCEPT !.pc = "raise"])
  <2>1. PICK t : t = [proc[p] EXCEPT !.pc = "raise"]
    OBVIOUS
  <2>2. /\ t \in State(Len(rows)) /\ t.pc = "raise" /\ t.outer = outer
        /\ t.inner = row /\ t.command = proc[p].command
    BY <1>1, <1>2, <1>4, <2>1 DEF State
  <2>3. Closes(row, "FAILED", {row, outer}, {"body"})
    BY <1>1, <1>4, <1>7, CloseIs
  <2>4. row \in 1 .. Len(rows) => Honest(rows'[row])
    BY <1>3, <2>3, ClosesFailed
  <2>5. outer \in 1 .. Len(rows) => Noted(rows'[outer], t)
    <3>1. outer \in 1 .. Len(rows) => "body" \in rows'[outer].wrong
      BY <2>3 DEF Closes
    <3> QED
      BY <2>2, <3>1 DEF Noted
  <2>6. proc' = [proc EXCEPT ![p] = t] /\ {row, outer} \in SUBSET {row, outer}
    BY <1>7, <2>1 DEF Goes
  <2> QED
    BY <1>1, <1>2, <1>4, <2>2, <2>3, <2>4, <2>5, <2>6, InnerMoves, Zenon
<1> QED
  BY <1>2, <1>5, <1>6, <1>7 DEF EndSource

LEMMA EndPromoteMoves ==
  ASSUME Types, RowsInv, NEW p \in Process, EndPromote(p)
  PROVE  \E t : Move(p, t)
<1>1. /\ proc[p].pc = "promote" /\ rows \in Seq(Row) /\ Len(rows) \in Nat
      /\ proc[p] \in State(Len(rows)) /\ proc[p].inner \in 0 .. Len(rows)
      /\ proc[p].outer \in 0 .. Len(rows)
  BY TypesParts DEF EndPromote, Types
<1>2. PICK row, outer : row = proc[p].inner /\ outer = proc[p].outer
  OBVIOUS
<1>3. /\ row \in 1 .. Len(rows) => /\ rows[row].status = "RUNNING" /\ row # outer
                                   /\ rows[row].wrong = {}
      /\ outer \in 1 .. Len(rows) =>
           rows[outer].wrong = IF proc[p].failed THEN {"source"} ELSE {}
  BY <1>1, <1>2 DEF RowsInv, StateOK, Active
<1>4. /\ "SUCCESS" \in Status /\ "FAILED" \in Status /\ {} \in SUBSET Stage
      /\ {"promote"} \in SUBSET Stage /\ "refresh" \in Pc /\ "raise" \in Pc
  BY StatusFacts, StageFacts, PcFacts
<1>5. CASE /\ Close(row, "SUCCESS", {}, {})
           /\ Goes(p, [proc[p] EXCEPT !.pc = "refresh"])
  <2>1. PICK t : t = [proc[p] EXCEPT !.pc = "refresh"]
    OBVIOUS
  <2>2. /\ t \in State(Len(rows)) /\ t.pc = "refresh" /\ t.outer = outer
        /\ t.inner = row /\ t.failed = proc[p].failed
        /\ t.command = proc[p].command
    BY <1>1, <1>2, <1>4, <2>1 DEF State
  <2>3. Closes(row, "SUCCESS", {}, {})
    BY <1>1, <1>4, <1>5, CloseIs
  <2>4. row \in 1 .. Len(rows) => Honest(rows'[row])
    BY <1>3, <2>3, ClosesWell
  <2>5. outer \in 1 .. Len(rows) => Noted(rows'[outer], t)
    <3>1. outer \in 1 .. Len(rows) => rows'[outer].wrong = rows[outer].wrong
      BY <2>3 DEF Closes
    <3> QED
      BY <1>3, <2>2, <3>1 DEF Noted
  <2>6. proc' = [proc EXCEPT ![p] = t] /\ {} \in SUBSET {row, outer}
    BY <1>5, <2>1 DEF Goes
  <2> QED
    BY <1>1, <1>2, <1>4, <2>2, <2>3, <2>4, <2>5, <2>6, InnerMoves, Zenon
<1>6. CASE /\ Close(row, "FAILED", {row, outer}, {"promote"})
           /\ Goes(p, [proc[p] EXCEPT !.pc = "raise"])
  <2>1. PICK t : t = [proc[p] EXCEPT !.pc = "raise"]
    OBVIOUS
  <2>2. /\ t \in State(Len(rows)) /\ t.pc = "raise" /\ t.outer = outer
        /\ t.inner = row /\ t.command = proc[p].command
    BY <1>1, <1>2, <1>4, <2>1 DEF State
  <2>3. Closes(row, "FAILED", {row, outer}, {"promote"})
    BY <1>1, <1>4, <1>6, CloseIs
  <2>4. row \in 1 .. Len(rows) => Honest(rows'[row])
    BY <1>3, <2>3, ClosesFailed
  <2>5. outer \in 1 .. Len(rows) => Noted(rows'[outer], t)
    <3>1. outer \in 1 .. Len(rows) => "promote" \in rows'[outer].wrong
      BY <2>3 DEF Closes
    <3> QED
      BY <2>2, <3>1 DEF Noted
  <2>6. proc' = [proc EXCEPT ![p] = t] /\ {row, outer} \in SUBSET {row, outer}
    BY <1>6, <2>1 DEF Goes
  <2> QED
    BY <1>1, <1>2, <1>4, <2>2, <2>3, <2>4, <2>5, <2>6, InnerMoves, Zenon
<1> QED
  BY <1>2, <1>5, <1>6 DEF EndPromote

LEMMA EndIngestMoves ==
  ASSUME Types, RowsInv, NEW p \in Process, EndIngest(p)
  PROVE  \E t : Move(p, t)
<1>1. Len(rows) \in Nat
  BY TypesParts
<1>2. /\ Idle \in State(Len(rows)) /\ Idle.outer = 0 /\ Idle.inner = 0
      /\ Idle.pc = "idle"
  BY <1>1, IdleIs
<1>3. StateOK(rows', Idle) /\ Active(Idle) = {0}
  BY <1>2 DEF StateOK, Active
<1>4. Active(proc[p]) = {0}
  BY DEF EndIngest, RowsInv, StateOK, Active
<1>5. proc' = [proc EXCEPT ![p] = Idle] /\ rows' = rows /\ faults' = faults
  BY DEF EndIngest, Goes
<1>6. {} \in SUBSET Active(proc[p]) /\ {} \in SUBSET Stage
  OBVIOUS
<1>7. Move(p, Idle)
  BY <1>2, <1>3, <1>4, <1>5, <1>6, PassMoves
<1> QED
  BY <1>7

LEMMA KillMoves ==
  ASSUME Types, RowsInv, NEW p \in Process, Kill(p)
  PROVE  \E t : Move(p, t)
<1>1. Len(rows) \in Nat
  BY TypesParts
<1>2. /\ Idle \in State(Len(rows)) /\ Idle.outer = 0 /\ Idle.inner = 0
      /\ Idle.pc = "idle"
  BY <1>1, IdleIs
<1>3. StateOK(rows', Idle)
  BY <1>2 DEF StateOK, Active
<1>4. proc' = [proc EXCEPT ![p] = Idle] /\ rows' = rows
      /\ faults < MaxFaults /\ faults' = faults + 1
  BY DEF Kill, Goes
<1>5. {} \in SUBSET Active(proc[p]) /\ {} \in SUBSET Stage
  OBVIOUS
<1>6. Move(p, Idle)
  BY <1>2, <1>3, <1>4, <1>5, PassMoves
<1> QED
  BY <1>6

\* The stages of helios run go on, or raise and are blamed for it, without a
\* record of their own.
LEMMA StageMoves ==
  ASSUME Types, RowsInv, NEW p \in Process, NEW stage \in Stage, stage # "source",
         proc[p].pc \in {"refresh", "checks"},
         NEW next \in {"checks", "finish"},
         Passes(p, next) \/ Raises(p, stage),
         faults' = faults \/ (faults < MaxFaults /\ faults' = faults + 1)
  PROVE  \E t : Move(p, t)
<1>1. /\ rows \in Seq(Row) /\ Len(rows) \in Nat /\ proc[p] \in State(Len(rows))
      /\ proc[p].outer \in 0 .. Len(rows)
  BY TypesParts DEF Types
<1>2. "checks" \in Pc /\ "finish" \in Pc /\ "raise" \in Pc
  BY PcFacts
<1>3. Active(proc[p]) = {proc[p].outer} /\ StateOK(rows, proc[p])
  BY DEF RowsInv, Active
<1>4. PICK outer : outer = proc[p].outer
  OBVIOUS
<1>5. CASE Passes(p, next)
  <2>1. PICK t : t = [proc[p] EXCEPT !.pc = next]
    OBVIOUS
  <2>2. next \in Pc
    BY <1>2
  <2>3. /\ t \in State(Len(rows)) /\ t.pc = next /\ t.outer = proc[p].outer
        /\ t.inner = proc[p].inner /\ t.failed = proc[p].failed
        /\ t.command = proc[p].command
    BY <1>1, <2>1, <2>2 DEF State
  <2>4. /\ Active(t) = {proc[p].outer} /\ rows' = rows
        /\ proc' = [proc EXCEPT ![p] = t]
    BY <1>5, <2>1, <2>3 DEF Active, Passes, Goes
  <2>5. StateOK(rows', t)
    BY <1>3, <2>3, <2>4 DEF StateOK
  <2>6. {} \in SUBSET Active(proc[p]) /\ {} \in SUBSET Stage
    OBVIOUS
  <2>7. Move(p, t)
    BY <1>3, <2>3, <2>4, <2>5, <2>6, PassMoves
  <2> QED
    BY <2>7
<1>6. CASE Raises(p, stage)
  <2>1. PICK t : t = [proc[p] EXCEPT !.pc = "raise"]
    OBVIOUS
  <2>2. /\ t \in State(Len(rows)) /\ t.pc = "raise" /\ t.outer = proc[p].outer
        /\ t.inner = proc[p].inner /\ t.command = proc[p].command
    BY <1>1, <1>2, <2>1 DEF State
  <2>3. /\ Active(t) = {proc[p].outer} /\ rows' = Blamed({outer}, {stage})
        /\ proc' = [proc EXCEPT ![p] = t]
    BY <1>4, <1>6, <2>1, <2>2 DEF Active, Raises, Goes
  <2>4. outer \in 1 .. Len(rows) =>
          /\ rows'[outer].status = rows[outer].status
          /\ stage \in rows'[outer].wrong
    <3>1. {stage} \in SUBSET Stage /\ outer \in {outer}
      OBVIOUS
    <3>2. Blames(rows', {outer}, {stage})
      BY <1>1, <2>3, <3>1, BlamedIs
    <3> QED
      BY <3>1, <3>2 DEF Blames
  <2>5. StateOK(rows', t)
    <3>1. outer # 0 => outer \in 1 .. Len(rows) /\ rows[outer].status = "RUNNING"
      BY <1>1, <1>3, <1>4 DEF StateOK
    <3>2. outer # 0 => /\ rows'[outer].status = "RUNNING"
                       /\ rows'[outer].wrong \ {"source"} # {}
      BY <2>4, <3>1
    <3>3. t.inner # 0 => t.inner # t.outer
      BY <1>3, <2>2 DEF StateOK
    <3>4. t.command = "ingest" => t.outer = 0
      BY <1>3, <2>2 DEF StateOK
    <3> QED
      BY <1>4, <2>2, <2>3, <3>2, <3>3, <3>4 DEF StateOK
  <2>6. {outer} \in SUBSET Active(proc[p]) /\ {stage} \in SUBSET Stage
    BY <1>3, <1>4
  <2>7. Move(p, t)
    BY <1>3, <2>2, <2>3, <2>5, <2>6, PassMoves
  <2> QED
    BY <2>7
<1> QED
  BY <1>5, <1>6

LEMMA RefreshMoves ==
  ASSUME Types, RowsInv, NEW p \in Process, Refresh(p)
  PROVE  \E t : Move(p, t)
<1>1. "refresh" \in Stage /\ "refresh" # "source" /\ "checks" \in {"checks", "finish"}
  BY StageFacts
<1> QED
  BY <1>1, StageMoves DEF Refresh

LEMMA ChecksMove ==
  ASSUME Types, RowsInv, NEW p \in Process, FindBlocking(p) \/ FindNothing(p)
  PROVE  \E t : Move(p, t)
<1>1. "checks" \in Stage /\ "checks" # "source" /\ "finish" \in {"checks", "finish"}
  BY StageFacts
<1>2. /\ proc[p].pc = "checks"
      /\ Passes(p, "finish") \/ Raises(p, "checks")
      /\ faults' = faults \/ (faults < MaxFaults /\ faults' = faults + 1)
  BY DEF FindBlocking, FindNothing
<1> QED
  BY <1>1, <1>2, StageMoves

LEMMA OpenInnerMoves ==
  ASSUME Types, RowsInv, NEW p \in Process, OpenSource(p) \/ OpenPromote(p)
  PROVE  \E t : Move(p, t)
<1>1. CASE OpenSource(p)
  <2>1. PICK s \in proc[p].left : Enter(p, "source", "ingest", proc[p].left \ {s})
    BY <1>1 DEF OpenSource
  <2>2. proc[p].left \ {s} \in SUBSET Source /\ proc[p].pc = "sources"
    BY <1>1, TypesParts DEF OpenSource
  <2> QED
    BY <2>1, <2>2, EnterMoves
<1>2. CASE OpenPromote(p)
  BY <1>2, EnterMoves DEF OpenPromote
<1> QED
  BY <1>1, <1>2

\* Every step moves one process, or changes neither the history nor a process.
LEMMA NextMoves ==
  ASSUME Types, RowsInv, [Next]_vars
  PROVE  (\E p \in Process : \E t : Move(p, t)) \/ UNCHANGED <<rows, proc, faults>>
<1>1. ASSUME NEW p \in Process, CheckAlone(p)
      PROVE  UNCHANGED <<rows, proc, faults>>
  BY <1>1 DEF CheckAlone
<1>2. ASSUME NEW p \in Process,
             \/ StartSimple(p) \/ EndBody(p) \/ StartIngest(p) \/ OpenSource(p)
             \/ EndSource(p) \/ EndIngest(p) \/ StartRun(p) \/ OpenPromote(p)
             \/ EndPromote(p) \/ Refresh(p) \/ FindBlocking(p) \/ FindNothing(p)
             \/ Finish(p) \/ Raise(p) \/ Kill(p)
      PROVE  \E t : Move(p, t)
  BY <1>2, StartSimpleMoves, EndBodyMoves, StartIngestMoves, OpenInnerMoves,
     EndSourceMoves, EndIngestMoves, StartRunMoves, EndPromoteMoves, RefreshMoves,
     ChecksMove, FinishMoves, RaiseMoves, KillMoves, Zenon
<1>3. CASE UNCHANGED vars
  BY <1>3 DEF vars
<1> QED
  BY <1>1, <1>2, <1>3 DEF Next

-----------------------------------------------------------------------------
(* The properties.                                                         *)

\* What the quality results and the last command refer to.
RefersToRows == blocked \subseteq 0 .. Len(rows) /\ latest \in 0 .. Len(rows)

LEMMA StepKeeps == Types /\ RowsInv /\ [Next]_vars => Types' /\ RowsInv'
<1> SUFFICES ASSUME Types, RowsInv, [Next]_vars PROVE Types' /\ RowsInv'
  OBVIOUS
<1>1. CASE UNCHANGED <<rows, proc, faults>>
  BY <1>1 DEF Types, RowsInv, StateOK, Apart
<1> QED
  BY <1>1, NextMoves, MoveKeeps

\* The history never gets shorter.
LEMMA HistoryGrows ==
  ASSUME Types, RowsInv, [Next]_vars
  PROVE  Len(rows) \in Nat /\ Len(rows') \in Nat /\ Len(rows) <= Len(rows')
<1>1. Len(rows) \in Nat
  BY SeqParts DEF Types
<1>2. ASSUME NEW p \in Process, NEW t, Move(p, t)
      PROVE  Len(rows') \in Nat /\ Len(rows) <= Len(rows')
  BY <1>2, SeqParts DEF Move
<1> QED
  BY <1>1, <1>2, NextMoves

LEMMA RefersStep ==
  ASSUME Types, RowsInv, RefersToRows, [Next]_vars
  PROVE  RefersToRows'
<1>1. Len(rows) \in Nat /\ Len(rows') \in Nat /\ Len(rows) <= Len(rows')
  BY HistoryGrows
<1>2. blocked' \subseteq 0 .. Len(rows')
  <2>1. blocked' \subseteq 0 .. Len(rows)
    <3>1. ASSUME NEW p \in Process, CheckAlone(p) \/ FindBlocking(p)
          PROVE  blocked' \subseteq 0 .. Len(rows)
      <4>1. \/ blocked' = blocked \/ blocked' = blocked \cup {0}
            \/ blocked' = blocked \cup {proc[p].outer}
        BY <3>1, Zenon DEF CheckAlone, FindBlocking
      <4>2. 0 \in 0 .. Len(rows) /\ proc[p].outer \in 0 .. Len(rows)
        BY <1>1, TypesParts
      <4> QED
        BY <4>1, <4>2 DEF RefersToRows
    <3>2. CASE blocked' = blocked
      BY <3>2 DEF RefersToRows
    <3> QED
      BY <3>1, <3>2
      DEF Next, vars, StartSimple, EndBody, StartIngest, OpenSource, EndSource,
          EndIngest, StartRun, OpenPromote, EndPromote, Refresh, FindNothing,
          Finish, Raise, Kill
  <2> QED
    BY <1>1, <2>1
<1>3. latest' \in 0 .. Len(rows')
  <2>1. ASSUME NEW p \in Process, StartRun(p)
        PROVE  latest' \in 0 .. Len(rows')
    <3>1. PICK row \in {0, Len(rows) + 1} : Open("run", row) /\ latest' = row
      BY <2>1 DEF StartRun
    <3>2. row = 0 \/ row = Len(rows')
      BY <3>1, CommandFacts, OpenIs DEF Types
    <3> QED
      BY <1>1, <3>1, <3>2
  <2>2. CASE latest' = latest \/ latest' = 0
    BY <1>1, <2>2 DEF RefersToRows
  <2> QED
    BY <2>1, <2>2
    DEF Next, vars, CheckAlone, StartSimple, EndBody, StartIngest, OpenSource,
        EndSource, EndIngest, OpenPromote, EndPromote, Refresh, FindBlocking,
        FindNothing, Finish, Raise, Kill
<1> QED
  BY <1>2, <1>3 DEF RefersToRows

LEMMA HonestStep ==
  ASSUME Types, RowsInv, StatusHonest, [Next]_vars
  PROVE  StatusHonest'
<1>1. DOMAIN rows = 1 .. Len(rows) /\ \A i \in 1 .. Len(rows) : Honest(rows[i])
  BY SeqParts DEF Types, StatusHonest, Honest
<1>2. ASSUME NEW p \in Process, NEW t, Move(p, t)
      PROVE  StatusHonest'
  <2>1. DOMAIN rows' = 1 .. Len(rows') /\ Len(rows) \in Nat /\ Len(rows') \in Nat
    BY <1>2, SeqParts DEF Move, Types
  <2>2. ASSUME NEW i \in 1 .. Len(rows')
        PROVE  Honest(rows'[i])
    <3>1. CASE i > Len(rows)
      BY <1>2, <3>1 DEF Move
    <3>2. CASE i \in 1 .. Len(rows)
      BY <1>1, <1>2, <3>2 DEF Move
    <3> QED
      BY <2>1, <3>1, <3>2
  <2> QED
    BY <2>1, <2>2 DEF StatusHonest, Honest
<1>3. CASE UNCHANGED <<rows, proc, faults>>
  BY <1>3 DEF StatusHonest
<1> QED
  BY <1>2, <1>3, NextMoves

\* A closed row is of no record that is open, and only those change their rows.
LEMMA ClosedStep ==
  ASSUME Types, RowsInv, [Next]_vars,
         NEW i \in DOMAIN rows, rows[i].status # "RUNNING"
  PROVE  rows'[i] = rows[i]
<1>1. i \in 1 .. Len(rows) /\ i # 0
  BY SeqParts DEF Types
<1>2. ASSUME NEW p \in Process, NEW t, Move(p, t)
      PROVE  rows'[i] = rows[i]
  <2>1. i \notin Active(proc[p])
    BY <1>1 DEF RowsInv, StateOK
  <2> QED
    BY <1>1, <1>2, <2>1 DEF Move
<1> QED
  BY <1>2, NextMoves

\* Rows that are RUNNING and that no open record will ever close.
Unclosed == {i \in DOMAIN rows : rows[i].status = "RUNNING"
                                 /\ \A p \in Process : i \notin Active(proc[p])}

UnclosedOfFaults ==
  IsFiniteSet(Unclosed) /\ Cardinality(Unclosed) <= 2 * faults

\* A step leaves two rows unclosed at most, and only by a fault.
LEMMA UnclosedStep ==
  ASSUME Types, RowsInv, [Next]_vars
  PROVE  \/ faults' = faults /\ Unclosed' \subseteq Unclosed
         \/ /\ faults' = faults + 1
            /\ \E a, b : Unclosed' \subseteq (Unclosed \cup {a}) \cup {b}
<1>1. ASSUME NEW p \in Process, NEW t, Move(p, t), NEW i \in Unclosed',
             i \notin Active(proc[p])
      PROVE  i \in Unclosed
  <2>1. DOMAIN rows = 1 .. Len(rows) /\ DOMAIN rows' = 1 .. Len(rows')
        /\ Len(rows) \in Nat /\ Len(rows') \in Nat
    BY <1>1, SeqParts DEF Types, Move
  <2>2. \A q \in Process : proc'[q] = IF q = p THEN t ELSE proc[q]
    BY <1>1 DEF Move, Types
  <2>3. /\ i \in 1 .. Len(rows') /\ rows'[i].status = "RUNNING"
        /\ \A q \in Process : i \notin Active(proc'[q])
    BY <2>1 DEF Unclosed, Active
  <2>4. i \in 1 .. Len(rows)
    BY <1>1, <2>1, <2>2, <2>3 DEF Move
  <2>5. rows[i].status = "RUNNING"
    BY <1>1, <2>3, <2>4 DEF Move
  <2>6. \A q \in Process : i \notin Active(proc[q])
    BY <1>1, <2>2, <2>3
  <2> QED
    BY <2>1, <2>4, <2>5, <2>6 DEF Unclosed
<1>2. ASSUME NEW p \in Process, NEW t, Move(p, t), faults' = faults + 1
      PROVE  \E a, b : Unclosed' \subseteq (Unclosed \cup {a}) \cup {b}
  <2>1. Active(proc[p]) \subseteq {proc[p].outer, proc[p].inner}
    BY DEF Active
  <2> QED
    BY <1>1, <1>2, <2>1
<1>3. ASSUME NEW p \in Process, NEW t, Move(p, t), faults' = faults,
             \A i \in 1 .. Len(rows) :
               i \in Active(proc[p]) /\ rows'[i].status = "RUNNING"
                 => i \in Active(t)
      PROVE  Unclosed' \subseteq Unclosed
  <2> SUFFICES ASSUME NEW i \in Unclosed', i \in Active(proc[p]) PROVE FALSE
    BY <1>1, <1>3
  <2>1. DOMAIN rows' = 1 .. Len(rows') /\ Len(rows) \in Nat /\ Len(rows') \in Nat
        /\ proc[p].outer \in 0 .. Len(rows) /\ proc[p].inner \in 0 .. Len(rows)
    BY <1>3, SeqParts, TypesParts DEF Types, Move
  <2>2. proc'[p] = t
    BY <1>3 DEF Move, Types
  <2>3. /\ i \in 1 .. Len(rows') /\ rows'[i].status = "RUNNING"
        /\ i \notin Active(t)
    BY <2>1, <2>2 DEF Unclosed, Active
  <2>4. i \in 1 .. Len(rows)
    BY <2>1, <2>3 DEF Active
  <2> QED
    BY <1>3, <2>3, <2>4
<1>4. CASE UNCHANGED <<rows, proc, faults>>
  BY <1>4 DEF Unclosed, Active
<1> QED
  BY <1>2, <1>3, <1>4, NextMoves DEF Move

\* One more element makes a finite set larger by at most one.
LEMMA OneMore ==
  ASSUME NEW S, NEW x, IsFiniteSet(S)
  PROVE  /\ IsFiniteSet(S \cup {x}) /\ Cardinality(S \cup {x}) \in Nat
         /\ Cardinality(S) \in Nat /\ Cardinality(S \cup {x}) <= Cardinality(S) + 1
<1>1. /\ IsFiniteSet(S \cup {x})
      /\ Cardinality(S \cup {x})
           = IF x \in S THEN Cardinality(S) ELSE Cardinality(S) + 1
  BY FS_AddElement
<1>2. Cardinality(S) \in Nat /\ Cardinality(S \cup {x}) \in Nat
  BY <1>1, FS_CardinalityType
<1> QED
  BY <1>1, <1>2

LEMMA UnclosedCount ==
  ASSUME Types, RowsInv, UnclosedOfFaults, [Next]_vars
  PROVE  UnclosedOfFaults'
<1>1. faults \in Nat
  BY RunsAssumption DEF Types
<1>2. IsFiniteSet(Unclosed) /\ Cardinality(Unclosed) \in Nat
      /\ Cardinality(Unclosed) <= 2 * faults
  BY FS_CardinalityType DEF UnclosedOfFaults
<1>3. CASE faults' = faults /\ Unclosed' \subseteq Unclosed
  <2>1. IsFiniteSet(Unclosed') /\ Cardinality(Unclosed') <= Cardinality(Unclosed)
    BY <1>2, <1>3, FS_Subset
  <2>2. Cardinality(Unclosed') \in Nat
    BY <2>1, FS_CardinalityType
  <2>3. Cardinality(Unclosed') <= 2 * faults'
    BY <1>1, <1>2, <1>3, <2>1, <2>2
  <2> QED
    BY <2>1, <2>3 DEF UnclosedOfFaults
<1>4. ASSUME faults' = faults + 1, NEW a, NEW b,
             Unclosed' \subseteq (Unclosed \cup {a}) \cup {b}
      PROVE  UnclosedOfFaults'
  <2>1. PICK A : A = Unclosed \cup {a}
    OBVIOUS
  <2>2. IsFiniteSet(A) /\ Cardinality(A) <= Cardinality(Unclosed) + 1
        /\ Cardinality(A) \in Nat
    BY <1>2, <2>1, OneMore
  <2>3. IsFiniteSet(A \cup {b}) /\ Cardinality(A \cup {b}) <= Cardinality(A) + 1
        /\ Cardinality(A \cup {b}) \in Nat
    BY <2>2, OneMore
  <2>4. IsFiniteSet(Unclosed') /\ Cardinality(Unclosed') <= Cardinality(A \cup {b})
    BY <1>4, <2>1, <2>3, FS_Subset
  <2>5. Cardinality(Unclosed') \in Nat
    BY <2>4, FS_CardinalityType
  <2>6. Cardinality(Unclosed') <= 2 * faults'
    BY <1>1, <1>2, <1>4, <2>2, <2>3, <2>4, <2>5
  <2> QED
    BY <2>4, <2>6 DEF UnclosedOfFaults
<1> QED
  BY <1>3, <1>4, UnclosedStep

LEMMA RunsInit ==
  Init => Types /\ RowsInv /\ RefersToRows /\ StatusHonest /\ UnclosedOfFaults
<1> SUFFICES ASSUME Init
             PROVE  Types /\ RowsInv /\ RefersToRows /\ StatusHonest
                    /\ UnclosedOfFaults
  OBVIOUS
<1>1. rows = <<>> /\ rows \in Seq(Row) /\ Len(rows) = 0 /\ DOMAIN rows = {}
  BY DEF Init
<1>2. /\ Idle \in State(Len(rows)) /\ Idle.pc = "idle" /\ Idle.outer = 0
      /\ Idle.inner = 0
  BY <1>1, IdleIs
<1>3. Types
  BY <1>1, <1>2, RunsAssumption DEF Init, Types
<1>4. StateOK(rows, Idle) /\ Apart(Idle, Idle)
  BY <1>2 DEF StateOK, Active, Apart
<1>5. RowsInv
  BY <1>4 DEF Init, RowsInv
<1>6. RefersToRows /\ StatusHonest
  BY <1>1 DEF Init, RefersToRows, StatusHonest
<1>7. UnclosedOfFaults
  <2>1. Unclosed = {} /\ faults = 0
    BY <1>1 DEF Init, Unclosed
  <2> QED
    BY <2>1, FS_EmptySet DEF UnclosedOfFaults
<1> QED
  BY <1>3, <1>5, <1>6, <1>7

LEMMA RunsHold ==
  Spec => [](Types /\ RowsInv /\ RefersToRows /\ StatusHonest /\ UnclosedOfFaults)
<1>1. Types /\ RowsInv /\ RefersToRows /\ StatusHonest /\ UnclosedOfFaults
      /\ [Next]_vars
      => (Types /\ RowsInv /\ RefersToRows /\ StatusHonest /\ UnclosedOfFaults)'
  BY StepKeeps, RefersStep, HonestStep, UnclosedCount
<1> QED
  BY RunsInit, <1>1, PTL DEF Spec

\* Types, and that the rows a process, a quality result or the last command
\* refers to are in the history.
THEOREM TypeCorrect == Spec => []TypeOK
<1>1. Types /\ RefersToRows => TypeOK
  BY DEF Types, RefersToRows, TypeOK, State, Pc, Running
<1> QED
  BY <1>1, RunsHold, PTL

\* The status of a command is the truth about everything it covers, nested
\* stages included, for any number of processes and whatever faults there are.
THEOREM StatusIsHonest == Spec => []StatusHonest
  BY RunsHold, PTL

\* A closed row is final: no record closes a row but its own, and no stage
\* blames a row that is closed.
THEOREM ClosedIsFinal == Spec => ClosedForever
<1>1. Types /\ RowsInv /\ [Next]_vars
      => [\A i \in DOMAIN rows :
            rows[i].status # "RUNNING" => rows'[i] = rows[i]]_vars
  BY ClosedStep
<1> QED
  BY <1>1, RunsHold, PTL DEF Spec, ClosedForever

\* A row that stays RUNNING with no process behind it is the trace of a kill or
\* of a lost write: there are at most two for each.
THEOREM OrphansHaveCauses == Spec => []OrphansOfFaults
<1>1. Types /\ UnclosedOfFaults => OrphansOfFaults
  <2> SUFFICES ASSUME Types, UnclosedOfFaults PROVE OrphansOfFaults
    OBVIOUS
  <2> DEFINE Orphans == {i \in DOMAIN rows : rows[i].status = "RUNNING" /\ i \notin Held}
  <2>1. Orphans \subseteq Unclosed
    BY DEF Unclosed, Held, Active
  <2>2. IsFiniteSet(Unclosed) /\ Cardinality(Unclosed) \in Nat
    BY FS_CardinalityType DEF UnclosedOfFaults
  <2>3. Cardinality(Orphans) <= Cardinality(Unclosed)
        /\ Cardinality(Orphans) \in Nat
    BY <2>1, <2>2, FS_Subset, FS_CardinalityType
  <2>4. faults \in Nat
    BY RunsAssumption DEF Types
  <2>5. Cardinality(Orphans) <= 2 * faults
    BY <2>2, <2>3, <2>4 DEF UnclosedOfFaults
  <2> QED
    BY <2>5 DEF OrphansOfFaults
<1> QED
  BY <1>1, RunsHold, PTL
=============================================================================
