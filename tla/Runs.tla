-------------------------------- MODULE Runs --------------------------------
(***************************************************************************)
(* The run history: what meta.pipeline_run says about the commands that    *)
(* ran, and what the health view makes of it.                              *)
(*                                                                         *)
(* A RunRecord opens a row before the work it covers and closes it with    *)
(* the outcome.  Records nest: helios run holds one of its own, and the    *)
(* ingestion of every source and the promotion inside it hold one each.    *)
(* Whatever a stage raises closes the records it passes on its way out.    *)
(*                                                                         *)
(* Rows are in the order of started_at.  The index of a row is its batch   *)
(* id; 0 stands for the batch of a row that could not be inserted, and of  *)
(* checks that run outside any record.                                     *)
(***************************************************************************)
EXTENDS Integers, Sequences, FiniteSets

CONSTANTS
  Process,
  Source,
  Simple,     \* commands with one record and one body: backfill, dlq replay ...
  Strict,     \* a blocking quality check fails the run
  MaxRows,    \* bound: no command starts once the history is this long
  MaxFaults   \* bound on kills and on run records that cannot be written

ASSUME RunsAssumption ==
  /\ "run" \notin Simple
  /\ Strict \in BOOLEAN
  /\ MaxRows \in Nat
  /\ MaxFaults \in Nat

VARIABLES
  rows,      \* meta.pipeline_run, and what went wrong under each row
  blocked,   \* batches with a blocking failure in meta.quality_result
  proc,      \* the state of each process
  latest,    \* history: the row of the last command, if it is a helios run
  faults     \* kills and lost writes so far

vars == <<rows, blocked, proc, latest, faults>>

Stage == {"source", "body", "promote", "refresh", "checks"}

Row == [command : Simple \cup {"run", "ingest", "promote"},
        status  : {"RUNNING", "SUCCESS", "PARTIAL", "FAILED"},
        wrong   : SUBSET Stage]

Idle == [pc |-> "idle", command |-> "none", outer |-> 0, inner |-> 0,
         left |-> {}, failed |-> FALSE]

Goes(p, state) == proc' = [proc EXCEPT ![p] = state]

MayStart(p) == proc[p].pc = "idle" /\ Len(rows) < MaxRows

-----------------------------------------------------------------------------
(* RunRecord.                                                              *)

OpenUninserted(command, row) ==
  /\ row = Len(rows) + 1
  /\ faults < MaxFaults
  /\ faults' = faults + 1
  /\ UNCHANGED rows

\* __enter__: a row is inserted, or the failure to insert it is only logged.
Open(command, row) ==
  \/ /\ row = Len(rows) + 1
     /\ rows' = Append(rows, [command |-> command, status |-> "RUNNING",
                              wrong |-> {}])
     /\ UNCHANGED faults
  \/ /\ row = 0
     /\ faults < MaxFaults
     /\ faults' = faults + 1
     /\ UNCHANGED rows

\* What went wrong counts against every row that covers the stage.
Blamed(these, what) ==
  [i \in DOMAIN rows |->
     IF i \in these THEN [rows[i] EXCEPT !.wrong = rows[i].wrong \cup what]
     ELSE rows[i]]

\* __exit__: the row is updated, or the failure to update it is only logged.
Close(row, status, these, what) ==
  LET blamed == Blamed(these, what)
  IN  \/ /\ rows' = [i \in DOMAIN rows |->
                       IF i = row THEN [blamed[i] EXCEPT !.status = status]
                       ELSE blamed[i]]
         /\ UNCHANGED faults
      \/ /\ faults < MaxFaults
         /\ faults' = faults + 1
         /\ rows' = blamed

EnterSharingBatch(p, pc, command, left) ==
  /\ Goes(p, [proc[p] EXCEPT !.pc = pc, !.inner = proc[p].outer, !.left = left])
  /\ UNCHANGED <<rows, faults>>

\* A record inside another one has a batch id of its own.
Enter(p, pc, command, left) ==
  \E row \in {0, Len(rows) + 1} :
    /\ Open(command, row)
    /\ Goes(p, [proc[p] EXCEPT !.pc = pc, !.inner = row, !.left = left])

-----------------------------------------------------------------------------
(* Commands with one record: promote, refresh-marts, backfill, dlq replay. *)

StartSimple(p) ==
  /\ MayStart(p)
  /\ \E command \in Simple, row \in {0, Len(rows) + 1} :
       /\ Open(command, row)
       /\ Goes(p, [Idle EXCEPT !.pc = "body", !.command = command,
                               !.outer = row])
  /\ latest' = 0
  /\ UNCHANGED blocked

EndBody(p) ==
  LET row == proc[p].outer
  IN  /\ proc[p].pc = "body"
      /\ Close(row, "SUCCESS", {}, {}) \/ Close(row, "FAILED", {row}, {"body"})
      /\ Goes(p, Idle)
      /\ UNCHANGED <<blocked, latest>>

\* helios quality: the checks, under a batch id that belongs to no row.
CheckAlone(p) ==
  /\ proc[p].pc = "idle"
  /\ blocked' = blocked \cup {0}
  /\ UNCHANGED <<rows, proc, latest, faults>>

-----------------------------------------------------------------------------
(* The ingestion of sources, on its own (helios ingest) or in a helios run.*)

StartIngest(p) ==
  /\ MayStart(p)
  /\ \E names \in SUBSET Source \ {{}} :
       Goes(p, [Idle EXCEPT !.pc = "sources", !.command = "ingest",
                            !.left = names])
  /\ latest' = 0
  /\ UNCHANGED <<rows, blocked, faults>>

OpenSource(p) ==
  /\ proc[p].pc = "sources"
  /\ \E s \in proc[p].left :
       Enter(p, "source", "ingest", proc[p].left \ {s})
  /\ UNCHANGED <<blocked, latest>>

\* A source that fails is noted and the loop goes on: the record around it sees
\* no exception.  One of a kind nobody expects ends the command.
EndSource(p) ==
  LET row   == proc[p].inner
      these == {row, proc[p].outer}
  IN  /\ proc[p].pc = "source"
      /\ \/ /\ Close(row, "SUCCESS", {}, {})
            /\ Goes(p, [proc[p] EXCEPT !.pc = "sources"])
         \/ /\ Close(row, "SUCCESS", these, {"source"})
            /\ Goes(p, [proc[p] EXCEPT !.pc = "sources", !.failed = TRUE])
         \/ /\ Close(row, "FAILED", these, {"body"})
            /\ Goes(p, [proc[p] EXCEPT !.pc = "raise"])
      /\ UNCHANGED <<blocked, latest>>

EndIngest(p) ==
  /\ proc[p].pc = "sources"
  /\ proc[p].left = {}
  /\ proc[p].command = "ingest"
  /\ Goes(p, Idle)
  /\ UNCHANGED <<rows, blocked, latest, faults>>

-----------------------------------------------------------------------------
(* helios run: sources, promotion, mart refresh and checks in one record.  *)

StartRun(p) ==
  /\ MayStart(p)
  /\ \E row \in {0, Len(rows) + 1} :
       /\ Open("run", row)
       /\ Goes(p, [Idle EXCEPT !.pc = "sources", !.command = "run",
                               !.outer = row, !.left = Source])
       /\ latest' = row
  /\ UNCHANGED blocked

OpenPromote(p) ==
  /\ proc[p].pc = "sources"
  /\ proc[p].left = {}
  /\ proc[p].command = "run"
  /\ Enter(p, "promote", "promote", {})
  /\ UNCHANGED <<blocked, latest>>

EndPromote(p) ==
  LET row == proc[p].inner
  IN  /\ proc[p].pc = "promote"
      /\ \/ /\ Close(row, "SUCCESS", {}, {})
            /\ Goes(p, [proc[p] EXCEPT !.pc = "refresh"])
         \/ /\ Close(row, "FAILED", {row, proc[p].outer}, {"promote"})
            /\ Goes(p, [proc[p] EXCEPT !.pc = "raise"])
      /\ UNCHANGED <<blocked, latest>>

\* The stages of helios run without a record of their own.
Passes(p, next) ==
  /\ Goes(p, [proc[p] EXCEPT !.pc = next])
  /\ UNCHANGED rows

Raises(p, stage) ==
  /\ Goes(p, [proc[p] EXCEPT !.pc = "raise"])
  /\ rows' = Blamed({proc[p].outer}, {stage})

Refresh(p) ==
  /\ proc[p].pc = "refresh"
  /\ Passes(p, "checks") \/ Raises(p, "refresh")
  /\ UNCHANGED <<blocked, latest, faults>>

\* The results are stored under the batch of the run, or the failure to store
\* them is only logged; then a blocking failure is raised.
FindBlocking(p) ==
  /\ proc[p].pc = "checks"
  /\ \/ blocked' = blocked \cup {proc[p].outer} /\ UNCHANGED faults
     \/ faults < MaxFaults /\ faults' = faults + 1 /\ UNCHANGED blocked
  /\ IF Strict THEN Raises(p, "checks") ELSE Passes(p, "finish")
  /\ UNCHANGED latest

\* Nothing blocks, or a check cannot be evaluated and nothing is stored.
FindNothing(p) ==
  /\ proc[p].pc = "checks"
  /\ Passes(p, "finish") \/ Raises(p, "checks")
  /\ UNCHANGED <<blocked, latest, faults>>

FinishUnmarked(p) ==
  /\ proc[p].pc = "finish"
  /\ Close(proc[p].outer, "SUCCESS", {}, {})
  /\ Goes(p, Idle)
  /\ UNCHANGED <<blocked, latest>>

Finish(p) ==
  /\ proc[p].pc = "finish"
  /\ Close(proc[p].outer, IF proc[p].failed THEN "PARTIAL" ELSE "SUCCESS", {}, {})
  /\ Goes(p, Idle)
  /\ UNCHANGED <<blocked, latest>>

RaiseUnrecorded(p) ==
  /\ proc[p].pc = "raise"
  /\ Goes(p, Idle)
  /\ UNCHANGED <<rows, blocked, latest, faults>>

\* The exception leaves through the record of the run; a helios ingest has none.
Raise(p) ==
  /\ proc[p].pc = "raise"
  /\ Close(proc[p].outer, "FAILED", {}, {})
  /\ Goes(p, Idle)
  /\ UNCHANGED <<blocked, latest>>

-----------------------------------------------------------------------------
(* The system.                                                             *)

\* A killed process closes nothing.
Kill(p) ==
  /\ proc[p].pc # "idle"
  /\ faults < MaxFaults
  /\ faults' = faults + 1
  /\ Goes(p, Idle)
  /\ UNCHANGED <<rows, blocked, latest>>

Init ==
  /\ rows = <<>>
  /\ blocked = {}
  /\ proc = [p \in Process |-> Idle]
  /\ latest = 0
  /\ faults = 0

Next ==
  \E p \in Process :
    \/ StartSimple(p) \/ EndBody(p) \/ CheckAlone(p)
    \/ StartIngest(p) \/ OpenSource(p) \/ EndSource(p) \/ EndIngest(p)
    \/ StartRun(p) \/ OpenPromote(p) \/ EndPromote(p) \/ Refresh(p)
    \/ FindBlocking(p) \/ FindNothing(p) \/ Finish(p) \/ Raise(p)
    \/ Kill(p)

Spec == Init /\ [][Next]_vars

-----------------------------------------------------------------------------
(* Properties.                                                             *)

\* Types, and that the rows a process holds are in the history.
TypeOK ==
  /\ rows \in Seq(Row)
  /\ blocked \subseteq 0 .. Len(rows)
  /\ proc \in [Process ->
                 [pc : {"idle", "body", "sources", "source", "promote", "refresh",
                        "checks", "finish", "raise"},
                  command : Simple \cup {"none", "ingest", "run"},
                  outer : 0 .. Len(rows), inner : 0 .. Len(rows),
                  left : SUBSET Source, failed : BOOLEAN]]
  /\ latest \in 0 .. Len(rows)
  /\ faults \in 0 .. MaxFaults

\* The status of a command is the truth about everything it covers, nested
\* stages included: SUCCESS hides no failure, PARTIAL is what failed sources
\* and nothing else make of a run, and FAILED has a cause.  The row of a single
\* source is left out: its failure is handled inside its record (EndSource).
StatusHonest ==
  \A i \in DOMAIN rows :
    LET row == rows[i]
    IN  row.command # "ingest" =>
          /\ row.status = "SUCCESS" => row.wrong = {}
          /\ row.status = "PARTIAL" => row.wrong = {"source"}
          /\ row.status = "FAILED" => row.wrong \ {"source"} # {}

\* The history is final: once a row is closed, no record of another stage or
\* process that closes later overwrites it.
ClosedForever ==
  [][\A i \in DOMAIN rows :
       rows[i].status # "RUNNING" => rows'[i] = rows[i]]_vars

Held == UNION {{proc[p].outer, proc[p].inner} : p \in Process}

\* Exceptions leave no row open, at whatever depth they are raised: a row that
\* is RUNNING with no process behind it is the trace of a kill or of a write
\* that was lost, and each of these leaves at most two.
OrphansOfFaults ==
  Cardinality({i \in DOMAIN rows : rows[i].status = "RUNNING" /\ i \notin Held})
    <= 2 * faults

\* v_pipeline_health: the row with the latest started_at, and whether a check
\* of its batch blocks.
LastRun == [status |-> rows[Len(rows)].status, blocking |-> Len(rows) \in blocked]

\* /pipeline/health answers 503.
Unhealthy == rows # <<>> /\ (LastRun.status = "FAILED" \/ LastRun.blocking)

\* When the last command was a helios run and it failed, the health endpoint
\* says so.
HealthSeesFailure ==
  latest # 0 /\ rows[latest].status = "FAILED" => Unhealthy
=============================================================================
