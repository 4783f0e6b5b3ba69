------------------------------- MODULE MCRuns -------------------------------
(***************************************************************************)
(* Small instances of Runs.                                                *)
(***************************************************************************)
EXTENDS Runs, TLC

\* promote is a command of its own and a stage of helios run.
MCSimple == {"promote"}

\* Processes and sources are interchangeable: no definition singles one out.
MCSymmetry == Permutations(Process) \cup Permutations(Source)
=============================================================================
