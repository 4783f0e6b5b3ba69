---------------------------- MODULE MCPartitions ----------------------------
(***************************************************************************)
(* January to April of a common year, with a reading in each of the first  *)
(* three months and a second one in January.                               *)
(***************************************************************************)
EXTENDS Partitions, TLC

MCFirst == 0 :> 0 @@ 1 :> 31 @@ 2 :> 59 @@ 3 :> 90 @@ 4 :> 120

MCDay == 1 :> 0 @@ 2 :> 30 @@ 3 :> 58 @@ 4 :> 59
=============================================================================
