------------------------------ MODULE MCFetch ------------------------------
(***************************************************************************)
(* A small instance of Fetch over Store: record 1 orders first by its     *)
(* text and last by its instant, record 2 is below the bound and record 3  *)
(* at it.                                                                  *)
(***************************************************************************)
EXTENDS Fetch, TLC

MCInstant == 1 :> 3 @@ 2 :> 1 @@ 3 :> 2

MCDataset == {{1, 2, 3}, {1, 2}}
=============================================================================
