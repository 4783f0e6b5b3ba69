------------------------------- MODULE MCMart -------------------------------
(***************************************************************************)
(* Two readings.  The second is of the next day by local time but not by   *)
(* UTC, and the first is too early for the lookback of that day.           *)
(***************************************************************************)
EXTENDS Mart, TLC

MCTime == 1 :> 3 @@ 2 :> 7

\* A day, everything up to a day, and everything.
MCRequests == {[from |-> 2, to |-> 2], [from |-> NoDate, to |-> 1],
               [from |-> NoDate, to |-> NoDate]}
=============================================================================
