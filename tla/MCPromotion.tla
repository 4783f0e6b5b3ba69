---------------------------- MODULE MCPromotion -----------------------------
(***************************************************************************)
(* Small instances of Promotion.                                           *)
(***************************************************************************)
EXTENDS Promotion

CONSTANTS site, meter, reading

MCParent == [e \in {meter, reading} |-> IF e = meter THEN site ELSE meter]

\* A meter whose multiplier changes and a reading that is corrected.
MCRow == {<<site, 1>>, <<meter, 1>>, <<meter, 2>>, <<reading, 1>>, <<reading, 2>>}
=============================================================================
