---------------------------- MODULE MCDeadLetter ----------------------------
(***************************************************************************)
(* Small instances of DeadLetter.                                          *)
(***************************************************************************)
EXTENDS DeadLetter

CONSTANTS a, b, c, noMeter, noKey

\* Two versions of reading a, and between them the readings b and c of two
\* meters at one instant, both with an empty meter_id: they share a key.
MCRecord == {<<1, a>>, <<2, b>>, <<2, c>>, <<3, a>>}
MCKeyOf == [r \in MCRecord |-> IF r[2] = a THEN a ELSE noMeter]

\* A contract that refuses everything is widened twice: the first version of a
\* is accepted before the second.  c is wrong in another field as well.
MCContracts == <<{}, {<<1, a>>}, {<<1, a>>, <<2, b>>}>>

\* b and c arrive with their only key field empty, and no contract accepts them.
MCUnkeyed == [r \in MCRecord |-> IF r[2] = a THEN a ELSE noKey]
MCNeverB == <<{}, {<<1, a>>, <<3, a>>}>>
=============================================================================
