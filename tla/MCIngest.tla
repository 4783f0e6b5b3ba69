------------------------------ MODULE MCIngest ------------------------------
(***************************************************************************)
(* Small instances of Ingest.                                              *)
(***************************************************************************)
EXTENDS Ingest

\* Two records share an instant and straddle a page, and one of them is
\* malformed; the third may come after the fourth; the newest one is late enough
\* to put the first ones behind the grace window.
MCRecord == {<<1, 1>>, <<1, 2>>, <<3, 1>>, <<4, 1>>}
MCValid == MCRecord \ {<<1, 2>>}
=============================================================================
