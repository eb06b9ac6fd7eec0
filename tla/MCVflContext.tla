---------------------------- MODULE MCVflContext ----------------------------
(* Blocks of two entries, so that the ring of four blocks goes round in    *)
(* eight stores.                                                           *)
EXTENDS VflContext, TLC
=============================================================================
