----------------------------- MODULE MCFtlLog -----------------------------
(* Two logical blocks of four pages share one log, so that every change    *)
(* from one to the other merges.                                           *)
EXTENDS FtlLog

Mixed    == {<<0, 1>>, <<2, 2>>, <<4, 1>>, <<0, 4>>}
FirstBlock == {<<0, 1>>, <<0, 4>>}
=============================================================================
