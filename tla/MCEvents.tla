------------------------------ MODULE MCEvents ------------------------------
(* Three events (two sleepers and the watchdog) with three timeouts: two   *)
(* events can share a deadline, be set for a deadline before and after a   *)
(* third one, and exceed the largest timer count.                          *)
EXTENDS Events

CONSTANTS menu, acm, wdt
=============================================================================
