----------------------------- MODULE CleanMount -----------------------------
(***************************************************************************)
(* What the FTL promises about its saved context ("FTL context (unmounted, *)
(* clean)", yaftl_common.h): the tables it works with describe what is on  *)
(* the NAND, and saved tables can be found again exactly as long as they   *)
(* do.  Data may change only while nothing that is saved would be trusted. *)
(***************************************************************************)
EXTENDS Naturals

CONSTANT None

VARIABLES
  mounted,  \* the FTL is open
  tables,   \* which state of the data its tables describe
  data,     \* state of the data on the NAND
  saved     \* tables that the next open would trust, or None

Init ==
  /\ mounted = FALSE /\ tables = None
  /\ data = 0 /\ saved = data

Mount ==
  /\ ~mounted /\ saved = data
  /\ mounted' = TRUE /\ tables' = saved
  /\ UNCHANGED <<data, saved>>

Unsave == mounted /\ saved' = None /\ UNCHANGED <<mounted, tables, data>>

Change ==
  /\ mounted /\ saved = None
  /\ data' = data + 1 /\ tables' = data'
  /\ UNCHANGED <<mounted, saved>>

Save == mounted /\ saved' = tables /\ UNCHANGED <<mounted, tables, data>>

PowerLost ==
  /\ mounted
  /\ mounted' = FALSE /\ tables' = None
  /\ UNCHANGED <<data, saved>>

Next == Mount \/ Unsave \/ Change \/ Save \/ PowerLost

Spec == Init /\ [][Next]_<<mounted, tables, data, saved>>
=============================================================================
