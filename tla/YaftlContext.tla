---------------------------- MODULE YaftlContext ----------------------------
(***************************************************************************)
(* How the YAFTL keeps its context in the three control blocks of the NAND *)
(* (ftl-yaftl/yaftl.c, yaftl_common.c).  A flush writes the context to     *)
(* CtrlBlockPageOffset pages; the page behind them is left empty and is    *)
(* written (YAFTL_writeIndexTOC) before the data changes again, so that    *)
(* open can tell a context that describes the data from a stale one.       *)
(*                                                                         *)
(* The power may fail between any two operations on the NAND, and the      *)
(* writing of a context page or of a mark may fail.                        *)
(*                                                                         *)
(* Abstracted: the data and the tables that describe it are a version      *)
(* number; the writing or erasing of user and index blocks (YAFTL_Write,   *)
(* garbage collection, allocation of blocks) is one action, WriteData, its *)
(* guard the field_78 test that all of these paths make first.  An open    *)
(* without a clean context ends in system_panic (YAFTL_Restore).  Left     *)
(* out: the replacement of the control blocks after 1000 flushes, which    *)
(* the code never reaches because numFlushes is never counted up.          *)
(***************************************************************************)
EXTENDS Integers, FiniteSets

CONSTANTS
  PagesPerSublk,        \* sGeometry.pagesPerSublk
  CtrlBlockPageOffset,  \* pages of a context
  NumBlocks,            \* sGeometry.numBlocks; block NumBlocks is the VFL's
  FTLCtrlBlock,         \* the control blocks, from the VFL context
  None,
  MaxVersion,           \* bound: changes of the data
  MaxFaults             \* bound: failing writes

ASSUME YaftlAssumption ==
  /\ CtrlBlockPageOffset \in Nat \ {0}
  /\ PagesPerSublk \in Nat /\ PagesPerSublk > CtrlBlockPageOffset
  /\ NumBlocks \in Nat
  /\ FTLCtrlBlock \in [0..2 -> 0..NumBlocks - 1]
  /\ Cardinality({FTLCtrlBlock[i] : i \in 0..2}) = 3
  /\ MaxVersion \in Nat /\ MaxFaults \in Nat /\ None \notin Nat

VARIABLES
  flash,    \* contents of every page, by page number
  phase,    \* "off", "up" or "panic"
  pc,       \* what the FTL is doing
  sel,      \* selCtrlBlockIndex
  cxtPage,  \* ftlCxtPage
  clean,    \* field_78: a context that describes the data is on the NAND
  usn,      \* maxIndexUsn
  tables,   \* the data that the tables in memory describe
  slot,     \* the context being written: first page, pages done, "block"
  data,     \* history: state of the data on the NAND
  faults    \* history: writes that failed

ram  == <<sel, cxtPage, clean, usn, tables, slot>>
vars == <<flash, phase, pc, ram, data, faults>>

Block == 0..NumBlocks
Page  == 0..(NumBlocks + 1) * PagesPerSublk - 1

FirstPage(b) == b * PagesPerSublk
BlockOf(p)   == p \div PagesPerSublk
CtrlBlocks   == {FTLCtrlBlock[i] : i \in 0..2}

Empty == [type |-> "empty"]
Bad   == [type |-> "bad"]   \* written, but cannot be read
User  == [type |-> "user"]  \* data, or a block the VFL keeps in reserve
Mark  == [type |-> "mark"]
Cxt   == [type : {"cxt"}, usn : Nat, tables : Nat]

NoSlot == [page |-> None, done |-> 0, block |-> None]

TypeOK ==
  /\ flash \in [Page -> Cxt \cup {Empty, Bad, User, Mark}]
  /\ phase \in {"off", "up", "panic"}
  /\ pc \in {"idle", "mark", "eraseCurrent", "eraseNext", "data",
             "flush", "context", "eraseFailed", "eraseOther"}
  /\ sel \in 0..2 /\ cxtPage \in Page \cup {None} /\ clean \in BOOLEAN
  /\ usn \in Nat /\ tables \in Nat \cup {None}
  /\ slot \in {NoSlot} \cup
       [page : Page, done : 0..CtrlBlockPageOffset - 1, block : Block]
  /\ data \in 0..MaxVersion /\ faults \in 0..MaxFaults

(* A device that was shut down cleanly: one context, in the first control  *)
(* block.                                                                  *)
Init ==
  /\ flash = [p \in Page |->
       IF BlockOf(p) \notin CtrlBlocks THEN User
       ELSE IF p \in FirstPage(FTLCtrlBlock[0])
                       ..FirstPage(FTLCtrlBlock[0]) + CtrlBlockPageOffset - 1
            THEN [type |-> "cxt", usn |-> 1, tables |-> 0]
            ELSE Empty]
  /\ phase = "off" /\ pc = "idle"
  /\ sel = 0 /\ cxtPage = None /\ clean = FALSE
  /\ usn = 0 /\ tables = None /\ slot = NoSlot
  /\ data = 0 /\ faults = 0

----------------------------------------------------------------------------
(* YAFTL_Open                                                              *)

IsCxt(p)    == flash[p].type = "cxt"
Readable(p) == flash[p].type \notin {"empty", "bad"}

Candidates == {i \in 0..2 : IsCxt(FirstPage(FTLCtrlBlock[i]))}

FirstUsn(i) == flash[FirstPage(FTLCtrlBlock[i])].usn

(* The control block whose first page has the highest usn. *)
Latest ==
  CHOOSE i \in Candidates : \A j \in Candidates :
    FirstUsn(j) < FirstUsn(i) \/ (FirstUsn(j) = FirstUsn(i) /\ i <= j)

Slots(b) ==
  {p \in FirstPage(b)..FirstPage(b) + PagesPerSublk - CtrlBlockPageOffset - 1 :
     (p - FirstPage(b)) % (CtrlBlockPageOffset + 1) = 0}

MarkOf(p) == p + CtrlBlockPageOffset

(* The walk over the slots of a block ends at the first slot that is not   *)
(* there, or whose mark is empty.                                          *)
WalkEnds(p) == ~Readable(p) \/ flash[MarkOf(p)] = Empty

Found(b) ==
  {p \in Slots(b) : WalkEnds(p) /\ \A q \in Slots(b) : q < p => ~WalkEnds(q)}

(* YAFTL_readCxtInfo: all pages of the context must be there.              *)
Whole(p) == \A q \in p..p + CtrlBlockPageOffset - 1 : IsCxt(q)

(* The context that open trusts: one page, or none.                        *)
Trusted ==
  IF Candidates = {} THEN {} ELSE {p \in Found(FTLCtrlBlock[Latest]) : Whole(p)}

Open ==
  /\ phase = "off"
  /\ \E p \in Trusted :
       /\ phase' = "up"
       /\ sel' = Latest
       /\ cxtPage' = p /\ clean' = TRUE
       /\ usn' = flash[p].usn
       /\ tables' = flash[p].tables
  /\ UNCHANGED <<flash, pc, slot, data, faults>>

(* YAFTL_Restore: "sorry, no restore + write support yet".                 *)
OpenPanics ==
  /\ phase = "off" /\ Trusted = {}
  /\ phase' = "panic"
  /\ UNCHANGED <<flash, pc, ram, data, faults>>

(* The power fails, or the machine reboots.                                *)
Crash ==
  /\ phase # "off"
  /\ phase' = "off" /\ pc' = "idle"
  /\ sel' = 0 /\ cxtPage' = None /\ clean' = FALSE
  /\ usn' = 0 /\ tables' = None /\ slot' = NoSlot
  /\ UNCHANGED <<flash, data, faults>>

----------------------------------------------------------------------------
(* The NAND.  A page is written once between two erases; writing over one  *)
(* leaves it unreadable, whatever the chip reports.                        *)

Erased(b) == [p \in Page |-> IF BlockOf(p) = b THEN Empty ELSE flash[p]]

Programmed(p, content) ==
  flash' = [flash EXCEPT ![p] = IF @ = Empty THEN content ELSE Bad]

ProgramFails(p) ==
  \/ /\ flash[p] # Empty
     /\ flash' = [flash EXCEPT ![p] = Bad]
     /\ UNCHANGED faults
  \/ /\ flash[p] = Empty /\ faults < MaxFaults
     /\ faults' = faults + 1
     /\ flash' \in {flash, [flash EXCEPT ![p] = Bad]}

Goes(from, to) == phase = "up" /\ pc = from /\ pc' = to

NextSel == (sel + 1) % 3

----------------------------------------------------------------------------
(* YAFTL_writeIndexTOC, called by everything that is about to change data. *)

BeginChange ==
  /\ Goes("idle", "mark")
  /\ clean /\ data < MaxVersion
  /\ UNCHANGED <<flash, phase, ram, data, faults>>

WriteMark ==
  /\ Goes("mark", "data")
  /\ Programmed(MarkOf(cxtPage), Mark)
  /\ clean' = FALSE
  /\ usn' = usn + 1
  /\ UNCHANGED <<phase, sel, cxtPage, tables, slot, data, faults>>

MarkFails ==
  /\ Goes("mark", "eraseCurrent")
  /\ ProgramFails(MarkOf(cxtPage))
  /\ usn' = usn + 1
  /\ UNCHANGED <<phase, sel, cxtPage, clean, tables, slot, data>>

EraseCurrent ==
  /\ Goes("eraseCurrent", "eraseNext")
  /\ flash' = Erased(FTLCtrlBlock[sel])
  /\ sel' = NextSel
  /\ UNCHANGED <<phase, cxtPage, clean, usn, tables, slot, data, faults>>

EraseNext ==
  /\ Goes("eraseNext", "data")
  /\ flash' = Erased(FTLCtrlBlock[sel])
  /\ cxtPage' = None /\ clean' = FALSE
  /\ UNCHANGED <<phase, sel, usn, tables, slot, data, faults>>

WriteBeforeMark ==  \* faulty: the flag is not tested
  /\ phase = "up" /\ pc \in {"idle", "data"} /\ data < MaxVersion
  /\ pc' = "idle"
  /\ data' = data + 1 /\ tables' = data'
  /\ UNCHANGED <<flash, phase, sel, cxtPage, clean, usn, slot, faults>>

(* A page of data or index is written or a block erased.                   *)
WriteData ==
  /\ phase = "up" /\ pc \in {"idle", "data"} /\ data < MaxVersion
  /\ ~clean
  /\ pc' = "idle"
  /\ data' = data + 1 /\ tables' = data'
  /\ UNCHANGED <<flash, phase, sel, cxtPage, clean, usn, slot, faults>>

----------------------------------------------------------------------------
(* YAFTL_Flush: flushQuick until it succeeds.                              *)

BeginFlush ==
  /\ Goes("idle", "flush")
  /\ ~clean
  /\ UNCHANGED <<flash, phase, ram, data, faults>>

WriteAt(p, b) ==
  /\ slot' = [page |-> p, done |-> 0, block |-> b]
  /\ usn' = usn + 1

NextPage == cxtPage + CtrlBlockPageOffset + 1

FitsAlways ==  \* faulty: no look at the end of the context
  cxtPage # None /\ BlockOf(cxtPage) = BlockOf(NextPage)

Fits ==
  /\ cxtPage # None
  /\ BlockOf(cxtPage) = BlockOf(NextPage)
  /\ BlockOf(cxtPage) = BlockOf(cxtPage + 2 * CtrlBlockPageOffset + 2)

(* No context since the control blocks were replaced: the selected block,  *)
(* from its first page.                                                    *)
FlushFresh ==
  /\ Goes("flush", "context")
  /\ cxtPage = None
  /\ WriteAt(FirstPage(FTLCtrlBlock[sel]), FTLCtrlBlock[sel])
  /\ UNCHANGED <<flash, phase, sel, cxtPage, clean, tables, data, faults>>

(* Behind the last context.  The variable block still has the value that   *)
(* the loop over the free blocks left in it.                               *)
FlushBehind ==
  /\ Goes("flush", "context")
  /\ Fits
  /\ WriteAt(NextPage, NumBlocks)
  /\ UNCHANGED <<flash, phase, sel, cxtPage, clean, tables, data, faults>>

(* No room: the next control block is erased.                              *)
FlushNextBlock ==
  /\ Goes("flush", "context")
  /\ cxtPage # None /\ ~Fits
  /\ sel' = NextSel
  /\ flash' = Erased(FTLCtrlBlock[NextSel])
  /\ WriteAt(FirstPage(FTLCtrlBlock[NextSel]), FTLCtrlBlock[NextSel])
  /\ UNCHANGED <<phase, cxtPage, clean, tables, data, faults>>

(* writeCxtInfo: page by page, all with one usn.                           *)
CxtPage == slot.page + slot.done
Content == [type |-> "cxt", usn |-> usn, tables |-> tables]

WriteCxtPageTooFar ==  \* faulty: one page too many
  /\ Goes("context", "context")
  /\ slot.done < CtrlBlockPageOffset
  /\ Programmed(CxtPage, Content)
  /\ slot' = [slot EXCEPT !.done = @ + 1]
  /\ UNCHANGED <<phase, sel, cxtPage, clean, usn, tables, data, faults>>

WriteCxtPage ==
  /\ Goes("context", "context")
  /\ slot.done < CtrlBlockPageOffset - 1
  /\ Programmed(CxtPage, Content)
  /\ slot' = [slot EXCEPT !.done = @ + 1]
  /\ UNCHANGED <<phase, sel, cxtPage, clean, usn, tables, data, faults>>

WriteLastCxtPage ==
  /\ Goes("context", "idle")
  /\ slot.done = CtrlBlockPageOffset - 1
  /\ Programmed(CxtPage, Content)
  /\ cxtPage' = slot.page /\ clean' = TRUE
  /\ slot' = NoSlot
  /\ UNCHANGED <<phase, sel, usn, tables, data, faults>>

CxtPageFails ==
  /\ Goes("context", "eraseFailed")
  /\ ProgramFails(CxtPage)
  /\ UNCHANGED <<phase, ram, data>>

(* FLUSHQUICK_REPLACE_BLOCK: the block that the variable block names is    *)
(* erased, then the block that has the number selCtrlBlockIndex.           *)
EraseFailed ==
  /\ Goes("eraseFailed", "eraseOther")
  /\ flash' = Erased(slot.block)
  /\ sel' = NextSel
  /\ UNCHANGED <<phase, cxtPage, clean, usn, tables, slot, data, faults>>

RetryInPlace ==  \* faulty: tries the same pages again, under the same usn
  /\ Goes("eraseOther", "flush")
  /\ usn' = usn - 1
  /\ slot' = NoSlot
  /\ UNCHANGED <<flash, phase, sel, cxtPage, clean, tables, data, faults>>

(* YAFTL_Flush tries again.  But the result of the write into a fresh      *)
(* block is in a variable of an inner scope: there flushQuick returns 0    *)
(* and the flush is over.                                                  *)
EraseOther ==
  /\ Goes("eraseOther", IF cxtPage = None THEN "idle" ELSE "flush")
  /\ flash' = Erased(sel)
  /\ cxtPage' = None
  /\ slot' = NoSlot
  /\ UNCHANGED <<phase, sel, clean, usn, tables, data, faults>>

----------------------------------------------------------------------------
Flushing ==
  \/ FlushFresh \/ FlushBehind \/ FlushNextBlock
  \/ WriteCxtPage \/ WriteLastCxtPage
  \/ CxtPageFails \/ EraseFailed \/ EraseOther

Next ==
  \/ Open \/ OpenPanics \/ Crash
  \/ BeginChange \/ WriteMark \/ MarkFails \/ EraseCurrent \/ EraseNext
  \/ WriteData
  \/ BeginFlush \/ Flushing

Spec == Init /\ [][Next]_vars

(* The FTL runs in one task that goes on until it is done; the power is    *)
(* not bound to fail.                                                      *)
FairSpec == Spec /\ WF_vars(Flushing)

----------------------------------------------------------------------------
(* The context on the NAND keeps the promise of module CleanMount: data    *)
(* changes only while open would trust no context, and open trusts one     *)
(* only if its tables describe the data, wherever the power fails.         *)
SavedTables ==
  IF Trusted = {} THEN None ELSE flash[CHOOSE p \in Trusted : TRUE].tables

Promise == INSTANCE CleanMount WITH
  mounted <- phase = "up", saved <- SavedTables

KeepsPromise == Promise!Spec

(* While the FTL believes that its context is on the NAND (field_78), the  *)
(* device can be opened again, whatever failed on the way there: no retry  *)
(* leaves behind a block or a slot that open prefers.                      *)
CleanReopens ==
  phase = "up" /\ pc = "idle" /\ clean => SavedTables = data

(* YAFTL_Flush ends: the blocks it tries run out of failures, not the      *)
(* other way round.                                                        *)
FlushEnds == pc = "flush" ~> pc = "idle"

(* Not so in the code: nothing but control blocks is erased to save a      *)
(* context, and what a flush gives up is "the failed block" (flushQuick).  *)
DataKept == \A p \in Page : BlockOf(p) \notin CtrlBlocks => flash[p] = User
=============================================================================
