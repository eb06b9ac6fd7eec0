----------------------------- MODULE VflContext -----------------------------
(***************************************************************************)
(* How the VSVFL keeps its context on the NAND (vfl-vsvfl/vsvfl.c).  Each  *)
(* chip enable (CE) has a ring of four blocks; a context is written to the *)
(* next eight pages of the current block, all eight alike, and to the next *)
(* block of the ring, erased first, when the block is full or a write      *)
(* fails.  What the context carries for the FTL is the list of its control *)
(* blocks: without it the FTL cannot find its own state after a reboot.    *)
(*                                                                         *)
(* The power may fail between any two operations on the NAND and within    *)
(* the writing of the eight copies, the first one included; pages may fail *)
(* to be written and blocks to be erased.                                  *)
(*                                                                         *)
(* Abstracted: the eight copies of a context are one entry of a block,     *)
(* which has the first copy readable or not (the only one that is ever     *)
(* read back after a reboot).  A first copy that is written over another   *)
(* one, without an erase between them, is not readable.  The rest of the   *)
(* context (bad block maps, scrub list) and its checksums, which guard the *)
(* copy in memory.  The control block lists of all CEs, which are the same *)
(* in memory, are one variable, a serial number.                           *)
(***************************************************************************)
EXTENDS Integers, SequencesExt

CONSTANTS
  NumCE,      \* geometry.num_ce
  Entries,    \* contexts that fit a block: pages_per_block / 8
  ScrubCE,    \* CEs whose context is stored because of a bad block
  MaxFaults,  \* bound: operations of the NAND that fail, the power being on
  FirstDec,   \* usn_dec of the contexts on a new device; bounds the writes
  MaxIssued   \* bound: control block lists the FTL hands over

ASSUME VflAssumption ==
  /\ NumCE \in Nat \ {0} /\ Entries \in Nat \ {0}
  /\ ScrubCE \subseteq 0..NumCE - 1
  /\ MaxFaults \in Nat /\ FirstDec \in Nat /\ MaxIssued \in Nat

CE    == 0..NumCE - 1
Block == 0..3  \* indices into vfl_context_block

VARIABLES
  flash,    \* entries of each context block, in the order of its pages
  up,       \* the device is open
  version,  \* current_version
  control,  \* control_block of the contexts in memory
  ctx,      \* usn_dec, usn_block and usn_page of the contexts in memory
  job,      \* the store in progress
  issued,   \* history: control block lists handed over so far
  acked,    \* history: last list whose store succeeded, or seen after a reboot
  found,    \* history: the same, of the stores that open can get to
  faults    \* history: NAND operations that failed

ram  == <<version, control, ctx>>
vars == <<flash, up, ram, job, issued, acked, found, faults>>

Entry == [dec : Nat, inc : Nat, control : Nat, blk : Block, page : Nat, readable : {TRUE}]
Torn  == [readable |-> FALSE]
NoJob == [stage |-> "none"]
Job   == [stage : {"write", "erase"}, ce : CE, start : Block, next : Block, ack : BOOLEAN]

TypeOK ==
  /\ flash \in [CE -> [Block -> Seq(Entry \cup {Torn})]]
  /\ \A c \in CE, b \in Block : Len(flash[c][b]) <= Entries
  /\ up \in BOOLEAN
  /\ version \in Nat /\ control \in 0..MaxIssued
  /\ ctx \in [CE -> [dec : Nat, blk : Block, page : 1..Entries + 1]]
  /\ job \in Job \cup {NoJob}
  /\ issued \in 0..MaxIssued /\ acked \in 0..issued /\ found \in 0..issued
  /\ faults \in 0..MaxFaults

NoCtx == [c \in CE |-> [dec |-> 0, blk |-> 0, page |-> 1]]

(* A device whose contexts were written in turn, the last one on the last *)
(* CE, not opened yet.                                                    *)
Init ==
  /\ flash = [c \in CE |-> [b \in Block |->
       IF b = 0 THEN <<[dec |-> FirstDec, inc |-> c, control |-> 0,
                        blk |-> 0, page |-> 2, readable |-> TRUE]>>
       ELSE <<>>]]
  /\ up = FALSE
  /\ version = 0 /\ control = 0 /\ ctx = NoCtx
  /\ job = NoJob
  /\ issued = 0 /\ acked = 0 /\ found = 0 /\ faults = 0

----------------------------------------------------------------------------
(* vfl_vsvfl_open *)

NewestFirst(c) ==  \* faulty: the highest usn_dec is taken for the newest
  CHOOSE b \in Block :
    /\ flash[c][b] # <<>> /\ flash[c][b][1].readable
    /\ \A d \in Block :
         flash[c][d] # <<>> /\ flash[c][d][1].readable =>
           flash[c][d][1].dec <= flash[c][b][1].dec

Candidates(c) == {b \in Block : flash[c][b] # <<>> /\ flash[c][b][1].readable}

(* The block whose first page has the lowest usnDec, the last such block. *)
NewestBlock(c) ==
  CHOOSE b \in Candidates(c) : \A d \in Candidates(c) :
    flash[c][b][1].dec < flash[c][d][1].dec
      \/ (flash[c][b][1].dec = flash[c][d][1].dec /\ d <= b)

(* The last entry before the first one that cannot be read. *)
NewestEntry(c) ==
  LET entries == flash[c][NewestBlock(c)]
      bad == SelectInSeq(entries, LAMBDA e : ~e.readable)
  IN  entries[IF bad = 0 THEN Len(entries) ELSE bad - 1]

(* get_most_updated_context: the highest usn_inc, the last such CE. *)
MostUpdated ==
  CHOOSE c \in CE : \A d \in CE :
    NewestEntry(d).inc < NewestEntry(c).inc
      \/ (NewestEntry(d).inc = NewestEntry(c).inc /\ d <= c)

Openable == \A c \in CE : Candidates(c) # {}

Open ==
  /\ ~up /\ Openable
  /\ up' = TRUE
  /\ version' = NewestEntry(MostUpdated).inc
  /\ control' = NewestEntry(MostUpdated).control
  /\ ctx' = [c \in CE |-> [dec  |-> NewestEntry(c).dec,
                           blk  |-> NewestEntry(c).blk,
                           page |-> NewestEntry(c).page]]
  /\ acked' = IF control' > acked THEN control' ELSE acked
  /\ found' = IF control' > found THEN control' ELSE found
  /\ UNCHANGED <<flash, job, issued, faults>>

MemoryLost ==
  /\ up' = FALSE
  /\ version' = 0 /\ control' = 0 /\ ctx' = NoCtx
  /\ job' = NoJob

(* The power fails, or openiBoot reboots. *)
Crash ==
  /\ up
  /\ MemoryLost
  /\ UNCHANGED <<flash, issued, acked, found, faults>>

----------------------------------------------------------------------------
(* vsvfl_store_vfl_cxt *)

NextBlock(b) == (b + 1) % 4

StartJobNoRoom(c, ack) ==  \* faulty: no look at the room left in the block
  job' = [stage |-> "write", ce |-> c,
          start |-> ctx[c].blk, next |-> NextBlock(ctx[c].blk), ack |-> ack]

(* The current block while it has room, otherwise the next one. *)
StartJob(c, ack) ==
  LET full == ctx[c].page > Entries
  IN  job' = [stage |-> IF full THEN "erase" ELSE "write", ce |-> c,
              start |-> ctx[c].blk, next |-> NextBlock(ctx[c].blk), ack |-> ack]

(* vfl_vsvfl_write_context: every context in memory gets the new list, one *)
(* is stored, "on the ce with the oldest cxt".  (Four attempts at most, so *)
(* that usn_dec stays above 0.)                                            *)
WriteContext ==
  LET c == version % NumCE
  IN  /\ up /\ job = NoJob
      /\ ctx[c].dec > 4 /\ issued < MaxIssued
      /\ issued' = issued + 1
      /\ control' = issued + 1
      /\ StartJob(c, TRUE)
      /\ UNCHANGED <<flash, up, version, ctx, acked, found, faults>>

(* add_block_to_scrub_list and vfl_vsvfl_erase_single_block store the      *)
(* context of the CE whose block maps they changed.                        *)
StoreForBadBlock(c) ==
  /\ up /\ job = NoJob
  /\ c \in ScrubCE /\ ctx[c].dec > 4
  /\ StartJob(c, FALSE)
  /\ UNCHANGED <<flash, up, ram, issued, acked, found, faults>>

(* After a failure: the next block of the ring, or EIO when it is the one *)
(* the store began with.                                                  *)
TryBlock(b) ==
  IF b = job.start THEN job' = NoJob
  ELSE job' = [job EXCEPT !.stage = "erase", !.next = b]

EraseEarly ==  \* faulty: starts the search with the current block
  /\ job.stage = "erase"
  /\ LET b == (job.next + 3) % 4
     IN  /\ flash' = [flash EXCEPT ![job.ce][b] = <<>>]
         /\ ctx' = [ctx EXCEPT ![job.ce].blk = b, ![job.ce].page = 1]
  /\ job' = [job EXCEPT !.stage = "write"]
  /\ UNCHANGED <<up, version, control, issued, acked, found, faults>>

(* The next block is erased and becomes the current one. *)
Erase ==
  /\ job.stage = "erase"
  /\ flash' = [flash EXCEPT ![job.ce][job.next] = <<>>]
  /\ ctx' = [ctx EXCEPT ![job.ce].blk = job.next, ![job.ce].page = 1]
  /\ job' = [job EXCEPT !.stage = "write"]
  /\ UNCHANGED <<up, version, control, issued, acked, found, faults>>

EraseFails ==  \* four times in a row
  /\ job.stage = "erase"
  /\ faults < MaxFaults
  /\ faults' = faults + 1
  /\ TryBlock(NextBlock(job.next))
  /\ UNCHANGED <<flash, up, ram, issued, acked, found>>

NewEntryEarly ==  \* faulty: copied before its counters have moved on
  LET c == ctx[job.ce]
  IN  [dec |-> c.dec, inc |-> version, control |-> control,
       blk |-> c.blk, page |-> c.page, readable |-> TRUE]

(* vsvfl_write_vfl_cxt_to_flash: the context as it is written and read    *)
(* back, with its counters moved on whether the write succeeds or not.    *)
NewEntry ==
  LET c == ctx[job.ce]
  IN  [dec |-> c.dec - 1, inc |-> version, control |-> control,
       blk |-> c.blk, page |-> c.page + 1, readable |-> TRUE]

(* The pages were written before, and not erased since.                   *)
Used == ctx[job.ce].page <= Len(flash[job.ce][ctx[job.ce].blk])

Place(readable) ==
  flash' = [flash EXCEPT ![job.ce][ctx[job.ce].blk] =
    IF Used THEN ReplaceAt(@, ctx[job.ce].page, Torn)
    ELSE Append(@, IF readable THEN NewEntry ELSE Torn)]

Advance ==
  /\ version' = version + 1
  /\ ctx' = [ctx EXCEPT ![job.ce].dec = @ - 1, ![job.ce].page = @ + 1]

(* Open gets to the entry: it, and those before it, can be read.          *)
Found(readable) ==
  /\ readable /\ ~Used
  /\ \A e \in Range(flash[job.ce][ctx[job.ce].blk]) : e.readable

(* At most three of the eight copies could not be read back, the first     *)
(* being one of them or not.                                               *)
WriteSucceeds(readable) ==
  /\ job.stage = "write"
  /\ readable \/ Used \/ faults < MaxFaults
  /\ faults' = IF readable \/ Used THEN faults ELSE faults + 1
  /\ Place(readable)
  /\ Advance
  /\ job' = NoJob
  /\ acked' = IF job.ack THEN control ELSE acked
  /\ found' = IF job.ack /\ Found(readable) THEN control ELSE found
  /\ UNCHANGED <<up, control, issued>>

(* A copy could not be written, or more than three could not be read.     *)
WriteFails(readable) ==
  /\ job.stage = "write"
  /\ Used \/ faults < MaxFaults
  /\ faults' = IF Used THEN faults ELSE faults + 1
  /\ Place(readable)
  /\ Advance
  /\ TryBlock(NextBlock(ctx[job.ce].blk))
  /\ UNCHANGED <<up, control, issued, acked, found>>

(* The power fails within the first copy, or after it.                    *)
WriteCut(readable) ==
  /\ job.stage = "write"
  /\ Place(readable)
  /\ MemoryLost
  /\ UNCHANGED <<issued, acked, found, faults>>

Next ==
  \/ Open \/ Crash
  \/ WriteContext \/ \E c \in CE : StoreForBadBlock(c)
  \/ Erase \/ EraseFails
  \/ \E readable \in BOOLEAN :
       WriteSucceeds(readable) \/ WriteFails(readable) \/ WriteCut(readable)

Spec == Init /\ [][Next]_vars

----------------------------------------------------------------------------
(* Wherever the power fails, and however often, every CE has a context     *)
(* that open can read: the block with the newest one is not erased before  *)
(* a newer one is written to another (vsvfl_store_vfl_cxt).  Three failing *)
(* operations may take the search round the ring.                          *)
AlwaysOpenable == faults < 3 => Openable

(* What vfl_vsvfl_open would find on a CE remains what it would find until *)
(* a newer context, which it would find, is written: no store that fails,  *)
(* is interrupted or starts again from an old context after a reboot takes *)
(* it back to an older one.                                                *)
NothingFoundIsLost ==
  [][faults < 3 =>
       \A c \in CE : \/ NewestEntry(c)' = NewestEntry(c)
                     \/ /\ job.stage = "write" /\ c = job.ce
                        /\ NewestEntry(c)' = NewEntry]_vars

(* No two blocks of a ring begin with the same usn_dec, and none begins    *)
(* with a lower one than the context in memory, on which the next block    *)
(* goes on: the block with the lowest first usn_dec that open looks for    *)
(* (vsvfl.c, "we should just look at the first page of each block in the   *)
(* ring") is the one begun last, even after stores that open has forgotten.*)
FirstPagesOrdered ==
  \A c \in CE : \A a \in Candidates(c) :
    /\ up => ctx[c].dec <= flash[c][a][1].dec
    /\ \A b \in Candidates(c) :
         flash[c][a][1].dec = flash[c][b][1].dec => a = b

(* The control block list that the FTL gets (VFL_get_FTLCtrlBlock) is not  *)
(* older than the last one that was stored where open gets to it, nor than *)
(* one the FTL got after an earlier reboot.  So with one CE; with several  *)
(* their contexts may tie after a reboot.                                  *)
FoundListDurable == up /\ faults < 3 => control >= found

(* Not so in the code: it is not older than the last one whose             *)
(* write_context succeeded, since open would "try the 7 subsequent pages   *)
(* if the first was no good" (vsvfl.c:904) and settle on "the newest       *)
(* VFLCxt across all CEs" (vsvfl.c:927).                                   *)
ControlBlockDurable == up => control >= acked

(* Nor this, behind a torn copy:                                           *)
(* "if blockA.page0.spare.usnDec < blockB.page0.usnDec, then for any page  *)
(* a in blockA and any page b in blockB, a.spare.usNDec < b.spare.usnDec"  *)
(* (vsvfl.c): the ring is ordered.                                         *)
RingOrdered ==
  \A c \in CE : \A a, b \in Candidates(c) :
    flash[c][a][1].dec < flash[c][b][1].dec =>
      \A i \in DOMAIN flash[c][a], j \in DOMAIN flash[c][b] :
        flash[c][a][i].readable /\ flash[c][b][j].readable =>
          flash[c][a][i].dec < flash[c][b][j].dec
=============================================================================
