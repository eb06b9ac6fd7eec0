------------------------------- MODULE FtlLog -------------------------------
(***************************************************************************)
(* The FTL of the S5L8900 (plat-s5l8900/ftl.c): every logical block has a  *)
(* map block, and while it is being written a log block too, whose pages   *)
(* replace those of the map block until the two are merged.  The tables    *)
(* are written to a ring of three control blocks by ftl_sync; before the   *)
(* first change after that a mark says that they are out of date.  When    *)
(* the mark is found at start-up, FTL_Restore derives the tables from the  *)
(* spares of all pages.                                                    *)
(*                                                                         *)
(* A call of the public interface is one action; in it the power can go    *)
(* at any operation of the NAND ("power" counts down to it), or one        *)
(* operation can fail ("fail" does).  The functions are operators from a   *)
(* state to a state; "ok" and "ret" hold what they return.  "st" is "ok",  *)
(* "off" (no power), "closed" (FTL_Open has failed), or names what the     *)
(* model does not follow: a page programmed twice ("overwritten"), the     *)
(* log table cleared by ftl_prepare_log ("zeroed").                        *)
(*                                                                         *)
(* Abstracted: erase and read counters only choose blocks: always the      *)
(* first that qualifies, or always the last ("low"), and wear levelling    *)
(* finds the erase counts always apart, or always close ("even").  A write *)
(* that fails leaves the page as it was, an interrupted one may leave it   *)
(* unreadable, with a spare of 0xFF.  A context is CxtPages pages, the     *)
(* last is FTLCxt.                                                         *)
(***************************************************************************)
EXTENDS Integers, Sequences, FiniteSets, FiniteSetsExt, SequencesExt, TLC

CONSTANTS
  PagesPerSuBlk,  \* Geometry->pagesPerSuBlk
  NumLbns,        \* Geometry->userSuBlksTotal
  NumLogs,        \* the 17 logs; the pool is 3 blocks more (20)
  CxtPages,       \* pages that ftl_commit_cxt writes
  Requests,       \* first page and number of pages of a call
  CtrlPeriod,     \* of 30 changes of the control block
  CtrlNew,        \*   3 take a new block
  SyncWear,       \* merges after which ftl_sync levels wear (20)
  WriteWear,      \* and FTL_Write (300)
  Top,            \* 0xFFFFFFFF as a sequence number
  Junk,           \* what the spare of a mark may hold, None: the right number
  MaxOps,         \* bound: the operation of a call at which the power goes
  MaxFail,        \* bound: the operation of a call that fails
  EraseFails,     \* whether that can be an erase
  MaxCalls,       \* bound: calls
  MaxMishaps,     \* bound: power failures and failed operations
  None            \* 0xFFFF

ASSUME FtlLogAssumption ==
  /\ {PagesPerSuBlk, NumLbns, NumLogs, CxtPages, Top, CtrlPeriod, SyncWear, WriteWear}
       \subseteq Nat \ {0}
  /\ CxtPages \in 2..PagesPerSuBlk - 1 /\ Top > 1
  /\ {MaxOps, MaxFail, MaxCalls, MaxMishaps, CtrlNew} \subseteq Nat
  /\ \A r \in Requests : r \in Nat \X Nat /\ r[1] + r[2] < NumLbns * PagesPerSuBlk
  /\ Junk \subseteq 0..Top \cup {None}
  /\ EraseFails \in BOOLEAN /\ None \notin Int

VARIABLES
  ftl,      \* pstFTLCxt, the NAND and the VFL's FTLCtrlBlock
  data,     \* history: the number of the call that wrote a page last, or None
  restored, \* history: FTL_Restore has been used
  doubt,    \* history: the pages of a call that the power interrupted
  calls,    \* history: number of calls
  mishaps   \* history: power failures and failed operations to come

vars == <<ftl, data, restored, doubt, calls, mishaps>>

P         == PagesPerSuBlk
Pool      == NumLogs + 3
NumBlocks == NumLbns + Pool + 3
Block     == 0..NumBlocks - 1
Offset    == 0..P - 1
Lbn       == 0..NumLbns - 1
Log       == 1..NumLogs
Backup    == NumLogs + 1              \* pLog[17]
LogSlot   == 1..Backup
UserPages == NumLbns * P              \* Geometry->userPagesTotal
Lpn       == 0..UserPages - 2         \* the last page cannot be accessed

Empty == [k |-> "empty"]
Bad   == [k |-> "bad"]
User(lpn, usn, v) == [k |-> "user", lpn |-> lpn, usn |-> usn, val |-> v]
Meta(dec)     == [k |-> "meta", dec |-> dec]              \* 0x44..0x49
Cxt(dec, cxt) == [k |-> "cxt", dec |-> dec, cxt |-> cxt]  \* 0x43
Mark(dec)     == [k |-> "mark", dec |-> dec]              \* 0x4F

Erased   == [i \in Offset |-> Empty]
NoOffset == [i \in Offset |-> None]
NoLog    == [vbn |-> None, lbn |-> None, usn |-> 0, used |-> 0, current |-> 0,
             seq |-> TRUE, off |-> NoOffset]

IsCtrl(page) == page.k \in {"meta", "cxt", "mark"}
Fail(f)      == [f EXCEPT !.ok = FALSE]
Wrap(usn)    == (usn + Top + 1) % (Top + 1)     \* a counter is a u32
Choice(f, S) == IF f.low THEN Min(S) ELSE Max(S)

(* n rounds of a loop; what ends it early leaves the later rounds idle *)
Loop(body(_, _), n, x) ==
  LET run[i \in 0..n] == IF i = 0 THEN x ELSE body(run[i - 1], i - 1)
  IN  run[n]

(* three and four tries; a try goes on to the next or has the last word *)
Again(f) == [f |-> Fail(f), over |-> FALSE]
Over(f)  == [f |-> f, over |-> TRUE]
Next3(try(_), f) ==
  LET next(s) == IF s.over THEN s ELSE try(s.f)
  IN  next(next(try(f)))
Tries(try(_), f) ==
  LET next(s) == IF s.over THEN s ELSE try(s.f)
      last(s) == IF s.over THEN s.f ELSE try(s.f).f
  IN  last(next(next(try(f))))

-----------------------------------------------------------------------------
(* The NAND: block b becomes new, or half when the power goes meanwhile *)
Nand(f, b, new, half, mayFail) ==
  LET later == [f EXCEPT !.power = IF @ = 0 THEN 0 ELSE @ - 1,
                         !.fail  = IF @ = 0 THEN 0 ELSE @ - 1]
  IN  IF f.st # "ok" THEN Fail(f)
      ELSE IF f.power = 1
      THEN [f EXCEPT !.nand[b] = half, !.st = "off", !.ok = FALSE]
      ELSE IF f.fail = 1 /\ mayFail THEN Fail(later)
      ELSE [later EXCEPT !.nand[b] = new, !.ok = TRUE]

VFL_Write(f, b, i, page) ==
  LET half == [f.nand[b] EXCEPT ![i] = IF f.torn THEN Bad ELSE @]
  IN  IF f.st = "ok" /\ f.nand[b][i] # Empty THEN Fail([f EXCEPT !.st = "overwritten"])
      ELSE Nand(f, b, [f.nand[b] EXCEPT ![i] = page], half, TRUE)

VFL_Erase(f, b) ==
  Nand(f, b, Erased, IF f.torn THEN Erased ELSE f.nand[b], EraseFails)

(* the VFL writes its context: the blocks are known at the next start *)
vfl_store_FTLCtrlBlock(f) ==
  LET g == Nand(f, 0, f.nand[0], f.nand[0], FALSE)
  IN  IF g.ok THEN [g EXCEPT !.vflCtrl = f.ctrl] ELSE g

-----------------------------------------------------------------------------
(* the ring of free blocks *)
Window(f) == {i \in 0..f.numFree - 1 : f.free[(f.nextFree + i) % Pool] # None}

(* mutant: a block is given back as it is *)
SetFreeDirty(f, b) ==
  [f EXCEPT !.numFree = @ + 1, !.free[(f.nextFree + f.numFree) % Pool] = b, !.ok = TRUE]

(* the slot is filled only when the erase succeeds, but counted before *)
ftl_set_free_vb(f, b) ==
  LET i == (f.nextFree + f.numFree) % Pool
      g == VFL_Erase([f EXCEPT !.numFree = @ + 1], b)
  IN  IF g.ok THEN [g EXCEPT !.free[i] = b] ELSE g

(* in ret: the least erased free block, which changes places with the next *)
ftl_get_free_vb(f) ==
  LET n == f.nextFree
      c == (n + Choice(f, Window(f))) % Pool
  IN  IF f.st # "ok" \/ Window(f) = {} THEN Fail(f)
      ELSE [f EXCEPT !.free[c] = f.free[n], !.free[n] = f.free[c],
                     !.numFree = @ - 1, !.nextFree = (n + 1) % Pool,
                     !.ret = f.free[c], !.ok = TRUE]

-----------------------------------------------------------------------------
(* control pages; ctrlPage counts pages across all blocks *)
LastOfBlock(page) == (page \div P) * P + P - 1

ftl_next_ctrl_page(f) ==
  LET p == f.ctrlPage + 1
      here == {i \in 0..2 : (f.ctrl[i] + 1) * P = p}
      n == ((IF here = {} THEN 3 ELSE Min(here)) + 1) % 3
      old == f.ctrl[n]
      next == [f EXCEPT !.ctrlPage = p, !.ctrlChanges = @ + 1]
      reused(g) == IF g.ok THEN [g EXCEPT !.ctrlPage = old * P] ELSE g
      taken(g) == IF ~g.ok THEN g
                  ELSE ftl_set_free_vb([g EXCEPT !.ctrl[n] = g.ret,
                                                 !.ctrlPage = g.ret * P], old)
      stored(g) == IF g.ok THEN vfl_store_FTLCtrlBlock(g) ELSE g
      done(g) == IF g.ok THEN [g EXCEPT !.usnDec = Wrap(@ - 1)] ELSE g
  IN  IF f.st # "ok" THEN Fail(f)
      ELSE IF p % P # 0
      THEN [f EXCEPT !.ctrlPage = p, !.usnDec = Wrap(@ - 1), !.ok = TRUE]
      ELSE IF f.ctrlChanges % CtrlPeriod >= CtrlNew
      THEN done(reused(VFL_Erase(next, old)))
      ELSE done(stored(taken(ftl_get_free_vb(next))))

WriteCtrl(f, page) == VFL_Write(f, f.ctrlPage \div P, f.ctrlPage % P, page)

(* what FTLCxt and the tables it points to hold *)
Saved(f) ==
  [map |-> f.map, log |-> f.log, free |-> f.free, nextFree |-> f.nextFree,
   numFree |-> f.numFree, usn |-> f.usn, usnDec |-> f.usnDec,
   ctrl |-> f.ctrl, ctrlPage |-> f.ctrlPage, ctrlChanges |-> f.ctrlChanges,
   swaps |-> f.swaps]

writeTables(f) ==
  LET written(g) == IF g.ok THEN WriteCtrl(g, Meta(g.usnDec)) ELSE g
      page(g, i) == IF g.ok THEN written(ftl_next_ctrl_page(g)) ELSE g
  IN  Loop(page, CxtPages - 1, f)

ftl_commit_cxt(f) ==
  LET full == f.ctrlPage + CxtPages >= (f.ctrlPage \div P) * P + P
      start == [f EXCEPT !.ctrlPage = IF full THEN LastOfBlock(@) ELSE @, !.ok = TRUE]
      next(g) == IF g.ok THEN ftl_next_ctrl_page(g) ELSE g
      written(g) == IF ~g.ok THEN g
                    ELSE WriteCtrl([g EXCEPT !.clean = TRUE], Cxt(g.usnDec, Saved(g)))
  IN  written(next(writeTables(start)))

tryCommit(f) ==
  LET tried(g) == IF g.ok THEN Over(g) ELSE Again([g EXCEPT !.ctrlPage = LastOfBlock(@)])
      try(g)   == IF g.st # "ok" THEN Over(Fail(g)) ELSE tried(ftl_commit_cxt(g))
  IN  Tries(try, f)

eraseDirty(f) ==
  LET erased(g, i) ==
        LET b == f.free[(f.nextFree + i) % Pool]
        IN  IF b # None /\ f.nand[b] # Erased THEN VFL_Erase(g, b) ELSE g
  IN  [Loop(erased, f.numFree, f) EXCEPT !.cleanFreeVb = TRUE, !.ok = TRUE]

check_for_dirty_free_vb(f) ==
  IF f.cleanFreeVb \/ f.st # "ok" THEN f ELSE eraseDirty(f)

(* the mark; the sequence number in its spare is not initialized *)
tryMark(f) ==
  LET tried(g) == IF g.ok THEN Over([g EXCEPT !.clean = FALSE])
                  ELSE Again([g EXCEPT !.ctrlPage = LastOfBlock(@)])
      mark(g) == Mark(IF g.junk = None THEN g.usnDec ELSE g.junk)
      next(g) == IF g.ok THEN tried(WriteCtrl(g, mark(g))) ELSE Over(g)
      try(g)  == next(ftl_next_ctrl_page(g))
  IN  Next3(try, f).f

ftl_mark_unclean(f) ==
  IF ~f.clean THEN [f EXCEPT !.ok = TRUE]
  ELSE tryMark(check_for_dirty_free_vb(f))

-----------------------------------------------------------------------------
(* where a page is, and what reading it gives: its value, None when it was *)
(* never written, -1 for an error, -2 for what is not its data             *)
LogsOf(f, lbn) == {k \in Log : f.log[k].vbn # None /\ f.log[k].lbn = lbn}

FTL_map_page(f, lpn) ==
  LET lbn == lpn \div P
      at(l) == IF l.off[lpn % P] # None THEN <<l.vbn, l.off[lpn % P]>>
                                        ELSE <<f.map[lbn], lpn % P>>
  IN  IF LogsOf(f, lbn) = {} THEN <<f.map[lbn], lpn % P>>
      ELSE at(f.log[Min(LogsOf(f, lbn))])

FTL_Read(f, lpn) ==
  LET at(x) == f.nand[x[1]][x[2]]
      value(page) ==
        IF page = Empty THEN None
        ELSE IF page = Bad THEN -1
        ELSE IF page.k = "user" /\ page.lpn = lpn THEN page.val ELSE -2
  IN  IF lpn + 1 >= UserPages THEN -1 ELSE value(at(FTL_map_page(f, lpn)))

-----------------------------------------------------------------------------
(* merging *)
ftl_copy_page(f, src, i, dest, j, lpn) ==
  LET page == f.nand[src][i]
      val  == IF page = Empty THEN None ELSE IF page.k = "user" THEN page.val ELSE -1
      g    == [f EXCEPT !.usn = Wrap(@ + 1)]
  IN  VFL_Write(g, dest, j, User(lpn, g.usn, val))


copyPages(f, lbn, dest) ==
  LET page(g, i) ==
        LET lpn == lbn * P + i
        IN  IF g.ok THEN VFL_Write(g, dest, i, User(lpn, g.usn, FTL_Read(g, lpn))) ELSE g
  IN  Loop(page, P, [f EXCEPT !.ok = TRUE])

ftl_copy_block(f, lbn, dest) ==
  LET done(g) == IF g.ok THEN g ELSE Fail(VFL_Erase(g, dest))
  IN  done(copyPages([f EXCEPT !.usn = Wrap(@ + 1)], lbn, dest))

Sequential(l, i) == l.seq /\ l.used = l.current /\ l.off[i] = i

(* the pages of log k are copied together into the new block *)
compactPages(f, k, src) ==
  LET page(g, i) ==
        LET l == g.log[k]
            m == [l EXCEPT !.off[i] = l.used, !.used = @ + 1, !.current = @ + 1]
            h == ftl_copy_page(g, src, l.off[i], l.vbn, l.used, l.lbn * P + i)
        IN  IF ~g.ok \/ l.off[i] = None THEN g
            ELSE IF h.ok THEN [h EXCEPT !.log[k] = [m EXCEPT !.seq = Sequential(m, i)]]
            ELSE h
  IN  Loop(page, P, [f EXCEPT !.ok = TRUE])

(* a failure is remembered in every later round, and of the offsets only   *)
(* half is saved: the size of the copy is in bytes                         *)
startCompact(f, k) ==
  [f EXCEPT !.log[k] = [@ EXCEPT !.used = 0, !.vbn = f.ret, !.current = 0, !.seq = TRUE]]

undoCompact(f, k) ==
  LET old == f.log[Backup]
      off == [i \in Offset |-> IF i < P \div 2 THEN old.off[i] ELSE f.log[k].off[i]]
  IN  Again([ftl_set_free_vb(f, f.log[k].vbn) EXCEPT !.log[k] = [old EXCEPT !.off = off]])

endCompact(f, k, error) ==
  LET old == f.log[Backup]
  IN  IF error \/ ~f.ok \/ f.log[k].current # old.current
      THEN undoCompact(f, k) ELSE Over(ftl_set_free_vb(f, old.vbn))

compactInto(f, k, error) ==
  IF ~f.ok THEN Over(f)
  ELSE endCompact(compactPages(startCompact(f, k), k, f.log[Backup].vbn), k, error)

tryCompact(f, k, error) == compactInto(ftl_get_free_vb(f), k, error)

ftl_compact_scattered(f, k) ==
  IF f.log[k].current = 0
    THEN [ftl_set_free_vb(f, f.log[k].vbn) EXCEPT !.log[k].vbn = None, !.ok = TRUE,
                                                  !.swaps = @ + 1]
    ELSE LET next(s) == IF s.over THEN s ELSE tryCompact(s.f, k, TRUE)
         IN  next(next(next(tryCompact([f EXCEPT !.log[Backup] = f.log[k]], k, FALSE)))).f

(* a free block takes the logical block as it reads now *)
tryCopy(f, lbn) ==
  LET freed(g) == IF g.ok THEN Again(g) ELSE Over(g)
      copied(g) == IF g.ok THEN Over(g) ELSE freed(ftl_set_free_vb(g, g.ret))
      taken(g) == IF g.ok THEN copied(ftl_copy_block(g, lbn, g.ret)) ELSE Over(g)
      try(g) == taken(ftl_get_free_vb(g))
  IN  Tries(try, f)

ftl_simple_merge(f, k) ==
  LET lbn == f.log[k].lbn
      log(g) == IF g.ok THEN ftl_set_free_vb(g, f.log[k].vbn) ELSE g
      map(g) == IF ~g.ok THEN g
                ELSE ftl_set_free_vb([g EXCEPT !.log[k].vbn = None], f.map[lbn])
      done(g) == IF g.ok THEN [g EXCEPT !.map[lbn] = g.ret] ELSE g
  IN  done(map(log(tryCopy(f, lbn))))

(* the log takes the rest of the logical block and becomes its map block *)
copyRest(f, k) ==
  LET page(g, i) ==
        LET l == g.log[k]
            h == ftl_copy_page(g, g.map[l.lbn], l.used, l.vbn, l.used, l.lbn * P + l.used)
        IN  IF ~g.ok \/ l.off[l.used] # None THEN Fail(g)
            ELSE IF h.ok THEN [h EXCEPT !.log[k].used = @ + 1] ELSE h
  IN  Loop(page, P - f.log[k].used, [f EXCEPT !.ok = TRUE])

ftl_copy_merge(f, k) ==
  LET l == f.log[k]
      done(g) == IF g.ok THEN [g EXCEPT !.map[l.lbn] = l.vbn, !.log[k].vbn = None] ELSE g
      copied(g) == IF g.ok THEN done(ftl_set_free_vb(g, f.map[l.lbn]))
                   ELSE ftl_simple_merge(g, k)
  IN  copied(copyRest(f, k))

(* the log to merge when all are in use: the oldest, of these the fullest *)
Oldest(f) ==
  LET L == {k \in Log : f.log[k].vbn # None}
      old == {k \in L : \A j \in L : f.log[k].usn <= f.log[j].usn}
  IN  Min({k \in old : \A j \in old : f.log[k].current >= f.log[j].current})

(* choice is a log, or None for any *)
mergeChoice(f, choice) ==
  LET L == {j \in Log : f.log[j].vbn # None}
      k == IF choice = None THEN Oldest(f) ELSE choice
      l == f.log[k]
      counted(g) == IF g.ok THEN [g EXCEPT !.swaps = @ + 1] ELSE g
  IN  IF ~f.ok THEN f
      ELSE IF choice = None /\ (L = {} \/ \E j \in L : f.log[j].current = 0
                                                    \/ f.log[j].used = 0)
      THEN Fail(f)
      ELSE IF choice # None /\ l.current < P \div 2
      THEN ftl_compact_scattered([f EXCEPT !.swaps = @ + 1], k)
      ELSE IF l.seq
      THEN IF l.current # l.used THEN Fail(f) ELSE counted(ftl_copy_merge(f, k))
      ELSE counted(ftl_simple_merge(f, k))

ftl_merge(f, choice) == mergeChoice(ftl_mark_unclean(f), choice)

(* mutant: the offsets of the log's last use are kept *)
PrepareStale(f, lbn) ==
  LET own == LogsOf(f, lbn)
      free(g) == Min({j \in Log : g.log[j].vbn = None})
      set(g, k) == [g EXCEPT !.log[k] = [NoLog EXCEPT !.vbn = g.ret, !.lbn = lbn,
                                                      !.off = g.log[k].off],
                             !.ret = k]
      taken(g) == IF g.ok THEN set(g, free(g)) ELSE g
  IN  IF own # {} THEN [f EXCEPT !.ret = Min(own), !.ok = TRUE]
      ELSE taken(ftl_get_free_vb(IF f.numFree = 3 THEN ftl_merge(f, None) ELSE f))

(* in ret: the log of lbn *)
ftl_prepare_log(f, lbn) ==
  LET own    == LogsOf(f, lbn)
      unused == {k \in Log : f.log[k].vbn # None /\ f.log[k].used = 0}
      set(g, k, l) ==
        IF f.usn = 1 THEN Fail([g EXCEPT !.st = "zeroed"])
        ELSE [g EXCEPT !.log[k] = [l EXCEPT !.usn = Wrap(g.usn - 1)],
                       !.ret = k, !.ok = TRUE]
      new(g, k, vbn) == set(g, k, [NoLog EXCEPT !.vbn = vbn, !.lbn = lbn])
      merged(g) == IF g.ok THEN ftl_get_free_vb(g) ELSE g
      taken(g) == IF ~g.ok THEN g
                  ELSE new(g, Min({j \in Log : g.log[j].vbn = None} \cup {Backup}), g.ret)
  IN  IF f.st # "ok" THEN Fail(f)
      ELSE IF own # {} THEN set(f, Min(own), f.log[Min(own)])
      ELSE IF unused # {} THEN new(f, Min(unused), f.log[Min(unused)].vbn)
      ELSE IF f.numFree < 3 THEN Fail(f)
      ELSE taken(merged(IF f.numFree = 3 THEN ftl_merge(f, None) ELSE [f EXCEPT !.ok = TRUE]))

-----------------------------------------------------------------------------
(* writing; a page that could not be written in four tries is passed over  *)
tryWrite(f, b, i, page) ==
  LET tried(g) == IF g.ok THEN Over(g) ELSE Again(g)
      try(g)   == IF g.st # "ok" THEN Over(g) ELSE tried(VFL_Write(g, b, i, page))
  IN  Tries(try, f)

writeBlock(f, b, lpn, v) ==
  LET page(g, j) == tryWrite(g, b, j, User(lpn + j, g.usn, v))
  IN  Loop(page, P, f)

writeLog(f, k, lpn, v, n) ==
  LET page(g, j) ==
        LET l == g.log[k]
            o == (lpn + j) % P
            usn == Wrap(g.usn + 1)
            w == tryWrite([g EXCEPT !.usn = usn], l.vbn, l.used, User(lpn + j, usn, v))
            m == [l EXCEPT !.off[o] = l.used, !.used = @ + 1,
                           !.current = IF l.off[o] = None THEN @ + 1 ELSE @]
        IN  [w EXCEPT !.log[k] = [m EXCEPT !.seq = Sequential(m, o)]]
  IN  Loop(page, n, f)

(* mutant: the old map block is not given back *)
ReplaceLeaks(f, k, lpn, v) ==
  LET l == f.log[k]
      fill(g) == writeBlock([g EXCEPT !.log[k].vbn = None, !.usn = Wrap(@ + 1)],
                            g.ret, lpn, v)
      done(g) == [g EXCEPT !.map[lpn \div P] = g.ret, !.ok = g.st = "ok"]
  IN  done(fill(IF l.used = 0 THEN [f EXCEPT !.ret = l.vbn]
                ELSE ftl_get_free_vb(ftl_set_free_vb(f, l.vbn))))

(* the log is given up: the block replaces the map block as a whole *)
replaceBlock(f, k, lpn, v) ==
  LET lbn == lpn \div P
      l == f.log[k]
      freed(g) == IF g.ok THEN ftl_get_free_vb(g) ELSE g
      fill(g) == writeBlock([g EXCEPT !.log[k].vbn = None, !.usn = Wrap(@ + 1)],
                            g.ret, lpn, v)
      done(g) == IF g.ok THEN [g EXCEPT !.map[lbn] = g.ret] ELSE g
      taken(g) == IF g.ok THEN done(ftl_set_free_vb(fill(g), g.map[lbn])) ELSE g
  IN  taken(IF l.used = 0 THEN [f EXCEPT !.ret = l.vbn]
            ELSE freed(ftl_set_free_vb(f, l.vbn)))

(* a log with room for a page of lbn; the one in ret may be full *)
prepareMerged(f, lbn) == IF f.ok THEN ftl_prepare_log(f, lbn) ELSE f

roomFor(f, lbn) ==
  IF f.log[f.ret].used < P THEN f ELSE prepareMerged(ftl_merge(f, f.ret), lbn)

(* round by round: s.i pages have been written, p has the log of the next *)
putPages(s, p, lpn, n, v) ==
  LET at == lpn + s.i
      o  == at % P
      done(g, c) == [f |-> [g EXCEPT !.ok = g.st = "ok"], i |-> s.i + c]
      put(r, c)  == done(writeLog(r, r.ret, at, v, c), c)
      count(l)   == Min({n - s.i, P - l.used, P - o})
      roomy(r)   == IF ~r.ok THEN [s EXCEPT !.f = r] ELSE put(r, count(r.log[r.ret]))
  IN  IF ~p.ok THEN [s EXCEPT !.f = p]
      ELSE IF o = 0 /\ n - s.i >= P
      THEN [f |-> replaceBlock(p, p.ret, at, v), i |-> s.i + P]
      ELSE roomy(roomFor(p, at \div P))

writePages(f, lpn, n, v) ==
  LET round(s, j) ==
        IF ~s.f.ok \/ s.i = n THEN s
        ELSE putPages(s, ftl_prepare_log(s.f, (lpn + s.i) \div P), lpn, n, v)
  IN  Loop(round, n, [f |-> [f EXCEPT !.ok = TRUE], i |-> 0]).f

(* wear levelling: unless the erase counts are close, the logical block    *)
(* moves to a free block, whose slot takes the old one                     *)
moveToFree(f) ==
  LET L    == {lbn \in Lbn : LogsOf(f, lbn) = {}}
      lbn  == Choice(f, L)
      i    == (f.nextFree + Choice(f, Window(f))) % Pool
      new  == f.free[i]
      old  == f.map[lbn]
      copied(g) == IF g.ok THEN ftl_copy_block(g, lbn, new) ELSE g
      erased(g) == IF g.ok THEN VFL_Erase([g EXCEPT !.map[lbn] = new], old) ELSE g
      done(g)   == IF g.ok THEN [g EXCEPT !.free[i] = old] ELSE g
  IN  IF ~f.ok \/ f.even \/ L = {} THEN f ELSE done(erased(copied(VFL_Erase(f, new))))

ftl_auto_wearlevel(f) == moveToFree(ftl_mark_unclean(f))

tryWear(f) ==
  LET tried(g) == IF g.ok THEN Over([g EXCEPT !.swaps = @ - SyncWear]) ELSE Again(g)
      try(g)   == IF g.st # "ok" THEN Over(g) ELSE tried(ftl_auto_wearlevel(g))
  IN  Tries(try, f)

writeMarked(f, lpn, n, v) == IF f.ok THEN writePages(f, lpn, n, v) ELSE f

FTL_Write(f, lpn, n, v) ==
  LET wear(g) == IF g.swaps >= WriteWear THEN tryWear(g) ELSE g
      done(g) == [g EXCEPT !.ok = g.st = "ok"]
      written(g) == IF g.ok THEN done(wear(g)) ELSE g
  IN  written(writeMarked(ftl_mark_unclean(f), lpn, n, v))

(* mutant: wear is levelled by every call *)
SyncAlwaysWears(f) ==
  IF f.clean THEN [f EXCEPT !.ok = TRUE]
  ELSE tryCommit(tryWear(check_for_dirty_free_vb(f)))

ftl_sync(f) ==
  LET wear(g) == IF g.swaps >= SyncWear THEN tryWear(g) ELSE g
  IN  IF f.clean THEN [f EXCEPT !.ok = TRUE]
      ELSE tryCommit(wear(check_for_dirty_free_vb(f)))

-----------------------------------------------------------------------------
(* start-up: the control block whose first page has the lowest sequence    *)
(* number; of that the last page that is not empty must be a context       *)
CtrlBlocks(f) == {i \in 0..2 : IsCtrl(f.nand[f.vflCtrl[i]][0])}
DecOf(f, i)   == f.nand[f.vflCtrl[i]][0].dec
Latest(f)     == f.vflCtrl[Min({i \in CtrlBlocks(f) :
                                  \A j \in CtrlBlocks(f) : DecOf(f, i) <= DecOf(f, j)})]
LastCxt(f, b, kinds) == {i \in Offset \ {0} :
                           /\ f.nand[b][i].k = "cxt"
                           /\ \A j \in i + 1..P - 1 : f.nand[b][j].k \in kinds}

Load(f, cxt) == [f EXCEPT !.map = cxt.map, !.log = cxt.log, !.free = cxt.free,
                          !.nextFree = cxt.nextFree, !.numFree = cxt.numFree,
                          !.usn = cxt.usn, !.usnDec = cxt.usnDec,
                          !.ctrlPage = cxt.ctrlPage, !.ctrlChanges = cxt.ctrlChanges,
                          !.swaps = cxt.swaps]

(* FTL_Restore, step 0: the base; its tables are not used *)
Closed(f) == [f EXCEPT !.st = "closed"]

BaseStep(f, s, i) ==
  LET b == f.vflCtrl[i]
      C == LastCxt(f, b, {"empty", "bad", "meta", "mark"})
  IN  IF i \notin CtrlBlocks(f) \/ (s.seen /\ DecOf(f, i) >= s.dec) THEN s
      ELSE IF C = {} THEN [s EXCEPT !.seen = TRUE]
      ELSE [seen |-> TRUE, dec |-> DecOf(f, i), cxt |-> f.nand[b][Max(C)].cxt]

Base(f) == BaseStep(f, BaseStep(f, BaseStep(f,
             [seen |-> FALSE, dec |-> Top, cxt |-> None], 0), 1), 2).cxt

(* step 1: what the first readable page says of its block *)
Readable(f, b) == {i \in Offset : f.nand[b][i] \notin {Empty, Bad}}
Home(page)     == IF page = Bad THEN P - 1 ELSE page.lpn % P
HasUser(f, b)  == Readable(f, b) # {} /\ f.nand[b][Min(Readable(f, b))].k = "user"
OwnerOf(f, b)  == IF HasUser(f, b) THEN f.nand[b][Min(Readable(f, b))].lpn \div P ELSE None
NonSequential(f, b) == HasUser(f, b) /\ Home(f.nand[b][Min(Readable(f, b))])
                                          # Min(Readable(f, b))

(* b may be 0xFFFF, of which nothing can be read *)
Users(f, b)    == IF b = None THEN {} ELSE {i \in Readable(f, b) : f.nand[b][i].k = "user"}
HighUsn(f, b)  == Max({0} \cup {f.nand[b][i].usn : i \in Users(f, b)})
SeqBlock(f, b) == \A i \in Users(f, b) : Home(f.nand[b][i]) = i

(* step 2: one more block c of a logical block; Top: not determined yet *)
WithLog(f, s, c, usn) ==
  LET old == IF s.logUsn = Top THEN HighUsn(f, s.log) ELSE s.logUsn
  IN  IF s.log = None THEN [s EXCEPT !.log = c, !.logUsn = usn]
      ELSE IF old < usn THEN [s EXCEPT !.log = c, !.logUsn = usn]
      ELSE [s EXCEPT !.logUsn = old]

WithMap(f, s, c) ==
  LET usn  == HighUsn(f, c)
      mUsn == IF s.mapUsn = Top THEN HighUsn(f, s.map) ELSE s.mapUsn
      mSeq == s.mapUsn = Top => SeqBlock(f, s.map)
      keep == WithLog(f, [s EXCEPT !.mapUsn = mUsn], c, usn)
      swap == WithLog(f, [s EXCEPT !.map = c, !.mapUsn = usn], s.map, mUsn)
      none == [s EXCEPT !.map = None, !.mapUsn = Top]
  IN  IF mSeq /\ SeqBlock(f, c) THEN IF mUsn > usn THEN keep ELSE swap
      ELSE IF mSeq THEN keep
      ELSE IF SeqBlock(f, c) THEN swap
      ELSE IF mUsn > usn THEN WithLog(f, none, s.map, mUsn) ELSE WithLog(f, none, c, usn)

Candidate(f, s, c) ==
  IF NonSequential(f, c)
  THEN IF s.log = None THEN [s EXCEPT !.log = c]
       ELSE WithMap(f, WithLog(f, s, c, HighUsn(f, c)), c)
  ELSE IF s.map = None THEN [s EXCEPT !.map = c] ELSE WithMap(f, s, c)

candidates(f, lbn) ==
  LET block(s, c) == IF OwnerOf(f, c) = lbn THEN Candidate(f, s, c) ELSE s
  IN  Loop(block, NumBlocks, [map |-> None, mapUsn |-> Top, log |-> None, logUsn |-> Top])

(* the logical blocks in turn; one that has no block takes an empty one *)
pickBlock(r, lbn, s) ==
  LET m == IF s.map # None THEN s.map ELSE IF r.empty # {} THEN Min(r.empty) ELSE None
  IN  IF ~r.ok \/ m = None THEN [r EXCEPT !.ok = FALSE]
      ELSE [r EXCEPT !.map[lbn] = m,
                     !.logs = IF s.log = None THEN @ ELSE Append(@, <<lbn, s.log>>),
                     !.empty = IF s.map = None THEN @ \ {m} ELSE @,
                     !.zero = @ \cup {m} \cup ({s.log} \ {None})]

pickBlocks(f, picked) ==
  LET pick(r, lbn) == pickBlock(r, lbn, candidates(f, lbn))
  IN  Loop(pick, NumLbns, picked)

(* step 4: the log's offsets; the page with the highest number is newest *)
UsnOf(page) == IF page = Empty THEN 0 ELSE IF page = Bad THEN Top ELSE page.usn
InOrder(f, b) == \A i \in Offset : f.nand[b][i] # Empty => Home(f.nand[b][i]) = i
HighOf(f, b)  == Max({UsnOf(f.nand[b][i]) : i \in Offset})

RestoredLog(f, lbn, b) ==
  LET used == {i \in Offset : UsnOf(f.nand[b][i]) # 0}
      of(o) == {i \in used : Home(f.nand[b][i]) = o}
      off  == [o \in Offset |-> IF of(o) = {} THEN None ELSE Max(of(o))]
      current == Cardinality({o \in Offset : off[o] # None})
      next == IF used = {} THEN 0 ELSE Max(used) + 1
  IN  [NoLog EXCEPT !.vbn = b, !.lbn = lbn, !.off = off, !.used = next,
                    !.current = current,
                    !.seq = next = current /\ \A o \in Offset : off[o] \in {o, None}]

(* step 3: what is neither mapped nor a log is free; swapped: what was     *)
(* taken for the map block is out of order                                 *)
Rebuild(f, r) ==
  LET n == Len(r.logs)
      free == {b \in Block \ ({f.vflCtrl[i] : i \in 0..2} \cup r.zero) :
                 OwnerOf(f, b) # 0}
      A(i) == r.map[r.logs[i][1]]
      B(i) == r.logs[i][2]
      swapped(i) == ~InOrder(f, A(i))
      logOf(i) == IF swapped(i) THEN A(i) ELSE B(i)
      high == Max({0} \cup {HighOf(f, logOf(i)) : i \in 1..n})
      newMap == [l \in Lbn |-> IF \E i \in 1..n : r.logs[i][1] = l /\ swapped(i)
                               THEN CHOOSE b \in Block : \E i \in 1..n :
                                      r.logs[i][1] = l /\ b = B(i)
                               ELSE r.map[l]]
      newLog == [k \in LogSlot |-> IF k > n THEN NoLog
                   ELSE [RestoredLog(f, r.logs[k][1], logOf(k)) EXCEPT !.usn = high]]
  IN  IF \/ ~r.ok
         \/ Cardinality(free) + n # Pool
         \/ \E i \in 1..n : swapped(i) /\ ~InOrder(f, B(i))
      THEN Closed(f)
      ELSE [f EXCEPT
              !.map = newMap, !.log = newLog, !.nextFree = 0,
              !.numFree = Cardinality(free),
              !.free = [i \in 0..Pool - 1 |->
                          IF i < Cardinality(free) THEN SetToSortSeq(free, <)[i + 1] ELSE None],
              !.ctrlPage = LastOfBlock(@), !.usn = Wrap(high + 1),
              !.clean = FALSE, !.cleanFreeVb = FALSE]

FTL_Restore(f) ==
  LET restore(base) ==
        IF base = None THEN Closed(f)
        ELSE Rebuild(Load(f, base),
               pickBlocks(f, [map |-> [l \in Lbn |-> None], logs |-> <<>>, zero |-> {},
                              ok |-> TRUE,
                              empty |-> {b \in Block : f.nand[b] = Erased}]))
  IN  restore(Base(f))

FTL_Open(f) ==
  LET g == [f EXCEPT !.st = "ok", !.ctrl = f.vflCtrl]
      C == LastCxt(f, Latest(f), {"empty"})
      cxt == f.nand[Latest(f)][Max(C)].cxt
  IN  IF CtrlBlocks(f) = {} \/ C = {} THEN FTL_Restore(g)
      ELSE [Load(g, cxt) EXCEPT !.ctrl = cxt.ctrl, !.clean = TRUE, !.cleanFreeVb = TRUE]

-----------------------------------------------------------------------------
(* a formatted device after FTL_Open *)
Unpowered(f) ==
  [f EXCEPT !.st = "off", !.map = [l \in Lbn |-> None], !.log = [k \in LogSlot |-> NoLog],
            !.free = [i \in 0..Pool - 1 |-> None], !.nextFree = 0, !.numFree = 0,
            !.usn = 0, !.usnDec = 0, !.ctrl = f.vflCtrl, !.ctrlPage = 0,
            !.ctrlChanges = 0, !.swaps = 0, !.clean = FALSE, !.cleanFreeVb = FALSE]

AtRest(f) == [f EXCEPT !.power = 0, !.fail = 0, !.torn = FALSE,
                       !.ret = 0, !.ok = TRUE]

FirstCtrl == [i \in 0..2 |-> NumLbns + Pool + i]
Format(low, even, junk) ==
  LET f == [st |-> "ok", nand |-> [b \in Block |-> Erased], vflCtrl |-> FirstCtrl,
            map |-> [l \in Lbn |-> l], log |-> [k \in LogSlot |-> NoLog],
            free |-> [i \in 0..Pool - 1 |-> NumLbns + i], nextFree |-> 0, numFree |-> Pool,
            usn |-> 2, usnDec |-> Top - 1,
            ctrl |-> FirstCtrl, ctrlPage |-> FirstCtrl[2] * P + P - 1,
            clean |-> FALSE, cleanFreeVb |-> TRUE, junk |-> junk,
            ctrlChanges |-> 0, swaps |-> 0, low |-> low, even |-> even, torn |-> FALSE,
            power |-> 0, fail |-> 0, ok |-> TRUE, ret |-> 0]
  IN  AtRest(ftl_commit_cxt(f))

Init ==
  /\ \E low, even \in BOOLEAN, junk \in Junk : ftl = Format(low, even, junk)
  /\ data = [l \in Lpn |-> None]
  /\ doubt = {}
  /\ restored = FALSE
  /\ calls = 0
  /\ mishaps = MaxMishaps

-----------------------------------------------------------------------------
(* A call f(g) of the interface on the given pages.  Of the faults that    *)
(* could be chosen only those that strike count.                           *)
Faults == {<<0, 0>>} \cup
  IF mishaps = 0 THEN {} ELSE ((1..MaxOps) \X {0}) \cup ({0} \X (1..MaxFail))

Call(op(_), pages) ==
  /\ ftl.st = "ok" /\ calls < MaxCalls
  /\ \E fault \in Faults, torn \in BOOLEAN :
     \E g \in {op([ftl EXCEPT !.power = fault[1], !.fail = fault[2], !.torn = torn])} :
       /\ fault[1] = 0 => ~torn
       /\ fault[1] # 0 => g.st = "off"
       /\ fault[2] # 0 => g.fail = 0
       /\ ftl' = AtRest(IF g.st = "off" THEN Unpowered(g) ELSE g)
       /\ data' = IF g.st # "ok" THEN data
                  ELSE [l \in Lpn |-> IF l \notin pages THEN data[l]
                                      ELSE IF g.ok THEN calls + 1 ELSE FTL_Read(g, l)]
       /\ doubt' = IF g.st = "off" THEN pages ELSE {}
       /\ mishaps' = IF fault = <<0, 0>> THEN mishaps ELSE mishaps - 1
  /\ calls' = calls + 1
  /\ UNCHANGED restored

Write ==
  \E req \in Requests :
    LET op(f) == FTL_Write(f, req[1], req[2], calls + 1)
    IN  Call(op, req[1]..req[1] + req[2] - 1)

Sync ==
  /\ ~ftl.clean
  /\ Call(ftl_sync, {})

(* the power goes between two calls; that is no mishap after ftl_sync *)
PowerOff ==
  /\ ftl.st = "ok"
  /\ ftl.clean \/ mishaps > 0
  /\ ftl' = Unpowered(ftl)
  /\ mishaps' = IF ftl.clean THEN mishaps ELSE mishaps - 1
  /\ UNCHANGED <<data, restored, doubt, calls>>

(* what FTL_Restore has found is what later calls have to preserve *)
Restart ==
  /\ ftl.st = "off"
  /\ ftl' = FTL_Open(ftl)
  /\ restored' = (restored \/ ~ftl'.clean)
  /\ data' = IF ftl'.st = "ok" /\ ~ftl'.clean THEN [l \in Lpn |-> FTL_Read(ftl', l)]
             ELSE data
  /\ doubt' = {}
  /\ UNCHANGED <<calls, mishaps>>

Next == Write \/ Sync \/ PowerOff \/ Restart

Spec == Init /\ [][Next]_vars

-----------------------------------------------------------------------------
LogRec  == [vbn : Block \cup {None}, lbn : Lbn \cup {None}, usn : 0..Top,
            used : 0..P, current : 0..P, seq : BOOLEAN, off : [Offset -> Offset \cup {None}]]
Running == ftl.st = "ok"

(* Types and ranges of what lasts from one call to the next: the ring of   *)
(* free blocks holds no more than the pool, the logs no more than a block. *)
TypeOK ==
  /\ ftl.st \in {"ok", "off", "closed", "overwritten", "zeroed"}
  /\ ftl.vflCtrl \in [0..2 -> Block] /\ ftl.ctrl \in [0..2 -> Block]
  /\ Running => /\ ftl.map \in [Lbn -> Block]
                /\ ftl.log \in [LogSlot -> LogRec]
                /\ ftl.free \in [0..Pool - 1 -> Block \cup {None}]
                /\ ftl.numFree \in 0..Pool /\ ftl.nextFree \in 0..Pool - 1
                /\ ftl.usn \in 0..Top /\ ftl.usnDec \in 0..Top /\ ftl.swaps \in Nat
                /\ ftl.ctrlPage \div P \in {ftl.ctrl[i] : i \in 0..2}
  /\ data \in [Lpn -> 1..MaxCalls \cup {None, -1, -2}]
  /\ doubt \subseteq Lpn /\ restored \in BOOLEAN
  /\ calls \in 0..MaxCalls /\ mishaps \in 0..MaxMishaps

(* A page reads as the last call that wrote it left it: through logs,      *)
(* merges, compaction, wear levelling, one failed operation, and when the  *)
(* tables are read again after a shut down.  After FTL_Restore: as it read *)
(* then; what that should be is RestoreKeepsData.                          *)
ReadsLastWritten == Running => \A l \in Lpn : FTL_Read(ftl, l) = data[l]

Blocks == [map  |-> {ftl.map[l] : l \in Lbn},
           log  |-> {ftl.log[k].vbn : k \in Log} \ {None},
           free |-> {ftl.free[(ftl.nextFree + i) % Pool] : i \in 0..ftl.numFree - 1},
           ctrl |-> {ftl.ctrl[i] : i \in 0..2}]

(* Every block has exactly one use: it is mapped, a log, free or a control *)
(* block.  "The number of free vbs and the number of log blocks used must  *)
(* equal 20": the pool neither leaks nor counts a block twice.             *)
PoolPartition ==
  Running /\ ~restored =>
    /\ \A x, y \in DOMAIN Blocks : x # y => Blocks[x] \cap Blocks[y] = {}
    /\ UNION {Blocks[x] : x \in DOMAIN Blocks} = Block
    /\ ftl.numFree = Cardinality(Blocks.free)
    /\ ftl.numFree + Cardinality({k \in Log : ftl.log[k].vbn # None}) = Pool

(* The offsets of a log name the newest copy of each page that its block   *)
(* has, and the pages from "used" on are the ones that can be programmed.  *)
LogsMatchPages ==
  Running /\ ~restored => \A k \in Log :
    LET l == ftl.log[k]
        Copies(o) == {i \in Offset : /\ ftl.nand[l.vbn][i].k = "user"
                                     /\ ftl.nand[l.vbn][i].lpn = l.lbn * P + o}
    IN  l.vbn # None =>
          /\ \A i \in Offset : (i >= l.used) <=> ftl.nand[l.vbn][i] = Empty
          /\ \A o \in Offset :
               l.off[o] = IF Copies(o) = {} THEN None ELSE Max(Copies(o))

(* No page is programmed a second time before its block is erased, as long *)
(* as the tables come from a context.                                      *)
ProgramsErasedPages == ~restored => ftl.st # "overwritten"

(* FTL_Restore: a page that no call was writing when the power went reads  *)
(* as it did before.                                                       *)
RestoreKeepsData ==
  [][ftl.st = "off" /\ ftl'.st = "ok" => \A l \in Lpn \ doubt : data'[l] = data[l]]_vars

=============================================================================
