----------------------------- MODULE YaftlWrite -----------------------------
(***************************************************************************)
(* The mapping, the caches and the garbage collection of the YAFTL         *)
(* (ftl-yaftl/yaftl.c, yaftl_common.c, yaftl_gc.c): where a logical page   *)
(* is, how an overwritten page becomes a free block, and which counters    *)
(* steer that.  Nothing here runs concurrently: a call of the public       *)
(* interface (write or read a page, flush) is one action.  The functions   *)
(* it calls are operators from the state sInfo to the state they leave.    *)
(* What a function returns besides is in sInfo.ok, sInfo.ret.              *)
(*                                                                         *)
(* One write to the NAND of every call may fail: "fail" counts down to it. *)
(* sInfo.st tells how the last call ended: "ok", in system_panic, in a     *)
(* loop that changes nothing any more ("hung"), or after something the     *)
(* NAND does not forgive: a page programmed again without an erase         *)
(* ("overwritten"), pages of the collector written one over the other      *)
(* ("duplicated").  The model stops there.                                 *)
(*                                                                         *)
(* Abstracted: eraseCount, useCount and readCount only choose among blocks *)
(* and caches; always the lowest or always the highest number among those  *)
(* that qualify is taken, and a read may find any block worn by reading.   *)
(* A block has one page of table (tocPagesPerBlock = 1).  L2V_Search never *)
(* finds anything, L2V_Update does nothing.  unkn5 has the values 0 (clean)*)
(* and 2, 4 (freed by the collector of user, index pages); 1 and 5 come    *)
(* only from YAFTL_Restore, which panics.  The context is YaftlContext.    *)
(* Left out: the flush that read and write make after half of the pages    *)
(* were written or half of the blocks allocated (Flush is a call of its    *)
(* own, which may follow any other), and the tables of blocks that are     *)
(* kept in memory besides the ones of the two open blocks, which the       *)
(* collector looks at before the table on the NAND (gcPopulateBTOC).       *)
(***************************************************************************)
EXTENDS Integers, Sequences, FiniteSets, FiniteSetsExt, SequencesExt, TLC

CONSTANTS
  NumBlocks,      \* user, index and free blocks
  PagesPerSublk,  \* pages of a block, the last holds its table
  NumLpns,        \* sInfo.totalPages; the last page is never read or written
  EntriesPerToc,  \* sInfo.tocEntriesPerPage
  NumCaches,      \* sInfo.numCaches (10)
  NumIBlocks,     \* sInfo.numIBlocks
  GcPages,        \* sInfo.gcPages (at least 16)
  Banks,          \* sGeometry.total_banks_ftl
  Reserve,        \* the 5 of gcPrepareToWrite
  Ahead,          \* the 10 of gcPrepareToWrite
  GcListMax,      \* GCLIST_MAX (16)
  Values,         \* what a page can hold: 0..Values - 1
  MaxRounds,      \* bound: rounds of the collector in one call
  MaxCalls,       \* bound: calls
  MaxFail,        \* bound: the first MaxFail writes of a call may fail
  MaxFaults,      \* bound: writes that fail
  None            \* 0xFFFFFFFF, 0xFFFF

ASSUME YaftlWriteAssumption ==
  /\ NumBlocks \in Nat /\ PagesPerSublk \in Nat /\ PagesPerSublk > 1
  /\ NumLpns \in Nat /\ NumLpns > 1
  /\ {EntriesPerToc, NumCaches, NumIBlocks} \subseteq Nat \ {0}
  /\ {GcPages, Banks, GcListMax, Values, MaxRounds} \subseteq Nat \ {0}
  /\ {MaxFail, MaxFaults, MaxCalls, Reserve, Ahead} \subseteq Nat
  /\ Reserve <= Ahead
  /\ None \notin Int

VARIABLES
  sInfo,  \* the state of the YAFTL and the NAND
  data,   \* history: the value of every page that was written
  calls,  \* history: number of calls
  faults  \* history: writes that may still fail

vars == <<sInfo, data, calls, faults>>

Block == 0..NumBlocks - 1
D     == PagesPerSublk - 1            \* pages of a block for data
Page  == 0..NumBlocks * PagesPerSublk - 1
Lpn   == 0..NumLpns - 2
Toc   == 0..(NumLpns - 1) \div EntriesPerToc
Entry == 0..EntriesPerToc - 1
Cache == 0..NumCaches - 1

PageOf(b, i)  == b * PagesPerSublk + i
BlockOf(p)    == p \div PagesPerSublk
TocOf(lpn)    == lpn \div EntriesPerToc
EntryOf(lpn)  == lpn % EntriesPerToc

Empty == [type |-> "empty"]
Bad   == [type |-> "bad"]             \* a write failed here
User(lpn, v)   == [type |-> "lbn", lpn |-> lpn, val |-> v]
Index(t, buf)  == [type |-> "index", lpn |-> t, buf |-> buf]
Closed(btoc)   == [type |-> "closed", btoc |-> btoc]

NoToc   == [i \in 0..D - 1 |-> None]
NoEntry == [e \in Entry |-> None]
FreeCache == [state |-> "FREE", page |-> None, buf |-> NoEntry]

-----------------------------------------------------------------------------
(* The least worn block, the least used cache: any order of the counts. *)
Least(f, S) == IF f.low THEN Min(S) ELSE Max(S)

Panic(f) == [f EXCEPT !.st = "panic"]
Hang(f)  == [f EXCEPT !.st = "hung"]

(* field_78: the context on the NAND is marked stale before the NAND changes *)
Program(f, p, content) ==
  [f EXCEPT !.field78 = FALSE,
            !.nand[p] = IF f.fail = 1 \/ @ # Empty THEN Bad ELSE content,
            !.ok   = f.fail # 1,
            !.fail = IF @ = 0 THEN 0 ELSE @ - 1,
            !.st   = IF f.nand[p] # Empty THEN "overwritten" ELSE @]

Erase(f, S) ==
  [f EXCEPT !.field78 = @ /\ S = {},
            !.nand = [p \in {q \in Page : BlockOf(q) \in S} |-> Empty] @@ @,
            !.blk  = [b \in S |-> [@[b] EXCEPT !.unkn5 = 0]] @@ @]

Readable(f, p) == f.nand[p].type \notin {"empty", "bad"}

-----------------------------------------------------------------------------
(* yaftl_common.c: blocks, index pages, caches *)
YAFTL_allocateNewBlock(f, isUser) ==
  LET free  == {b \in Block : f.blk[b].status = "FREE"}
      stale == {b \in free : f.blk[b].unkn5 = IF isUser THEN 2 ELSE 4}
      cand  == {b \in free : f.blk[b].unkn5 # 2}
      take(g, best) ==
        LET fresh == [block |-> best, used |-> 0, btoc |-> NoToc]
        IN  IF g.blk[best].validI + g.blk[best].validD # 0 THEN Panic(g)
            ELSE IF isUser
            THEN [g EXCEPT !.blk[g.user.block].status = "ALLOCATED",
                           !.blk[best].status = "GC",  !.user = fresh,
                           !.numFree = @ - 1, !.numAvailable = @ - 1,
                           !.numAllocated = @ + 1]
            ELSE [g EXCEPT !.blk[g.index.block].status = "I_ALLOCATED",
                           !.blk[best].status = "I_GC", !.index = fresh,
                           !.numFree = @ - 1, !.numIAvailable = @ - 1,
                           !.numIAllocated = @ + 1]
  IN  IF f.st # "ok" THEN f
      ELSE IF cand = {} THEN Panic(f)
      ELSE take(Erase(f, stale), Least(f, cand))

(* mutant: the table of a closed block is not filled in *)
closeWithoutTable(f, isUser) ==
  LET open == IF isUser THEN f.user ELSE f.index
  IN  IF f.st # "ok" \/ open.used # D THEN f
      ELSE Program(f, PageOf(open.block, D), Closed(NoToc))

YAFTL_closeLatestBlock(f, isUser) ==
  LET open == IF isUser THEN f.user ELSE f.index
  IN  IF f.st # "ok" \/ open.used # D THEN f
      ELSE Program(f, PageOf(open.block, D), Closed(open.btoc))

gcListPushBack(f, list, b) ==
  LET q == Append(f[list], b)
  IN  IF b \in ToSet(f[list]) THEN f
      ELSE IF Len(q) = GcListMax + 1 THEN Panic(f) ELSE [f EXCEPT ![list] = q]

RECURSIVE writeIndexPage(_, _, _)
writeIndexPage(f, t, buf) ==
  LET place(g) == PageOf(g.index.block, g.index.used)
      put(g) ==
        IF g.st # "ok" THEN g
        ELSE Program([g EXCEPT !.index.btoc[g.index.used] = t], place(g), Index(t, buf))
      tried(g) ==
        IF g.st # "ok" THEN g
        ELSE IF g.ok
        THEN [g EXCEPT !.blk[g.index.block].validI = @ + 1, !.validI = @ + 1,
                       !.index.used = @ + 1, !.toc[t].indexPage = place(g)]
        ELSE writeIndexPage(YAFTL_allocateNewBlock(
               gcListPushBack(g, "indexList", g.index.block), FALSE), t, buf)
  IN  tried(put(IF f.index.used < D THEN f
                ELSE YAFTL_allocateNewBlock(YAFTL_closeLatestBlock(f, FALSE), FALSE)))

(* mutant: the page is counted as gone but stays in the index *)
DropIndexPageKept(f, t) ==
  LET b == BlockOf(f.toc[t].indexPage)
  IN  IF f.toc[t].indexPage = None THEN f
      ELSE [f EXCEPT !.blk[b].validI = @ - 1, !.validI = @ - 1]

(* one valid index page less in its block *)
DropIndexPage(f, t) ==
  LET b == BlockOf(f.toc[t].indexPage)
  IN  IF f.toc[t].indexPage = None THEN f
      ELSE IF f.blk[b].validI = 0 THEN Panic(f)
      ELSE [f EXCEPT !.blk[b].validI = @ - 1, !.validI = @ - 1,
                     !.toc[t].indexPage = None]

CachesIn(f, state) == {c \in Cache : f.cache[c].state = state}

(* the result is in ret: the number of a free cache, or None *)
YAFTL_clearEntryInCache(f, S) ==
  LET free  == CachesIn(f, "FREE") \cap S
      clean == CachesIn(f, "CLEAN") \cap S
      dirty == CachesIn(f, "DIRTY") \cap S
      clear(c) ==
        LET t == f.cache[c].page
            g == [f EXCEPT !.toc[t].cacheNum = None]
        IN  [(IF clean # {} THEN g
              ELSE writeIndexPage(DropIndexPage(g, t), t, f.cache[c].buf))
               EXCEPT !.cache[c] = FreeCache, !.ret = c]
  IN  IF f.st # "ok" THEN f
      ELSE IF free # {} THEN [f EXCEPT !.ret = Min(free)]
      ELSE IF clean = {} /\ dirty = {} THEN [f EXCEPT !.ret = None]
      ELSE clear(Least(f, IF clean # {} THEN clean ELSE dirty))

YAFTL_findFreeTOCCache(f) ==
  LET free == CachesIn(f, "FREE") IN IF free = {} THEN None ELSE Min(free)

(* mutant: a dirty cache is taken as it is *)
FreeSlotUnwritten(f) ==
  LET c == Least(f, CachesIn(f, "CLEAN") \cup CachesIn(f, "DIRTY"))
  IN  IF YAFTL_findFreeTOCCache(f) # None
        THEN [f EXCEPT !.ret = YAFTL_findFreeTOCCache(f)]
        ELSE [f EXCEPT !.toc[f.cache[c].page].cacheNum = None,
                       !.cache[c] = FreeCache, !.ret = c]

(* a free cache, if need be by clearing one; in ret *)
FreeSlot(f) ==
  IF YAFTL_findFreeTOCCache(f) # None
    THEN [f EXCEPT !.ret = YAFTL_findFreeTOCCache(f)]
    ELSE YAFTL_clearEntryInCache(f, Cache)

LoadToc(f, c, t, state) ==
  LET p == f.toc[t].indexPage
  IN  IF f.nand[p].type # "index" THEN Panic(f)
      ELSE [f EXCEPT !.cache[c] = [state |-> state, page |-> t,
                                   buf |-> f.nand[p].buf],
                     !.toc[t].cacheNum = c]

-----------------------------------------------------------------------------
(* yaftl_gc.c: the garbage collector.  gc is sInfo.gc.data between two     *)
(* calls; what the collector of index pages knows lives in one call only.  *)
Idle == [state |-> 0, victim |-> None, chosen |-> None, total |-> 0,
         btocIdx |-> 0, inval |-> 0, btoc |-> NoToc]

(* in ret: the block to collect *)
gcChooseBlock(f, list, victim, filter) ==
  LET status(g) == IF victim = None THEN "" ELSE g.blk[victim].status
      fits == IF filter = "ALLOCATED" THEN {"ALLOCATED", "CURRENT", "GC"}
                                      ELSE {"I_ALLOCATED", "I_CURRENT", "I_GC"}
      valid(g, b) == g.blk[b].validD + g.blk[b].validI
      user(g) == IF status(g) = "GC" THEN YAFTL_allocateNewBlock(g, TRUE) ELSE g
      push(g) == IF g[list] # <<>> /\ victim # None
                   THEN gcListPushBack(g, list, victim) ELSE g
      pop(g) == IF g[list] = <<>> THEN [g EXCEPT !.ret = victim]
                ELSE [g EXCEPT ![list] = Tail(@), !.ret = Head(g[list])]
      least(g) ==
        LET cand == {b \in Block : g.blk[b].status = filter}
        IN  IF cand = {} THEN Panic(g)
            ELSE [g EXCEPT !.ret = Least(g, {b \in cand :
                              \A c \in cand : valid(g, b) <= valid(g, c)})]
      check(g) == IF g.st # "ok" THEN g
                  ELSE IF g.ret = None THEN least(g)
                  ELSE IF g.blk[g.ret].status \notin fits THEN Panic(g) ELSE g
  IN  check(pop(push(user(IF status(f) = "I_GC"
                            THEN YAFTL_allocateNewBlock(f, FALSE) ELSE f))))

(* the table of a block, or what its pages say when it has none *)
gcPopulateBTOC(f, b, max) ==
  LET valid(e) == IF e # None /\ e < max THEN e ELSE None
      last == f.nand[PageOf(b, D)]
      page(i) == f.nand[PageOf(b, i)]
  IN  IF last.type = "closed" THEN [i \in 0..D - 1 |-> valid(last.btoc[i])]
      ELSE [i \in 0..D - 1 |-> IF Readable(f, PageOf(b, i))
                                 THEN valid(page(i).lpn) ELSE None]

(* in ret: where the index says logical page e is.  The 0xFFFFFFFF of a    *)
(* page that is nowhere is -1 for the caller: "out of caches".             *)
gcHandleVpnMiss(f, e) ==
  LET t == TocOf(e)
      entry(g) == g.cache[g.toc[t].cacheNum].buf[EntryOf(e)]
      found(g) == IF g.st # "ok" THEN g
                  ELSE [g EXCEPT !.ret = IF entry(g) = None THEN -1 ELSE entry(g)]
      loaded(g) == IF g.st # "ok" THEN g
                   ELSE IF g.ret = None THEN [g EXCEPT !.gc.state = 3, !.ret = -1]
                   ELSE found(LoadToc(g, g.ret, t, "CLEAN"))
  IN  IF f.toc[t].cacheNum # None THEN found(f)
      ELSE IF f.toc[t].indexPage = None THEN [f EXCEPT !.ret = -2]
      ELSE loaded(FreeSlot(f))

(* YAFTL_writeMultiPages passes the same _pBuf and _pSpare for every page  *)
RECURSIVE YAFTL_writeMultiPages(_, _, _, _)
YAFTL_writeMultiPages(f, p, n, content) ==
  LET g == Program(f, p, content)
  IN  IF n = 0 \/ f.st # "ok" THEN f
      ELSE IF ~g.ok THEN g
      ELSE YAFTL_writeMultiPages(IF n > 1 /\ g.st = "ok"
                                   THEN [g EXCEPT !.dup = TRUE] ELSE g,
                                 p + 1, n - 1, content)

(* gcReadZoneData: the pages of the zone, with their spares *)
gcReadZoneData(f) ==
  IF \A k \in DOMAIN f.zone : Readable(f, f.zone[k])
    THEN [f EXCEPT !.spare = [k \in DOMAIN f.zone |-> f.nand[f.zone[k]]]]
    ELSE Panic(f)

(* the pages of the zone from the k-th on go to the open user block *)
RECURSIVE moveData(_, _)
moveData(f, k) ==
  LET b == f.user.block
      u == f.user.used
      n == Min({Len(f.zone) - k + 1, D - u})
      moved(g) == [g EXCEPT !.user.used = u + n,
                     !.user.btoc = [i \in u..u + n - 1 |->
                                      f.spare[k + i - u].lpn] @@ @,
                     !.zone = [j \in k..k + n - 1 |-> PageOf(b, u + j - k)] @@ @]
      bad(g) == gcListPushBack(gcListPushBack(g, "dataList", f.gc.chosen),
                               "dataList", b)
      tried(g) == IF g.ok THEN moveData(moved(g), k + n)
                  ELSE [YAFTL_allocateNewBlock(bad(g), TRUE) EXCEPT !.ok = FALSE]
  IN  IF f.st # "ok" \/ k > Len(f.zone) THEN [f EXCEPT !.ok = TRUE]
      ELSE IF u >= D
      THEN moveData(YAFTL_allocateNewBlock(YAFTL_closeLatestBlock(f, TRUE),
                                           TRUE), k)
      ELSE tried(YAFTL_writeMultiPages(f, PageOf(b, u), n, f.spare[k]))

(* the index learns where the k-th page of the zone is now *)
updateToc(f, k) ==
  LET lpn == f.spare[k].lpn
      t   == TocOf(lpn)
      set(g, c) ==
        DropIndexPage(
          [g EXCEPT !.cache[c].buf[EntryOf(lpn)] = f.zone[k],
                    !.cache[c].state = "DIRTY",
                    !.blk[BlockOf(f.zone[k])].validD = @ + 1, !.validD = @ + 1], t)
      replace(g, c, old) ==
        IF old = None THEN set(g, c)
        ELSE IF g.blk[BlockOf(old)].validD = 0 THEN Panic(g)
        ELSE set([g EXCEPT !.blk[BlockOf(old)].validD = @ - 1, !.validD = @ - 1], c)
      cached(g) ==
        LET c == g.toc[t].cacheNum
        IN  IF g.st # "ok" THEN g ELSE replace(g, c, g.cache[c].buf[EntryOf(lpn)])
      loaded(g) == IF f.toc[t].indexPage = None \/ g.st # "ok" THEN Panic(g)
                   ELSE LoadToc(g, g.ret, t, "CLEAN")
  IN  IF f.st # "ok" THEN f
      ELSE cached(IF f.toc[t].cacheNum # None THEN f ELSE loaded(FreeSlot(f)))

RECURSIVE updateTocs(_, _)
updateTocs(f, k) ==
  IF f.st # "ok" \/ ~f.ok \/ k > Len(f.zone) THEN f
  ELSE updateTocs(updateToc(f, k), k + 1)

gcWriteDataPages(f) == updateTocs(moveData(f, 1), 1)

gcSanityCheckValid(f, b) ==
  IF f.blk[b].validD + f.blk[b].validI > 0 THEN Panic(f) ELSE f

(* mutant: a block more is not counted *)
ReleaseUncounted(f, b, unkn5) ==
  IF f.st # "ok" THEN f
  ELSE [f EXCEPT !.blk[b] = [status |-> "FREE", validD |-> 0, validI |-> 0,
                             unkn5 |-> unkn5]]

(* the block is free; its pages are erased when it is allocated *)
Release(f, b, unkn5) ==
  IF f.st # "ok" THEN f
  ELSE [f EXCEPT !.blk[b] = [status |-> "FREE", validD |-> 0, validI |-> 0,
                             unkn5 |-> unkn5],
                 !.numFree = @ + 1]

-----------------------------------------------------------------------------
(* index pages: they are pulled into free caches, or moved when there are none *)
RECURSIVE gcWriteIndexPages(_, _, _)
gcWriteIndexPages(f, k, chosen) ==
  LET b == f.index.block
      u == f.index.used
      n == Min({Len(f.zone) - k + 1, D - u})
      lpn(i) == f.spare[i + 1].lpn            \* not spare[k + i], as in the code
      next(g) == YAFTL_allocateNewBlock(YAFTL_closeLatestBlock(g, FALSE), FALSE)
      moved(g) ==
        [g EXCEPT !.index.used = u + n,
                  !.index.btoc = [i \in u..u + n - 1 |-> lpn(i - u)] @@ @,
                  !.toc = [t \in {lpn(i) : i \in 0..n - 1} |->
                     [@[t] EXCEPT !.indexPage = PageOf(b,
                        u + Max({i \in 0..n - 1 : lpn(i) = t}))]] @@ @,
                  !.blk[b].validI = @ + n, !.validI = @ + n]
      bad(g) == gcListPushBack(gcListPushBack(g, "indexList", chosen),
                               "indexList", b)
      tried(g) == IF g.ok THEN moved(g)
                  ELSE [YAFTL_allocateNewBlock(bad(g), FALSE) EXCEPT !.ok = FALSE]
      more(g) == IF ~g.ok \/ k + n > Len(f.zone) THEN g
                 ELSE gcWriteIndexPages(IF u + n + n < D THEN g ELSE next(g),
                                        k + n, chosen)
  IN  IF f.st # "ok" \/ k > Len(f.zone) THEN [f EXCEPT !.ok = TRUE]
      ELSE IF u >= D THEN gcWriteIndexPages(next(f), k, chosen)
      ELSE more(tried(YAFTL_writeMultiPages(f, PageOf(b, u), n, f.spare[k])))

(* the pages of the zone are moved, block b has as many valid pages less *)
moveIndex(f, b) ==
  LET n == Len(f.zone)
      moved(g) == IF g.st # "ok" \/ ~g.ok THEN g
                  ELSE [g EXCEPT !.blk[b].validI = @ - n, !.validI = @ - n,
                                 !.zone = <<>>]
  IN  moved(gcWriteIndexPages(gcReadZoneData(f), 1, b))

(* page i of block b, which holds index page t according to the table *)
collectIndex(f, b, i, t) ==
  LET p == PageOf(b, i)
      c == f.toc[t].cacheNum
      free == YAFTL_findFreeTOCCache(f)
      pull(g, d) == [DropIndexPage(g, t) EXCEPT !.cache[d].state = "DIRTY",
                                                !.inval = @ + 1]
      add(g) == IF g.st # "ok" \/ ~g.ok THEN g
                ELSE [g EXCEPT !.zone = Append(@, p),
                               !.inval = @ + Len(f.zone) - Len(g.zone)]
  IN  IF f.toc[t].indexPage # p THEN f
      ELSE IF c # None
      THEN IF f.cache[c].state = "CLEAN" THEN pull(f, c) ELSE f
      ELSE IF free # None
      THEN IF f.nand[p].type # "index" THEN [f EXCEPT !.ok = FALSE, !.toc[t].cacheNum = free]
           ELSE pull(LoadToc(f, free, t, "DIRTY"), free)
      ELSE IF f.blk[b].validI < Len(f.zone) THEN Panic(f)
      ELSE add(IF GcPages - (f.index.used % Banks) <= Len(f.zone)
                 THEN moveIndex(f, b) ELSE f)

RECURSIVE collectIndexPages(_, _, _, _, _)
collectIndexPages(f, b, total, btoc, i) ==
  IF i = D \/ f.inval >= total \/ f.st # "ok" \/ ~f.ok THEN f
  ELSE collectIndexPages(IF btoc[i] = None THEN f ELSE collectIndex(f, b, i, btoc[i]),
                         b, total, btoc, i + 1)

(* no valid page is left in block b, unless a write has failed *)
emptyIndexBlock(f, b) ==
  LET total == f.blk[b].validD + f.blk[b].validI
      start == [f EXCEPT !.blk[b].status = "I_CURRENT", !.zone = <<>>,
                         !.inval = 0, !.ok = TRUE]
      rest(g) == IF g.st = "ok" /\ g.ok /\ g.zone # <<>> THEN moveIndex(g, b) ELSE g
  IN  IF total = 0 THEN [f EXCEPT !.ok = TRUE]
      ELSE rest(collectIndexPages(start, b, total,
                                  gcPopulateBTOC(f, b, Cardinality(Toc)), 0))

RECURSIVE gcFreeIndexPages(_, _)
(* the chosen block is in ret *)
freeIndexBlock(f) ==
  LET b == f.ret
      freed(g) == [Release(gcSanityCheckValid(g, b), b, 4)
                     EXCEPT !.numIAvailable = @ + 1, !.numIAllocated = @ - 1]
      again(g) == IF g.st # "ok" \/ g.indexList = <<>> THEN g
                  ELSE gcFreeIndexPages(g, None)
      emptied(g) == IF g.st # "ok" THEN g
                    ELSE IF ~g.ok THEN gcFreeIndexPages(g, None)
                    ELSE again(freed(g))
  IN  IF f.st # "ok" THEN f ELSE emptied(emptyIndexBlock(f, b))

gcFreeIndexPages(f, victim) ==
  IF f.st # "ok" THEN f
  ELSE freeIndexBlock(gcChooseBlock(f, "indexList", victim, "I_ALLOCATED"))

-----------------------------------------------------------------------------
(* user pages: collect the pages of the chosen block that the index still  *)
(* places there, and move them in zones.  ret is -1 when the              *)
(* caller gives up without moving what it has collected.                   *)
RECURSIVE collectData(_, _)
(* the zone is moved when it is full, then the next page *)
nextPage(f, limit) ==
  LET next(g) == collectData([g EXCEPT !.gc.btocIdx = @ + 1], limit)
      moved(g) == IF g.st # "ok" THEN g
                  ELSE IF g.ok THEN next([g EXCEPT !.zone = <<>>])
                  ELSE [g EXCEPT !.gc.state = 4, !.ret = -1]
  IN  IF f.st # "ok" \/ f.ret = -1 THEN f
      ELSE IF f.ret = -2 THEN [f EXCEPT !.ret = None]
      ELSE IF GcPages - (f.user.used % Banks) > Len(f.zone) THEN next(f)
      ELSE IF f.blk[f.gc.chosen].validD < Len(f.zone) THEN Panic(f)
      ELSE moved(gcWriteDataPages(gcReadZoneData(f)))

collectData(f, limit) ==
  LET e == f.gc.btoc[f.gc.btocIdx]
      p == PageOf(f.gc.chosen, f.gc.btocIdx)
      add(g) == IF g.st # "ok" \/ g.ret # p THEN g
                ELSE [g EXCEPT !.zone = Append(@, p), !.gc.inval = @ + 1]
  IN  IF \/ f.st # "ok" \/ Len(f.zone) >= limit \/ f.gc.btocIdx >= D
         \/ f.gc.inval >= f.gc.total
        THEN [f EXCEPT !.ret = None]
      ELSE nextPage(IF e = None THEN [f EXCEPT !.ret = None]
                    ELSE add(gcHandleVpnMiss(f, e)), limit)

RECURSIVE indexPagesWhile(_, _, _)
indexPagesWhile(f, Busy(_), n) ==
  IF f.st # "ok" \/ ~Busy(f) THEN f
  ELSE IF n = 0 THEN Hang(f)
  ELSE indexPagesWhile(gcFreeIndexPages(f, None), Busy, n - 1)

RECURSIVE gcFreeDataPages(_, _)
gcFreeDataPages(f, numPages) ==
  LET b == f.gc.chosen
      again(g, state) == gcFreeDataPages([g EXCEPT !.gc.state = state], numPages)
      (* state 0: choose a block *)
      chosen(g, c) ==
        IF g.st # "ok" THEN g
        ELSE IF g.blk[c].validD + g.blk[c].validI = 0
        THEN again([g EXCEPT !.gc = [Idle EXCEPT !.chosen = c]], 2)
        ELSE [g EXCEPT !.gc = [Idle EXCEPT !.state = 1, !.chosen = c,
                                 !.total = g.blk[c].validD + g.blk[c].validI,
                                 !.btoc = gcPopulateBTOC(g, c, NumLpns)],
                       !.blk[c].status = "CURRENT"]
      begin(g) == chosen(g, g.ret)
      (* state 1: move its pages *)
      limit == IF numPages > 0
                 THEN (PagesPerSublk * numPages) \div Max({1, D - f.gc.total})
                 ELSE GcPages
      moved(g) ==
        IF g.st # "ok" THEN g
        ELSE IF ~g.ok THEN again(g, 4)
        ELSE IF g.gc.btocIdx >= D THEN gcSanityCheckValid(g, b) ELSE g
      collected(g) ==
        IF g.st # "ok" \/ g.ret = -1 THEN g
        ELSE IF g.zone = <<>>
        THEN IF g = f THEN Hang(f) ELSE again(g, 1)
        ELSE IF g.blk[b].validD < Len(g.zone) THEN Panic(g)
        ELSE moved(gcWriteDataPages(gcReadZoneData(g)))
      (* state 2: it is free *)
      freed(g) == IF g.st # "ok" \/ g.dataList = <<>> THEN g ELSE again(g, 0)
  IN  IF f.st # "ok" THEN f
      ELSE IF f.gc.state = 0
      THEN begin(gcChooseBlock(
                   indexPagesWhile(f, LAMBDA h : h.numIAvailable <= 1, MaxRounds),
                   "dataList", f.gc.victim, "ALLOCATED"))
      ELSE IF f.gc.state = 1
      THEN IF f.blk[b].validI # 0 THEN Panic(f)
           ELSE IF f.blk[b].validD = 0 THEN again(f, 2)
           ELSE collected(collectData([f EXCEPT !.zone = <<>>], limit))
      ELSE IF f.gc.state = 2
      THEN freed([Release(gcSanityCheckValid(f, b), b, 2)
                    EXCEPT !.numAvailable = @ + 1, !.numAllocated = @ - 1, !.gc = Idle])
      ELSE IF f.gc.state = 3
      THEN again(indexPagesWhile(f, LAMBDA h : h.indexList # <<>>, MaxRounds), 0)
      ELSE again(f, 0)

RECURSIVE freeLoop(_)
freeLoop(f) ==
  LET round(g) ==
        IF g.st # "ok" THEN g
        ELSE IF g.gc.state # 0 THEN IF g = f THEN Hang(f) ELSE freeLoop(g)
        ELSE IF g.dataList = <<>> THEN g
        ELSE freeLoop([g EXCEPT !.dataList = Tail(@)])
  IN  round(gcFreeDataPages(f, 0))

gcFreeBlock(f, b) ==
  LET c == f.gc.chosen
      dropped == f.gc.state # 0 /\ f.blk[c].status = "CURRENT"
      g == IF dropped THEN [f EXCEPT !.blk[c].status = "ALLOCATED"] ELSE f
  IN  IF f.st # "ok" THEN f
      ELSE freeLoop([g EXCEPT !.gc = [Idle EXCEPT !.victim = b]])

RECURSIVE makeRoom(_, _, _)
makeRoom(f, numBlocks, n) ==
  LET g == IF f.numIAvailable <= 1 THEN gcFreeIndexPages(f, None) ELSE f
  IN  IF f.st # "ok" \/ f.numAvailable > numBlocks + Reserve THEN f
      ELSE IF n = 0 THEN Hang(f)
      ELSE makeRoom(gcFreeBlock(g, None), numBlocks, n - 1)

gcPrepareToWrite(f, numPages) ==
  LET numBlocks == numPages \div D
      ready(g) == IF g.numAvailable <= numBlocks + Ahead \/ g.gc.state # 0
                    THEN gcFreeDataPages(g, numPages) ELSE g
  IN  ready(makeRoom([f EXCEPT !.gc.victim = None], numBlocks, MaxRounds))

(* mutant: the caches are not written out *)
PrepareOnlyBlocks(f) ==
  indexPagesWhile(f, LAMBDA h : NumIBlocks < h.numIAllocated + 2, MaxRounds)

gcPrepareToFlush(f) ==
  LET g == indexPagesWhile(f, LAMBDA h : NumIBlocks < h.numIAllocated + 2,
                           MaxRounds)
      RECURSIVE clear(_, _)
      clear(h, c) == IF c = NumCaches THEN h
                     ELSE clear(YAFTL_clearEntryInCache(h, {c}), c + 1)
  IN  clear(g, 0)

-----------------------------------------------------------------------------
(* yaftl.c: the public interface *)

(* the cache of the index page of lpn, which is in the cache only; in ret *)
refreshTOCCaches(f, lpn) ==
  LET t == TocOf(lpn)
      new == [state |-> "DIRTY", page |-> t, buf |-> NoEntry]
      load(g) ==
        IF g.st # "ok" THEN g
        ELSE IF f.toc[t].indexPage # None THEN LoadToc(g, g.ret, t, "DIRTY")
        ELSE [g EXCEPT !.cache[g.ret] = new, !.toc[t].cacheNum = g.ret]
      cached(g) ==
        LET c == g.toc[t].cacheNum
        IN  IF g.st # "ok" THEN g
            ELSE [DropIndexPage(g, t) EXCEPT !.cache[c].state = "DIRTY", !.ret = c]
  IN  cached(IF f.st # "ok" \/ f.toc[t].cacheNum # None THEN f ELSE load(FreeSlot(f)))

(* the entry of lpn is emptied in the cache that is in ret *)
dropEntry(f, lpn) ==
  LET old == f.cache[f.ret].buf[EntryOf(lpn)]
      b == BlockOf(old)
      g == [f EXCEPT !.cache[f.ret].buf[EntryOf(lpn)] = None,
                     !.blk[b].validD = @ - 1, !.validD = @ - 1]
  IN  IF f.st # "ok" THEN f
      ELSE IF old = None THEN f
      ELSE IF f.blk[b].validD = 0 THEN Panic(f)
      ELSE IF g.blk[b].validD = 0 /\ g.blk[b].status = "ALLOCATED"
      THEN gcFreeBlock(g, None) ELSE g

invalidatePages(f, lpn) ==
  dropEntry(refreshTOCCaches([f EXCEPT !.field78 = FALSE], lpn), lpn)

(* the page is in the open user block.  With the last entry of a table     *)
(* comes the cache of the next one.                                        *)
Written(f, lpn) ==
  LET p == PageOf(f.user.block, f.user.used)
      entered(g) == IF g.st # "ok" THEN g
                    ELSE [g EXCEPT !.cache[g.ret].buf[EntryOf(lpn)] = p]
      next(g) == IF EntryOf(lpn) = EntriesPerToc - 1
                   THEN refreshTOCCaches(g, lpn + 1) ELSE g
      counted(g) == IF g.st # "ok" THEN g
                    ELSE [g EXCEPT !.user.used = @ + 1,
                                   !.blk[f.user.block].validD = @ + 1, !.validD = @ + 1]
  IN  counted(next(entered(refreshTOCCaches(
                             [f EXCEPT !.user.btoc[f.user.used] = lpn], lpn))))

(* after a failed write *)
collectOpenBlock(f) == IF f.blk[f.user.block].status # "FREE"
                         THEN gcFreeBlock(f, f.user.block) ELSE f

RECURSIVE tryWrite(_, _, _)
tryWrite(f, lpn, v) ==
  LET ready(g) == IF g.user.used < D THEN g
                  ELSE YAFTL_allocateNewBlock(YAFTL_closeLatestBlock(g, TRUE), TRUE)
      put(g) == IF g.st # "ok" THEN g
                ELSE Program(g, PageOf(g.user.block, g.user.used), User(lpn, v))
      tried(g) ==
        IF g.st # "ok" THEN g
        ELSE IF g.ok THEN Written(g, lpn)
        ELSE tryWrite(collectOpenBlock(
                        invalidatePages(YAFTL_allocateNewBlock(g, TRUE), lpn)), lpn, v)
  IN  IF f.st # "ok" THEN f ELSE tried(put(ready(gcPrepareToWrite(f, 1))))

YAFTL_Write(f, lpn, v) == tryWrite(invalidatePages(f, lpn), lpn, v)

(* flushQuick erases the freed blocks; then the context is written *)
YAFTL_Flush(f) ==
  LET freed(g) == {b \in Block : g.blk[b].status = "FREE" /\ g.blk[b].unkn5 # 0}
      write(g) == IF g.st # "ok" \/ g.field78 THEN g
                  ELSE [Erase(g, freed(g)) EXCEPT !.field78 = TRUE,
                          !.context = [t \in Toc |-> g.toc[t].indexPage]]
  IN  write(gcPrepareToFlush(f))

(* where logical page lpn is *)
Vpn(f, lpn) ==
  LET t == f.toc[TocOf(lpn)]
      i == f.nand[t.indexPage]
  IN  IF t.cacheNum # None THEN f.cache[t.cacheNum].buf[EntryOf(lpn)]
      ELSE IF t.indexPage = None THEN None
      ELSE IF i.type = "index" THEN i.buf[EntryOf(lpn)] ELSE None

(* what a read of lpn returns: its value, -1 for EIO, or None *)
Lookup(f, lpn) ==
  LET p == Vpn(f, lpn)
  IN  IF p = None THEN None
      ELSE IF f.nand[p].type = "lbn" /\ f.nand[p].lpn = lpn THEN f.nand[p].val
      ELSE -1

(* a read keeps the index page it needed in a cache, if one is free; and   *)
(* the blocks that were read too often are collected (worn: one, or none)  *)
YAFTL_Read(f, lpn, worn) ==
  LET t == TocOf(lpn)
      c == YAFTL_findFreeTOCCache(f)
      g == IF f.toc[t].cacheNum # None \/ f.toc[t].indexPage = None \/ c = None
             THEN f ELSE LoadToc(f, c, t, "CLEAN")
      status == IF worn = None THEN "" ELSE g.blk[worn].status
  IN  IF g.st # "ok" THEN g
      ELSE IF status \in {"I_GC", "I_ALLOCATED"} THEN gcFreeIndexPages(g, worn)
      ELSE IF status \in {"GC", "ALLOCATED"} THEN gcFreeBlock(g, worn)
      ELSE g

-----------------------------------------------------------------------------
(* The calls.  What a call leaves in the scratch fields is cleared; a page *)
(* programmed twice and pages written over each other end the model.       *)
Done(f) ==
  [f EXCEPT !.st = IF @ = "ok" /\ f.dup THEN "duplicated" ELSE @,
            !.gc = IF @.state = 0 THEN Idle ELSE @,
            !.ok = TRUE, !.ret = None, !.fail = 0, !.dup = FALSE,
            !.zone = <<>>, !.spare = <<>>, !.inval = 0]

(* one call; fail: the write to the NAND that fails in it, 0 for none *)
Call(F(_)) ==
  /\ sInfo.st = "ok" /\ calls < MaxCalls
  /\ calls' = calls + 1
  /\ \E fail \in IF faults = 0 THEN {0} ELSE 0..MaxFail :
       /\ sInfo' = Done(F([sInfo EXCEPT !.fail = fail]))
       /\ faults' = IF fail = 0 THEN faults ELSE faults - 1

Write(lpn) ==
  LET v == IF data[lpn] = None THEN 0 ELSE (data[lpn] + 1) % Values
  IN  /\ Call(LAMBDA f : YAFTL_Write(f, lpn, v))
      /\ data' = IF sInfo'.st = "ok" THEN [data EXCEPT ![lpn] = v] ELSE data

Read(lpn) ==
  /\ \E worn \in Block \cup {None} : Call(LAMBDA f : YAFTL_Read(f, lpn, worn))
  /\ UNCHANGED data

Flush == Call(YAFTL_Flush) /\ UNCHANGED data

(* a clean context of a store without data, block 0 and 1 open *)
InitBlock(b) ==
  [status |-> CASE b = 0 -> "GC" [] b = 1 -> "I_GC" [] OTHER -> "FREE",
   validD |-> 0, validI |-> 0, unkn5 |-> 0]

Init ==
  /\ calls = 0 /\ faults = MaxFaults
  /\ data = [lpn \in Lpn |-> None]
  /\ sInfo \in
       [st : {"ok"}, field78 : {TRUE}, context : {[t \in Toc |-> None]},
        nand : {[p \in Page |-> Empty]},
        blk : {[b \in Block |-> InitBlock(b)]},
        toc : {[t \in Toc |-> [indexPage |-> None, cacheNum |-> None]]},
        cache : {[c \in Cache |-> FreeCache]},
        user  : {[block |-> 0, used |-> 0, btoc |-> NoToc]},
        index : {[block |-> 1, used |-> 0, btoc |-> NoToc]},
        gc : {Idle}, dataList : {<<>>}, indexList : {<<>>},
        numFree : {NumBlocks - 2}, numAllocated : {1}, numIAllocated : {1},
        numIAvailable : {NumIBlocks - 1},
        numAvailable  : {NumBlocks - 2 - (NumIBlocks - 1)},
        validD : {0}, validI : {0},
        low : BOOLEAN,
        ok : {TRUE}, ret : {None}, fail : {0}, dup : {FALSE},
        zone : {<<>>}, spare : {<<>>}, inval : {0}]

Next == \/ \E lpn \in Lpn : Write(lpn)
        \/ \E lpn \in Lpn : Read(lpn)
        \/ Flush

Spec == Init /\ [][Next]_vars

-----------------------------------------------------------------------------
(* What the state of the YAFTL has to be between two calls. *)
Ok == sInfo.st = "ok"

BlockRec == [status : {"FREE", "ALLOCATED", "CURRENT", "GC",
                       "I_ALLOCATED", "I_CURRENT", "I_GC"},
             validD : 0..D, validI : 0..D, unkn5 : {0, 2, 4}]

(* Types and ranges of what lasts from one call to the next. *)
TypeOK ==
  /\ sInfo.st \in {"ok", "panic", "hung", "overwritten", "duplicated"}
  /\ Ok => /\ \A b \in Block : sInfo.blk[b] \in BlockRec
           /\ \A t \in Toc : sInfo.toc[t].indexPage \in Page \cup {None}
           /\ \A c \in Cache : sInfo.cache[c].page \in Toc \cup {None}
           /\ {sInfo.user.used, sInfo.index.used} \subseteq 0..D
           /\ sInfo.gc.state \in 0..4
  /\ data \in [Lpn -> 0..Values - 1 \cup {None}]
  /\ calls \in 0..MaxCalls /\ faults \in 0..MaxFaults

(* A read returns what was last written to the page: through overwriting,  *)
(* index pages written out and read back, collected blocks, failed writes. *)
ReadsLastWritten == Ok => \A l \in Lpn : Lookup(sInfo, l) = data[l]

UserPages(b)  == {l \in Lpn : Vpn(sInfo, l) # None /\ BlockOf(Vpn(sInfo, l)) = b}
IndexPages(b) == {t \in Toc : /\ sInfo.toc[t].indexPage # None
                              /\ BlockOf(sInfo.toc[t].indexPage) = b}
Count(S) == Cardinality({b \in Block : sInfo.blk[b].status \in S})

(* The counters the collector steers by are the sizes of what they count:  *)
(* valid pages of each block and in all, free and used blocks by kind.     *)
CountersExact ==
  Ok => /\ \A b \in Block : /\ sInfo.blk[b].validD = Cardinality(UserPages(b))
                             /\ sInfo.blk[b].validI = Cardinality(IndexPages(b))
        /\ sInfo.validD = Cardinality({l \in Lpn : data[l] # None})
        /\ sInfo.validI = Cardinality({t \in Toc : sInfo.toc[t].indexPage # None})
        /\ sInfo.numFree = Count({"FREE"})
        /\ sInfo.numAllocated = Count({"ALLOCATED", "CURRENT", "GC"})
        /\ sInfo.numIAllocated = Count({"I_ALLOCATED", "I_CURRENT", "I_GC"})
        /\ sInfo.numIAvailable = NumIBlocks - sInfo.numIAllocated
        /\ sInfo.numAvailable + sInfo.numIAvailable = sInfo.numFree

(* what the collector finds when it looks for the pages of block b *)
Listed(b, max) ==
  IF b = sInfo.user.block THEN sInfo.user.btoc
  ELSE IF b = sInfo.index.block THEN sInfo.index.btoc
  ELSE gcPopulateBTOC(sInfo, b, max)

(* The collector frees a block when the table of the block names no page   *)
(* that is still in use: so every page in use is named by that table.      *)
TablesNameLivePages ==
  Ok => /\ \A l \in Lpn : LET p == Vpn(sInfo, l) IN
             p # None => Listed(BlockOf(p), NumLpns)[p % PagesPerSublk] = l
        /\ \A t \in Toc : LET p == sInfo.toc[t].indexPage IN
             p # None => Listed(BlockOf(p), Cardinality(Toc))[p % PagesPerSublk] = t

(* The caches and the index agree: a cache and its index page name each    *)
(* other, a clean cache is what the NAND holds, a dirty one is the only    *)
(* copy: its index page is not valid any more and may be erased.           *)
CachesCoherent ==
  Ok => /\ \A t \in Toc : LET c == sInfo.toc[t].cacheNum IN
             c # None => sInfo.cache[c].page = t /\ sInfo.cache[c].state # "FREE"
        /\ \A c \in Cache : LET k == sInfo.cache[c] IN
             k.state # "FREE" =>
               /\ sInfo.toc[k.page].cacheNum = c
               /\ LET p == sInfo.toc[k.page].indexPage IN
                    IF k.state = "DIRTY" THEN p = None
                    ELSE p # None /\ sInfo.nand[p] = Index(k.page, k.buf)

(* As long as the context on the NAND is not marked stale, the data can be *)
(* found with it alone: no page it leads to was erased or has moved.       *)
CleanContextFindsData ==
  Ok /\ sInfo.field78 =>
    \A l \in Lpn : LET p == sInfo.context[TocOf(l)]
                        e == sInfo.nand[p].buf[EntryOf(l)] IN
      IF data[l] = None THEN p = None \/ e = None
      ELSE /\ p # None /\ sInfo.nand[p].type = "index"
           /\ sInfo.nand[e] = User(l, data[l])

(* Not so in the code: a block that the collector claims "as a free block" *)
(* (yaftl_gc.c:1077) holds no index page that is still in use.             *)
FreeBlocksUnused ==
  Ok => \A t \in Toc : LET p == sInfo.toc[t].indexPage IN
    p # None => sInfo.blk[BlockOf(p)].status # "FREE"

(* Not so in the code: "Collect garbage for each block which should be     *)
(* freed" (yaftl.c:2193) comes to an end.                                  *)
CollectionEnds == sInfo.st # "hung"

=============================================================================
