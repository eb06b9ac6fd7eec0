---------------------------- MODULE FtlLogProofs ----------------------------
(***************************************************************************)
(* Theorems about the pool of blocks of the FTL of the S5L8900, for any    *)
(* size of the device, any requests and any faults but a failing erase.    *)
(* Function by function: every block has a use or is in hand (Held), and   *)
(* at the end of a call none is in hand (Sound).                           *)
(***************************************************************************)
EXTENDS FtlLog, FiniteSetTheorems, WellFoundedInduction, TLAPS

USE DEF P

LEMMA Constants ==
  /\ P \in Nat \ {0} /\ P >= 3 /\ NumLbns \in Nat \ {0} /\ NumLogs \in Nat \ {0}
  /\ Pool \in Nat /\ Pool = NumLogs + 3 /\ CxtPages \in Nat \ {0}
  /\ NumBlocks \in Nat /\ NumBlocks = NumLbns + NumLogs + 6
  /\ Top \in Nat \ {0} /\ None \notin Int
BY FtlLogAssumption DEF Pool, NumBlocks

(* A number below twice the length of a ring, modulo that length.          *)
LEMMA RingMod ==
  ASSUME NEW n \in Nat \ {0}, NEW a \in Nat, a < 2 * n
  PROVE  a % n = IF a < n THEN a ELSE a - n
OBVIOUS

LEMMA DivInRange ==
  ASSUME NEW a \in Nat, NEW n \in Nat \ {0}, NEW m \in Nat \ {0}, a < m * n
  PROVE  a \div n \in 0..m - 1 /\ a % n \in 0..n - 1
OBVIOUS

LEMMA WrapRange == ASSUME NEW u \in Int, u >= 0 - 1 PROVE Wrap(u) \in 0..Top
BY Constants DEF Wrap

-----------------------------------------------------------------------------
(* The states that the functions of the FTL go through, and what a context *)
(* in the NAND can hold.                                                   *)
Usn    == 0..Top
BlockN == Block \cup {None}
LogRow == {l \in LogRec : l.current <= l.used}
Rows   == [LogSlot -> LogRow]
Free   == [0..Pool - 1 -> BlockN]

RingOf(a, c) == {(a + i) % Pool : i \in 0..c - 1}
Ring(f) == RingOf(f.nextFree, f.numFree)
Used(f) == {k \in Log : f.log[k].vbn # None}

(* Every block is mapped, a log, free, a control block or one of H, the    *)
(* blocks in hand; n is how many the pool is short of, which are in hand.  *)
Held(f, H, n) ==
  /\ f.map \in [Lbn -> Block]
  /\ \A b \in Block : \/ \E l \in Lbn : f.map[l] = b
                      \/ \E k \in Log : f.log[k].vbn = b
                      \/ \E i \in Ring(f) : f.free[i] = b
                      \/ \E i \in 0..2 : f.ctrl[i] = b
                      \/ b \in H
  /\ \A i \in Ring(f) : f.free[i] \in Block
  /\ \A k \in Log : f.log[k].vbn # None => f.log[k].lbn \in Lbn
  /\ f.numFree + Cardinality(Used(f)) + n = Pool

Table == [map : [Lbn -> BlockN], log : Rows, free : Free, nextFree : 0..Pool - 1,
          numFree : Nat, usn : Usn, usnDec : Usn, ctrl : [0..2 -> Block], ctrlPage : Nat,
          ctrlChanges : Nat, swaps : Int]
Whole == {c \in Table : Held(c, {}, 0)}

Val  == Int \cup {None}
Page == {Empty, Bad} \cup [k : {"user"}, lpn : Nat, usn : Usn, val : Val]
        \cup [k : {"meta"}, dec : Usn] \cup [k : {"cxt"}, dec : Usn, cxt : Whole]
        \cup [k : {"mark"}, dec : Usn]
Pages == [Offset -> Page]

State ==
  [st : {"ok", "off", "closed", "overwritten", "zeroed"}, nand : [Block -> Pages],
   vflCtrl : [0..2 -> Block], map : [Lbn -> BlockN], log : Rows, free : Free,
   nextFree : 0..Pool - 1, numFree : Nat, usn : Usn, usnDec : Usn,
   ctrl : [0..2 -> Block], ctrlPage : Nat, clean : BOOLEAN, cleanFreeVb : BOOLEAN,
   junk : Usn \cup {None}, ctrlChanges : Nat, swaps : Int, low : BOOLEAN, even : BOOLEAN,
   torn : BOOLEAN, power : Nat, fail : Nat, ok : BOOLEAN, ret : Block]

(* What an operation of the NAND leaves alone.                             *)
Quiet(f, g) ==
  /\ g \in State
  /\ g.st = "ok" => f.st = "ok"
  /\ g.ok => g.st = "ok"
  /\ g.map = f.map /\ g.log = f.log /\ g.free = f.free /\ g.nextFree = f.nextFree
  /\ g.numFree = f.numFree /\ g.ctrl = f.ctrl /\ g.ret = f.ret

LEMMA FailQuiet == ASSUME NEW f \in State PROVE Quiet(f, Fail(f))
BY DEF Fail, Quiet, State

LEMMA NandQuiet ==
  ASSUME NEW f \in State, NEW b, NEW new, NEW half, NEW mayFail \in BOOLEAN,
         b \in Block => new \in Pages /\ half \in Pages
  PROVE  /\ Quiet(f, Nand(f, b, new, half, mayFail))
         /\ ~mayFail /\ Nand(f, b, new, half, mayFail).st = "ok"
              => Nand(f, b, new, half, mayFail).ok
<1> DEFINE later == [f EXCEPT !.power = IF @ = 0 THEN 0 ELSE @ - 1,
                              !.fail  = IF @ = 0 THEN 0 ELSE @ - 1]
           off   == [f EXCEPT !.nand[b] = half, !.st = "off", !.ok = FALSE]
           done  == [later EXCEPT !.nand[b] = new, !.ok = TRUE]
<1>1. Quiet(f, off) /\ off.st # "ok"
  BY DEF Quiet, State
<1>2. later \in State
  <2>1. /\ (IF f.power = 0 THEN 0 ELSE f.power - 1) \in Nat
        /\ (IF f.fail = 0 THEN 0 ELSE f.fail - 1) \in Nat
    BY DEF State
  <2> QED BY <2>1 DEF State
<1>3. /\ later.st = f.st /\ later.nand = f.nand /\ later.map = f.map /\ later.log = f.log
      /\ later.free = f.free /\ later.nextFree = f.nextFree /\ later.numFree = f.numFree
      /\ later.ctrl = f.ctrl /\ later.ret = f.ret
  BY DEF State
<1> HIDE DEF later
<1>10. Quiet(f, Fail(later)) /\ ~Fail(later).ok
  BY <1>2, <1>3, FailQuiet DEF Quiet, Fail, State
<1>11. f.st = "ok" => Quiet(f, done) /\ done.ok
  BY <1>2, <1>3 DEF Quiet, State
<1>4. Quiet(f, Fail(f)) /\ ~Fail(f).ok
  BY FailQuiet DEF Fail, State
<1>5. Fail(f).st = f.st
  BY DEF Fail, State
<1> HIDE DEF off, done
<1>6. CASE f.st # "ok"
  BY <1>6, <1>4, <1>5 DEF Nand
<1>7. CASE f.st = "ok" /\ f.power = 1
  BY <1>7, <1>1 DEF Nand, off
<1>8. CASE f.st = "ok" /\ f.power # 1 /\ f.fail = 1 /\ mayFail
  BY <1>8, <1>10 DEF Nand, later
<1>9. CASE f.st = "ok" /\ f.power # 1 /\ ~(f.fail = 1 /\ mayFail)
  BY <1>9, <1>11 DEF Nand, done, later
<1> QED BY <1>6, <1>7, <1>8, <1>9


LEMMA QuietHeld ==
  ASSUME NEW f, NEW g, Quiet(f, g), NEW H, NEW n, Held(f, H, n)
  PROVE  Held(g, H, n)
BY DEF Quiet, Held, Ring, Used

LEMMA QuietTrans ==
  ASSUME NEW f, NEW g, NEW h, Quiet(f, g), Quiet(g, h)
  PROVE  Quiet(f, h)
BY DEF Quiet

LEMMA PageTypes ==
  /\ Empty \in Page /\ Bad \in Page /\ Erased \in Pages
  /\ \A lpn \in Nat, usn \in Usn, v \in Val : User(lpn, usn, v) \in Page
  /\ \A dec \in Usn : Meta(dec) \in Page /\ Mark(dec) \in Page
  /\ \A dec \in Usn, c \in Whole : Cxt(dec, c) \in Page
<1>1. Empty \in Page /\ Bad \in Page
  BY DEF Page
<1>2. Erased \in Pages
  BY <1>1 DEF Erased, Pages
<1>3. \A lpn \in Nat, usn \in Usn, v \in Val : User(lpn, usn, v) \in Page
  BY DEF Page, User
<1>4. \A dec \in Usn : Meta(dec) \in Page /\ Mark(dec) \in Page
  BY DEF Page, Meta, Mark
<1>5. \A dec \in Usn, c \in Whole : Cxt(dec, c) \in Page
  BY DEF Page, Cxt
<1> QED BY <1>1, <1>2, <1>3, <1>4, <1>5

LEMMA WriteQuiet ==
  ASSUME NEW f \in State, NEW b, NEW i, NEW page \in Page
  PROVE  Quiet(f, VFL_Write(f, b, i, page))
<1> DEFINE half == [f.nand[b] EXCEPT ![i] = IF f.torn THEN Bad ELSE @]
           new  == [f.nand[b] EXCEPT ![i] = page]
           over == [f EXCEPT !.st = "overwritten"]
<1>1. b \in Block => half \in Pages /\ new \in Pages
  <2>1. SUFFICES ASSUME b \in Block PROVE half \in Pages /\ new \in Pages
    OBVIOUS
  <2>2. f.nand[b] \in [Offset -> Page]
    BY <2>1 DEF State, Pages
  <2>3. new \in [Offset -> Page]
    BY <2>2
  <2>4. i \in Offset => (IF f.torn THEN Bad ELSE f.nand[b][i]) \in Page
    BY <2>2, PageTypes
  <2>5. half \in [Offset -> Page]
    BY <2>2, <2>4
  <2> QED BY <2>3, <2>5 DEF Pages
<1>2. f.st = "ok" => Quiet(f, Fail(over))
  BY DEF Fail, State, Quiet
<1>3. Quiet(f, Nand(f, b, new, half, TRUE))
  BY <1>1, NandQuiet
<1> HIDE DEF half, new, over
<1> QED BY <1>2, <1>3 DEF VFL_Write, half, new, over

LEMMA EraseQuiet ==
  ASSUME NEW f \in State, NEW b
  PROVE  /\ Quiet(f, VFL_Erase(f, b))
         /\ ~EraseFails /\ VFL_Erase(f, b).st = "ok" => VFL_Erase(f, b).ok
<1> DEFINE half == IF f.torn THEN Erased ELSE f.nand[b]
<1>1. EraseFails \in BOOLEAN
  BY FtlLogAssumption
<1>2. b \in Block => f.nand[b] \in Pages
  BY DEF State
<1>3. b \in Block => Erased \in Pages /\ half \in Pages
  BY <1>2, PageTypes
<1> HIDE DEF half
<1> QED BY <1>1, <1>3, NandQuiet DEF VFL_Erase, half

LEMMA StoreQuiet ==
  ASSUME NEW f \in State
  PROVE  Quiet(f, vfl_store_FTLCtrlBlock(f))
<1> DEFINE g == Nand(f, 0, f.nand[0], f.nand[0], FALSE)
<1>1. 0 \in Block
  BY Constants DEF Block
<1>2. f.nand[0] \in Pages
  BY <1>1 DEF State
<1>3. Quiet(f, g)
  BY <1>2, NandQuiet
<1> HIDE DEF g
<1>4. Quiet(f, [g EXCEPT !.vflCtrl = f.ctrl])
  BY <1>3 DEF Quiet, State
<1> QED BY <1>3, <1>4 DEF vfl_store_FTLCtrlBlock, g

-----------------------------------------------------------------------------
(* The ring of free blocks.                                                *)
LEMMA RingAt ==
  ASSUME NEW a \in 0..Pool - 1, NEW i \in 0..Pool
  PROVE  (a + i) % Pool = IF a + i < Pool THEN a + i ELSE a + i - Pool
<1>1. \A n \in Nat \ {0} : \A x \in 0..n - 1, y \in 0..n :
        (x + y) % n = IF x + y < n THEN x + y ELSE x + y - n
  OBVIOUS
<1>2. Pool \in Nat \ {0}
  BY Constants
<1> QED BY <1>1, <1>2

LEMMA RingIn ==
  ASSUME NEW a \in 0..Pool - 1, NEW c \in Nat
  PROVE  RingOf(a, c) \subseteq 0..Pool - 1
<1>1. \A n \in Nat \ {0} : \A x \in Nat : x % n \in 0..n - 1
  OBVIOUS
<1>2. Pool \in Nat \ {0}
  BY Constants
<1>3. \A i \in 0..c - 1 : (a + i) \in Nat
  BY <1>2
<1>4. \A i \in 0..c - 1 : (a + i) % Pool \in 0..Pool - 1
  BY <1>1, <1>2, <1>3
<1> QED BY <1>4 DEF RingOf

LEMMA RingGrow ==
  ASSUME NEW a \in 0..Pool - 1, NEW c \in Nat, c < Pool
  PROVE  /\ RingOf(a, c + 1) = RingOf(a, c) \cup {(a + c) % Pool}
         /\ (a + c) % Pool \notin RingOf(a, c)
         /\ (a + c) % Pool \in 0..Pool - 1
<1>1. Pool \in Nat \ {0}
  BY Constants
<1>2. \A i \in 0..c : (a + i) % Pool = IF a + i < Pool THEN a + i ELSE a + i - Pool
  <2>1. \A i \in 0..c : i \in 0..Pool
    BY <1>1
  <2> QED BY <2>1, RingAt
<1>3. c \in 0..c /\ \A i \in 0..c - 1 : i \in 0..c
  OBVIOUS
<1>4. \A i \in 0..c - 1 : (a + i) % Pool # (a + c) % Pool
  BY <1>1, <1>2, <1>3
<1>5. (a + c) % Pool \in 0..Pool - 1
  BY <1>1, <1>2, <1>3
<1>6. 0..(c + 1) - 1 = (0..c - 1) \cup {c}
  OBVIOUS
<1>7. RingOf(a, c + 1) = RingOf(a, c) \cup {(a + c) % Pool}
  BY <1>6 DEF RingOf
<1>8. (a + c) % Pool \notin RingOf(a, c)
  BY <1>4 DEF RingOf
<1> QED BY <1>5, <1>7, <1>8

LEMMA RingShrink ==
  ASSUME NEW a \in 0..Pool - 1, NEW c \in Nat, c <= Pool, c > 0
  PROVE  /\ RingOf((a + 1) % Pool, c - 1) = RingOf(a, c) \ {a}
         /\ a \in RingOf(a, c)
         /\ (a + 1) % Pool \in 0..Pool - 1
<1>1. Pool \in Nat \ {0}
  BY Constants
<1>2. \A i \in 0..c : (a + i) % Pool = IF a + i < Pool THEN a + i ELSE a + i - Pool
  <2>1. \A i \in 0..c : i \in 0..Pool
    BY <1>1
  <2> QED BY <2>1, RingAt
<1> DEFINE a1 == IF a + 1 < Pool THEN a + 1 ELSE 0
<1>3. (a + 1) % Pool = a1 /\ a1 \in 0..Pool - 1
  BY <1>1, <1>2
<1>4. \A i \in 0..c - 1 : (a1 + i) % Pool = IF a1 + i < Pool THEN a1 + i ELSE a1 + i - Pool
  <2>1. \A i \in 0..c - 1 : i \in 0..Pool
    BY <1>1
  <2> QED BY <2>1, <1>3, RingAt
<1>5. \A i \in 0..c - 2 : i + 1 \in 0..c - 1 /\ (a1 + i) % Pool = (a + (i + 1)) % Pool
                          /\ (a1 + i) % Pool # a
  <2>1. SUFFICES ASSUME NEW i \in 0..c - 2
                 PROVE  i + 1 \in 0..c - 1 /\ (a1 + i) % Pool = (a + (i + 1)) % Pool
                        /\ (a1 + i) % Pool # a
    OBVIOUS
  <2>2. i + 1 \in 0..c /\ i \in 0..c - 1
    OBVIOUS
  <2>3. (a + (i + 1)) % Pool = IF a + (i + 1) < Pool THEN a + (i + 1) ELSE a + (i + 1) - Pool
    BY <2>2, <1>2
  <2>4. (a1 + i) % Pool = IF a1 + i < Pool THEN a1 + i ELSE a1 + i - Pool
    BY <2>2, <1>4
  <2> QED BY <1>1, <2>3, <2>4
<1>6. \A i \in 1..c - 1 : i - 1 \in 0..c - 2 /\ (a1 + (i - 1)) % Pool = (a + i) % Pool
  BY <1>1, <1>2, <1>4
<1>7. (a + 0) % Pool = a /\ 0 \in 0..c - 1
  BY <1>1, <1>2
<1> HIDE DEF a1
<1>8. RingOf(a1, c - 1) \subseteq RingOf(a, c) \ {a}
  BY <1>5 DEF RingOf
<1>9. RingOf(a, c) \ {a} \subseteq RingOf(a1, c - 1)
  <2>1. SUFFICES ASSUME NEW i \in 0..c - 1, (a + i) % Pool # a
                 PROVE  (a + i) % Pool \in RingOf(a1, c - 1)
    BY DEF RingOf
  <2>2. i \in 1..c - 1
    BY <2>1, <1>7
  <2>3. i - 1 \in 0..(c - 1) - 1 /\ (a1 + (i - 1)) % Pool = (a + i) % Pool
    BY <2>2, <1>6
  <2> QED BY <2>3 DEF RingOf
<1>10. a \in RingOf(a, c)
  BY <1>7 DEF RingOf
<1> QED BY <1>3, <1>8, <1>9, <1>10


LEMMA HeldCount ==
  ASSUME NEW f \in State, NEW H, NEW n \in Int, Held(f, H, n)
  PROVE  /\ IsFiniteSet(Used(f)) /\ Cardinality(Used(f)) \in 0..NumLogs
         /\ f.numFree = Pool - n - Cardinality(Used(f))
         /\ f.numFree >= 3 - n /\ f.numFree <= Pool - n
<1>1. IsFiniteSet(Log) /\ Cardinality(Log) = NumLogs
  BY Constants, FS_Interval DEF Log
<1>2. Used(f) \subseteq Log
  BY DEF Used
<1>3. IsFiniteSet(Used(f)) /\ Cardinality(Used(f)) <= NumLogs /\ Cardinality(Used(f)) \in Nat
  BY <1>1, <1>2, FS_Subset, FS_CardinalityType
<1> QED BY <1>3, Constants DEF Held, State

(* A block in hand that is given back is at the end of the ring.           *)
LEMMA SetFree ==
  ASSUME ~EraseFails, NEW f \in State, NEW b \in BlockN,
         NEW g, g = ftl_set_free_vb(f, b)
  PROVE  /\ g \in State /\ (g.st = "ok" => f.st = "ok" /\ g.ok) /\ (g.ok => g.st = "ok")
         /\ g.map = f.map /\ g.log = f.log /\ g.ctrl = f.ctrl /\ g.ret = f.ret
         /\ g.numFree = f.numFree + 1
         /\ \A H : \A n \in Int :
              Held(f, H, n) /\ f.numFree < Pool /\ b \in Block /\ g.st = "ok"
                => Held(g, H \ {b}, n - 1)
         /\ f.numFree < Pool /\ g.st = "ok" => \E j \in Ring(g) : g.free[j] = b
<1> DEFINE i == (f.nextFree + f.numFree) % Pool
           e == [f EXCEPT !.numFree = @ + 1]
           h == VFL_Erase(e, b)
<1>1. e \in State
  BY DEF State
<1>2. Quiet(e, h) /\ (h.st = "ok" => h.ok)
  BY <1>1, EraseQuiet
<1>3. /\ e.st = f.st /\ e.map = f.map /\ e.log = f.log /\ e.ctrl = f.ctrl /\ e.ret = f.ret
      /\ e.numFree = f.numFree + 1 /\ e.free = f.free
      /\ e.nextFree = f.nextFree
  BY DEF State
<1> HIDE DEF e, h, i
<1>4. g = IF h.ok THEN [h EXCEPT !.free[i] = b] ELSE h
  BY DEF ftl_set_free_vb, e, h, i
<1>5. h \in State
  BY <1>2 DEF Quiet
<1>6. g \in State
  <2>1. [h.free EXCEPT ![i] = b] \in Free
    BY <1>5 DEF State, Free
  <2> QED BY <2>1, <1>4, <1>5 DEF State
<1>7. /\ g.st = h.st /\ g.ok = h.ok /\ g.map = h.map /\ g.log = h.log /\ g.ctrl = h.ctrl
      /\ g.ret = h.ret /\ g.numFree = h.numFree /\ g.nextFree = h.nextFree
      /\ (h.ok => g.free = [h.free EXCEPT ![i] = b])
  BY <1>4, <1>5 DEF State
<1>9. ASSUME f.numFree < Pool, g.st = "ok"
      PROVE  \E j \in Ring(g) : g.free[j] = b
  <2>1. f.nextFree \in 0..Pool - 1 /\ f.numFree \in Nat
    BY DEF State
  <2>2. i \in 0..Pool - 1 /\ Ring(g) = Ring(f) \cup {i}
    BY <2>1, <1>2, <1>3, <1>7, <1>9, RingGrow DEF i, Ring, Quiet
  <2>3. g.free = [f.free EXCEPT ![i] = b] /\ f.free \in [0..Pool - 1 -> BlockN]
    BY <1>2, <1>3, <1>7, <1>9 DEF Quiet, State, Free
  <2> QED BY <2>2, <2>3
<1>8. ASSUME NEW H, NEW n \in Int, Held(f, H, n), f.numFree < Pool, b \in Block, g.st = "ok"
      PROVE  Held(g, H \ {b}, n - 1)
  <2>1. f.nextFree \in 0..Pool - 1 /\ f.numFree \in Nat
    BY DEF State
  <2>2. i \notin Ring(f) /\ i \in 0..Pool - 1
        /\ Ring(g) = Ring(f) \cup {i}
    BY <2>1, <1>2, <1>3, <1>7, <1>8, RingGrow DEF i, Ring, Quiet
  <2>3. g.free = [f.free EXCEPT ![i] = b] /\ f.free \in [0..Pool - 1 -> BlockN]
    BY <1>2, <1>3, <1>7, <1>8 DEF Quiet, State, Free
  <2>4. g.free[i] = b /\ \A j \in Ring(f) : g.free[j] = f.free[j]
    <3>1. Ring(f) \subseteq 0..Pool - 1
      BY <2>1, RingIn DEF Ring
    <3> QED BY <2>2, <2>3, <3>1
  <2>5. Used(g) = Used(f) /\ g.map = f.map /\ g.log = f.log /\ g.ctrl = f.ctrl
        /\ g.numFree = f.numFree + 1
    BY <1>2, <1>3, <1>7 DEF Used, Quiet
  <2>6. f.numFree + 1 + Cardinality(Used(f)) + (n - 1) = Pool
    <3>1. Cardinality(Used(f)) \in 0..NumLogs /\ NumLogs \in Nat
      BY <1>8, HeldCount, Constants
    <3>2. f.numFree + Cardinality(Used(f)) + n = Pool
      BY <1>8 DEF Held
    <3> QED BY <3>1, <3>2, <2>1
  <2>7. \A i_1 \in Ring(g) : g.free[i_1] \in Block
    BY <1>8, <2>2, <2>4 DEF Held
  <2>8. ASSUME NEW x \in Block
        PROVE  \/ \E l \in Lbn : g.map[l] = x
               \/ \E k \in Log : g.log[k].vbn = x
               \/ \E j \in Ring(g) : g.free[j] = x
               \/ \E j \in 0..2 : g.ctrl[j] = x
               \/ x \in H \ {b}
    BY <1>8, <2>2, <2>4, <2>5 DEF Held
  <2> QED BY <1>8, <2>5, <2>6, <2>7, <2>8 DEF Held
<1> QED BY <1>2, <1>3, <1>6, <1>7, <1>8, <1>9 DEF Quiet


-----------------------------------------------------------------------------
(* Least and greatest numbers of a set.                                    *)
LEMMA LeastMember ==
  ASSUME NEW S, S \subseteq Nat, S # {}
  PROVE  \E x \in S : \A y \in S : x <= y
<1>1. PICK x \in S : \A y \in S : ~(<<y, x>> \in OpToRel(<, Nat))
  BY NatLessThanWellFounded, WFMin
<1>2. OpToRel(<, Nat) = {r \in Nat \X Nat : r[1] < r[2]}
  BY DEF OpToRel
<1>3. \A y \in S : x <= y
  <2>1. SUFFICES ASSUME NEW y \in S PROVE x <= y
    OBVIOUS
  <2>2. x \in Nat /\ y \in Nat /\ ~(<<y, x>> \in {r \in Nat \X Nat : r[1] < r[2]})
    BY <1>1, <1>2
  <2> QED BY <2>2
<1> QED BY <1>3

LEMMA MinMember ==
  ASSUME NEW S, S \subseteq Nat, S # {}
  PROVE  Min(S) \in S /\ \A y \in S : Min(S) <= y
BY LeastMember DEF Min

LEMMA MaxMember ==
  ASSUME NEW m \in Nat, NEW S, S \subseteq 0..m, S # {}
  PROVE  Max(S) \in S
<1> DEFINE U == {u \in Nat : \A y \in S : y <= u}
<1>1. m \in U
  OBVIOUS
<1>2. PICK u \in U : \A v \in U : u <= v
  <2>1. U \subseteq Nat /\ U # {}
    BY <1>1
  <2> HIDE DEF U
  <2> QED BY <2>1, LeastMember
<1>3. u \in S
  <2>1. SUFFICES ASSUME u \notin S PROVE FALSE
    OBVIOUS
  <2>2. \A y \in S : y <= u /\ y # u /\ y \in Nat
    BY <1>2, <2>1
  <2>3. u \in Nat /\ u >= 1 /\ u - 1 \in Nat
    <3>1. PICK y \in S : TRUE
      OBVIOUS
    <3>2. y \in Nat /\ y <= u /\ y # u /\ u \in Nat
      BY <1>2, <2>2
    <3> QED BY <3>2
  <2>4. u - 1 \in U
    BY <2>2, <2>3
  <2> QED BY <1>2, <2>3, <2>4
<1> QED BY <1>2, <1>3 DEF Max

LEMMA ChoiceMember ==
  ASSUME NEW f, NEW m \in Nat, NEW S, S \subseteq 0..m, S # {}
  PROVE  Choice(f, S) \in S
<1>1. S \subseteq Nat
  OBVIOUS
<1> QED BY <1>1, MinMember, MaxMember DEF Choice

(* A loop whose body leads from T[i] to T[i + 1] has a run, and its result *)
(* is in T[n].                                                             *)
Runs(r, n, x, phi) == r = [i \in 0..n |-> IF i = 0 THEN x ELSE phi[i - 1][r[i - 1]]]
Within(n, T, phi) == \A i \in 0..n - 1 : \A s \in T[i] : phi[i][s] \in T[i + 1]

LEMMA LoopStays ==
  ASSUME NEW n \in Nat, NEW T, NEW r, r[0] \in T[0],
         \A i \in 0..n - 1 : r[i] \in T[i] => r[i + 1] \in T[i + 1]
  PROVE  \A i \in 0..n : r[i] \in T[i]
<1> DEFINE S == {i \in 0..n : r[i] \notin T[i]}
<1>1. SUFFICES ASSUME S # {} PROVE FALSE
  OBVIOUS
<1>2. PICK m \in S : \A y \in S : m <= y
  <2>1. S \subseteq Nat
    OBVIOUS
  <2> HIDE DEF S
  <2> QED BY <1>1, <2>1, LeastMember
<1>3. m \in 0..n /\ r[m] \notin T[m] /\ m # 0
  OBVIOUS
<1>4. m - 1 \in 0..n - 1 /\ m - 1 \in 0..n /\ ~(m <= m - 1) /\ (m - 1) + 1 = m
  BY <1>3
<1>5. r[m - 1] \in T[m - 1]
  BY <1>2, <1>4
<1> QED BY <1>3, <1>4, <1>5

LEMMA LoopRuns ==
  ASSUME NEW n \in Nat, NEW T, NEW phi, NEW x \in T[0], Within(n, T, phi)
  PROVE  \E r : Runs(r, n, x, phi) /\ \A i \in 0..n : r[i] \in T[i]
<1> DEFINE S == {m \in 0..n : ~\E r : Runs(r, m, x, phi)}
<1>1. S = {}
  <2>1. SUFFICES ASSUME S # {} PROVE FALSE
    OBVIOUS
  <2>2. PICK m \in S : \A y \in S : m <= y
    <3>1. S \subseteq Nat
      OBVIOUS
    <3> HIDE DEF S
    <3> QED BY <2>1, <3>1, LeastMember
  <2>3. m \in 0..n /\ ~\E r : Runs(r, m, x, phi)
    OBVIOUS
  <2>4. m # 0
    <3>1. Runs([i \in 0..0 |-> x], 0, x, phi)
      BY DEF Runs
    <3> QED BY <2>3, <3>1
  <2>5. m - 1 \in 0..n /\ ~(m <= m - 1)
    BY <2>3, <2>4
  <2>6. PICK r : Runs(r, m - 1, x, phi)
    BY <2>2, <2>5
  <2> DEFINE q == [i \in 0..m |-> IF i = m THEN phi[m - 1][r[m - 1]] ELSE r[i]]
  <2>7. Runs(q, m, x, phi)
    <3>1. \A i \in 0..m - 1 : q[i] = r[i] /\ r[i] = IF i = 0 THEN x ELSE phi[i - 1][r[i - 1]]
      BY <2>3, <2>6 DEF Runs
    <3>2. q[m] = phi[m - 1][q[m - 1]]
      BY <2>3, <2>4, <3>1
    <3>3. \A i \in 0..m : q[i] = IF i = 0 THEN x ELSE phi[i - 1][q[i - 1]]
      <4>1. SUFFICES ASSUME NEW i \in 0..m
                     PROVE  q[i] = IF i = 0 THEN x ELSE phi[i - 1][q[i - 1]]
        OBVIOUS
      <4>2. CASE i = m
        BY <4>2, <3>2, <2>4
      <4>3. CASE i # m
        <5>1. i \in 0..m - 1 /\ (i # 0 => i - 1 \in 0..m - 1)
          BY <4>3, <2>3
        <5> HIDE DEF q
        <5> QED BY <5>1, <3>1
      <4> QED BY <4>2, <4>3
    <3>4. q = [i \in 0..m |-> q[i]]
      OBVIOUS
    <3> HIDE DEF q
    <3> QED BY <3>3, <3>4 DEF Runs
  <2> QED BY <2>3, <2>7
<1>2. n \in 0..n
  OBVIOUS
<1>3. PICK r : Runs(r, n, x, phi)
  BY <1>1, <1>2
<1>4. r[0] = x /\ \A i \in 0..n - 1 : r[i + 1] = phi[i][r[i]]
  BY <1>3 DEF Runs
<1>5. \A i \in 0..n : r[i] \in T[i]
  BY <1>4, LoopStays DEF Within
<1> QED BY <1>3, <1>5


-----------------------------------------------------------------------------
(* Taking a free block.                                                    *)
LEMMA GetFree ==
  ASSUME NEW f \in State, NEW g, g = ftl_get_free_vb(f)
  PROVE  /\ g \in State /\ g.st = f.st /\ (g.ok => g.st = "ok")
         /\ g.map = f.map /\ g.log = f.log /\ g.ctrl = f.ctrl
         /\ \A H : \A n \in Nat :
              Held(f, H, n) => Held(g, IF g.ok THEN H \cup {g.ret} ELSE H,
                                       IF g.ok THEN n + 1 ELSE n)
         /\ \A H : \A n \in Int :
              Held(f, H, n) /\ f.numFree <= Pool /\ g.ok
                => /\ Held(g, H \cup {g.ret}, n + 1)
                   /\ \A i \in Ring(f) :
                        f.free[i] # g.ret => \E j \in Ring(g) : g.free[j] = f.free[i]
         /\ \A H : \A n \in Int : Held(f, H, n) /\ f.numFree > 0 /\ f.st = "ok" => g.ok
<1> DEFINE a == f.nextFree
           c == (a + Choice(f, Window(f))) % Pool
           h == [f EXCEPT !.free[c] = f.free[a], !.free[a] = f.free[c],
                          !.numFree = @ - 1, !.nextFree = (a + 1) % Pool,
                          !.ret = f.free[c], !.ok = TRUE]
<1>1. a \in 0..Pool - 1 /\ f.numFree \in Nat /\ f.free \in [0..Pool - 1 -> BlockN]
      /\ Pool \in Nat
  BY Constants DEF State, Free
<1>2. g = IF f.st # "ok" \/ Window(f) = {} THEN Fail(f) ELSE h
  BY DEF ftl_get_free_vb
<1>3. Fail(f) \in State /\ Quiet(f, Fail(f)) /\ Fail(f).st = f.st /\ ~Fail(f).ok
  BY FailQuiet DEF Fail, State
<1>4. ASSUME f.st # "ok" \/ Window(f) = {}
      PROVE  /\ g \in State /\ g.st = f.st /\ ~g.ok
             /\ g.map = f.map /\ g.log = f.log /\ g.ctrl = f.ctrl
             /\ \A H, n : Held(f, H, n) => Held(g, H, n)
  BY <1>2, <1>3, <1>4, QuietHeld DEF Quiet
<1>5. ASSUME NEW H, NEW n, Held(f, H, n), f.numFree > 0
      PROVE  Window(f) # {}
  <2>1. 0 \in 0..f.numFree - 1 /\ (a + 0) % Pool \in Ring(f)
    BY <1>1, <1>5 DEF Ring, RingOf
  <2>2. f.free[(a + 0) % Pool] # None
    BY <2>1, <1>5, Constants DEF Held, Block
  <2> QED BY <2>1, <2>2 DEF Window
<1>6. ASSUME Window(f) # {}, f.st = "ok"
      PROVE  /\ g \in State /\ g.st = "ok" /\ g.ok /\ g.numFree = f.numFree - 1
             /\ g.nextFree = (a + 1) % Pool /\ c \in Ring(f) /\ g.ret = f.free[c]
             /\ g.free = [[f.free EXCEPT ![c] = f.free[a]] EXCEPT ![a] = f.free[c]]
             /\ g.map = f.map /\ g.log = f.log /\ g.ctrl = f.ctrl
             /\ f.numFree > 0
  <2>1. Choice(f, Window(f)) \in Window(f)
    <3>1. Window(f) \subseteq 0..f.numFree
      BY <1>1 DEF Window
    <3> QED BY <1>1, <1>6, <3>1, ChoiceMember
  <2>2. c \in Ring(f) /\ f.free[c] # None /\ f.numFree > 0
    <3> DEFINE j == Choice(f, Window(f))
    <3>1. j \in 0..f.numFree - 1 /\ f.free[(f.nextFree + j) % Pool] # None
      BY <2>1 DEF Window
    <3> HIDE DEF j
    <3>2. (f.nextFree + j) % Pool \in RingOf(f.nextFree, f.numFree)
      BY <3>1 DEF RingOf
    <3> QED BY <3>1, <3>2, <1>1 DEF Ring, j
  <2>3. c \in 0..Pool - 1 /\ (a + 1) % Pool \in 0..Pool - 1
    <3>1. c \in 0..Pool - 1
      BY <1>1, <2>2, RingIn DEF Ring
    <3>2. Pool \in Nat \ {0} /\ \A m \in Nat \ {0} : \A x \in Nat : (x + 1) % m \in 0..m - 1
      BY Constants
    <3> QED BY <1>1, <3>1, <3>2
  <2>4. f.free[c] \in Block /\ f.free[a] \in BlockN /\ f.free[c] \in BlockN
    BY <1>1, <2>2, <2>3 DEF BlockN
  <2>5. f.numFree - 1 \in Nat
    BY <1>1, <2>2
  <2>6. [[f.free EXCEPT ![c] = f.free[a]] EXCEPT ![a] = f.free[c]] \in Free
    BY <1>1, <2>4 DEF Free
  <2> HIDE DEF c
  <2>7. g = h
    BY <1>2, <1>6 DEF c
  <2>8. h \in State
    BY <2>3, <2>4, <2>5, <2>6 DEF State
  <2>9. /\ h.st = f.st /\ h.ok /\ h.numFree = f.numFree - 1 /\ h.nextFree = (a + 1) % Pool
        /\ h.ret = f.free[c] /\ h.map = f.map /\ h.log = f.log /\ h.ctrl = f.ctrl
        /\ h.free = [[f.free EXCEPT ![c] = f.free[a]] EXCEPT ![a] = f.free[c]]
    BY DEF State
  <2> QED BY <1>6, <2>2, <2>7, <2>8, <2>9
<1>7. ASSUME Window(f) # {}, f.st = "ok", NEW H, NEW n \in Int, Held(f, H, n),
             f.numFree <= Pool
      PROVE  /\ Held(g, H \cup {g.ret}, n + 1)
             /\ \A i \in Ring(f) :
                  f.free[i] # g.ret => \E j \in Ring(g) : g.free[j] = f.free[i]
  <2> HIDE DEF c
  <2>1. f.numFree > 0 /\ f.numFree <= Pool
    BY <1>6, <1>7, <1>1
  <2>2. Ring(g) = Ring(f) \ {a} /\ a \in Ring(f) /\ c \in Ring(f)
        /\ Ring(f) \subseteq 0..Pool - 1
    <3>1. g.nextFree = (a + 1) % Pool /\ g.numFree = f.numFree - 1 /\ c \in Ring(f)
      BY <1>6, <1>7
    <3>2. RingOf((a + 1) % Pool, f.numFree - 1) = RingOf(a, f.numFree) \ {a}
          /\ a \in RingOf(a, f.numFree)
      BY <1>1, <2>1, RingShrink
    <3>3. RingOf(a, f.numFree) \subseteq 0..Pool - 1
      BY <1>1, RingIn
    <3> QED BY <3>1, <3>2, <3>3 DEF Ring
  <2>3. g.free[a] = f.free[c] /\ (c # a => g.free[c] = f.free[a])
        /\ \A i \in Ring(f) \ {a, c} : g.free[i] = f.free[i]
    BY <1>1, <1>6, <1>7, <2>2
  <2>4. Used(g) = Used(f) /\ g.map = f.map /\ g.log = f.log /\ g.ctrl = f.ctrl
    BY <1>6, <1>7 DEF Used
  <2>5. g.numFree + Cardinality(Used(g)) + (n + 1) = Pool
    <3>1. Cardinality(Used(f)) \in 0..NumLogs /\ NumLogs \in Nat
      BY <1>7, HeldCount, Constants
    <3>2. f.numFree + Cardinality(Used(f)) + n = Pool
      BY <1>7 DEF Held
    <3>3. g.numFree = f.numFree - 1
      BY <1>6, <1>7
    <3>4. \A x, y, z, w \in Int : x + y + z = w => (x - 1) + y + (z + 1) = w
      OBVIOUS
    <3>5. f.numFree \in Int /\ Cardinality(Used(f)) \in Int /\ n \in Int /\ Pool \in Int
      BY <1>1, <1>7, <3>1
    <3>6. (f.numFree - 1) + Cardinality(Used(f)) + (n + 1) = Pool
      BY <3>2, <3>4, <3>5
    <3> QED BY <2>4, <3>3, <3>6
  <2>6. \A i \in Ring(g) : g.free[i] \in Block
    BY <1>7, <2>2, <2>3 DEF Held
  <2>7. ASSUME NEW i \in Ring(f), f.free[i] # g.ret
        PROVE  \E j \in Ring(g) : g.free[j] = f.free[i]
    <3>1. i # c
      BY <2>7, <1>6, <1>7
    <3>2. CASE i = a
      BY <3>1, <3>2, <2>2, <2>3
    <3>3. CASE i # a
      BY <3>1, <3>3, <2>2, <2>3
    <3> QED BY <3>2, <3>3
  <2>8. ASSUME NEW x \in Block
        PROVE  \/ \E l \in Lbn : g.map[l] = x
               \/ \E k \in Log : g.log[k].vbn = x
               \/ \E j \in Ring(g) : g.free[j] = x
               \/ \E j \in 0..2 : g.ctrl[j] = x
               \/ x \in H \cup {g.ret}
    BY <1>7, <2>4, <2>7 DEF Held
  <2>9. Held(g, H \cup {g.ret}, n + 1)
    BY <1>7, <2>4, <2>5, <2>6, <2>8 DEF Held
  <2> QED BY <2>7, <2>9
<1>10. ASSUME NEW H, NEW n \in Nat, Held(f, H, n)
       PROVE  f.numFree <= Pool /\ n \in Int
  BY <1>10, <1>1, HeldCount
<1> HIDE DEF c, h
<1>8. CASE f.st # "ok" \/ Window(f) = {}
  BY <1>4, <1>5, <1>8
<1>9. CASE f.st = "ok" /\ Window(f) # {}
  <2>1. /\ g \in State /\ g.st = "ok" /\ g.ok
        /\ g.map = f.map /\ g.log = f.log /\ g.ctrl = f.ctrl
    BY <1>6, <1>9
  <2>2. ASSUME NEW H, NEW n \in Nat, Held(f, H, n)
        PROVE  Held(g, H \cup {g.ret}, n + 1)
    BY <1>7, <1>9, <1>10, <2>2
  <2> QED BY <1>7, <1>9, <2>1, <2>2
<1> QED BY <1>8, <1>9


-----------------------------------------------------------------------------
(* What a change of the tables does to the blocks in hand.                 *)
SamePool(f, g) ==
  /\ g.map = f.map /\ g.free = f.free /\ g.nextFree = f.nextFree
  /\ g.numFree = f.numFree /\ g.ctrl = f.ctrl
  /\ \A k \in Log : g.log[k].vbn = f.log[k].vbn /\ g.log[k].lbn = f.log[k].lbn

SameButLog(f, g) ==
  /\ g.map = f.map /\ g.free = f.free /\ g.nextFree = f.nextFree
  /\ g.numFree = f.numFree /\ g.ctrl = f.ctrl

LEMMA HeldSame ==
  ASSUME NEW f, NEW g, SamePool(f, g), NEW H, NEW n, Held(f, H, n)
  PROVE  Held(g, H, n)
<1>1. Used(g) = Used(f) /\ Ring(g) = Ring(f)
  BY DEF SamePool, Used, Ring
<1> QED BY <1>1 DEF SamePool, Held

LEMMA HeldMore ==
  ASSUME NEW f, NEW H, NEW K, NEW n, Held(f, H, n), H \subseteq K
  PROVE  Held(f, K, n)
BY DEF Held

LEMMA HeldDropLog ==
  ASSUME NEW f \in State, NEW g, SameButLog(f, g), NEW H, NEW n \in Int, Held(f, H, n),
         NEW k \in Log, f.log[k].vbn # None, g.log[k].vbn = None,
         \A j \in Log \ {k} : g.log[j] = f.log[j]
  PROVE  Held(g, H \cup {f.log[k].vbn}, n + 1)
<1>1. Ring(g) = Ring(f) /\ Used(g) = Used(f) \ {k} /\ k \in Used(f)
  BY DEF SameButLog, Used, Ring
<1>2. IsFiniteSet(Used(f)) /\ Cardinality(Used(f)) \in 0..NumLogs
  BY HeldCount
<1>3. Cardinality(Used(g)) = Cardinality(Used(f)) - 1
  BY <1>1, <1>2, FS_RemoveElement
<1>4. g.numFree + Cardinality(Used(g)) + (n + 1) = Pool
  <2>1. f.numFree + Cardinality(Used(f)) + n = Pool /\ g.numFree = f.numFree
    BY DEF Held, SameButLog
  <2>2. f.numFree \in Nat /\ Cardinality(Used(f)) \in Int
    BY <1>2, Constants DEF State
  <2> QED BY <1>3, <2>1, <2>2
<1>5. \A j \in Log : g.log[j].vbn # None => g.log[j].lbn \in Lbn
  BY DEF Held
<1>6. \A b \in Block : \/ \E l \in Lbn : g.map[l] = b
                       \/ \E j \in Log : g.log[j].vbn = b
                       \/ \E i \in Ring(g) : g.free[i] = b
                       \/ \E i \in 0..2 : g.ctrl[i] = b
                       \/ b \in H \cup {f.log[k].vbn}
  BY <1>1 DEF Held, SameButLog
<1>7. g.map \in [Lbn -> Block] /\ \A i \in Ring(g) : g.free[i] \in Block
  BY <1>1 DEF Held, SameButLog
<1> QED BY <1>4, <1>5, <1>6, <1>7 DEF Held

LEMMA HeldAddLog ==
  ASSUME NEW f \in State, NEW g, SameButLog(f, g), NEW H, NEW n \in Int, Held(f, H, n),
         NEW k \in Log, f.log[k].vbn = None, NEW b \in Block, g.log[k].vbn = b,
         g.log[k].lbn \in Lbn, \A j \in Log \ {k} : g.log[j] = f.log[j]
  PROVE  Held(g, H \ {b}, n - 1)
<1>1. Ring(g) = Ring(f) /\ Used(g) = Used(f) \cup {k} /\ k \notin Used(f)
  BY Constants DEF SameButLog, Used, Ring, Block
<1>2. IsFiniteSet(Used(f)) /\ Cardinality(Used(f)) \in 0..NumLogs
  BY HeldCount
<1>3. Cardinality(Used(g)) = Cardinality(Used(f)) + 1
  BY <1>1, <1>2, FS_AddElement
<1>4. g.numFree + Cardinality(Used(g)) + (n - 1) = Pool
  <2>1. f.numFree + Cardinality(Used(f)) + n = Pool /\ g.numFree = f.numFree
    BY DEF Held, SameButLog
  <2>2. f.numFree \in Nat /\ Cardinality(Used(f)) \in Int
    BY <1>2, Constants DEF State
  <2> QED BY <1>3, <2>1, <2>2
<1>5. \A j \in Log : g.log[j].vbn # None => g.log[j].lbn \in Lbn
  BY DEF Held
<1>6. \A x \in Block : \/ \E l \in Lbn : g.map[l] = x
                       \/ \E j \in Log : g.log[j].vbn = x
                       \/ \E i \in Ring(g) : g.free[i] = x
                       \/ \E i \in 0..2 : g.ctrl[i] = x
                       \/ x \in H \ {b}
  <2>1. \A j \in Log : f.log[j].vbn \in Block => g.log[j].vbn = f.log[j].vbn
    BY Constants DEF Block
  <2> QED BY <1>1, <2>1 DEF Held, SameButLog
<1>7. g.map \in [Lbn -> Block] /\ \A i \in Ring(g) : g.free[i] \in Block
  BY <1>1 DEF Held, SameButLog
<1> QED BY <1>4, <1>5, <1>6, <1>7 DEF Held

LEMMA HeldMoveLog ==
  ASSUME NEW f \in State, NEW g, SameButLog(f, g), NEW H, NEW n \in Int, Held(f, H, n),
         NEW k \in Log, f.log[k].vbn # None, NEW b \in Block, g.log[k].vbn = b,
         g.log[k].lbn \in Lbn, \A j \in Log \ {k} : g.log[j] = f.log[j]
  PROVE  Held(g, (H \ {b}) \cup {f.log[k].vbn}, n)
<1>1. Ring(g) = Ring(f) /\ Used(g) = Used(f) /\ k \in Used(f)
  BY Constants DEF SameButLog, Used, Ring, Block
<1>5. \A j \in Log : g.log[j].vbn # None => g.log[j].lbn \in Lbn
  BY DEF Held
<1>6. \A x \in Block : \/ \E l \in Lbn : g.map[l] = x
                       \/ \E j \in Log : g.log[j].vbn = x
                       \/ \E i \in Ring(g) : g.free[i] = x
                       \/ \E i \in 0..2 : g.ctrl[i] = x
                       \/ x \in (H \ {b}) \cup {f.log[k].vbn}
  BY <1>1 DEF Held, SameButLog
<1>7. g.map \in [Lbn -> Block] /\ \A i \in Ring(g) : g.free[i] \in Block
  BY <1>1 DEF Held, SameButLog
<1> QED BY <1>1, <1>5, <1>6, <1>7 DEF Held, SameButLog

LEMMA HeldMap ==
  ASSUME NEW f, NEW g, NEW H, NEW n, Held(f, H, n), NEW l \in Lbn, NEW b \in Block,
         g.map = [f.map EXCEPT ![l] = b], g.log = f.log, g.free = f.free,
         g.nextFree = f.nextFree, g.numFree = f.numFree, g.ctrl = f.ctrl
  PROVE  Held(g, (H \ {b}) \cup {f.map[l]}, n)
<1>1. Ring(g) = Ring(f) /\ Used(g) = Used(f)
  BY DEF Used, Ring
<1>2. f.map \in [Lbn -> Block]
  BY DEF Held
<1>3. g.map \in [Lbn -> Block] /\ g.map[l] = b /\ \A j \in Lbn \ {l} : g.map[j] = f.map[j]
  BY <1>2
<1>6. \A x \in Block : \/ \E j \in Lbn : g.map[j] = x
                       \/ \E j \in Log : g.log[j].vbn = x
                       \/ \E i \in Ring(g) : g.free[i] = x
                       \/ \E i \in 0..2 : g.ctrl[i] = x
                       \/ x \in (H \ {b}) \cup {f.map[l]}
  BY <1>1, <1>3 DEF Held
<1> QED BY <1>1, <1>3, <1>6 DEF Held

LEMMA HeldCtrl ==
  ASSUME NEW f \in State, NEW g, NEW H, NEW n, Held(f, H, n), NEW i \in 0..2, NEW b \in Block,
         g.ctrl = [f.ctrl EXCEPT ![i] = b], g.log = f.log, g.free = f.free,
         g.nextFree = f.nextFree, g.numFree = f.numFree, g.map = f.map
  PROVE  Held(g, (H \ {b}) \cup {f.ctrl[i]}, n)
<1>1. Ring(g) = Ring(f) /\ Used(g) = Used(f)
  BY DEF Used, Ring
<1>2. f.ctrl \in [0..2 -> Block]
  BY DEF State
<1>3. g.ctrl[i] = b /\ \A j \in 0..2 \ {i} : g.ctrl[j] = f.ctrl[j]
  BY <1>2
<1>6. \A x \in Block : \/ \E j \in Lbn : g.map[j] = x
                       \/ \E j \in Log : g.log[j].vbn = x
                       \/ \E j \in Ring(g) : g.free[j] = x
                       \/ \E j \in 0..2 : g.ctrl[j] = x
                       \/ x \in (H \ {b}) \cup {f.ctrl[i]}
  BY <1>1, <1>3 DEF Held
<1> QED BY <1>1, <1>6 DEF Held

LEMMA HeldSwap ==
  ASSUME NEW f \in State, NEW g, NEW H, NEW n, Held(f, H, n), NEW i \in Ring(f),
         NEW b \in Block, \E l \in Lbn : f.map[l] = f.free[i],
         g.free = [f.free EXCEPT ![i] = b], g.log = f.log, g.ctrl = f.ctrl,
         g.nextFree = f.nextFree, g.numFree = f.numFree, g.map = f.map
  PROVE  Held(g, H \ {b}, n)
<1>1. Ring(g) = Ring(f) /\ Used(g) = Used(f)
  BY DEF Used, Ring
<1>2. Ring(f) \subseteq 0..Pool - 1 /\ f.free \in [0..Pool - 1 -> BlockN]
  BY RingIn DEF Ring, State, Free
<1>3. g.free[i] = b /\ \A j \in Ring(f) \ {i} : g.free[j] = f.free[j]
  BY <1>2
<1>6. \A x \in Block : \/ \E j \in Lbn : g.map[j] = x
                       \/ \E j \in Log : g.log[j].vbn = x
                       \/ \E j \in Ring(g) : g.free[j] = x
                       \/ \E j \in 0..2 : g.ctrl[j] = x
                       \/ x \in H \ {b}
  BY <1>1, <1>3 DEF Held
<1>7. \A j \in Ring(g) : g.free[j] \in Block
  BY <1>1, <1>3 DEF Held
<1> QED BY <1>1, <1>6, <1>7 DEF Held


-----------------------------------------------------------------------------
(* What a function does that returns with every block where it was, or in  *)
(* another place.                                                          *)
Keeps(f, g) ==
  /\ g \in State
  /\ g.st = "ok" => f.st = "ok"
  /\ g.ok => g.st = "ok"
  /\ \A H : \A n \in Nat : Held(f, H, n) /\ g.st = "ok" => Held(g, H, n)

KeepsLog(f, g) == Keeps(f, g) /\ g.log = f.log /\ g.map = f.map

LEMMA QuietKeeps ==
  ASSUME NEW f, NEW g, Quiet(f, g)
  PROVE  KeepsLog(f, g)
BY QuietHeld DEF KeepsLog, Keeps, Quiet

LEMMA KeepsTrans ==
  ASSUME NEW f, NEW g, NEW h, Keeps(f, g), Keeps(g, h)
  PROVE  Keeps(f, h)
BY DEF Keeps

LEMMA KeepsLogTrans ==
  ASSUME NEW f, NEW g, NEW h, KeepsLog(f, g), KeepsLog(g, h)
  PROVE  KeepsLog(f, h)
BY KeepsTrans DEF KeepsLog

LEMMA KeepsRefl ==
  ASSUME NEW f \in State, f.ok => f.st = "ok"
  PROVE  KeepsLog(f, f)
BY DEF KeepsLog, Keeps

LEMMA Products ==
  ASSUME NEW b \in Nat
  PROVE  b * P \in Nat
BY Constants

LEMMA NextCtrlPage ==
  ASSUME ~EraseFails, NEW f \in State
  PROVE  KeepsLog(f, ftl_next_ctrl_page(f))
<1> DEFINE p == f.ctrlPage + 1
           here == {i \in 0..2 : (f.ctrl[i] + 1) * P = p}
           n == ((IF here = {} THEN 3 ELSE Min(here)) + 1) % 3
           old == f.ctrl[n]
           next == [f EXCEPT !.ctrlPage = p, !.ctrlChanges = @ + 1]
           done(g) == IF g.ok THEN [g EXCEPT !.usnDec = Wrap(@ - 1)] ELSE g
           reused(g) == IF g.ok THEN [g EXCEPT !.ctrlPage = old * P] ELSE g
           h1 == ftl_get_free_vb(next)
           e1 == [h1 EXCEPT !.ctrl[n] = h1.ret, !.ctrlPage = h1.ret * P]
           h2 == IF ~h1.ok THEN h1 ELSE ftl_set_free_vb(e1, old)
           h3 == IF h2.ok THEN vfl_store_FTLCtrlBlock(h2) ELSE h2
           w  == [f EXCEPT !.ctrlPage = p, !.usnDec = Wrap(@ - 1), !.ok = TRUE]
<1>1. n \in 0..2
  <2>1. here \subseteq Nat
    OBVIOUS
  <2>2. here # {} => Min(here) \in 0..2
    BY <2>1, MinMember
  <2> HIDE DEF here
  <2>3. PICK m \in 0..3 : m = IF here = {} THEN 3 ELSE Min(here)
    BY <2>2
  <2>4. (m + 1) % 3 \in 0..2
    OBVIOUS
  <2> QED BY <2>3, <2>4
<1> HIDE DEF n
<1>2. old \in Block /\ Block \subseteq Nat
  BY <1>1 DEF State, Block
<1>3. \A g \in State : Wrap(g.usnDec - 1) \in Usn
  <2>1. \A g \in State : g.usnDec - 1 \in Int /\ g.usnDec - 1 >= 0 - 1
    BY Constants DEF State, Usn
  <2> QED BY <2>1, WrapRange DEF Usn
<1>5. \A g : KeepsLog(f, g) => KeepsLog(f, done(g))
  <2>1. SUFFICES ASSUME NEW g, KeepsLog(f, g), g.ok
                 PROVE  KeepsLog(f, [g EXCEPT !.usnDec = Wrap(@ - 1)])
    OBVIOUS
  <2> DEFINE d == [g EXCEPT !.usnDec = Wrap(@ - 1)]
  <2>2. g \in State
    BY <2>1 DEF KeepsLog, Keeps
  <2>3. Wrap(g.usnDec - 1) \in Usn
    BY <1>3, <2>2
  <2>4. Quiet(g, d)
    BY <2>1, <2>2, <2>3 DEF Quiet, State, KeepsLog, Keeps
  <2> HIDE DEF d
  <2>5. KeepsLog(f, d)
    BY <2>1, <2>4, QuietKeeps, KeepsLogTrans
  <2> QED BY <2>5 DEF d
<1>6. KeepsLog(f, Fail(f))
  BY FailQuiet, QuietKeeps
<1>7. ASSUME f.st = "ok" PROVE KeepsLog(f, w)
  <2>1. f.ctrlPage + 1 \in Nat /\ Wrap(f.usnDec - 1) \in Usn
    BY <1>3 DEF State
  <2>2. Quiet(f, w)
    BY <1>7, <2>1 DEF Quiet, State
  <2> QED BY <2>2, QuietKeeps
<1>8. next \in State /\ next.st = f.st /\ next.map = f.map /\ next.log = f.log
      /\ next.free = f.free /\ next.nextFree = f.nextFree /\ next.numFree = f.numFree
      /\ next.ctrl = f.ctrl /\ next.ret = f.ret
  <2>1. p \in Nat /\ f.ctrlChanges + 1 \in Nat
    BY DEF State
  <2> HIDE DEF p
  <2> QED BY <2>1 DEF State
<1> HIDE DEF next
<1>9. KeepsLog(f, done(reused(VFL_Erase(next, old))))
  <2> DEFINE h == VFL_Erase(next, old)
             r == [h EXCEPT !.ctrlPage = old * P]
  <2>1. Quiet(next, h)
    BY <1>8, EraseQuiet
  <2>2. Quiet(f, h)
    BY <2>1, <1>8 DEF Quiet
  <2> HIDE DEF h
  <2>3. old * P \in Nat
    BY <1>2, Products
  <2>4. Quiet(f, r)
    BY <2>2, <2>3 DEF Quiet, State
  <2>5. KeepsLog(f, reused(h))
    BY <2>2, <2>4, QuietKeeps
  <2> HIDE DEF r
  <2>6. KeepsLog(f, done(reused(h)))
    BY <2>5, <1>5, Zenon
  <2> QED BY <2>6 DEF h
<1>10. f.st = "ok" => KeepsLog(f, h2)
  <2>1. SUFFICES ASSUME f.st = "ok" PROVE KeepsLog(f, h2)
    OBVIOUS
  <2>2. /\ h1 \in State /\ h1.st = "ok" /\ h1.map = f.map /\ h1.log = f.log
        /\ h1.ctrl = f.ctrl
    BY <2>1, <1>8, GetFree
  <2>3. \A H : \A m \in Nat : Held(f, H, m) => Held(next, H, m)
    BY <1>8 DEF Held, Ring, Used
  <2>4. \A H : \A m \in Nat : Held(f, H, m) =>
          Held(h1, IF h1.ok THEN H \cup {h1.ret} ELSE H, IF h1.ok THEN m + 1 ELSE m)
    BY <2>3, <1>8, GetFree
  <2> HIDE DEF h1
  <2>5. CASE ~h1.ok
    BY <2>5, <2>2, <2>4, <2>1 DEF KeepsLog, Keeps, h2
  <2>6. CASE h1.ok
    <3>1. h1.ret \in Block /\ h1.ret * P \in Nat
      BY <2>2, <1>2, Products DEF State
    <3>2. e1 \in State /\ e1.st = "ok" /\ e1.map = f.map /\ e1.log = f.log
          /\ e1.ctrl = [h1.ctrl EXCEPT ![n] = h1.ret] /\ e1.free = h1.free
          /\ e1.nextFree = h1.nextFree /\ e1.numFree = h1.numFree
      BY <2>2, <3>1, <1>1 DEF State
    <3> HIDE DEF e1, old
    <3>3. h2 = ftl_set_free_vb(e1, old)
      BY <2>6 DEF h2
    <3> HIDE DEF h2
    <3>4. old \in BlockN
      BY <1>2 DEF BlockN
    <3>5. /\ h2 \in State /\ (h2.st = "ok" => h2.ok) /\ (h2.ok => h2.st = "ok")
          /\ h2.map = e1.map /\ h2.log = e1.log
          /\ \A H : \A m \in Int : Held(e1, H, m) /\ e1.numFree < Pool /\ h2.st = "ok"
                                      => Held(h2, H \ {old}, m - 1)
      BY <3>2, <3>3, <3>4, <1>2, SetFree
    <3>6. ASSUME NEW H, NEW m \in Nat, Held(f, H, m), h2.st = "ok"
          PROVE  Held(h2, H, m)
      <4>1. Held(h1, H \cup {h1.ret}, m + 1)
        BY <2>4, <2>6, <3>6
      <4>2. Held(e1, ((H \cup {h1.ret}) \ {h1.ret}) \cup {h1.ctrl[n]}, m + 1)
        BY <4>1, <2>2, <3>1, <3>2, <1>1, HeldCtrl
      <4>3. h1.ctrl[n] = old
        BY <2>2 DEF old
      <4>4. Held(e1, H \cup {old}, m + 1)
        BY <4>2, <4>3, HeldMore
      <4>5. e1.numFree < Pool
        BY <3>2, <4>4, HeldCount, Constants DEF State
      <4>6. Held(h2, (H \cup {old}) \ {old}, (m + 1) - 1)
        BY <3>5, <3>6, <4>4, <4>5
      <4>7. Held(h2, (H \cup {old}) \ {old}, m)
        BY <4>6
      <4> QED BY <4>7, HeldMore
    <3> QED BY <2>1, <3>2, <3>5, <3>6 DEF KeepsLog, Keeps
  <2> QED BY <2>5, <2>6
<1> HIDE DEF h2
<1>11. f.st = "ok" => KeepsLog(f, h3)
  <2>1. SUFFICES ASSUME f.st = "ok", h2.ok PROVE KeepsLog(f, vfl_store_FTLCtrlBlock(h2))
    BY <1>10
  <2>2. h2 \in State
    BY <1>10, <2>1 DEF KeepsLog, Keeps
  <2> QED BY <1>10, <2>1, <2>2, StoreQuiet, QuietKeeps, KeepsLogTrans
<1> HIDE DEF h3
<1>12. f.st = "ok" => KeepsLog(f, done(h3))
  BY <1>11, <1>5, Zenon
<1>13. ftl_next_ctrl_page(f) = IF f.st # "ok" THEN Fail(f)
        ELSE IF p % P # 0 THEN w
        ELSE IF f.ctrlChanges % CtrlPeriod >= CtrlNew
        THEN done(reused(VFL_Erase(next, old))) ELSE done(h3)
  BY DEF ftl_next_ctrl_page, h3, h2, n, next
<1> HIDE DEF w, done, reused, old, p
<1> QED BY <1>6, <1>7, <1>9, <1>12, <1>13


-----------------------------------------------------------------------------
(* Writing the tables and the mark.                                        *)
LEMMA WriteCtrlQuiet ==
  ASSUME NEW f \in State, NEW page \in Page
  PROVE  Quiet(f, WriteCtrl(f, page))
BY WriteQuiet DEF WriteCtrl

LEMMA WriteTables ==
  ASSUME ~EraseFails, NEW f \in State, f.st = "ok"
  PROVE  KeepsLog(f, writeTables(f))
<1> DEFINE written(g) == IF g.ok THEN WriteCtrl(g, Meta(g.usnDec)) ELSE g
           page(g, i) == IF g.ok THEN written(ftl_next_ctrl_page(g)) ELSE g
           m == CxtPages - 1
           S == {g \in State : KeepsLog(f, g)}
           T == [i \in 0..m |-> S]
<1>1. \A g \in S : written(g) \in S
  <2>1. SUFFICES ASSUME NEW g \in State, KeepsLog(f, g), g.ok
                 PROVE  WriteCtrl(g, Meta(g.usnDec)) \in S
    OBVIOUS
  <2>2. Meta(g.usnDec) \in Page
    BY PageTypes DEF State
  <2>3. KeepsLog(g, WriteCtrl(g, Meta(g.usnDec)))
    BY <2>2, WriteCtrlQuiet, QuietKeeps
  <2>4. KeepsLog(f, WriteCtrl(g, Meta(g.usnDec)))
    BY <2>1, <2>3, KeepsLogTrans
  <2> QED BY <2>4 DEF KeepsLog, Keeps
<1> HIDE DEF written
<1>2. \A g \in S : \A i : page(g, i) \in S
  <2>1. SUFFICES ASSUME NEW g \in State, KeepsLog(f, g), g.ok
                 PROVE  ftl_next_ctrl_page(g) \in S
    BY <1>1
  <2>2. KeepsLog(f, ftl_next_ctrl_page(g))
    BY <2>1, NextCtrlPage, KeepsLogTrans
  <2> QED BY <2>2 DEF KeepsLog, Keeps
<1>3. f \in S
  BY KeepsRefl
<1> HIDE DEF S
<1>4. m \in Nat /\ f \in T[0] /\ \A i \in 0..m - 1 : \A s \in T[i] : page(s, i) \in T[i + 1]
  <2>1. m \in Nat
    BY Constants
  <2>2. 0 \in 0..m /\ \A i \in 0..m - 1 : i \in 0..m /\ i + 1 \in 0..m
    BY <2>1
  <2> QED BY <2>1, <2>2, <1>2, <1>3
<1> DEFINE phi == [i \in 0..m - 1 |-> [s \in T[i] |-> page(s, i)]]
           run == CHOOSE r : r = [i \in 0..m |->
                                    IF i = 0 THEN f ELSE page(r[i - 1], i - 1)]
<1> HIDE DEF T, page
<1>10. Within(m, T, phi)
  BY <1>4 DEF Within
<1> HIDE DEF phi
<1>11. PICK r : Runs(r, m, f, phi) /\ \A i \in 0..m : r[i] \in T[i]
  BY <1>4, <1>10, LoopRuns
<1>12. \A i \in 0..m : i # 0 => phi[i - 1][r[i - 1]] = page(r[i - 1], i - 1)
  <2>1. SUFFICES ASSUME NEW i \in 0..m, i # 0
                 PROVE  phi[i - 1][r[i - 1]] = page(r[i - 1], i - 1)
    OBVIOUS
  <2>2. i - 1 \in 0..m - 1 /\ i - 1 \in 0..m
    BY <1>4, <2>1
  <2> QED BY <1>11, <2>2 DEF phi
<1>13. r = [i \in 0..m |-> IF i = 0 THEN f ELSE page(r[i - 1], i - 1)]
  BY <1>11, <1>12 DEF Runs
<1>14. run = [i \in 0..m |-> IF i = 0 THEN f ELSE page(run[i - 1], i - 1)]
  BY <1>13
<1> HIDE DEF run
<1>15. run[0] = f /\ \A i \in 0..m - 1 : run[i + 1] = page(run[i], i)
  BY <1>4, <1>14
<1>16. run[m] \in T[m]
  BY <1>4, <1>15, LoopStays
<1>17. Loop(page, m, f) = run[m]
  BY DEF Loop, run
<1>20. run[m] \in S
  BY <1>4, <1>16 DEF T
<1>21. writeTables(f) = Loop(page, m, f)
  BY DEF writeTables, page, written, m
<1> QED BY <1>17, <1>20, <1>21 DEF S


(* The same when "ok" still says how an earlier function went.             *)
Moves(f, g) ==
  /\ g \in State
  /\ g.st = "ok" => f.st = "ok"
  /\ g.log = f.log /\ g.map = f.map
  /\ \A H : \A n \in Nat : Held(f, H, n) /\ g.st = "ok" => Held(g, H, n)

LEMMA MovesKeeps ==
  ASSUME NEW f, NEW g, NEW h, Moves(f, g), KeepsLog(g, h)
  PROVE  KeepsLog(f, h)
BY DEF Moves, Keeps, KeepsLog

LEMMA KeepsMoves ==
  ASSUME NEW f, NEW g, KeepsLog(f, g)
  PROVE  Moves(f, g)
BY DEF Moves, Keeps, KeepsLog

LEMMA MovesRefl ==
  ASSUME NEW f \in State
  PROVE  Moves(f, f)
BY DEF Moves

LEMMA LastPage ==
  ASSUME NEW p \in Nat
  PROVE  LastOfBlock(p) \in Nat
<1>1. \A n \in Nat \ {0} : \A x \in Nat : x \div n \in Nat
  OBVIOUS
<1>2. p \div P \in Nat
  BY <1>1, Constants
<1>3. (p \div P) * P \in Nat
  BY <1>2, Products
<1> QED BY <1>3, Constants DEF LastOfBlock

LEMMA ChangeOfBlock ==
  ASSUME NEW f, NEW g, KeepsLog(f, g)
  PROVE  KeepsLog(f, Fail([g EXCEPT !.ctrlPage = LastOfBlock(@)]))
<1> DEFINE h == [g EXCEPT !.ctrlPage = LastOfBlock(@)]
<1>1. g \in State /\ LastOfBlock(g.ctrlPage) \in Nat
  BY LastPage DEF KeepsLog, Keeps, State
<1>2. h \in State
  BY <1>1 DEF State
<1>3. /\ h.st = g.st /\ h.map = g.map /\ h.log = g.log /\ h.free = g.free
      /\ h.nextFree = g.nextFree /\ h.numFree = g.numFree /\ h.ctrl = g.ctrl
      /\ h.ret = g.ret
  BY <1>1 DEF State
<1> HIDE DEF h
<1>4. Quiet(h, Fail(h)) /\ ~Fail(h).ok
  BY <1>2, FailQuiet DEF Fail, State
<1>5. Quiet(g, Fail(h))
  BY <1>3, <1>4 DEF Quiet
<1>6. KeepsLog(f, Fail(h))
  BY <1>5, QuietKeeps, KeepsLogTrans
<1> QED BY <1>6 DEF h

LEMMA SavedWhole ==
  ASSUME NEW f \in State, Held(f, {}, 0)
  PROVE  Saved(f) \in Whole
<1> DEFINE c == Saved(f)
<1>1. c \in Table
  BY DEF Saved, Table, State
<1>2. /\ c.map = f.map /\ c.log = f.log /\ c.free = f.free /\ c.nextFree = f.nextFree
      /\ c.numFree = f.numFree /\ c.ctrl = f.ctrl
  BY DEF Saved
<1> HIDE DEF c
<1>3. Held(c, {}, 0)
  BY <1>2, HeldSame DEF SamePool
<1> QED BY <1>1, <1>3 DEF Whole, c

LEMMA CommitKeeps ==
  ASSUME ~EraseFails, NEW f \in State, f.st = "ok", Held(f, {}, 0)
  PROVE  KeepsLog(f, ftl_commit_cxt(f))
<1> DEFINE full == f.ctrlPage + CxtPages >= (f.ctrlPage \div P) * P + P
           start == [f EXCEPT !.ctrlPage = IF full THEN LastOfBlock(@) ELSE @, !.ok = TRUE]
           t == writeTables(start)
           u == IF t.ok THEN ftl_next_ctrl_page(t) ELSE t
           c == [u EXCEPT !.clean = TRUE]
           w == IF ~u.ok THEN u ELSE WriteCtrl(c, Cxt(u.usnDec, Saved(u)))
<1>1. start \in State /\ start.st = "ok" /\ KeepsLog(f, start)
  <2> HIDE DEF full
  <2>1. (IF full THEN LastOfBlock(f.ctrlPage) ELSE f.ctrlPage) \in Nat
    BY LastPage DEF State
  <2>2. start \in State /\ start.st = f.st
    BY <2>1 DEF State
  <2>3. Quiet(f, start)
    BY <2>1, <2>2 DEF Quiet, State
  <2> QED BY <2>2, <2>3, QuietKeeps
<1> HIDE DEF start
<1>2. KeepsLog(f, t)
  BY <1>1, WriteTables, KeepsLogTrans
<1> HIDE DEF t
<1>3. KeepsLog(f, u)
  <2>1. t \in State
    BY <1>2 DEF KeepsLog, Keeps
  <2> QED BY <1>2, <2>1, NextCtrlPage, KeepsLogTrans
<1> HIDE DEF u
<1>4. KeepsLog(f, w)
  <2>1. SUFFICES ASSUME u.ok PROVE KeepsLog(f, WriteCtrl(c, Cxt(u.usnDec, Saved(u))))
    BY <1>3
  <2>2. u \in State /\ u.st = "ok" /\ Held(u, {}, 0)
    BY <1>3, <2>1 DEF KeepsLog, Keeps
  <2>3. c \in State /\ Quiet(u, c)
    BY <2>1, <2>2 DEF Quiet, State
  <2>4. Cxt(u.usnDec, Saved(u)) \in Page
    BY <2>2, SavedWhole, PageTypes DEF State
  <2> HIDE DEF c
  <2>5. Quiet(c, WriteCtrl(c, Cxt(u.usnDec, Saved(u))))
    BY <2>3, <2>4, WriteCtrlQuiet
  <2> QED BY <1>3, <2>3, <2>5, QuietKeeps, KeepsLogTrans
<1>5. ftl_commit_cxt(f) = w
  <2>1. u \in State /\ c.usnDec = u.usnDec /\ Saved(c) = Saved(u)
    BY <1>3 DEF KeepsLog, Keeps, State, Saved
  <2> QED BY <2>1 DEF ftl_commit_cxt, u, t, start
<1> QED BY <1>4, <1>5

(* Tries that keep a property of the state.                                *)
Tried(S) == [f : S, over : BOOLEAN]

LEMMA TryCommit ==
  ASSUME ~EraseFails, NEW f \in State, f.st = "ok" => Held(f, {}, 0)
  PROVE  KeepsLog(f, tryCommit(f))
<1> DEFINE tried(g) == IF g.ok THEN Over(g) ELSE Again([g EXCEPT !.ctrlPage = LastOfBlock(@)])
           try(g)   == IF g.st # "ok" THEN Over(Fail(g)) ELSE tried(ftl_commit_cxt(g))
           next(s)  == IF s.over THEN s ELSE try(s.f)
           S == {g \in State : KeepsLog(f, g)}
           R == Tried(S)
<1>1. ASSUME NEW g \in State, Moves(f, g)
      PROVE  try(g) \in R
  <2>1. CASE g.st # "ok"
    <3>1. KeepsLog(f, Fail(g))
      BY <1>1, FailQuiet, QuietKeeps, MovesKeeps
    <3>2. Fail(g) \in S
      BY <3>1 DEF KeepsLog, Keeps
    <3> HIDE DEF S
    <3> QED BY <2>1, <3>2 DEF Tried, Over
  <2>2. CASE g.st = "ok"
    <3> DEFINE h == ftl_commit_cxt(g)
               e == Fail([h EXCEPT !.ctrlPage = LastOfBlock(@)])
    <3>1. Held(g, {}, 0)
      BY <1>1, <2>2 DEF Moves
    <3>2. KeepsLog(f, h)
      BY <1>1, <2>2, <3>1, CommitKeeps, MovesKeeps
    <3>3. KeepsLog(f, e)
      BY <3>2, ChangeOfBlock
    <3>4. h \in S /\ e \in S
      BY <3>2, <3>3 DEF KeepsLog, Keeps
    <3>5. try(g) = IF h.ok THEN Over(h) ELSE [f |-> e, over |-> FALSE]
      BY <2>2 DEF Again
    <3> HIDE DEF S, h, e, try
    <3> QED BY <3>4, <3>5 DEF Tried, Over
  <2> QED BY <2>1, <2>2
<1>2. \A g \in S : g \in State /\ Moves(f, g)
  BY KeepsMoves
<1>3. f \in State /\ Moves(f, f)
  BY MovesRefl
<1> HIDE DEF S, try
<1>4. \A s \in R : next(s) \in R
  BY <1>1, <1>2 DEF Tried
<1>5. try(f) \in R
  BY <1>1, <1>3
<1>6. next(next(try(f))) \in R
  BY <1>4, <1>5
<1>7. \A s \in R : s.f \in S /\ try(s.f).f \in S
  BY <1>1, <1>2 DEF Tried
<1>8. tryCommit(f) = LET s == next(next(try(f))) IN IF s.over THEN s.f ELSE try(s.f).f
  BY DEF tryCommit, Tries, Next3, try
<1> HIDE DEF next, R
<1>9. tryCommit(f) \in S
  BY <1>6, <1>7, <1>8
<1> QED BY <1>9 DEF S


LEMMA EraseDirty ==
  ASSUME NEW f \in State, f.st = "ok"
  PROVE  Moves(f, eraseDirty(f))
<1> DEFINE erased(g, i) ==
             LET b == f.free[(f.nextFree + i) % Pool]
             IN  IF b # None /\ f.nand[b] # Erased THEN VFL_Erase(g, b) ELSE g
           m == f.numFree
           S == {g \in State : Quiet(f, g)}
           T == [i \in 0..m |-> S]
<1>1. \A g \in S : \A b : VFL_Erase(g, b) \in S
  <2>1. \A g \in S : \A b : Quiet(f, VFL_Erase(g, b))
    BY EraseQuiet, QuietTrans
  <2> QED BY <2>1 DEF Quiet
<1>2. \A g \in S : \A i : erased(g, i) \in S
  BY <1>1
<1>3. f \in S
  BY DEF Quiet
<1> HIDE DEF S
<1>4. m \in Nat /\ f \in T[0] /\ \A i \in 0..m - 1 : \A s \in T[i] : erased(s, i) \in T[i + 1]
  <2>1. m \in Nat
    BY DEF State
  <2>2. 0 \in 0..m /\ \A i \in 0..m - 1 : i \in 0..m /\ i + 1 \in 0..m
    BY <2>1
  <2> QED BY <2>1, <2>2, <1>2, <1>3
<1> HIDE DEF m
<1> DEFINE phi == [i \in 0..m - 1 |-> [s \in T[i] |-> erased(s, i)]]
           run == CHOOSE r : r = [i \in 0..m |->
                                    IF i = 0 THEN f ELSE erased(r[i - 1], i - 1)]
<1> HIDE DEF T, erased
<1>10. Within(m, T, phi)
  BY <1>4 DEF Within
<1> HIDE DEF phi
<1>11. PICK r : Runs(r, m, f, phi) /\ \A i \in 0..m : r[i] \in T[i]
  BY <1>4, <1>10, LoopRuns
<1>12. \A i \in 0..m : i # 0 => phi[i - 1][r[i - 1]] = erased(r[i - 1], i - 1)
  <2>1. SUFFICES ASSUME NEW i \in 0..m, i # 0
                 PROVE  phi[i - 1][r[i - 1]] = erased(r[i - 1], i - 1)
    OBVIOUS
  <2>2. i - 1 \in 0..m - 1 /\ i - 1 \in 0..m
    BY <1>4, <2>1
  <2> QED BY <1>11, <2>2 DEF phi
<1>13. r = [i \in 0..m |-> IF i = 0 THEN f ELSE erased(r[i - 1], i - 1)]
  BY <1>11, <1>12 DEF Runs
<1>14. run = [i \in 0..m |-> IF i = 0 THEN f ELSE erased(run[i - 1], i - 1)]
  BY <1>13
<1> HIDE DEF run
<1>15. run[0] = f /\ \A i \in 0..m - 1 : run[i + 1] = erased(run[i], i)
  BY <1>4, <1>14
<1>16. run[m] \in T[m]
  BY <1>4, <1>15, LoopStays
<1>17. Loop(erased, m, f) = run[m]
  BY DEF Loop, run
<1> DEFINE g == run[m]
<1>20. g \in S
  BY <1>4, <1>16 DEF T
<1>21. eraseDirty(f) = [g EXCEPT !.cleanFreeVb = TRUE, !.ok = TRUE]
  BY <1>17 DEF eraseDirty, erased, m
<1> HIDE DEF g
<1>22. g \in State /\ Quiet(f, g)
  BY <1>20 DEF S
<1> DEFINE h == [g EXCEPT !.cleanFreeVb = TRUE, !.ok = TRUE]
<1>23. h \in State
  BY <1>22 DEF State
<1>24. /\ h.st = g.st /\ h.map = g.map /\ h.log = g.log /\ h.free = g.free
       /\ h.nextFree = g.nextFree /\ h.numFree = g.numFree /\ h.ctrl = g.ctrl
  BY <1>22 DEF State
<1> HIDE DEF h
<1>25. SamePool(f, h)
  BY <1>22, <1>24 DEF SamePool, Quiet
<1>26. Moves(f, h)
  BY <1>22, <1>23, <1>24, <1>25, HeldSame DEF Moves, Quiet
<1> QED BY <1>21, <1>26 DEF h

LEMMA CheckForDirty ==
  ASSUME NEW f \in State
  PROVE  Moves(f, check_for_dirty_free_vb(f))
BY EraseDirty, MovesRefl DEF check_for_dirty_free_vb

LEMMA MarkTyped ==
  ASSUME NEW g \in State
  PROVE  Mark(IF g.junk = None THEN g.usnDec ELSE g.junk) \in Page
<1>1. (IF g.junk = None THEN g.usnDec ELSE g.junk) \in Usn
  BY DEF State
<1> QED BY <1>1, PageTypes

LEMMA TryMark ==
  ASSUME ~EraseFails, NEW f \in State
  PROVE  KeepsLog(f, tryMark(f))
<1> DEFINE tried(g) == IF g.ok THEN Over([g EXCEPT !.clean = FALSE])
                       ELSE Again([g EXCEPT !.ctrlPage = LastOfBlock(@)])
           mark(g) == Mark(IF g.junk = None THEN g.usnDec ELSE g.junk)
           try(g)  == LET h == ftl_next_ctrl_page(g)
                      IN  IF h.ok THEN tried(WriteCtrl(h, mark(h))) ELSE Over(h)
           next(s) == IF s.over THEN s ELSE try(s.f)
           S == {g \in State : KeepsLog(f, g)}
           R == Tried(S)
<1>1. ASSUME NEW g \in State, Moves(f, g)
      PROVE  try(g) \in R
  <2> DEFINE h == ftl_next_ctrl_page(g)
             w == WriteCtrl(h, mark(h))
             c == [w EXCEPT !.clean = FALSE]
             e == Fail([w EXCEPT !.ctrlPage = LastOfBlock(@)])
  <2>1. KeepsLog(f, h)
    BY <1>1, NextCtrlPage, MovesKeeps
  <2>2. h \in State
    BY <2>1 DEF KeepsLog, Keeps
  <2>3. try(g) = IF ~h.ok THEN Over(h) ELSE IF w.ok THEN Over(c) ELSE [f |-> e, over |-> FALSE]
    BY DEF Again
  <2> HIDE DEF h, try
  <2>4. Quiet(h, w)
    BY <2>2, MarkTyped, WriteCtrlQuiet
  <2> HIDE DEF w
  <2>5. KeepsLog(f, w)
    BY <2>1, <2>4, QuietKeeps, KeepsLogTrans
  <2>6. Quiet(w, c)
    <3>1. w \in State /\ (w.ok => w.st = "ok")
      BY <2>4 DEF Quiet
    <3>2. c \in State
      BY <3>1 DEF State
    <3>3. /\ c.st = w.st /\ c.map = w.map /\ c.log = w.log /\ c.free = w.free
          /\ c.nextFree = w.nextFree /\ c.numFree = w.numFree /\ c.ctrl = w.ctrl
          /\ c.ret = w.ret /\ c.ok = w.ok
      BY <3>1 DEF State
    <3> HIDE DEF c
    <3> QED BY <3>1, <3>2, <3>3 DEF Quiet
  <2>7. KeepsLog(f, c) /\ KeepsLog(f, e)
    BY <2>5, <2>6, QuietKeeps, KeepsLogTrans, ChangeOfBlock
  <2> HIDE DEF c, e
  <2>8. h \in S /\ c \in S /\ e \in S
    BY <2>1, <2>7 DEF KeepsLog, Keeps
  <2> HIDE DEF S
  <2> QED BY <2>3, <2>8 DEF Tried, Over
<1>2. \A g \in S : g \in State /\ Moves(f, g)
  BY KeepsMoves
<1>3. f \in State /\ Moves(f, f)
  BY MovesRefl
<1> HIDE DEF S, try
<1>4. \A s \in R : next(s) \in R
  BY <1>1, <1>2 DEF Tried
<1>5. try(f) \in R
  BY <1>1, <1>3
<1>6. next(next(try(f))) \in R
  BY <1>4, <1>5
<1>7. tryMark(f) = next(next(try(f))).f
  BY DEF tryMark, Next3, try
<1> HIDE DEF next
<1>8. tryMark(f) \in S
  BY <1>6, <1>7 DEF Tried
<1> QED BY <1>8 DEF S

LEMMA MarkUnclean ==
  ASSUME ~EraseFails, NEW f \in State, f.st = "ok"
  PROVE  KeepsLog(f, ftl_mark_unclean(f))
<1> DEFINE g == check_for_dirty_free_vb(f)
           h == [f EXCEPT !.ok = TRUE]
<1>1. Moves(f, g)
  BY CheckForDirty
<1>2. g \in State
  BY <1>1 DEF Moves
<1> HIDE DEF g
<1>3. KeepsLog(f, tryMark(g))
  BY <1>1, <1>2, TryMark, MovesKeeps
<1>4. Quiet(f, h)
  BY DEF Quiet, State
<1>5. KeepsLog(f, h)
  BY <1>4, QuietKeeps
<1> QED BY <1>3, <1>5 DEF ftl_mark_unclean, g

-----------------------------------------------------------------------------
(* Reading and copying.                                                    *)
LEMMA ReadTyped ==
  ASSUME NEW f \in State, NEW H, NEW n, Held(f, H, n), NEW lpn \in Nat
  PROVE  FTL_Read(f, lpn) \in Val
<1> DEFINE lbn == lpn \div P
           L == LogsOf(f, lbn)
           k == Min(L)
           x == FTL_map_page(f, lpn)
           page == f.nand[x[1]][x[2]]
<1>1. CASE lpn + 1 >= UserPages
  BY <1>1 DEF FTL_Read, Val
<1>2. CASE ~(lpn + 1 >= UserPages)
  <2>1. lpn < NumLbns * P
    <3>1. NumLbns * P \in Nat
      BY Constants
    <3> QED BY <1>2, <3>1 DEF UserPages
  <2>2. lbn \in Lbn /\ lpn % P \in Offset
    BY <2>1, DivInRange, Constants DEF Lbn, Offset
  <2> HIDE DEF lbn
  <2>3. f.map[lbn] \in Block
    BY <2>2 DEF Held
  <2>4. L # {} => k \in Log /\ f.log[k].vbn \in Block /\ f.log[k].off \in [Offset -> Offset \cup {None}]
    <3>1. L \subseteq Nat
      BY Constants DEF LogsOf, Log
    <3>2. L # {} => k \in L
      BY <3>1, MinMember
    <3>3. L # {} => k \in Log /\ f.log[k].vbn # None /\ k \in LogSlot
      BY <3>2, Constants DEF LogsOf, Log, LogSlot, Backup
    <3>4. \A j \in LogSlot : f.log[j] \in LogRec
      BY DEF State, Rows, LogRow
    <3> QED BY <3>3, <3>4 DEF LogRec
  <2>5. x[1] \in Block /\ x[2] \in Offset
    <3> DEFINE l == f.log[k]
               o == lpn % P
    <3>1. x = IF L = {} THEN <<f.map[lbn], o>>
              ELSE IF l.off[o] # None THEN <<l.vbn, l.off[o]>> ELSE <<f.map[lbn], o>>
      BY DEF FTL_map_page, lbn
    <3>2. L # {} => l.vbn \in Block /\ l.off[o] \in Offset \cup {None}
      BY <2>2, <2>4
    <3> HIDE DEF x, L, l, o
    <3>3. o \in Offset
      BY <2>2 DEF o
    <3> QED BY <2>3, <3>1, <3>2, <3>3
  <2> HIDE DEF x
  <2>6. page \in Page
    BY <2>5 DEF State, Pages
  <2>7. page.k = "user" /\ page # Empty /\ page # Bad => page.val \in Val
    BY <2>6 DEF Page
  <2>8. FTL_Read(f, lpn) =
          IF page = Empty THEN None
          ELSE IF page = Bad THEN -1
          ELSE IF page.k = "user" /\ page.lpn = lpn THEN page.val ELSE -2
    BY <1>2 DEF FTL_Read, x
  <2> HIDE DEF page
  <2>9. None \in Val /\ -1 \in Val /\ -2 \in Val
    BY DEF Val
  <2> QED BY <2>7, <2>8, <2>9
<1> QED BY <1>1, <1>2


LEMMA NextUsn ==
  ASSUME NEW f \in State
  PROVE  /\ Wrap(f.usn + 1) \in Usn
         /\ (f.ok => f.st = "ok")
              => Quiet(f, [f EXCEPT !.usn = Wrap(@ + 1)])
<1>1. f.usn + 1 \in Int /\ f.usn + 1 >= 0 - 1
  BY Constants DEF State, Usn
<1>2. Wrap(f.usn + 1) \in Usn
  BY <1>1, WrapRange DEF Usn
<1> QED BY <1>2 DEF Quiet, State

LEMMA CopyPage ==
  ASSUME NEW f \in State, f.st = "ok", NEW src \in Block, NEW i \in Offset, NEW dest, NEW j,
         NEW lpn \in Nat
  PROVE  Quiet(f, ftl_copy_page(f, src, i, dest, j, lpn))
<1> DEFINE page == f.nand[src][i]
           val  == IF page = Empty THEN None ELSE IF page.k = "user" THEN page.val ELSE -1
           g    == [f EXCEPT !.usn = Wrap(@ + 1)]
<1>1. page \in Page
  BY DEF State, Pages
<1>2. val \in Val
  BY <1>1 DEF Page, Val, Empty, Bad
<1>3. Quiet(f, g) /\ g \in State /\ g.usn \in Usn
  <2>1. Quiet(f, g)
    BY NextUsn
  <2> HIDE DEF g
  <2> QED BY <2>1 DEF Quiet, State
<1> HIDE DEF val, g
<1>4. User(lpn, g.usn, val) \in Page
  BY <1>2, <1>3, PageTypes
<1>5. Quiet(g, VFL_Write(g, dest, j, User(lpn, g.usn, val)))
  BY <1>3, <1>4, WriteQuiet
<1>6. Quiet(f, VFL_Write(g, dest, j, User(lpn, g.usn, val)))
  BY <1>3, <1>5, QuietTrans
<1> QED BY <1>6 DEF ftl_copy_page, g, val

LEMMA CopyPages ==
  ASSUME NEW f \in State, f.st = "ok", NEW H, NEW n, Held(f, H, n), NEW lbn \in Lbn, NEW dest
  PROVE  Quiet(f, copyPages(f, lbn, dest))
<1> DEFINE page(g, i) ==
             LET lpn == lbn * P + i
             IN  IF g.ok THEN VFL_Write(g, dest, i, User(lpn, g.usn, FTL_Read(g, lpn))) ELSE g
           m == P
           x == [f EXCEPT !.ok = TRUE]
           S == {g \in State : Quiet(f, g)}
           T == [i \in 0..m |-> S]
<1>1. \A g \in S : \A i \in 0..m - 1 : page(g, i) \in S
  <2>1. SUFFICES ASSUME NEW g \in State, Quiet(f, g), NEW i \in 0..m - 1, g.ok
                 PROVE  VFL_Write(g, dest, i, User(lbn * P + i, g.usn, FTL_Read(g, lbn * P + i))) \in S
    OBVIOUS
  <2>2. lbn * P + i \in Nat
    <3>1. lbn \in Nat /\ i \in Nat
      BY Constants DEF Lbn
    <3>2. lbn * P \in Nat
      BY <3>1, Products
    <3> QED BY <3>1, <3>2
  <2>3. FTL_Read(g, lbn * P + i) \in Val
    BY <2>1, <2>2, QuietHeld, ReadTyped
  <2>4. User(lbn * P + i, g.usn, FTL_Read(g, lbn * P + i)) \in Page
    BY <2>2, <2>3, PageTypes DEF State
  <2>5. Quiet(f, VFL_Write(g, dest, i, User(lbn * P + i, g.usn, FTL_Read(g, lbn * P + i))))
    BY <2>1, <2>4, WriteQuiet, QuietTrans
  <2> QED BY <2>5 DEF Quiet
<1>2. x \in S
  BY DEF Quiet, State
<1> HIDE DEF S, x
<1>3. m \in Nat /\ x \in T[0] /\ \A i \in 0..m - 1 : \A s \in T[i] : page(s, i) \in T[i + 1]
  <2>1. m \in Nat
    BY Constants
  <2>2. 0 \in 0..m /\ \A i \in 0..m - 1 : i \in 0..m /\ i + 1 \in 0..m
    BY <2>1
  <2> HIDE DEF m, page
  <2> QED BY <2>1, <2>2, <1>1, <1>2
<1> DEFINE phi == [i \in 0..m - 1 |-> [s \in T[i] |-> page(s, i)]]
           run == CHOOSE r : r = [i \in 0..m |->
                                    IF i = 0 THEN x ELSE page(r[i - 1], i - 1)]
<1> HIDE DEF T, page
<1>10. Within(m, T, phi)
  BY <1>3 DEF Within
<1> HIDE DEF phi
<1>11. PICK r : Runs(r, m, x, phi) /\ \A i \in 0..m : r[i] \in T[i]
  BY <1>3, <1>10, LoopRuns
<1>12. \A i \in 0..m : i # 0 => phi[i - 1][r[i - 1]] = page(r[i - 1], i - 1)
  <2>1. SUFFICES ASSUME NEW i \in 0..m, i # 0
                 PROVE  phi[i - 1][r[i - 1]] = page(r[i - 1], i - 1)
    OBVIOUS
  <2>2. i - 1 \in 0..m - 1 /\ i - 1 \in 0..m
    BY <1>3, <2>1
  <2> QED BY <1>11, <2>2 DEF phi
<1>13. r = [i \in 0..m |-> IF i = 0 THEN x ELSE page(r[i - 1], i - 1)]
  BY <1>11, <1>12 DEF Runs
<1>14. run = [i \in 0..m |-> IF i = 0 THEN x ELSE page(run[i - 1], i - 1)]
  BY <1>13
<1> HIDE DEF run
<1>15. run[0] = x /\ \A i \in 0..m - 1 : run[i + 1] = page(run[i], i)
  BY <1>3, <1>14
<1>16. run[m] \in T[m]
  BY <1>3, <1>15, LoopStays
<1>17. Loop(page, m, x) = run[m]
  BY DEF Loop, run
<1>20. run[m] \in S
  BY <1>3, <1>16 DEF T
<1>21. copyPages(f, lbn, dest) = Loop(page, m, x)
  BY DEF copyPages, page, x, m
<1> QED BY <1>17, <1>20, <1>21 DEF S

LEMMA CopyBlock ==
  ASSUME NEW f \in State, f.st = "ok", NEW H, NEW n, Held(f, H, n), NEW lbn \in Lbn, NEW dest
  PROVE  Quiet(f, ftl_copy_block(f, lbn, dest))
<1> DEFINE e == [f EXCEPT !.usn = Wrap(@ + 1)]
           g == copyPages(e, lbn, dest)
           h == VFL_Erase(g, dest)
<1>1. Quiet(f, e)
  BY NextUsn
<1>2. e \in State /\ e.st = "ok"
  <2>1. e.st = f.st
    BY DEF State
  <2> HIDE DEF e
  <2> QED BY <1>1, <2>1 DEF Quiet
<1> HIDE DEF e
<1>3. Held(e, H, n)
  BY <1>1, QuietHeld
<1>4. Quiet(f, g) /\ g \in State
  <2>1. Quiet(e, g)
    BY <1>2, <1>3, CopyPages
  <2> HIDE DEF g
  <2> QED BY <1>1, <2>1, QuietTrans DEF Quiet
<1> HIDE DEF g
<1>5. Quiet(f, h) /\ h \in State
  <2>1. Quiet(g, h)
    BY <1>4, EraseQuiet
  <2> HIDE DEF h
  <2> QED BY <1>4, <2>1, QuietTrans DEF Quiet
<1> HIDE DEF h
<1>6. Quiet(f, Fail(h))
  BY <1>5, FailQuiet, QuietTrans
<1> QED BY <1>4, <1>6 DEF ftl_copy_block, h, g, e

-----------------------------------------------------------------------------
(* Filling a log: of the tables only its row changes, and not its block.   *)
Fills(f, k, g) ==
  /\ g \in State
  /\ g.st = "ok" => f.st = "ok"
  /\ g.ok => g.st = "ok"
  /\ SamePool(f, g) /\ g.ret = f.ret
  /\ \A j \in LogSlot \ {k} : g.log[j] = f.log[j]

LEMMA LogSlots == Log \subseteq LogSlot /\ Backup \in LogSlot /\ Backup \notin Log
BY Constants DEF Log, LogSlot, Backup

LEMMA OkQuiet ==
  ASSUME NEW f \in State, f.st = "ok"
  PROVE  Quiet(f, [f EXCEPT !.ok = TRUE])
BY DEF Quiet, State

LEMMA QuietFills ==
  ASSUME NEW f, NEW g, Quiet(f, g), NEW k
  PROVE  Fills(f, k, g)
BY DEF Quiet, Fills, SamePool

LEMMA FillsTrans ==
  ASSUME NEW f, NEW g, NEW h, NEW k, Fills(f, k, g), Fills(g, k, h)
  PROVE  Fills(f, k, h)
BY DEF Fills, SamePool

LEMMA FillsHeld ==
  ASSUME NEW f, NEW g, NEW k, Fills(f, k, g), NEW H, NEW n, Held(f, H, n)
  PROVE  Held(g, H, n)
BY HeldSame DEF Fills

LEMMA PutRow ==
  ASSUME NEW f \in State, f.ok => f.st = "ok", NEW k \in Log, NEW row \in LogRow,
         row.vbn = f.log[k].vbn, row.lbn = f.log[k].lbn
  PROVE  /\ Fills(f, k, [f EXCEPT !.log[k] = row])
         /\ [f EXCEPT !.log[k] = row].log[k] = row
<1> DEFINE g == [f EXCEPT !.log[k] = row]
<1>1. k \in LogSlot
  BY LogSlots
<1>2. f.log \in [LogSlot -> LogRow]
  BY DEF State, Rows
<1>3. [f.log EXCEPT ![k] = row] \in Rows
  BY <1>1, <1>2 DEF Rows
<1>4. g \in State
  BY <1>3 DEF State
<1>5. /\ g.log = [f.log EXCEPT ![k] = row] /\ g.st = f.st /\ g.ok = f.ok /\ g.map = f.map
      /\ g.free = f.free /\ g.nextFree = f.nextFree /\ g.numFree = f.numFree
      /\ g.ctrl = f.ctrl /\ g.ret = f.ret
  BY DEF State
<1> HIDE DEF g
<1>6. g.log[k] = row /\ \A j \in LogSlot \ {k} : g.log[j] = f.log[j]
  BY <1>1, <1>2, <1>5
<1>7. \A j \in Log : j \in LogSlot
  BY LogSlots
<1>8. SamePool(f, g)
  BY <1>5, <1>6, <1>7 DEF SamePool
<1> QED BY <1>4, <1>5, <1>6, <1>8 DEF Fills, g

LEMMA RowOf ==
  ASSUME NEW f \in State, NEW k \in LogSlot
  PROVE  /\ f.log[k] \in LogRow
         /\ f.log[k].used \in 0..P /\ f.log[k].current \in 0..P
         /\ f.log[k].current <= f.log[k].used
         /\ f.log[k].vbn \in BlockN /\ f.log[k].lbn \in Lbn \cup {None}
         /\ f.log[k].off \in [Offset -> Offset \cup {None}] /\ f.log[k].seq \in BOOLEAN
         /\ f.log[k].usn \in Usn
BY DEF State, Rows, LogRow, LogRec, BlockN, Usn

LEMMA PageNumber ==
  ASSUME NEW lbn \in Lbn, NEW i \in Nat
  PROVE  lbn * P + i \in Nat
<1>1. lbn \in Nat
  BY DEF Lbn
<1>2. lbn * P \in Nat
  BY <1>1, Products
<1> QED BY <1>2

LEMMA CompactPages ==
  ASSUME NEW f \in State, f.st = "ok", NEW k \in Log, f.log[k].used = 0,
         f.log[k].lbn \in Lbn, NEW src \in Block
  PROVE  Fills(f, k, compactPages(f, k, src))
<1> DEFINE m == P
           x == [f EXCEPT !.ok = TRUE]
           cp(g, i) == ftl_copy_page(g, src, g.log[k].off[i], g.log[k].vbn, g.log[k].used,
                                    g.log[k].lbn * P + i)
           adv(l, i) == [l EXCEPT !.off[i] = l.used, !.used = @ + 1, !.current = @ + 1]
           row(l, i) == [adv(l, i) EXCEPT !.seq = Sequential(adv(l, i), i)]
           page(g, i) ==
             IF ~g.ok \/ g.log[k].off[i] = None THEN g
             ELSE IF cp(g, i).ok
             THEN [cp(g, i) EXCEPT !.log[k] = row(g.log[k], i)]
             ELSE cp(g, i)
           S == {g \in State : Fills(f, k, g)}
           T == [i \in 0..m |-> {g \in S : g.log[k].used <= i}]
<1>1. ASSUME NEW i \in 0..m - 1, NEW g \in S, g.log[k].used <= i
      PROVE  page(g, i) \in S /\ page(g, i).log[k].used <= i + 1
  <2>1. /\ g.log[k] \in LogRow /\ g.log[k].used \in 0..P /\ g.log[k].current \in 0..P
        /\ g.log[k].current <= g.log[k].used
        /\ g.log[k].off \in [Offset -> Offset \cup {None}]
    BY RowOf, LogSlots
  <2>2. CASE ~g.ok \/ g.log[k].off[i] = None
    <3>1. page(g, i) = g
      BY <2>2
    <3>2. g.log[k].used <= i + 1
      BY <2>1, <1>1, Constants
    <3> HIDE DEF page, S
    <3> QED BY <3>1, <3>2
  <2>3. CASE g.ok /\ g.log[k].off[i] # None
    <3> DEFINE l == g.log[k]
               hh == cp(g, i)
               w == [hh EXCEPT !.log[k] = row(l, i)]
    <3>1. l.off[i] \in Offset /\ i \in Offset
      BY <2>1, <2>3, Constants DEF Offset
    <3>2. l.lbn = f.log[k].lbn
      BY DEF Fills, SamePool
    <3>3. l.lbn * P + i \in Nat
      BY <3>2, PageNumber, Constants
    <3>4. g.st = "ok"
      BY <2>3 DEF Fills
    <3>5. Quiet(g, hh)
      BY <3>1, <3>3, <3>4, CopyPage
    <3>6. row(l, i) \in LogRow /\ row(l, i).vbn = l.vbn /\ row(l, i).lbn = l.lbn
          /\ row(l, i).used = l.used + 1
      <4>1. l.used \in Offset /\ l.used + 1 \in 0..P /\ l.current + 1 \in 0..P
            /\ l.current + 1 <= l.used + 1
        <5>1. l.used \in Nat /\ l.current \in Nat /\ l.current <= l.used /\ l.used <= i
          BY <2>1, <1>1
        <5>2. i \in Nat /\ i < P /\ P \in Nat
          BY Constants
        <5> HIDE DEF l
        <5> QED BY <5>1, <5>2 DEF Offset
      <4>2. [l.off EXCEPT ![i] = l.used] \in [Offset -> Offset \cup {None}]
        BY <2>1, <4>1
      <4> HIDE DEF l
      <4>3. /\ adv(l, i) \in LogRow /\ adv(l, i).vbn = l.vbn /\ adv(l, i).lbn = l.lbn
            /\ adv(l, i).used = l.used + 1
        BY <2>1, <4>1, <4>2 DEF LogRow, LogRec, l
      <4> DEFINE s == adv(l, i)
      <4> HIDE DEF adv
      <4>4. Sequential(s, i) \in BOOLEAN
        BY DEF Sequential
      <4> QED BY <4>3, <4>4 DEF LogRow, LogRec
    <3>7. Fills(g, k, hh)
      BY <3>5, QuietFills
    <3> HIDE DEF row
    <3>8. hh \in State /\ (hh.ok => hh.st = "ok") /\ hh.log = g.log
      BY <3>5 DEF Quiet
    <3> HIDE DEF hh, l
    <3>9. Fills(hh, k, w) /\ w.log[k].used = l.used + 1
      BY <3>6, <3>8, PutRow DEF l
    <3> HIDE DEF w
    <3>10. Fills(f, k, w) /\ Fills(f, k, hh)
      BY <3>7, <3>9, FillsTrans
    <3>11. w \in S /\ hh \in S /\ hh.log[k].used = l.used
      BY <3>10, <3>8 DEF Fills, l
    <3>12. page(g, i) = IF hh.ok THEN w ELSE hh
      BY <2>3 DEF hh, w, l
    <3>13. l.used + 1 <= i + 1 /\ l.used <= i + 1
      BY <1>1, <2>1, Constants DEF l
    <3> HIDE DEF page, S
    <3> QED BY <3>9, <3>11, <3>12, <3>13
  <2> QED BY <2>2, <2>3
<1>2. x \in S /\ x.log[k].used <= 0
  <2>1. Quiet(f, x)
    BY OkQuiet
  <2> HIDE DEF x
  <2> QED BY <2>1, QuietFills DEF Quiet
<1> HIDE DEF S, x
<1>3. m \in Nat /\ x \in T[0] /\ \A i \in 0..m - 1 : \A s \in T[i] : page(s, i) \in T[i + 1]
  <2>1. m \in Nat
    BY Constants
  <2>2. 0 \in 0..m /\ \A i \in 0..m - 1 : i \in 0..m /\ i + 1 \in 0..m
    BY <2>1
  <2> HIDE DEF m, page
  <2> QED BY <2>1, <2>2, <1>1, <1>2
<1> DEFINE phi == [i \in 0..m - 1 |-> [s \in T[i] |-> page(s, i)]]
           run == CHOOSE r : r = [i \in 0..m |->
                                    IF i = 0 THEN x ELSE page(r[i - 1], i - 1)]
<1> HIDE DEF T, page
<1>10. Within(m, T, phi)
  BY <1>3 DEF Within
<1> HIDE DEF phi
<1>11. PICK r : Runs(r, m, x, phi) /\ \A i \in 0..m : r[i] \in T[i]
  BY <1>3, <1>10, LoopRuns
<1>12. \A i \in 0..m : i # 0 => phi[i - 1][r[i - 1]] = page(r[i - 1], i - 1)
  <2>1. SUFFICES ASSUME NEW i \in 0..m, i # 0
                 PROVE  phi[i - 1][r[i - 1]] = page(r[i - 1], i - 1)
    OBVIOUS
  <2>2. i - 1 \in 0..m - 1 /\ i - 1 \in 0..m
    BY <1>3, <2>1
  <2> QED BY <1>11, <2>2 DEF phi
<1>13. r = [i \in 0..m |-> IF i = 0 THEN x ELSE page(r[i - 1], i - 1)]
  BY <1>11, <1>12 DEF Runs
<1>14. run = [i \in 0..m |-> IF i = 0 THEN x ELSE page(run[i - 1], i - 1)]
  BY <1>13
<1> HIDE DEF run
<1>15. run[0] = x /\ \A i \in 0..m - 1 : run[i + 1] = page(run[i], i)
  BY <1>3, <1>14
<1>16. run[m] \in T[m]
  BY <1>3, <1>15, LoopStays
<1>17. Loop(page, m, x) = run[m]
  BY DEF Loop, run
<1>20. run[m] \in S
  BY <1>3, <1>16 DEF T
<1>21. compactPages(f, k, src) = Loop(page, m, x)
  BY DEF compactPages, page, x, m, cp, adv, row
<1> QED BY <1>17, <1>20, <1>21 DEF S

-----------------------------------------------------------------------------
(* The blocks are all in their places, unless the power is off.            *)
Sound(f) == f \in State /\ (f.st = "ok" => Held(f, {}, 0))

LEMMA KeepsSound ==
  ASSUME NEW f, NEW g, Sound(f), Keeps(f, g)
  PROVE  Sound(g)
BY DEF Sound, Keeps

LEMMA QuietSound ==
  ASSUME NEW f, NEW g, Sound(f), Quiet(f, g)
  PROVE  Sound(g)
BY QuietHeld DEF Sound, Quiet

(* A block in hand that is also in the ring is not in hand.                *)
LEMMA HeldRing ==
  ASSUME NEW f, NEW H, NEW n, Held(f, H, n), NEW b, \E i \in Ring(f) : f.free[i] = b
  PROVE  Held(f, H \ {b}, n)
BY DEF Held

(* The row of a log is replaced as a whole.                                *)
LEMMA NewRow ==
  ASSUME NEW f \in State, NEW k \in Log, NEW row \in LogRow
  PROVE  LET g == [f EXCEPT !.log[k] = row]
         IN  /\ g \in State /\ SameButLog(f, g) /\ g.log[k] = row /\ g.st = f.st
             /\ g.ok = f.ok /\ g.ret = f.ret /\ g.usn = f.usn
             /\ \A j \in LogSlot \ {k} : g.log[j] = f.log[j]
<1> DEFINE g == [f EXCEPT !.log[k] = row]
<1>1. k \in LogSlot
  BY LogSlots
<1>2. f.log \in [LogSlot -> LogRow]
  BY DEF State, Rows
<1>3. [f.log EXCEPT ![k] = row] \in Rows
  BY <1>1, <1>2 DEF Rows
<1>4. g \in State
  BY <1>3 DEF State
<1>5. /\ g.log = [f.log EXCEPT ![k] = row] /\ g.st = f.st /\ g.ok = f.ok /\ g.map = f.map
      /\ g.free = f.free /\ g.nextFree = f.nextFree /\ g.numFree = f.numFree
      /\ g.ctrl = f.ctrl /\ g.ret = f.ret /\ g.usn = f.usn
  BY DEF State
<1> QED BY <1>1, <1>2, <1>4, <1>5 DEF SameButLog

(* A compaction that has still to be done: the row of the log is saved.    *)
Compacting(f, k) ==
  /\ Sound(f)
  /\ f.st = "ok" => /\ f.log[k].vbn # None
                    /\ f.log[Backup].vbn = f.log[k].vbn
                    /\ f.log[Backup].lbn = f.log[k].lbn

LEMMA TryCompact ==
  ASSUME ~EraseFails, NEW k \in Log, NEW error \in BOOLEAN, NEW f, Compacting(f, k),
         NEW s, s = tryCompact(f, k, error)
  PROVE  /\ s \in Tried(State) /\ Sound(s.f)
         /\ ~s.over => Compacting(s.f, k)
<1> DEFINE old == f.log[Backup]
           g == ftl_get_free_vb(f)
           row == [g.log[k] EXCEPT !.used = 0, !.vbn = g.ret, !.current = 0, !.seq = TRUE]
           h == [g EXCEPT !.log[k] = row]
           c == compactPages(h, k, old.vbn)
           d == ftl_set_free_vb(c, c.log[k].vbn)
           back == [i \in Offset |-> IF i < P \div 2 THEN old.off[i] ELSE c.log[k].off[i]]
           new == [old EXCEPT !.off = back]
           e == [d EXCEPT !.log[k] = new]
           z == ftl_set_free_vb(c, old.vbn)
<1>1. f \in State
  BY DEF Compacting, Sound
<1>2. /\ g \in State /\ g.st = f.st /\ (g.ok => g.st = "ok") /\ g.log = f.log
      /\ (f.st = "ok" => Held(g, IF g.ok THEN {} \cup {g.ret} ELSE {}, IF g.ok THEN 1 ELSE 0))
  <2>1. \A H : \A n \in Nat :
              Held(f, H, n) => Held(g, IF g.ok THEN H \cup {g.ret} ELSE H,
                                       IF g.ok THEN n + 1 ELSE n)
    BY <1>1, GetFree
  <2>2. f.st = "ok" => Held(g, IF g.ok THEN {} \cup {g.ret} ELSE {}, IF g.ok THEN 0 + 1 ELSE 0)
    BY <2>1 DEF Compacting, Sound
  <2> QED BY <1>1, <2>2, GetFree
<1>3. s = IF ~g.ok THEN Over(g) ELSE endCompact(c, k, error)
  BY <1>2 DEF tryCompact, compactInto, startCompact
<1> HIDE DEF g
<1>4. CASE ~g.ok
  <2>1. Sound(g)
    BY <1>2, <1>4 DEF Sound
  <2>2. s = Over(g)
    BY <1>3, <1>4
  <2> QED BY <1>2, <2>1, <2>2 DEF Over, Tried
<1>5. CASE g.ok
  <2>1. /\ f.st = "ok" /\ g.st = "ok" /\ Held(g, {g.ret}, 1) /\ g.ret \in Block
        /\ Held(f, {}, 0)
    BY <1>2, <1>5 DEF Compacting, Sound, State
  <2>2. /\ old \in LogRow /\ old.vbn \in Block /\ old.vbn = f.log[k].vbn
        /\ old.lbn = f.log[k].lbn /\ f.log[k].lbn \in Lbn /\ f.log[k].vbn # None
    <3>1. /\ f.log[k].vbn # None /\ old.vbn = f.log[k].vbn
          /\ old.lbn = f.log[k].lbn
      BY <2>1 DEF Compacting
    <3>2. old \in LogRow /\ old.vbn \in BlockN
      BY <1>1, RowOf, LogSlots
    <3> QED BY <3>1, <3>2, <2>1 DEF Held, BlockN
  <2>3. row \in LogRow /\ row.vbn = g.ret /\ row.lbn = f.log[k].lbn /\ row.used = 0
    <3>1. g.log[k] \in LogRow /\ g.log[k].lbn = f.log[k].lbn
      BY <1>2, RowOf, LogSlots
    <3>2. 0 \in 0..P /\ 0 <= 0 /\ g.ret \in Block \cup {None}
      BY <2>1, Constants
    <3>3. row \in LogRec /\ row.current <= row.used /\ row.vbn = g.ret /\ row.lbn = f.log[k].lbn
          /\ row.used = 0
      BY <3>1, <3>2 DEF LogRow, LogRec
    <3> HIDE DEF row
    <3> QED BY <3>3 DEF LogRow
  <2> HIDE DEF row
  <2>4. /\ h \in State /\ h.st = "ok" /\ SameButLog(g, h) /\ h.log[k] = row
        /\ \A j \in LogSlot \ {k} : h.log[j] = g.log[j]
    BY <1>2, <2>1, <2>3, NewRow
  <2> HIDE DEF h, old
  <2>5. Held(h, {old.vbn}, 1)
    <3>1. Held(h, ({g.ret} \ {g.ret}) \cup {g.log[k].vbn}, 1)
      <4>1. \A j \in Log \ {k} : h.log[j] = g.log[j]
        BY <2>4, LogSlots
      <4> QED BY <1>2, <2>1, <2>2, <2>3, <2>4, <4>1, HeldMoveLog
    <3> QED BY <3>1, <1>2, <2>2, HeldMore
  <2>6. Fills(h, k, c)
    BY <2>2, <2>3, <2>4, CompactPages
  <2> HIDE DEF c
  <2>7. /\ c \in State /\ c.log[k].vbn = g.ret /\ c.log[k].lbn = f.log[k].lbn
        /\ c.log[Backup] = old /\ c.numFree < Pool /\ Held(c, {old.vbn}, 1)
    <3>1. /\ c \in State /\ c.log[k].vbn = g.ret /\ c.log[k].lbn = f.log[k].lbn
      BY <2>3, <2>4, <2>6 DEF Fills, SamePool
    <3>2. Held(c, {old.vbn}, 1)
      BY <2>5, <2>6, FillsHeld
    <3>3. c.numFree < Pool
      BY <3>1, <3>2, HeldCount, Constants DEF State
    <3>4. c.log[Backup] = h.log[Backup] /\ h.log[Backup] = g.log[Backup]
      BY <2>4, <2>6, LogSlots DEF Fills
    <3> QED BY <3>1, <3>2, <3>3, <3>4, <1>2 DEF old
  <2>8. Sound(z)
    <3>1. /\ z \in State
          /\ z.st = "ok" => Held(z, {old.vbn} \ {old.vbn}, 1 - 1)
      <4>1. old.vbn \in BlockN
        BY <2>2 DEF BlockN
      <4>2. z = ftl_set_free_vb(c, old.vbn)
        OBVIOUS
      <4> HIDE DEF z
      <4>3. z \in State /\ \A H : \A n \in Int : Held(c, H, n) /\ z.st = "ok"
                                      => Held(z, H \ {old.vbn}, n - 1)
        BY <2>2, <2>7, <4>1, <4>2, SetFree
      <4> QED BY <2>7, <4>3
    <3>2. z.st = "ok" => Held(z, {}, 0)
      BY <3>1, HeldMore
    <3> QED BY <3>1, <3>2 DEF Sound
  <2>9. /\ d \in State /\ d.log = c.log
        /\ d.st = "ok" => Held(d, {old.vbn}, 0) /\ \E j \in Ring(d) : d.free[j] = g.ret
    <3>1. g.ret \in BlockN
      BY <2>1 DEF BlockN
    <3>2. /\ d \in State /\ d.log = c.log
          /\ d.st = "ok" => Held(d, {old.vbn} \ {g.ret}, 1 - 1)
          /\ d.st = "ok" => \E j \in Ring(d) : d.free[j] = g.ret
      <4>1. d = ftl_set_free_vb(c, g.ret)
        BY <2>7
      <4> HIDE DEF d
      <4> QED BY <2>1, <2>7, <3>1, <4>1, SetFree
    <3>3. 1 - 1 = 0
      OBVIOUS
    <3> QED BY <3>2, <3>3, HeldMore
  <2> HIDE DEF d, z
  <2>10. new \in LogRow /\ new.vbn = old.vbn /\ new.lbn = old.lbn
    <3>1. old.off \in [Offset -> Offset \cup {None}] /\ c.log[k].off \in [Offset -> Offset \cup {None}]
      BY <2>7, <1>1, RowOf, LogSlots DEF old
    <3>2. back \in [Offset -> Offset \cup {None}]
      BY <3>1
    <3> HIDE DEF back
    <3> QED BY <2>2, <3>2 DEF LogRow, LogRec
  <2> HIDE DEF new
  <2>11. /\ e \in State /\ e.st = d.st /\ SameButLog(d, e) /\ e.log[k] = new
         /\ \A j \in LogSlot \ {k} : e.log[j] = d.log[j]
    BY <2>9, <2>10, NewRow
  <2> HIDE DEF e
  <2>12. e.st = "ok" => Held(e, {}, 0)
    <3>1. SUFFICES ASSUME e.st = "ok" PROVE Held(e, {}, 0)
      OBVIOUS
    <3>2. \A j \in Log \ {k} : e.log[j] = d.log[j]
      BY <2>11, LogSlots
    <3>3. Held(d, {old.vbn}, 0) /\ d.log[k].vbn = g.ret /\ g.ret # None
          /\ e.log[k].vbn = old.vbn /\ e.log[k].lbn \in Lbn
      BY <3>1, <2>1, <2>2, <2>7, <2>9, <2>10, <2>11, Constants DEF Block
    <3>4. Held(e, ({old.vbn} \ {old.vbn}) \cup {d.log[k].vbn}, 0)
      BY <2>2, <2>9, <2>11, <3>2, <3>3, HeldMoveLog
    <3>5. Held(e, {g.ret}, 0)
      BY <3>3, <3>4, HeldMore
    <3>6. \E j \in Ring(e) : e.free[j] = g.ret
      BY <3>1, <2>9, <2>11 DEF SameButLog, Ring
    <3>7. Held(e, {g.ret} \ {g.ret}, 0)
      BY <3>5, <3>6, HeldRing
    <3> QED BY <3>7, HeldMore
  <2>13. Compacting(Fail(e), k)
    <3>1. e.log[Backup] = old
      BY <2>7, <2>9, <2>11, LogSlots
    <3>2. Sound(e)
      BY <2>11, <2>12 DEF Sound
    <3>3. Quiet(e, Fail(e))
      BY <2>11, FailQuiet
    <3>4. Sound(Fail(e))
      BY <3>2, <3>3, QuietSound
    <3>5. Fail(e).log = e.log
      BY <3>3 DEF Quiet
    <3>6. old.vbn # None
      BY <2>2
    <3> QED BY <3>1, <3>4, <3>5, <3>6, <2>10, <2>11 DEF Compacting
  <2>14. s = IF error \/ ~c.ok \/ c.log[k].current # old.current THEN Again(e) ELSE Over(z)
    BY <1>3, <1>5, <2>7 DEF endCompact, undoCompact, z, e, d, new
  <2>15. Sound(Fail(e)) /\ Fail(e) \in State /\ z \in State
    BY <2>8, <2>13 DEF Compacting, Sound
  <2> QED BY <2>8, <2>13, <2>14, <2>15 DEF Again, Over, Tried
<1> QED BY <1>4, <1>5


LEMMA DropRow ==
  ASSUME NEW f \in State, NEW k \in Log
  PROVE  LET g == [f EXCEPT !.log[k].vbn = None]
         IN  /\ g \in State /\ SameButLog(f, g) /\ g.log[k].vbn = None /\ g.st = f.st
             /\ g.ok = f.ok /\ g.ret = f.ret /\ \A j \in LogSlot \ {k} : g.log[j] = f.log[j]
<1> DEFINE row == [f.log[k] EXCEPT !.vbn = None]
<1>1. row \in LogRow /\ row.vbn = None
  <2>1. f.log[k] \in LogRow
    BY RowOf, LogSlots
  <2> QED BY <2>1 DEF LogRow, LogRec
<1>2. [f EXCEPT !.log[k].vbn = None] = [f EXCEPT !.log[k] = row]
  OBVIOUS
<1> HIDE DEF row
<1> QED BY <1>1, <1>2, NewRow

(* A log in use leaves room in the ring for its block.                     *)
LEMMA RoomInPool ==
  ASSUME NEW f \in State, NEW H, NEW n \in Int, n >= 0, Held(f, H, n),
         n > 0 \/ Used(f) # {}
  PROVE  f.numFree < Pool
<1>1. /\ IsFiniteSet(Used(f)) /\ Cardinality(Used(f)) \in 0..NumLogs
      /\ f.numFree = Pool - n - Cardinality(Used(f))
  BY HeldCount
<1>2. Used(f) # {} => Cardinality(Used(f)) # 0
  BY <1>1, FS_EmptySet
<1> QED BY <1>1, <1>2, Constants

LEMMA CompactScattered ==
  ASSUME ~EraseFails, NEW k \in Log, NEW f, Sound(f), f.st = "ok", f.log[k].vbn # None
  PROVE  Sound(ftl_compact_scattered(f, k))
<1>1. f \in State /\ Held(f, {}, 0)
  BY DEF Sound
<1>2. f.log[k].vbn \in Block /\ f.log[k].vbn \in BlockN
  BY <1>1, RowOf, LogSlots DEF BlockN
<1>3. CASE f.log[k].current = 0
  <2> DEFINE b == f.log[k].vbn
             d == ftl_set_free_vb(f, b)
             y == [d EXCEPT !.log[k].vbn = None]
             e == [d EXCEPT !.log[k].vbn = None, !.ok = TRUE, !.swaps = @ + 1]
  <2>1. /\ d \in State /\ d.log = f.log
        /\ d.st = "ok" => Held(d, {}, 0 - 1) /\ \E j \in Ring(d) : d.free[j] = b
    <3>1. f.numFree < Pool
      BY <1>1, RoomInPool DEF Used
    <3>2. /\ d \in State /\ d.log = f.log
          /\ \A H : \A n \in Int : Held(f, H, n) /\ d.st = "ok" => Held(d, H \ {b}, n - 1)
          /\ d.st = "ok" => \E j \in Ring(d) : d.free[j] = b
      BY <1>1, <1>2, <3>1, SetFree
    <3>3. d.st = "ok" => Held(d, {} \ {b}, 0 - 1)
      BY <1>1, <3>2
    <3> QED BY <3>2, <3>3, HeldMore
  <2> HIDE DEF d
  <2>2. /\ y \in State /\ SameButLog(d, y) /\ y.log[k].vbn = None /\ y.st = d.st
        /\ \A j \in LogSlot \ {k} : y.log[j] = d.log[j]
    BY <2>1, DropRow
  <2>3. e = [y EXCEPT !.ok = TRUE, !.swaps = @ + 1]
    BY <2>1 DEF State
  <2> HIDE DEF y, e
  <2>4. /\ e \in State /\ e.st = y.st /\ e.log = y.log /\ e.map = y.map /\ e.free = y.free
        /\ e.nextFree = y.nextFree /\ e.numFree = y.numFree /\ e.ctrl = y.ctrl
    <3>1. y.swaps + 1 \in Int
      BY <2>2 DEF State
    <3> QED BY <2>2, <2>3, <3>1 DEF State
  <2>5. e.st = "ok" => Held(e, {}, 0)
    <3>1. SUFFICES ASSUME e.st = "ok" PROVE Held(e, {}, 0)
      OBVIOUS
    <3>2. Held(d, {}, 0 - 1) /\ \E j \in Ring(d) : d.free[j] = b
      BY <2>1, <2>2, <2>4, <3>1
    <3>3. Held(y, {} \cup {d.log[k].vbn}, (0 - 1) + 1)
      <4>1. \A j \in Log \ {k} : y.log[j] = d.log[j]
        BY <2>2, LogSlots
      <4>2. 0 - 1 \in Int /\ d.log[k].vbn # None
        BY <2>1
      <4> QED BY <2>1, <2>2, <3>2, <4>1, <4>2, HeldDropLog
    <3>4. Held(y, {b}, 0)
      <4>1. {} \cup {d.log[k].vbn} = {b} /\ (0 - 1) + 1 = 0
        BY <2>1
      <4> QED BY <3>3, <4>1
    <3>5. \E j \in Ring(y) : y.free[j] = b
      BY <3>2, <2>2 DEF SameButLog, Ring
    <3>6. Held(y, {b} \ {b}, 0)
      BY <3>4, <3>5, HeldRing
    <3>7. Held(y, {}, 0)
      BY <3>6, HeldMore
    <3> QED BY <3>7, <2>4, HeldSame DEF SamePool
  <2>6. Sound(e)
    BY <2>4, <2>5 DEF Sound
  <2> QED BY <1>3, <2>6 DEF ftl_compact_scattered, e, d
<1>4. CASE f.log[k].current # 0
  <2> DEFINE row == f.log[k]
             x == [f EXCEPT !.log[Backup] = row]
             s0 == tryCompact(x, k, FALSE)
             next(s) == IF s.over THEN s ELSE tryCompact(s.f, k, TRUE)
             R == {s \in Tried(State) : Sound(s.f) /\ (~s.over => Compacting(s.f, k))}
  <2>1. Compacting(x, k)
    <3>1. [f.log EXCEPT ![Backup] = row] \in Rows
      BY <1>1, LogSlots DEF State, Rows
    <3>2. x \in State /\ x.log = [f.log EXCEPT ![Backup] = row]
      BY <1>1, <3>1 DEF State
    <3>3. f.log \in [LogSlot -> LogRow]
      BY <1>1 DEF State, Rows
    <3>4. x.log[Backup] = row /\ \A j \in Log : x.log[j] = f.log[j]
      BY <3>2, <3>3, LogSlots
    <3>5. SamePool(f, x)
      BY <3>4, <1>1 DEF SamePool, State
    <3> HIDE DEF x
    <3>6. Held(x, {}, 0)
      BY <3>5, <1>1, HeldSame
    <3> QED BY <3>2, <3>4, <3>6 DEF Compacting, Sound
  <2>2. \A g, error : Compacting(g, k) /\ error \in BOOLEAN => tryCompact(g, k, error) \in R
    <3>1. SUFFICES ASSUME NEW g, NEW error \in BOOLEAN, Compacting(g, k)
                   PROVE  tryCompact(g, k, error) \in R
      OBVIOUS
    <3> DEFINE s == tryCompact(g, k, error)
    <3>2. s \in Tried(State) /\ Sound(s.f) /\ (~s.over => Compacting(s.f, k))
      BY <3>1, TryCompact
    <3> QED BY <3>2
  <2> HIDE DEF x
  <2>3. s0 \in R
    BY <2>1, <2>2
  <2>4. \A s \in R : next(s) \in R
    BY <2>2
  <2> HIDE DEF R, s0, next
  <2>5. next(next(next(s0))) \in R
    BY <2>3, <2>4
  <2>6. Sound(next(next(next(s0))).f)
    BY <2>5 DEF R
  <2> QED BY <1>4, <2>6 DEF ftl_compact_scattered, next, s0, x
<1> QED BY <1>3, <1>4


-----------------------------------------------------------------------------
(* Merging.                                                                *)

(* A free block is taken and filled, or everything is as before.           *)
Copied(f, g) ==
  /\ g \in State /\ g.map = f.map /\ g.log = f.log
  /\ g.st = "ok" => f.st = "ok"
  /\ g.ok => g.st = "ok" /\ Held(g, {g.ret}, 1)
  /\ ~g.ok /\ g.st = "ok" => Held(g, {}, 0)

LEMMA TryCopy ==
  ASSUME ~EraseFails, NEW f, Sound(f), NEW lbn, f.st = "ok" => lbn \in Lbn
  PROVE  Copied(f, tryCopy(f, lbn))
<1> DEFINE freed(g) == IF g.ok THEN Again(g) ELSE Over(g)
           copied(g) == IF g.ok THEN Over(g) ELSE freed(ftl_set_free_vb(g, g.ret))
           try(g) == LET h == ftl_get_free_vb(g)
                     IN  IF h.ok THEN copied(ftl_copy_block(h, lbn, h.ret)) ELSE Over(h)
           next(s) == IF s.over THEN s ELSE try(s.f)
           S == {g \in State : /\ g.map = f.map /\ g.log = f.log
                               /\ g.st = "ok" => f.st = "ok" /\ Held(g, {}, 0)}
           R == {s \in Tried(State) : Copied(f, s.f) /\ (~s.over => s.f \in S)}
<1>1. ASSUME NEW g \in S
      PROVE  try(g) \in R
  <2> DEFINE h == ftl_get_free_vb(g)
             w == ftl_copy_block(h, lbn, h.ret)
             v == ftl_set_free_vb(w, w.ret)
  <2>1. /\ h \in State /\ h.st = g.st /\ (h.ok => h.st = "ok") /\ h.map = f.map /\ h.log = f.log
        /\ h.st = "ok" /\ ~h.ok => Held(h, {}, 0)
        /\ h.ok => Held(h, {h.ret}, 1)
        /\ h.st = "ok" => f.st = "ok"
    <3>1. /\ h \in State /\ h.st = g.st /\ (h.ok => h.st = "ok") /\ h.map = f.map
          /\ h.log = f.log /\ (h.st = "ok" => f.st = "ok")
      BY GetFree
    <3>2. g.st = "ok" => Held(h, IF h.ok THEN {} \cup {h.ret} ELSE {}, IF h.ok THEN 0 + 1 ELSE 0)
      <4>1. \A H : \A n \in Nat : Held(g, H, n) =>
              Held(h, IF h.ok THEN H \cup {h.ret} ELSE H, IF h.ok THEN n + 1 ELSE n)
        BY GetFree
      <4> QED BY <4>1
    <3> HIDE DEF h
    <3>3. {} \cup {h.ret} = {h.ret} /\ 0 + 1 = 1
      OBVIOUS
    <3> QED BY <3>1, <3>2, <3>3
  <2>2. try(g) = IF ~h.ok THEN Over(h) ELSE IF w.ok THEN Over(w)
                 ELSE IF v.ok THEN Again(v) ELSE Over(v)
    OBVIOUS
  <2> HIDE DEF h, try
  <2>3. CASE ~h.ok
    <3>1. Copied(f, h)
      BY <2>1, <2>3 DEF Copied
    <3>2. try(g) = [f |-> h, over |-> TRUE]
      BY <2>2, <2>3 DEF Over
    <3> QED BY <3>1, <3>2, <2>1 DEF Tried
  <2>4. CASE h.ok
    <3>1. h.st = "ok" /\ Held(h, {h.ret}, 1) /\ lbn \in Lbn
      BY <2>1, <2>4
    <3>2. Quiet(h, w)
      BY <2>1, <3>1, CopyBlock
    <3> HIDE DEF w
    <3>3. /\ w \in State /\ w.ret = h.ret /\ Held(w, {w.ret}, 1) /\ (w.ok => w.st = "ok")
          /\ w.map = f.map /\ w.log = f.log
      BY <2>1, <3>1, <3>2, QuietHeld DEF Quiet
    <3>4. w.ok => Copied(f, w)
      BY <2>1, <3>1, <3>3 DEF Copied
    <3>5. /\ v \in State /\ v.map = f.map /\ v.log = f.log
          /\ (v.st = "ok" => v.ok /\ Held(v, {}, 0)) /\ (v.ok => v.st = "ok")
      <4>1. w.ret \in Block /\ w.ret \in BlockN
        BY <3>3 DEF State, BlockN
      <4>2. w.numFree < Pool
        BY <3>3, RoomInPool
      <4>3. /\ v \in State /\ v.map = w.map /\ v.log = w.log
            /\ (v.st = "ok" => v.ok) /\ (v.ok => v.st = "ok")
            /\ \A H : \A n \in Int : Held(w, H, n) /\ v.st = "ok" => Held(v, H \ {w.ret}, n - 1)
        BY <3>3, <4>1, <4>2, SetFree
      <4> HIDE DEF v
      <4>4. v.st = "ok" => Held(v, {w.ret} \ {w.ret}, 1 - 1)
        BY <3>3, <4>3
      <4>5. v.st = "ok" => Held(v, {}, 0)
        BY <4>4, HeldMore
      <4> QED BY <3>3, <4>3, <4>5
    <3> HIDE DEF v
    <3>6. ~v.ok => Copied(f, v)
      BY <3>5 DEF Copied
    <3>7. v.ok => Copied(f, Fail(v)) /\ Fail(v) \in S
      <4>1. Quiet(v, Fail(v)) /\ ~Fail(v).ok
        BY <3>5, FailQuiet DEF Fail, State
      <4>2. v.ok => Held(Fail(v), {}, 0) /\ f.st = "ok"
        BY <4>1, <3>5, <3>1, <2>1, QuietHeld
      <4> QED BY <4>1, <4>2, <3>5 DEF Copied, Quiet
    <3> HIDE DEF S
    <3>8. try(g) = IF w.ok THEN [f |-> w, over |-> TRUE]
                   ELSE IF v.ok THEN [f |-> Fail(v), over |-> FALSE] ELSE [f |-> v, over |-> TRUE]
      BY <2>2, <2>4 DEF Over, Again
    <3>9. v.ok => Fail(v) \in State
      BY <3>7 DEF Copied
    <3> QED BY <3>3, <3>4, <3>5, <3>6, <3>7, <3>8, <3>9 DEF Tried
  <2> QED BY <2>3, <2>4
<1>2. f \in S
  BY DEF Sound
<1>3. tryCopy(f, lbn) = Tries(try, f)
  BY DEF tryCopy
<1> HIDE DEF S, try
<1>4. \A s \in R : next(s) \in R
  BY <1>1
<1>5. try(f) \in R
  BY <1>1, <1>2
<1>6. next(next(try(f))) \in R
  BY <1>4, <1>5
<1>7. \A s \in R : IF s.over THEN Copied(f, s.f) ELSE Copied(f, try(s.f).f)
  BY <1>1
<1>8. Tries(try, f) = LET s == next(next(try(f))) IN IF s.over THEN s.f ELSE try(s.f).f
  BY DEF Tries, Next3
<1> HIDE DEF next, R
<1> QED BY <1>3, <1>6, <1>7, <1>8

(* A log that has been merged is not used any more.                        *)
Merged(g, k) == Sound(g) /\ (g.ok => g.st = "ok" /\ g.log[k].vbn = None)

LEMMA SimpleMerge ==
  ASSUME ~EraseFails, NEW k \in Log, NEW f, Sound(f), f.st = "ok" => f.log[k].vbn # None
  PROVE  Merged(ftl_simple_merge(f, k), k)
<1> DEFINE lbn == f.log[k].lbn
           b == f.log[k].vbn
           o == f.map[lbn]
           c == tryCopy(f, lbn)
           a == ftl_set_free_vb(c, b)
           y == [a EXCEPT !.log[k].vbn = None]
           m == ftl_set_free_vb(y, o)
           z == [m EXCEPT !.map[lbn] = m.ret]
<1>1. f \in State /\ (f.st = "ok" => lbn \in Lbn)
  BY DEF Sound, Held
<1>2. Copied(f, c)
  BY <1>1, TryCopy
<1>3. CASE ~c.ok
  <2>1. ftl_simple_merge(f, k) = c
    BY <1>3 DEF ftl_simple_merge
  <2> HIDE DEF c
  <2> QED BY <1>2, <1>3, <2>1 DEF Merged, Sound, Copied
<1>4. CASE c.ok
  <2> HIDE DEF c
  <2>1. /\ c \in State /\ c.st = "ok" /\ Held(c, {c.ret}, 1) /\ c.map = f.map /\ c.log = f.log
        /\ f.st = "ok"
    BY <1>2, <1>4 DEF Copied
  <2>2. /\ lbn \in Lbn /\ b \in Block /\ b # None /\ o \in Block /\ b \in BlockN /\ o \in BlockN
        /\ c.ret \in Block
    <3>1. b \in BlockN /\ b # None
      BY <1>1, <2>1, RowOf, LogSlots
    <3>2. f.map \in [Lbn -> Block]
      BY <2>1 DEF Held
    <3> QED BY <1>1, <2>1, <3>1, <3>2 DEF BlockN, State
  <2>3. /\ a \in State /\ a.map = f.map /\ a.log = f.log /\ a.ret = c.ret
        /\ (a.st = "ok" => a.ok) /\ (a.ok => a.st = "ok")
        /\ a.st = "ok" => Held(a, {c.ret}, 0) /\ \E j \in Ring(a) : a.free[j] = b
    <3>1. c.numFree < Pool
      BY <2>1, RoomInPool
    <3>2. /\ a \in State /\ a.map = f.map /\ a.log = f.log /\ a.ret = c.ret
          /\ (a.st = "ok" => a.ok) /\ (a.ok => a.st = "ok")
          /\ \A H : \A n \in Int : Held(c, H, n) /\ a.st = "ok" => Held(a, H \ {b}, n - 1)
          /\ a.st = "ok" => \E j \in Ring(a) : a.free[j] = b
      BY <2>1, <2>2, <3>1, SetFree
    <3> HIDE DEF a
    <3>3. a.st = "ok" => Held(a, {c.ret} \ {b}, 1 - 1)
      BY <2>1, <3>2
    <3>4. a.st = "ok" => Held(a, {c.ret}, 0)
      BY <3>3, HeldMore
    <3> QED BY <3>2, <3>4
  <2>4. CASE ~a.ok
    <3>1. ftl_simple_merge(f, k) = a
      BY <1>4, <2>4 DEF ftl_simple_merge, c
    <3> HIDE DEF a
    <3> QED BY <2>3, <2>4, <3>1 DEF Merged, Sound
  <2>5. CASE a.ok
    <3> HIDE DEF a
    <3>1. a.st = "ok" /\ Held(a, {c.ret}, 0) /\ \E j \in Ring(a) : a.free[j] = b
      BY <2>3, <2>5
    <3>2. /\ y \in State /\ SameButLog(a, y) /\ y.log[k].vbn = None /\ y.st = "ok"
          /\ y.ret = c.ret /\ \A j \in LogSlot \ {k} : y.log[j] = a.log[j]
      BY <2>3, <3>1, DropRow
    <3> HIDE DEF y
    <3>3. Held(y, {c.ret}, 1)
      <4>1. \A j \in Log \ {k} : y.log[j] = a.log[j]
        BY <3>2, LogSlots
      <4>2. a.log[k].vbn = b
        BY <2>3
      <4>3. Held(y, {c.ret} \cup {a.log[k].vbn}, 0 + 1)
        BY <2>2, <2>3, <3>1, <3>2, <4>1, <4>2, HeldDropLog
      <4>4. Held(y, {c.ret} \cup {b}, 1)
        BY <4>2, <4>3
      <4>5. \E j \in Ring(y) : y.free[j] = b
        BY <3>1, <3>2 DEF SameButLog, Ring
      <4>6. Held(y, ({c.ret} \cup {b}) \ {b}, 1)
        BY <4>4, <4>5, HeldRing
      <4> QED BY <4>6, HeldMore
    <3>4. /\ m \in State /\ m.map = f.map /\ m.log = y.log /\ m.ret = c.ret
          /\ (m.st = "ok" => m.ok) /\ (m.ok => m.st = "ok")
          /\ m.st = "ok" => Held(m, {c.ret}, 0) /\ \E j \in Ring(m) : m.free[j] = o
      <4>1. y.numFree < Pool
        BY <3>2, <3>3, RoomInPool
      <4>2. /\ m \in State /\ m.map = y.map /\ m.log = y.log /\ m.ret = c.ret
            /\ (m.st = "ok" => m.ok) /\ (m.ok => m.st = "ok")
            /\ \A H : \A n \in Int : Held(y, H, n) /\ m.st = "ok" => Held(m, H \ {o}, n - 1)
            /\ m.st = "ok" => \E j \in Ring(m) : m.free[j] = o
        <5>1. m = ftl_set_free_vb(y, o)
          OBVIOUS
        <5> HIDE DEF m, o
        <5> QED BY <2>2, <3>2, <4>1, <5>1, SetFree
      <4> HIDE DEF m
      <4>3. m.st = "ok" => Held(m, {c.ret} \ {o}, 1 - 1)
        BY <3>3, <4>2
      <4>4. m.st = "ok" => Held(m, {c.ret}, 0)
        BY <4>3, HeldMore
      <4> QED BY <4>2, <4>4, <3>2, <2>3 DEF SameButLog
    <3>5. CASE ~m.ok
      <4>1. ftl_simple_merge(f, k) = m
        BY <1>4, <2>5, <3>5 DEF ftl_simple_merge, c, a, y
      <4> HIDE DEF m
      <4> QED BY <3>4, <3>5, <4>1 DEF Merged, Sound
    <3>6. CASE m.ok
      <4> HIDE DEF m
      <4>1. m.st = "ok" /\ Held(m, {c.ret}, 0) /\ \E j \in Ring(m) : m.free[j] = o
        BY <3>4, <3>6
      <4>2. [m.map EXCEPT ![lbn] = m.ret] \in [Lbn -> BlockN]
        BY <3>4, <2>2 DEF State, BlockN
      <4>3. /\ z \in State /\ z.map = [m.map EXCEPT ![lbn] = c.ret] /\ z.log = m.log
            /\ z.free = m.free /\ z.nextFree = m.nextFree /\ z.numFree = m.numFree
            /\ z.ctrl = m.ctrl /\ z.st = "ok"
        BY <4>1, <4>2, <3>4 DEF State
      <4> HIDE DEF z
      <4>4. Held(z, ({c.ret} \ {c.ret}) \cup {m.map[lbn]}, 0)
        BY <2>2, <4>1, <4>3, HeldMap
      <4>5. Held(z, {o}, 0)
        <5>1. m.map[lbn] = o
          BY <3>4
        <5> QED BY <4>4, <5>1, HeldMore
      <4>6. \E j \in Ring(z) : z.free[j] = o
        BY <4>1, <4>3 DEF Ring
      <4>7. Held(z, {o} \ {o}, 0)
        BY <4>5, <4>6, HeldRing
      <4>8. Held(z, {}, 0)
        BY <4>7, HeldMore
      <4>9. ftl_simple_merge(f, k) = z
        BY <1>4, <2>5, <3>6 DEF ftl_simple_merge, c, a, y, m, z
      <4> QED BY <3>2, <3>4, <4>3, <4>8, <4>9 DEF Merged, Sound
    <3> QED BY <3>5, <3>6
  <2> QED BY <2>4, <2>5
<1> QED BY <1>3, <1>4


LEMMA CopyRest ==
  ASSUME NEW f \in State, f.st = "ok", NEW k \in Log, f.log[k].lbn \in Lbn,
         f.map \in [Lbn -> Block]
  PROVE  Fills(f, k, copyRest(f, k))
<1> DEFINE m == P - f.log[k].used
           x == [f EXCEPT !.ok = TRUE]
           cp(g) == ftl_copy_page(g, g.map[g.log[k].lbn], g.log[k].used, g.log[k].vbn,
                                  g.log[k].used, g.log[k].lbn * P + g.log[k].used)
           row(l) == [l EXCEPT !.used = @ + 1]
           page(g, i) ==
             IF ~g.ok \/ g.log[k].off[g.log[k].used] # None THEN Fail(g)
             ELSE IF cp(g).ok THEN [cp(g) EXCEPT !.log[k].used = @ + 1] ELSE cp(g)
           S == {g \in State : Fills(f, k, g)}
           T == [i \in 0..m |-> {g \in S : g.log[k].used <= f.log[k].used + i}]
<1>0. f.log[k].used \in 0..P /\ f.log[k].used \in Nat /\ P \in Nat
  BY RowOf, LogSlots, Constants
<1>1. ASSUME NEW i \in 0..m - 1, NEW g \in S, g.log[k].used <= f.log[k].used + i
      PROVE  page(g, i) \in S /\ page(g, i).log[k].used <= f.log[k].used + (i + 1)
  <2>1. /\ g.log[k] \in LogRow /\ g.log[k].used \in 0..P /\ g.log[k].current \in 0..P
        /\ g.log[k].current <= g.log[k].used /\ g.log[k].used \in Nat
    BY RowOf, LogSlots, Constants
  <2>2. g.log[k].used <= f.log[k].used + (i + 1)
    BY <2>1, <1>0, <1>1
  <2>3. CASE ~g.ok \/ g.log[k].off[g.log[k].used] # None
    <3>1. page(g, i) = Fail(g)
      BY <2>3
    <3>2. Quiet(g, Fail(g))
      BY FailQuiet
    <3>3. Fills(f, k, Fail(g)) /\ Fail(g).log = g.log
      BY <3>2, QuietFills, FillsTrans DEF Quiet
    <3> HIDE DEF page
    <3> QED BY <2>2, <3>1, <3>3 DEF Fills
  <2>4. CASE g.ok /\ g.log[k].off[g.log[k].used] = None
    <3> DEFINE l == g.log[k]
               hh == cp(g)
               w == [hh EXCEPT !.log[k] = row(l)]
    <3>1. l.used \in Offset /\ l.used + 1 \in 0..P
      <4>1. i \in Nat /\ i < P - f.log[k].used
        BY <1>0
      <4> QED BY <4>1, <1>0, <1>1, <2>1 DEF Offset
    <3>2. l.lbn = f.log[k].lbn /\ g.map = f.map
      BY DEF Fills, SamePool
    <3>3. l.lbn * P + l.used \in Nat /\ g.map[l.lbn] \in Block
      BY <2>1, <3>2, PageNumber
    <3>4. g.st = "ok"
      BY <2>4 DEF Fills
    <3>5. Quiet(g, hh)
      BY <3>1, <3>3, <3>4, CopyPage
    <3>6. row(l) \in LogRow /\ row(l).vbn = l.vbn /\ row(l).lbn = l.lbn
          /\ row(l).used = l.used + 1
      <4>1. l.current <= l.used + 1
        BY <2>1
      <4> HIDE DEF l
      <4> QED BY <2>1, <3>1, <4>1 DEF LogRow, LogRec, l
    <3>7. Fills(g, k, hh)
      BY <3>5, QuietFills
    <3>8. hh \in State /\ (hh.ok => hh.st = "ok") /\ hh.log = g.log
      BY <3>5 DEF Quiet
    <3>12. page(g, i) = IF hh.ok THEN w ELSE hh
      <4>1. page(g, i) = IF hh.ok THEN [hh EXCEPT !.log[k].used = @ + 1] ELSE hh
        BY <2>4
      <4> HIDE DEF hh, page
      <4> QED BY <4>1, <3>8
    <3> HIDE DEF row
    <3> HIDE DEF hh, l
    <3>9. Fills(hh, k, w) /\ w.log[k].used = l.used + 1
      BY <3>6, <3>8, PutRow DEF l
    <3> HIDE DEF w
    <3>10. Fills(f, k, w) /\ Fills(f, k, hh)
      BY <3>7, <3>9, FillsTrans
    <3>11. w \in S /\ hh \in S /\ hh.log[k].used = l.used
      BY <3>10, <3>8 DEF Fills, l
    <3>13. l.used + 1 <= f.log[k].used + (i + 1) /\ l.used <= f.log[k].used + (i + 1)
      BY <1>0, <1>1, <2>1 DEF l
    <3> HIDE DEF page, S
    <3> QED BY <3>9, <3>11, <3>12, <3>13
  <2> QED BY <2>3, <2>4
<1>2. x \in S /\ x.log[k].used <= f.log[k].used + 0
  <2>1. Quiet(f, x)
    BY OkQuiet
  <2> HIDE DEF x
  <2> QED BY <1>0, <2>1, QuietFills DEF Quiet
<1> HIDE DEF S, x
<1>3. m \in Nat /\ x \in T[0] /\ \A i \in 0..m - 1 : \A s \in T[i] : page(s, i) \in T[i + 1]
  <2>1. m \in Nat
    BY <1>0
  <2>2. 0 \in 0..m /\ \A i \in 0..m - 1 : i \in 0..m /\ i + 1 \in 0..m
    BY <2>1
  <2> HIDE DEF m, page
  <2> QED BY <2>1, <2>2, <1>1, <1>2
<1>21. copyRest(f, k) = Loop(page, m, x)
  BY DEF copyRest, page, x, m, cp
<1> HIDE DEF m
<1> DEFINE phi == [i \in 0..m - 1 |-> [s \in T[i] |-> page(s, i)]]
           run == CHOOSE r : r = [i \in 0..m |->
                                    IF i = 0 THEN x ELSE page(r[i - 1], i - 1)]
<1> HIDE DEF T, page
<1>10. Within(m, T, phi)
  BY <1>3 DEF Within
<1> HIDE DEF phi
<1>11. PICK r : Runs(r, m, x, phi) /\ \A i \in 0..m : r[i] \in T[i]
  BY <1>3, <1>10, LoopRuns
<1>12. \A i \in 0..m : i # 0 => phi[i - 1][r[i - 1]] = page(r[i - 1], i - 1)
  <2>1. SUFFICES ASSUME NEW i \in 0..m, i # 0
                 PROVE  phi[i - 1][r[i - 1]] = page(r[i - 1], i - 1)
    OBVIOUS
  <2>2. i - 1 \in 0..m - 1 /\ i - 1 \in 0..m
    BY <1>3, <2>1
  <2> QED BY <1>11, <2>2 DEF phi
<1>13. r = [i \in 0..m |-> IF i = 0 THEN x ELSE page(r[i - 1], i - 1)]
  BY <1>11, <1>12 DEF Runs
<1>14. run = [i \in 0..m |-> IF i = 0 THEN x ELSE page(run[i - 1], i - 1)]
  BY <1>13
<1> HIDE DEF run
<1>15. run[0] = x /\ \A i \in 0..m - 1 : run[i + 1] = page(run[i], i)
  BY <1>3, <1>14
<1>16. run[m] \in T[m]
  BY <1>3, <1>15, LoopStays
<1>17. Loop(page, m, x) = run[m]
  BY DEF Loop, run
<1>20. run[m] \in S
  BY <1>3, <1>16 DEF T
<1> QED BY <1>17, <1>20, <1>21 DEF S

LEMMA CopyMerge ==
  ASSUME ~EraseFails, NEW k \in Log, NEW f, Sound(f), f.st = "ok", f.log[k].vbn # None
  PROVE  Merged(ftl_copy_merge(f, k), k)
<1> DEFINE lbn == f.log[k].lbn
           b == f.log[k].vbn
           o == f.map[lbn]
           g == copyRest(f, k)
           s == ftl_set_free_vb(g, o)
           y == [s EXCEPT !.log[k].vbn = None]
           z == [y EXCEPT !.map[lbn] = b]
<1>1. /\ f \in State /\ Held(f, {}, 0) /\ lbn \in Lbn /\ f.map \in [Lbn -> Block]
      /\ b \in Block /\ o \in Block /\ o \in BlockN /\ b # None
  <2>1. /\ f \in State /\ Held(f, {}, 0) /\ lbn \in Lbn /\ f.map \in [Lbn -> Block]
    BY DEF Sound, Held
  <2>2. b \in BlockN
    BY <2>1, RowOf, LogSlots
  <2> QED BY <2>1, <2>2 DEF BlockN
<1>2. Fills(f, k, g)
  BY <1>1, CopyRest
<1>3. /\ g \in State /\ Held(g, {}, 0) /\ g.log[k].vbn = b /\ g.map = f.map
      /\ (g.ok => g.st = "ok")
  BY <1>1, <1>2, FillsHeld DEF Fills, SamePool
<1>4. ftl_copy_merge(f, k) =
        IF ~g.ok THEN ftl_simple_merge(g, k)
        ELSE IF s.ok THEN [s EXCEPT !.map[lbn] = b, !.log[k].vbn = None] ELSE s
  BY DEF ftl_copy_merge
<1> HIDE DEF g
<1>5. CASE ~g.ok
  <2>1. Sound(g)
    BY <1>3 DEF Sound
  <2> QED BY <1>1, <1>3, <1>4, <1>5, <2>1, SimpleMerge
<1>6. CASE g.ok
  <2>1. /\ s \in State /\ s.map = f.map /\ s.log = g.log
        /\ (s.st = "ok" => s.ok) /\ (s.ok => s.st = "ok")
        /\ s.st = "ok" => Held(s, {}, 0 - 1) /\ \E j \in Ring(s) : s.free[j] = o
    <3>1. g.numFree < Pool
      BY <1>1, <1>3, RoomInPool DEF Used
    <3>2. /\ s \in State /\ s.map = g.map /\ s.log = g.log
          /\ (s.st = "ok" => s.ok) /\ (s.ok => s.st = "ok")
          /\ \A H : \A n \in Int : Held(g, H, n) /\ s.st = "ok" => Held(s, H \ {o}, n - 1)
          /\ s.st = "ok" => \E j \in Ring(s) : s.free[j] = o
      <4>1. s = ftl_set_free_vb(g, o)
        OBVIOUS
      <4> HIDE DEF s, o
      <4> QED BY <1>1, <1>3, <3>1, <4>1, SetFree
    <3> HIDE DEF s
    <3>3. s.st = "ok" => Held(s, {} \ {o}, 0 - 1)
      BY <1>3, <3>2
    <3>4. s.st = "ok" => Held(s, {}, 0 - 1)
      BY <3>3, HeldMore
    <3> QED BY <3>2, <3>4, <1>3
  <2> HIDE DEF s
  <2>2. CASE ~s.ok
    BY <1>4, <1>6, <2>1, <2>2 DEF Merged, Sound
  <2>3. CASE s.ok
    <3>1. s.st = "ok" /\ Held(s, {}, 0 - 1) /\ \E j \in Ring(s) : s.free[j] = o
      BY <2>1, <2>3
    <3>2. /\ y \in State /\ SameButLog(s, y) /\ y.log[k].vbn = None /\ y.st = "ok"
          /\ \A j \in LogSlot \ {k} : y.log[j] = s.log[j]
      BY <2>1, <3>1, DropRow
    <3>3. [s EXCEPT !.map[lbn] = b, !.log[k].vbn = None] = z
      BY <2>1 DEF State
    <3> HIDE DEF y
    <3>4. Held(y, {b}, 0)
      <4>1. \A j \in Log \ {k} : y.log[j] = s.log[j]
        BY <3>2, LogSlots
      <4>2. s.log[k].vbn = b /\ 0 - 1 \in Int
        BY <1>3, <2>1
      <4>3. Held(y, {} \cup {s.log[k].vbn}, (0 - 1) + 1)
        BY <1>1, <2>1, <3>1, <3>2, <4>1, <4>2, HeldDropLog
      <4>4. {} \cup {s.log[k].vbn} = {b} /\ (0 - 1) + 1 = 0
        BY <4>2
      <4> QED BY <4>3, <4>4
    <3>5. \E j \in Ring(y) : y.free[j] = o
      BY <3>1, <3>2 DEF SameButLog, Ring
    <3>6. [y.map EXCEPT ![lbn] = b] \in [Lbn -> BlockN]
      BY <3>2, <1>1 DEF State, BlockN
    <3>7. /\ z \in State /\ z.map = [y.map EXCEPT ![lbn] = b] /\ z.log = y.log
          /\ z.free = y.free /\ z.nextFree = y.nextFree /\ z.numFree = y.numFree
          /\ z.ctrl = y.ctrl /\ z.st = "ok"
      BY <3>2, <3>6 DEF State
    <3>8. ftl_copy_merge(f, k) = z
      BY <1>4, <1>6, <2>3, <3>3
    <3> HIDE DEF z
    <3>9. Held(z, ({b} \ {b}) \cup {y.map[lbn]}, 0)
      BY <1>1, <3>4, <3>7, HeldMap
    <3>10. Held(z, {o}, 0)
      <4>1. y.map[lbn] = o
        BY <2>1, <3>2 DEF SameButLog
      <4> QED BY <3>9, <4>1, HeldMore
    <3>11. \E j \in Ring(z) : z.free[j] = o
      BY <3>5, <3>7 DEF Ring
    <3>12. Held(z, {o} \ {o}, 0)
      BY <3>10, <3>11, HeldRing
    <3>13. Held(z, {}, 0)
      BY <3>12, HeldMore
    <3> QED BY <3>2, <3>7, <3>8, <3>13 DEF Merged, Sound
  <2> QED BY <2>2, <2>3
<1> QED BY <1>5, <1>6


LEMMA OldestUsed ==
  ASSUME NEW f \in State, Used(f) # {}
  PROVE  Oldest(f) \in Used(f)
<1> DEFINE old == {k \in Used(f) : \A j \in Used(f) : f.log[k].usn <= f.log[j].usn}
           top == {k \in old : \A j \in old : f.log[k].current >= f.log[j].current}
           usns == {f.log[k].usn : k \in Used(f)}
           gaps == {P - f.log[k].current : k \in old}
<1>1. \A k \in Used(f) : k \in Log /\ f.log[k].usn \in Nat /\ f.log[k].current \in 0..P
  <2>1. \A k \in Used(f) : k \in LogSlot /\ k \in Log
    BY LogSlots DEF Used
  <2> QED BY <2>1, RowOf DEF Usn
<1>2. old # {}
  <2>1. usns \subseteq Nat /\ usns # {}
    BY <1>1
  <2>2. PICK x \in usns : \A y \in usns : x <= y
    <3> HIDE DEF usns
    <3> QED BY <2>1, LeastMember
  <2> QED BY <2>2
<1>3. top # {}
  <2>1. gaps \subseteq Nat /\ gaps # {}
    <3>1. \A k \in old : P - f.log[k].current \in Nat
      BY <1>1, Constants
    <3> QED BY <1>2, <3>1
  <2>2. PICK x \in gaps : \A y \in gaps : x <= y
    <3> HIDE DEF gaps
    <3> QED BY <2>1, LeastMember
  <2>3. PICK k \in old : x = P - f.log[k].current
    BY <2>2
  <2>4. \A j \in old : f.log[k].current >= f.log[j].current
    <3>1. SUFFICES ASSUME NEW j \in old PROVE f.log[k].current >= f.log[j].current
      OBVIOUS
    <3>2. P - f.log[k].current <= P - f.log[j].current
      BY <2>2, <2>3
    <3>3. f.log[k].current \in 0..P /\ f.log[j].current \in 0..P /\ P \in Nat
      BY <1>1, Constants
    <3> QED BY <3>2, <3>3
  <2> QED BY <2>4
<1>4. top \subseteq Nat /\ top \subseteq Used(f)
  BY <1>1 DEF Log
<1>5. Oldest(f) = Min(top)
  BY DEF Oldest, Used
<1> HIDE DEF top
<1> QED BY <1>3, <1>4, <1>5, MinMember

(* A change of a counter.                                                  *)
LEMMA SwapsQuiet ==
  ASSUME NEW f \in State, f.ok => f.st = "ok", NEW n \in Int
  PROVE  Quiet(f, [f EXCEPT !.swaps = n])
BY DEF Quiet, State

LEMMA Counted ==
  ASSUME NEW k \in Log, NEW f, Merged(f, k)
  PROVE  Merged(IF f.ok THEN [f EXCEPT !.swaps = @ + 1] ELSE f, k)
<1> DEFINE g == [f EXCEPT !.swaps = @ + 1]
<1>1. CASE f.ok
  <2>1. f \in State /\ f.st = "ok" /\ f.swaps + 1 \in Int
    BY <1>1 DEF Merged, Sound, State
  <2>2. Quiet(f, g)
    BY <2>1, SwapsQuiet
  <2> HIDE DEF g
  <2>3. Sound(g) /\ g.log = f.log /\ (g.ok => g.st = "ok")
    BY <2>2, QuietSound DEF Merged, Quiet
  <2>4. Merged(g, k)
    BY <1>1, <2>3 DEF Merged
  <2> QED BY <1>1, <2>4 DEF g
<1> QED BY <1>1

(* The merge that ftl_prepare_log asks for leaves a log unused.            *)
SpareLog(f) == f.ok => f.st = "ok" /\ \E j \in Log : f.log[j].vbn = None

LEMMA MergedSpare ==
  ASSUME NEW k \in Log, NEW f, Merged(f, k)
  PROVE  Sound(f) /\ SpareLog(f)
BY DEF Merged, SpareLog

LEMMA MergeChoice ==
  ASSUME ~EraseFails, NEW f, Sound(f), f.ok => f.st = "ok", NEW choice,
         choice = None \/ (choice \in Log /\ (f.st = "ok" => f.log[choice].vbn # None))
  PROVE  /\ Sound(mergeChoice(f, choice))
         /\ choice = None => SpareLog(mergeChoice(f, choice))
<1> DEFINE L == {j \in Log : f.log[j].vbn # None}
           k == IF choice = None THEN Oldest(f) ELSE choice
           l == f.log[k]
           counted(g) == IF g.ok THEN [g EXCEPT !.swaps = @ + 1] ELSE g
           g == [f EXCEPT !.swaps = @ + 1]
           r == mergeChoice(f, choice)
           none == choice = None /\ (L = {} \/ \E j \in L : f.log[j].current = 0
                                                         \/ f.log[j].used = 0)
<1>1. CASE ~f.ok
  BY <1>1 DEF mergeChoice, SpareLog
<1>2. CASE f.ok
  <2>1. f \in State /\ f.st = "ok"
    BY <1>2 DEF Sound
  <2>2. Sound(Fail(f)) /\ SpareLog(Fail(f))
    <3>1. Quiet(f, Fail(f)) /\ ~Fail(f).ok
      BY <2>1, FailQuiet DEF Fail, State
    <3> QED BY <3>1, QuietSound DEF SpareLog
  <2>3. r = IF none THEN Fail(f)
            ELSE IF choice # None /\ l.current < P \div 2 THEN ftl_compact_scattered(g, k)
            ELSE IF l.seq
            THEN IF l.current # l.used THEN Fail(f) ELSE counted(ftl_copy_merge(f, k))
            ELSE counted(ftl_simple_merge(f, k))
    BY <1>2 DEF mergeChoice
  <2>4. ~none => k \in Log /\ l.vbn # None
    <3>1. CASE choice = None
      <4>1. ~none => Used(f) # {}
        BY <3>1 DEF Used
      <4>2. ~none => Oldest(f) \in Used(f)
        BY <2>1, <4>1, OldestUsed
      <4> HIDE DEF none
      <4> QED BY <3>1, <4>2 DEF Used
    <3>2. CASE choice # None
      BY <3>2, <2>1
    <3> QED BY <3>1, <3>2
  <2> HIDE DEF none, k
  <2>5. CASE none
    BY <2>2, <2>3, <2>5
  <2>6. CASE ~none
    <3>1. k \in Log /\ f.log[k].vbn # None
      BY <2>4, <2>6
    <3>2. Sound(ftl_compact_scattered(g, k))
      <4>1. f.swaps + 1 \in Int
        BY <2>1 DEF State
      <4>2. Quiet(f, g)
        BY <2>1, <4>1, SwapsQuiet
      <4>3. g.st = "ok"
        BY <2>1 DEF State
      <4> HIDE DEF g
      <4>4. Sound(g) /\ g.log[k].vbn # None
        BY <3>1, <4>2, QuietSound DEF Quiet
      <4> QED BY <3>1, <4>3, <4>4, CompactScattered
    <3>3. Sound(counted(ftl_copy_merge(f, k))) /\ SpareLog(counted(ftl_copy_merge(f, k)))
      <4> DEFINE x == ftl_copy_merge(f, k)
      <4>1. Merged(x, k)
        BY <2>1, <3>1, CopyMerge
      <4> HIDE DEF x
      <4>2. Merged(counted(x), k)
        BY <3>1, <4>1, Counted
      <4> HIDE DEF counted
      <4>3. Sound(counted(x)) /\ SpareLog(counted(x))
        BY <3>1, <4>2, MergedSpare
      <4> QED BY <4>3 DEF x
    <3>4. Sound(counted(ftl_simple_merge(f, k))) /\ SpareLog(counted(ftl_simple_merge(f, k)))
      <4> DEFINE x == ftl_simple_merge(f, k)
      <4>1. Merged(x, k)
        BY <3>1, SimpleMerge
      <4> HIDE DEF x
      <4>2. Merged(counted(x), k)
        BY <3>1, <4>1, Counted
      <4> HIDE DEF counted
      <4>3. Sound(counted(x)) /\ SpareLog(counted(x))
        BY <3>1, <4>2, MergedSpare
      <4> QED BY <4>3 DEF x
    <3> HIDE DEF counted, g, l
    <3> QED BY <2>2, <2>3, <2>6, <3>2, <3>3, <3>4
  <2> HIDE DEF r
  <2> QED BY <2>5, <2>6
<1> HIDE DEF r
<1> QED BY <1>1, <1>2

LEMMA Merge ==
  ASSUME ~EraseFails, NEW f, Sound(f), f.st = "ok", NEW choice,
         choice = None \/ (choice \in Log /\ f.log[choice].vbn # None)
  PROVE  /\ Sound(ftl_merge(f, choice))
         /\ choice = None => SpareLog(ftl_merge(f, choice))
<1> DEFINE g == ftl_mark_unclean(f)
<1>1. KeepsLog(f, g)
  <2>1. f \in State
    BY DEF Sound
  <2> QED BY <2>1, MarkUnclean
<1> HIDE DEF g
<1>2. Sound(g) /\ (g.ok => g.st = "ok") /\ g.log = f.log
  BY <1>1, KeepsSound DEF KeepsLog, Keeps
<1>3. /\ Sound(mergeChoice(g, choice))
      /\ choice = None => SpareLog(mergeChoice(g, choice))
  BY <1>2, MergeChoice
<1> QED BY <1>3 DEF ftl_merge, g

-----------------------------------------------------------------------------
(* A log for a logical block.                                              *)

(* A block in hand that is also a log is not in hand.                      *)
LEMMA HeldLog ==
  ASSUME NEW f, NEW H, NEW n, Held(f, H, n), NEW b, \E k \in Log : f.log[k].vbn = b
  PROVE  Held(f, H \ {b}, n)
BY DEF Held

LEMMA LogsAreBlocks == Log \subseteq Block /\ Log \subseteq Nat /\ \A k \in Log : k < Backup
BY Constants DEF Log, Block, Backup

LEMMA FreshRow ==
  ASSUME NEW vbn \in BlockN, NEW lbn \in Lbn
  PROVE  LET row == [NoLog EXCEPT !.vbn = vbn, !.lbn = lbn]
         IN  row \in LogRow /\ row.vbn = vbn /\ row.lbn = lbn
<1>1. NoOffset \in [Offset -> Offset \cup {None}] /\ 0 \in 0..P /\ 0 \in 0..Top /\ 0 <= 0
  BY Constants DEF NoOffset
<1> QED BY <1>1 DEF NoLog, LogRow, LogRec, BlockN

(* The log that is prepared is in use.                                     *)
Prepared(g) == Sound(g) /\ (g.ok => g.st = "ok" /\ g.ret \in Log /\ g.log[g.ret].vbn # None)

(* More than three free blocks: a log is unused.                           *)
LEMMA UnusedLog ==
  ASSUME NEW f \in State, Held(f, {}, 0), f.numFree > 3
  PROVE  \E j \in Log : f.log[j].vbn = None
<1>1. SUFFICES ASSUME Used(f) = Log PROVE FALSE
  BY DEF Used
<1>2. Cardinality(Log) = NumLogs
  BY Constants, FS_Interval DEF Log
<1>3. f.numFree = Pool - 0 - Cardinality(Used(f)) /\ f.numFree \in Nat
  BY HeldCount DEF State
<1> QED BY <1>1, <1>2, <1>3, Constants

(* With this row for log k every block is in its place.                    *)
RowFits(g, k, row) ==
  \A e : (/\ SameButLog(g, e) /\ e.log[k].vbn = row.vbn /\ e.log[k].lbn = row.lbn
          /\ \A j \in Log \ {k} : e.log[j] = g.log[j])
         => Held(e, {}, 0)

LEMMA SetPrepared ==
  ASSUME NEW g \in State, g.st = "ok", NEW k \in Log, NEW row \in LogRow, row.vbn # None,
         RowFits(g, k, row), NEW u \in BOOLEAN
  PROVE  Prepared(IF u THEN Fail([g EXCEPT !.st = "zeroed"])
                  ELSE [g EXCEPT !.log[k] = [row EXCEPT !.usn = Wrap(g.usn - 1)],
                                 !.ret = k, !.ok = TRUE])
<1> DEFINE z == Fail([g EXCEPT !.st = "zeroed"])
           e == [g EXCEPT !.log[k] = [row EXCEPT !.usn = Wrap(g.usn - 1)],
                          !.ret = k, !.ok = TRUE]
<1>1. Prepared(z)
  <2>1. z \in State /\ z.st # "ok" /\ ~z.ok
    BY DEF Fail, State
  <2> HIDE DEF z
  <2> QED BY <2>1 DEF Prepared, Sound
<1>2. /\ e \in State /\ SameButLog(g, e) /\ e.log[k].vbn = row.vbn
      /\ e.log[k].lbn = row.lbn /\ e.st = "ok"
      /\ e.ret = k /\ \A j \in LogSlot \ {k} : e.log[j] = g.log[j]
  <2> DEFINE new == [row EXCEPT !.usn = Wrap(g.usn - 1)]
             y == [g EXCEPT !.log[k] = new]
  <2>1. Wrap(g.usn - 1) \in Usn
    <3>1. g.usn - 1 \in Int /\ g.usn - 1 >= 0 - 1
      BY Constants DEF State, Usn
    <3> QED BY <3>1, WrapRange DEF Usn
  <2>2. new \in LogRow /\ new.vbn = row.vbn /\ new.lbn = row.lbn
    BY <2>1 DEF LogRow, LogRec, Usn
  <2>3. e = [g EXCEPT !.log[k] = new, !.ret = k, !.ok = TRUE]
    OBVIOUS
  <2> HIDE DEF e, new
  <2>4. /\ y \in State /\ SameButLog(g, y) /\ y.log[k] = new /\ y.st = g.st
        /\ \A j \in LogSlot \ {k} : y.log[j] = g.log[j]
    BY <2>2, NewRow
  <2>5. e = [y EXCEPT !.ret = k, !.ok = TRUE]
    BY <2>3 DEF State
  <2> HIDE DEF y
  <2>6. k \in Block
    BY LogsAreBlocks
  <2>7. /\ e \in State /\ e.log = y.log /\ e.st = y.st /\ e.ret = k /\ e.map = y.map
        /\ e.free = y.free /\ e.nextFree = y.nextFree /\ e.numFree = y.numFree
        /\ e.ctrl = y.ctrl
    BY <2>4, <2>5, <2>6 DEF State
  <2>8. SameButLog(g, e)
    BY <2>4, <2>7 DEF SameButLog
  <2> QED BY <2>2, <2>4, <2>7, <2>8
<1> HIDE DEF e
<1>3. Held(e, {}, 0)
  <2>1. \A j \in Log \ {k} : e.log[j] = g.log[j]
    BY <1>2, LogSlots
  <2> QED BY <1>2, <2>1 DEF RowFits
<1>4. Prepared(e)
  BY <1>2, <1>3 DEF Prepared, Sound
<1> HIDE DEF z
<1>5. Prepared(IF u THEN z ELSE e)
  BY <1>1, <1>4
<1> QED BY <1>5 DEF z, e

LEMMA PrepareLog ==
  ASSUME ~EraseFails, NEW f, Sound(f), NEW lbn \in Lbn
  PROVE  Prepared(ftl_prepare_log(f, lbn))
<1> DEFINE own    == LogsOf(f, lbn)
           unused == {k \in Log : f.log[k].vbn # None /\ f.log[k].used = 0}
           set(g, k, l) ==
             IF f.usn = 1 THEN Fail([g EXCEPT !.st = "zeroed"])
             ELSE [g EXCEPT !.log[k] = [l EXCEPT !.usn = Wrap(g.usn - 1)],
                            !.ret = k, !.ok = TRUE]
           new(g, k, vbn) == set(g, k, [NoLog EXCEPT !.vbn = vbn, !.lbn = lbn])
           merged(g) == IF g.ok THEN ftl_get_free_vb(g) ELSE g
           last(g) == Min({j \in Log : g.log[j].vbn = None} \cup {Backup})
           taken(g) == IF ~g.ok THEN g ELSE new(g, last(g), g.ret)
           m == IF f.numFree = 3 THEN ftl_merge(f, None) ELSE [f EXCEPT !.ok = TRUE]
<1>1. f \in State
  BY DEF Sound
<1>2. Sound(Fail(f)) /\ ~Fail(f).ok
  <2>1. Quiet(f, Fail(f)) /\ ~Fail(f).ok
    BY <1>1, FailQuiet DEF Fail, State
  <2> QED BY <2>1, QuietSound
<1>3. ftl_prepare_log(f, lbn) =
        IF f.st # "ok" THEN Fail(f)
        ELSE IF own # {} THEN set(f, Min(own), f.log[Min(own)])
        ELSE IF unused # {} THEN new(f, Min(unused), f.log[Min(unused)].vbn)
        ELSE IF f.numFree < 3 THEN Fail(f) ELSE taken(merged(m))
  BY DEF ftl_prepare_log
<1>4. Prepared(Fail(f))
  BY <1>2 DEF Prepared
<1>5. ASSUME NEW g \in State, g.st = "ok", NEW k \in Log, NEW row \in LogRow, row.vbn # None,
             RowFits(g, k, row)
      PROVE  Prepared(set(g, k, row))
  <2>1. (f.usn = 1) \in BOOLEAN
    OBVIOUS
  <2> QED BY <1>5, <2>1, SetPrepared
<1> HIDE DEF set
<1>6. CASE f.st # "ok"
  BY <1>3, <1>4, <1>6
<1>7. CASE f.st = "ok" /\ own # {}
  <2> DEFINE k == Min(own)
             row == f.log[k]
  <2>1. k \in Log /\ row.vbn # None /\ row \in LogRow
    <3>1. own \subseteq Nat
      BY LogsAreBlocks DEF LogsOf
    <3>2. k \in own
      BY <1>7, <3>1, MinMember
    <3> QED BY <1>1, <3>2, RowOf, LogSlots DEF LogsOf
  <2> HIDE DEF k
  <2>2. RowFits(f, k, row)
    <3>1. SUFFICES ASSUME NEW e, SameButLog(f, e), e.log[k].vbn = row.vbn,
                          e.log[k].lbn = row.lbn, \A j \in Log \ {k} : e.log[j] = f.log[j]
                   PROVE  Held(e, {}, 0)
      BY DEF RowFits
    <3>2. SamePool(f, e)
      BY <3>1 DEF SamePool, SameButLog
    <3> QED BY <1>7, <3>2, HeldSame DEF Sound
  <2>3. Prepared(set(f, k, row))
    BY <1>1, <1>5, <1>7, <2>1, <2>2
  <2> QED BY <1>3, <1>7, <2>3 DEF k
<1>8. CASE f.st = "ok" /\ own = {} /\ unused # {}
  <2> DEFINE k == Min(unused)
             b == f.log[k].vbn
             row == [NoLog EXCEPT !.vbn = b, !.lbn = lbn]
  <2>1. k \in Log /\ b # None /\ b \in Block
    <3>1. unused \subseteq Nat
      BY LogsAreBlocks
    <3>2. k \in unused
      <4> HIDE DEF unused
      <4> QED BY <1>8, <3>1, MinMember
    <3>3. k \in Log /\ b # None
      BY <3>2
    <3> QED BY <1>1, <3>3, RowOf, LogSlots DEF BlockN
  <2> HIDE DEF k, unused
  <2>2. row \in LogRow /\ row.vbn = b /\ row.lbn = lbn
    BY <2>1, FreshRow DEF BlockN
  <2>3. RowFits(f, k, row)
    <3>0. SUFFICES ASSUME NEW e, SameButLog(f, e), e.log[k].vbn = b, e.log[k].lbn = lbn,
                          \A j \in Log \ {k} : e.log[j] = f.log[j]
                   PROVE  Held(e, {}, 0)
      BY <2>2 DEF RowFits
    <3>1. Held(e, ({} \ {b}) \cup {f.log[k].vbn}, 0)
      BY <1>1, <1>8, <2>1, <3>0, HeldMoveLog DEF Sound
    <3>2. Held(e, {b}, 0)
      BY <3>1, HeldMore
    <3>3. Held(e, {b} \ {b}, 0)
      BY <2>1, <3>0, <3>2, HeldLog
    <3> QED BY <3>3, HeldMore
  <2> HIDE DEF row
  <2>4. Prepared(set(f, k, row))
    BY <1>1, <1>5, <1>8, <2>1, <2>2, <2>3
  <2> QED BY <1>3, <1>8, <2>4 DEF k, row
<1>9. CASE f.st = "ok" /\ own = {} /\ unused = {} /\ f.numFree < 3
  BY <1>3, <1>4, <1>9
<1>10. CASE f.st = "ok" /\ own = {} /\ unused = {} /\ ~(f.numFree < 3)
  <2>1. Sound(m) /\ SpareLog(m)
    <3>1. CASE f.numFree = 3
      BY <1>10, <3>1, Merge
    <3>2. CASE f.numFree # 3
      <4> DEFINE x == [f EXCEPT !.ok = TRUE]
      <4>1. Quiet(f, x) /\ x.st = "ok"
        BY <1>1, <1>10, OkQuiet DEF State
      <4> HIDE DEF x
      <4>2. Sound(x) /\ x.log = f.log
        BY <4>1, QuietSound DEF Quiet
      <4>3. f.numFree > 3
        BY <1>1, <1>10, <3>2 DEF State
      <4>4. \E j \in Log : f.log[j].vbn = None
        BY <1>1, <1>10, <4>3, UnusedLog DEF Sound
      <4> QED BY <3>2, <4>1, <4>2, <4>4 DEF SpareLog, x
    <3> QED BY <3>1, <3>2
  <2> HIDE DEF m
  <2>2. CASE ~m.ok
    <3>1. ftl_prepare_log(f, lbn) = m
      BY <1>3, <1>10, <2>2
    <3> QED BY <2>1, <2>2, <3>1 DEF Prepared
  <2>3. CASE m.ok
    <3> DEFINE h == ftl_get_free_vb(m)
    <3>1. /\ h \in State /\ h.st = "ok" /\ h.log = m.log
          /\ h.ok => Held(h, {h.ret}, 1)
          /\ ~h.ok => Held(h, {}, 0)
      <4>1. m \in State /\ m.st = "ok" /\ Held(m, {}, 0)
        BY <2>1, <2>3 DEF SpareLog, Sound
      <4>2. /\ h \in State /\ h.st = "ok" /\ h.log = m.log
            /\ \A H : \A n \in Nat : Held(m, H, n) =>
                 Held(h, IF h.ok THEN H \cup {h.ret} ELSE H, IF h.ok THEN n + 1 ELSE n)
        BY <4>1, GetFree
      <4> HIDE DEF h
      <4>3. Held(h, IF h.ok THEN {} \cup {h.ret} ELSE {}, IF h.ok THEN 0 + 1 ELSE 0)
        BY <4>1, <4>2
      <4>4. {} \cup {h.ret} = {h.ret} /\ 0 + 1 = 1
        OBVIOUS
      <4> QED BY <4>2, <4>3, <4>4
    <3> DEFINE k == last(h)
               b == h.ret
               row == [NoLog EXCEPT !.vbn = b, !.lbn = lbn]
    <3>2. ftl_prepare_log(f, lbn) = IF ~h.ok THEN h ELSE set(h, k, row)
      BY <1>3, <1>10, <2>3
    <3> HIDE DEF h
    <3>3. CASE ~h.ok
      BY <3>1, <3>2, <3>3 DEF Prepared, Sound
    <3>4. CASE h.ok
      <4>1. k \in Log /\ h.log[k].vbn = None
        <5> DEFINE U == {j \in Log : h.log[j].vbn = None}
        <5>1. PICK j \in U : TRUE
          BY <2>1, <2>3, <3>1 DEF SpareLog
        <5>2. U \subseteq Log /\ U \cup {Backup} \subseteq Nat /\ U \cup {Backup} # {}
          <6>1. Backup \in Nat
            BY Constants DEF Backup
          <6>2. U \subseteq Log
            OBVIOUS
          <6> HIDE DEF U
          <6> QED BY <6>1, <6>2, LogsAreBlocks
        <5> HIDE DEF U
        <5>3. Min(U \cup {Backup}) \in U \cup {Backup} /\ Min(U \cup {Backup}) <= j
          BY <5>1, <5>2, MinMember
        <5>4. j < Backup /\ j \in Nat /\ Backup \in Nat
          BY <5>1, <5>2, LogsAreBlocks
        <5>5. Min(U \cup {Backup}) \in U
          BY <5>3, <5>4
        <5> QED BY <5>5 DEF U
      <4>2. b \in Block /\ b \in BlockN /\ b # None
        BY <3>1, Constants DEF State, BlockN, Block
      <4> HIDE DEF k, b
      <4>3. row \in LogRow /\ row.vbn = b /\ row.lbn = lbn
        BY <4>2, FreshRow
      <4>4. RowFits(h, k, row)
        <5>0. SUFFICES ASSUME NEW e, SameButLog(h, e), e.log[k].vbn = b, e.log[k].lbn = lbn,
                              \A j \in Log \ {k} : e.log[j] = h.log[j]
                       PROVE  Held(e, {}, 0)
          BY <4>3 DEF RowFits
        <5>1. Held(h, {b}, 1)
          BY <3>1, <3>4 DEF b
        <5>2. Held(e, {b} \ {b}, 1 - 1)
          BY <3>1, <4>1, <4>2, <5>0, <5>1, HeldAddLog
        <5> QED BY <5>2, HeldMore
      <4> HIDE DEF row
      <4>5. Prepared(set(h, k, row))
        BY <1>5, <3>1, <4>1, <4>2, <4>3, <4>4
      <4> QED BY <3>2, <3>4, <4>5
    <3> QED BY <3>3, <3>4
  <2> QED BY <2>2, <2>3
<1> QED BY <1>6, <1>7, <1>8, <1>9, <1>10

-----------------------------------------------------------------------------
(* Writing.                                                                *)
LEMMA TryWrite ==
  ASSUME NEW f \in State, f.ok => f.st = "ok", NEW b, NEW i, NEW page \in Page
  PROVE  Quiet(f, tryWrite(f, b, i, page))
<1> DEFINE tried(g) == IF g.ok THEN Over(g) ELSE Again(g)
           try(g)   == IF g.st # "ok" THEN Over(g) ELSE tried(VFL_Write(g, b, i, page))
           next(s) == IF s.over THEN s ELSE try(s.f)
           S == {g \in State : Quiet(f, g)}
           R == Tried(S)
<1>1. ASSUME NEW g \in S
      PROVE  try(g) \in R
  <2> DEFINE w == VFL_Write(g, b, i, page)
  <2>1. Quiet(g, w)
    BY WriteQuiet
  <2>2. try(g) = IF g.st # "ok" THEN [f |-> g, over |-> TRUE]
                 ELSE IF w.ok THEN [f |-> w, over |-> TRUE] ELSE [f |-> Fail(w), over |-> FALSE]
    BY DEF Over, Again
  <2> HIDE DEF w, try
  <2>3. w \in S
    BY <2>1, QuietTrans DEF Quiet
  <2>4. Fail(w) \in S
    <3>1. Quiet(w, Fail(w))
      BY <2>3, FailQuiet
    <3> QED BY <2>3, <3>1, QuietTrans DEF Quiet
  <2> HIDE DEF S
  <2> QED BY <2>2, <2>3, <2>4 DEF Tried
<1>2. f \in S
  BY DEF Quiet
<1>3. tryWrite(f, b, i, page) = Tries(try, f)
  BY DEF tryWrite
<1> HIDE DEF S, try
<1>4. \A s \in R : next(s) \in R
  BY <1>1 DEF Tried
<1>5. try(f) \in R
  BY <1>1, <1>2
<1>6. next(next(try(f))) \in R
  BY <1>4, <1>5
<1>7. \A s \in R : s.f \in S /\ try(s.f).f \in S
  BY <1>1 DEF Tried
<1>8. Tries(try, f) = LET s == next(next(try(f))) IN IF s.over THEN s.f ELSE try(s.f).f
  BY DEF Tries, Next3
<1> HIDE DEF next, R
<1>9. tryWrite(f, b, i, page) \in S
  BY <1>3, <1>6, <1>7, <1>8
<1> QED BY <1>9 DEF S

LEMMA WriteBlock ==
  ASSUME NEW f \in State, f.ok => f.st = "ok", NEW b, NEW lpn \in Nat, NEW v \in Val
  PROVE  Quiet(f, writeBlock(f, b, lpn, v))
<1> DEFINE m == P
           page(g, j) == tryWrite(g, b, j, User(lpn + j, g.usn, v))
           S == {g \in State : Quiet(f, g)}
           T == [i \in 0..m |-> S]
<1>1. ASSUME NEW i \in 0..m - 1, NEW g \in S
      PROVE  page(g, i) \in S
  <2>1. lpn + i \in Nat /\ g.usn \in Usn
    <3>1. i \in Nat
      BY Constants
    <3> QED BY <3>1 DEF State
  <2>2. User(lpn + i, g.usn, v) \in Page
    BY <2>1, PageTypes
  <2>3. g.ok => g.st = "ok"
    BY DEF Quiet
  <2>4. Quiet(g, page(g, i))
    BY <2>2, <2>3, TryWrite
  <2> HIDE DEF page
  <2> QED BY <2>4, QuietTrans DEF Quiet
<1>2. f \in S
  BY DEF Quiet
<1> HIDE DEF S
<1>3. m \in Nat /\ f \in T[0] /\ \A i \in 0..m - 1 : \A s \in T[i] : page(s, i) \in T[i + 1]
  <2>1. m \in Nat
    BY Constants
  <2>2. 0 \in 0..m /\ \A i \in 0..m - 1 : i \in 0..m /\ i + 1 \in 0..m
    BY <2>1
  <2> HIDE DEF m, page
  <2> QED BY <2>1, <2>2, <1>1, <1>2
<1> DEFINE phi == [i \in 0..m - 1 |-> [s \in T[i] |-> page(s, i)]]
           run == CHOOSE r : r = [i \in 0..m |->
                                    IF i = 0 THEN f ELSE page(r[i - 1], i - 1)]
<1> HIDE DEF T, page
<1>10. Within(m, T, phi)
  BY <1>3 DEF Within
<1> HIDE DEF phi
<1>11. PICK r : Runs(r, m, f, phi) /\ \A i \in 0..m : r[i] \in T[i]
  BY <1>3, <1>10, LoopRuns
<1>12. \A i \in 0..m : i # 0 => phi[i - 1][r[i - 1]] = page(r[i - 1], i - 1)
  <2>1. SUFFICES ASSUME NEW i \in 0..m, i # 0
                 PROVE  phi[i - 1][r[i - 1]] = page(r[i - 1], i - 1)
    OBVIOUS
  <2>2. i - 1 \in 0..m - 1 /\ i - 1 \in 0..m
    BY <1>3, <2>1
  <2> QED BY <1>11, <2>2 DEF phi
<1>13. r = [i \in 0..m |-> IF i = 0 THEN f ELSE page(r[i - 1], i - 1)]
  BY <1>11, <1>12 DEF Runs
<1>14. run = [i \in 0..m |-> IF i = 0 THEN f ELSE page(run[i - 1], i - 1)]
  BY <1>13
<1> HIDE DEF run
<1>15. run[0] = f /\ \A i \in 0..m - 1 : run[i + 1] = page(run[i], i)
  BY <1>3, <1>14
<1>16. run[m] \in T[m]
  BY <1>3, <1>15, LoopStays
<1>17. Loop(page, m, f) = run[m]
  BY DEF Loop, run
<1>20. run[m] \in S
  BY <1>3, <1>16 DEF T
<1>21. writeBlock(f, b, lpn, v) = Loop(page, m, f)
  BY DEF writeBlock, page, m
<1> QED BY <1>17, <1>20, <1>21 DEF S

LEMMA WriteLog ==
  ASSUME NEW f \in State, f.ok => f.st = "ok", NEW k \in Log, NEW lpn \in Nat, NEW v \in Val,
         NEW n \in Nat, n <= P - f.log[k].used
  PROVE  Fills(f, k, writeLog(f, k, lpn, v, n))
<1> DEFINE put(g, j) == tryWrite([g EXCEPT !.usn = Wrap(g.usn + 1)], g.log[k].vbn,
                                 g.log[k].used, User(lpn + j, Wrap(g.usn + 1), v))
           adv(l, o) == [l EXCEPT !.off[o] = l.used, !.used = @ + 1,
                                  !.current = IF l.off[o] = None THEN @ + 1 ELSE @]
           row(l, o) == [adv(l, o) EXCEPT !.seq = Sequential(adv(l, o), o)]
           page(g, j) == [put(g, j) EXCEPT !.log[k] = row(g.log[k], (lpn + j) % P)]
           S == {g \in State : Fills(f, k, g)}
           T == [i \in 0..n |-> {g \in S : g.log[k].used <= f.log[k].used + i}]
<1>0. f.log[k].used \in 0..P /\ f.log[k].used \in Nat /\ P \in Nat
  BY RowOf, LogSlots, Constants
<1>1. ASSUME NEW i \in 0..n - 1, NEW g \in S, g.log[k].used <= f.log[k].used + i
      PROVE  page(g, i) \in S /\ page(g, i).log[k].used <= f.log[k].used + (i + 1)
  <2> DEFINE l == g.log[k]
             o == (lpn + i) % P
             x == [g EXCEPT !.usn = Wrap(g.usn + 1)]
             hh == put(g, i)
             w == [hh EXCEPT !.log[k] = row(l, o)]
  <2>1. /\ g.log[k] \in LogRow /\ g.log[k].used \in 0..P /\ g.log[k].current \in 0..P
        /\ g.log[k].current <= g.log[k].used /\ g.log[k].used \in Nat
        /\ g.log[k].off \in [Offset -> Offset \cup {None}]
    BY RowOf, LogSlots, Constants
  <2>2. i \in Nat /\ i < n
    OBVIOUS
  <2>3. l.used \in Offset /\ l.used + 1 \in 0..P /\ l.used + 1 <= f.log[k].used + (i + 1)
    <3>1. \A u, q, j, m, p \in Nat : u <= q + j /\ j < m /\ m <= p - q
                                    => u < p /\ u + 1 <= p /\ u + 1 <= q + (j + 1)
      OBVIOUS
    <3>2. l.used < P /\ l.used + 1 <= P /\ l.used + 1 <= f.log[k].used + (i + 1)
      BY <1>0, <1>1, <2>1, <2>2, <3>1
    <3>3. l.used \in Nat
      BY <2>1
    <3> HIDE DEF l
    <3> QED BY <1>0, <3>2, <3>3 DEF Offset
  <2>4. o \in Offset
    <3>1. \A q \in Nat \ {0} : \A y \in Nat : y % q \in 0..q - 1
      OBVIOUS
    <3>2. lpn + i \in Nat
      BY <2>2
    <3> QED BY <3>1, <3>2, Constants DEF Offset
  <2>5. Quiet(g, x) /\ Wrap(g.usn + 1) \in Usn
    <3>1. g.ok => g.st = "ok"
      BY DEF Fills
    <3> QED BY <3>1, NextUsn
  <2>6. Quiet(x, hh)
    <3>1. x \in State /\ (x.ok => x.st = "ok")
      BY <2>5 DEF Quiet
    <3>2. User(lpn + i, Wrap(g.usn + 1), v) \in Page
      <4>1. lpn + i \in Nat
        BY <2>2
      <4> HIDE DEF x
      <4> QED BY <2>5, <4>1, PageTypes
    <3> HIDE DEF x
    <3>3. Quiet(x, tryWrite(x, g.log[k].vbn, g.log[k].used, User(lpn + i, Wrap(g.usn + 1), v)))
      BY <3>1, <3>2, TryWrite
    <3> QED BY <3>3 DEF x
  <2> HIDE DEF x, o
  <2>7. row(l, o) \in LogRow /\ row(l, o).vbn = l.vbn /\ row(l, o).lbn = l.lbn
        /\ row(l, o).used = l.used + 1
    <3>1. [l.off EXCEPT ![o] = l.used] \in [Offset -> Offset \cup {None}]
      BY <2>1, <2>3
    <3>2. (IF l.off[o] = None THEN l.current + 1 ELSE l.current) \in 0..P
          /\ (IF l.off[o] = None THEN l.current + 1 ELSE l.current) <= l.used + 1
      <4>1. l.current + 1 \in 0..P /\ l.current <= l.used + 1 /\ l.current + 1 <= l.used + 1
            /\ l.current \in 0..P
        <5>1. \A c, u, p \in Nat : c <= u /\ u + 1 <= p =>
                c + 1 \in 0..p /\ c <= u + 1 /\ c + 1 <= u + 1
          OBVIOUS
        <5>2. l.current \in Nat /\ l.used \in Nat /\ l.current <= l.used /\ l.used + 1 <= P
          BY <1>0, <2>1, <2>3
        <5> HIDE DEF l
        <5> QED BY <1>0, <5>1, <5>2, <2>1 DEF l
      <4> HIDE DEF l
      <4> QED BY <4>1
    <3> HIDE DEF l
    <3>3. /\ adv(l, o) \in LogRow /\ adv(l, o).vbn = l.vbn /\ adv(l, o).lbn = l.lbn
          /\ adv(l, o).used = l.used + 1
      <4> DEFINE c == IF l.off[o] = None THEN l.current + 1 ELSE l.current
      <4>1. adv(l, o) = [l EXCEPT !.off = [l.off EXCEPT ![o] = l.used], !.used = l.used + 1,
                                  !.current = c]
        OBVIOUS
      <4>2. c \in 0..P /\ c <= l.used + 1
        BY <3>2
      <4> HIDE DEF c, adv
      <4> QED BY <2>1, <2>3, <3>1, <4>1, <4>2 DEF LogRow, LogRec, l
    <3> DEFINE s == adv(l, o)
    <3> HIDE DEF adv
    <3>4. Sequential(s, o) \in BOOLEAN
      BY DEF Sequential
    <3> QED BY <3>3, <3>4 DEF LogRow, LogRec
  <2>8. Quiet(g, hh)
    BY <2>5, <2>6, QuietTrans
  <2>9. Fills(g, k, hh)
    BY <2>8, QuietFills
  <2>10. hh \in State /\ (hh.ok => hh.st = "ok") /\ hh.log = g.log
    BY <2>8 DEF Quiet
  <2>11. page(g, i) = w
    BY DEF o
  <2> HIDE DEF row, page, hh, l
  <2>12. Fills(hh, k, w) /\ w.log[k].used = l.used + 1
    BY <2>7, <2>10, PutRow DEF l
  <2> HIDE DEF w
  <2>13. Fills(f, k, w)
    BY <2>9, <2>12, FillsTrans
  <2> QED BY <2>3, <2>11, <2>12, <2>13 DEF Fills
<1>2. f \in S /\ f.log[k].used <= f.log[k].used + 0
  <2>1. Quiet(f, f)
    BY DEF Quiet
  <2> QED BY <1>0, <2>1, QuietFills DEF Quiet
<1> HIDE DEF S
<1>3. n \in Nat /\ f \in T[0] /\ \A i \in 0..n - 1 : \A s \in T[i] : page(s, i) \in T[i + 1]
  <2>2. 0 \in 0..n /\ \A i \in 0..n - 1 : i \in 0..n /\ i + 1 \in 0..n
    OBVIOUS
  <2> HIDE DEF page
  <2> QED BY <2>2, <1>1, <1>2
<1>21. writeLog(f, k, lpn, v, n) = Loop(page, n, f)
  BY DEF writeLog, page, put, row, adv
<1> DEFINE phi == [i \in 0..n - 1 |-> [s \in T[i] |-> page(s, i)]]
           run == CHOOSE r : r = [i \in 0..n |->
                                    IF i = 0 THEN f ELSE page(r[i - 1], i - 1)]
<1> HIDE DEF T, page
<1>10. Within(n, T, phi)
  BY <1>3 DEF Within
<1> HIDE DEF phi
<1>11. PICK r : Runs(r, n, f, phi) /\ \A i \in 0..n : r[i] \in T[i]
  BY <1>3, <1>10, LoopRuns
<1>12. \A i \in 0..n : i # 0 => phi[i - 1][r[i - 1]] = page(r[i - 1], i - 1)
  <2>1. SUFFICES ASSUME NEW i \in 0..n, i # 0
                 PROVE  phi[i - 1][r[i - 1]] = page(r[i - 1], i - 1)
    OBVIOUS
  <2>2. i - 1 \in 0..n - 1 /\ i - 1 \in 0..n
    BY <1>3, <2>1
  <2> QED BY <1>11, <2>2 DEF phi
<1>13. r = [i \in 0..n |-> IF i = 0 THEN f ELSE page(r[i - 1], i - 1)]
  BY <1>11, <1>12 DEF Runs
<1>14. run = [i \in 0..n |-> IF i = 0 THEN f ELSE page(run[i - 1], i - 1)]
  BY <1>13
<1> HIDE DEF run
<1>15. run[0] = f /\ \A i \in 0..n - 1 : run[i + 1] = page(run[i], i)
  BY <1>3, <1>14
<1>16. run[n] \in T[n]
  BY <1>3, <1>15, LoopStays
<1>17. Loop(page, n, f) = run[n]
  BY DEF Loop, run
<1>20. run[n] \in S
  BY <1>3, <1>16 DEF T
<1> QED BY <1>17, <1>20, <1>21 DEF S


-----------------------------------------------------------------------------
(* The block of a log that is given up is in hand, or it is free and       *)
(* another one is.                                                         *)
GivenUp(f, x, k) ==
  /\ x \in State /\ x.map = f.map /\ (x.ok <=> x.st = "ok")
  /\ x.ok => Held([x EXCEPT !.log[k].vbn = None], {x.ret}, 1)

LEMMA GiveUpUnused ==
  ASSUME NEW k \in Log, NEW f, Sound(f), f.ok, f.st = "ok", f.log[k].vbn # None
  PROVE  GivenUp(f, [f EXCEPT !.ret = f.log[k].vbn], k)
<1> DEFINE b == f.log[k].vbn
           x == [f EXCEPT !.ret = b]
           y == [x EXCEPT !.log[k].vbn = None]
<1>1. f \in State /\ Held(f, {}, 0) /\ b \in Block
  <2>1. f \in State /\ Held(f, {}, 0)
    BY DEF Sound
  <2>2. b \in BlockN
    BY <2>1, RowOf, LogSlots
  <2> QED BY <2>1, <2>2 DEF BlockN
<1>2. /\ x \in State /\ x.map = f.map /\ x.log = f.log /\ x.ok /\ x.st = "ok" /\ x.ret = b
      /\ SamePool(f, x)
  BY <1>1 DEF State, SamePool
<1> HIDE DEF x
<1>3. Held(x, {}, 0)
  BY <1>1, <1>2, HeldSame
<1>4. /\ SameButLog(x, y) /\ y.log[k].vbn = None
      /\ \A j \in LogSlot \ {k} : y.log[j] = x.log[j]
  BY <1>2, DropRow
<1> HIDE DEF y
<1>5. Held(y, {} \cup {x.log[k].vbn}, 0 + 1)
  <2>1. \A j \in Log \ {k} : y.log[j] = x.log[j]
    BY <1>4, LogSlots
  <2> QED BY <1>2, <1>3, <1>4, <2>1, HeldDropLog
<1>6. Held(y, {x.ret}, 1)
  <2>1. {} \cup {x.log[k].vbn} = {x.ret} /\ 0 + 1 = 1
    BY <1>2
  <2> QED BY <1>5, <2>1
<1> QED BY <1>2, <1>6 DEF GivenUp, x, y

LEMMA GiveUpUsed ==
  ASSUME ~EraseFails, NEW k \in Log, NEW f, Sound(f), f.st = "ok", f.log[k].vbn # None,
         NEW s, s = ftl_set_free_vb(f, f.log[k].vbn)
  PROVE  GivenUp(f, IF s.ok THEN ftl_get_free_vb(s) ELSE s, k)
<1> DEFINE b == f.log[k].vbn
           x == ftl_get_free_vb(s)
           y == [x EXCEPT !.log[k].vbn = None]
<1>1. f \in State /\ Held(f, {}, 0) /\ b \in Block /\ b \in BlockN /\ b # None
  <2>1. f \in State /\ Held(f, {}, 0)
    BY DEF Sound
  <2>2. b \in BlockN
    BY <2>1, RowOf, LogSlots
  <2> QED BY <2>1, <2>2 DEF BlockN
<1>2. f.numFree < Pool /\ f.numFree \in Nat
  BY <1>1, RoomInPool DEF Used, State
<1>3. /\ s \in State /\ s.map = f.map /\ s.log = f.log /\ (s.ok <=> s.st = "ok")
      /\ s.numFree = f.numFree + 1
      /\ s.st = "ok" => Held(s, {}, 0 - 1) /\ \E j \in Ring(s) : s.free[j] = b
  <2>1. /\ s \in State /\ s.map = f.map /\ s.log = f.log /\ (s.ok <=> s.st = "ok")
        /\ s.numFree = f.numFree + 1
        /\ \A H : \A n \in Int : Held(f, H, n) /\ s.st = "ok" => Held(s, H \ {b}, n - 1)
        /\ s.st = "ok" => \E j \in Ring(s) : s.free[j] = b
    BY <1>1, <1>2, SetFree
  <2>2. s.st = "ok" => Held(s, {} \ {b}, 0 - 1)
    BY <1>1, <2>1
  <2> QED BY <2>1, <2>2, HeldMore
<1>4. CASE ~s.ok
  BY <1>3, <1>4 DEF GivenUp
<1>5. CASE s.ok
  <2>1. 0 - 1 \in Int /\ s.numFree > 0 /\ s.numFree <= Pool
    <3>1. Pool \in Nat
      BY Constants
    <3> QED BY <1>2, <1>3, <3>1
  <2>2. s.st = "ok" /\ Held(s, {}, 0 - 1) /\ \E j \in Ring(s) : s.free[j] = b
    BY <1>3, <1>5
  <2>3. /\ x \in State /\ x.map = f.map /\ x.log = f.log /\ x.ok /\ x.st = "ok"
        /\ Held(x, {} \cup {x.ret}, (0 - 1) + 1)
        /\ b # x.ret => \E j \in Ring(x) : x.free[j] = b
    <3>1. /\ x \in State /\ x.map = f.map /\ x.log = f.log /\ x.st = "ok"
      BY <1>3, <2>2, GetFree
    <3>2. \A H : \A n \in Int : Held(s, H, n) /\ s.numFree > 0 /\ s.st = "ok" => x.ok
      BY <1>3, GetFree
    <3>3. x.ok
      BY <2>1, <2>2, <3>2
    <3>6. x = ftl_get_free_vb(s)
      OBVIOUS
    <3> HIDE DEF x
    <3>4. \A H : \A n \in Int : Held(s, H, n) /\ s.numFree <= Pool /\ x.ok
            => /\ Held(x, H \cup {x.ret}, n + 1)
               /\ \A i \in Ring(s) : s.free[i] # x.ret => \E j \in Ring(x) : x.free[j] = s.free[i]
      BY <1>3, <3>6, GetFree
    <3>5. /\ Held(x, {} \cup {x.ret}, (0 - 1) + 1)
          /\ \A i \in Ring(s) : s.free[i] # x.ret => \E j \in Ring(x) : x.free[j] = s.free[i]
      BY <2>1, <2>2, <3>3, <3>4
    <3> QED BY <2>2, <3>1, <3>3, <3>5
  <2> HIDE DEF x
  <2>4. Held(x, {x.ret}, 0)
    <3>1. {} \cup {x.ret} = {x.ret} /\ (0 - 1) + 1 = 0
      OBVIOUS
    <3> QED BY <2>3, <3>1
  <2>5. /\ SameButLog(x, y) /\ y.log[k].vbn = None
        /\ \A j \in LogSlot \ {k} : y.log[j] = x.log[j]
    BY <2>3, DropRow
  <2> HIDE DEF y
  <2>6. Held(y, {x.ret} \cup {b}, 1)
    <3>1. \A j \in Log \ {k} : y.log[j] = x.log[j]
      BY <2>5, LogSlots
    <3>2. x.log[k].vbn = b
      BY <2>3
    <3>3. Held(y, {x.ret} \cup {x.log[k].vbn}, 0 + 1)
      BY <1>1, <2>3, <2>4, <2>5, <3>1, <3>2, HeldDropLog
    <3> QED BY <3>2, <3>3
  <2>7. Held(y, {x.ret}, 1)
    <3>1. CASE b = x.ret
      BY <2>6, <3>1, HeldMore
    <3>2. CASE b # x.ret
      <4>1. \E j \in Ring(y) : y.free[j] = b
        BY <2>3, <2>5, <3>2 DEF SameButLog, Ring
      <4>2. Held(y, ({x.ret} \cup {b}) \ {b}, 1)
        BY <2>6, <4>1, HeldRing
      <4> QED BY <4>2, HeldMore
    <3> QED BY <3>1, <3>2
  <2> QED BY <1>5, <2>3, <2>7 DEF GivenUp, x, y
<1> QED BY <1>4, <1>5

SoundOk(g) == Sound(g) /\ (g.ok => g.st = "ok")

LEMMA ReplaceBlock ==
  ASSUME ~EraseFails, NEW k \in Log, NEW f, Sound(f), f.ok, f.st = "ok",
         f.log[k].vbn # None, NEW lpn \in Nat, lpn \div P \in Lbn, NEW v \in Val
  PROVE  SoundOk(replaceBlock(f, k, lpn, v))
<1> DEFINE lbn == lpn \div P
           b == f.log[k].vbn
           o == f.map[lbn]
           s == ftl_set_free_vb(f, b)
           x == IF f.log[k].used = 0 THEN [f EXCEPT !.ret = b]
                ELSE IF s.ok THEN ftl_get_free_vb(s) ELSE s
           y == [x EXCEPT !.log[k].vbn = None]
           u == [y EXCEPT !.usn = Wrap(@ + 1)]
           g == writeBlock(u, x.ret, lpn, v)
           m == ftl_set_free_vb(g, o)
           z == [m EXCEPT !.map[lbn] = m.ret]
<1>1. GivenUp(f, x, k)
  <2>1. GivenUp(f, [f EXCEPT !.ret = b], k)
    BY GiveUpUnused
  <2>2. GivenUp(f, IF s.ok THEN ftl_get_free_vb(s) ELSE s, k)
    BY GiveUpUsed
  <2> HIDE DEF b, s
  <2> QED BY <2>1, <2>2
<1>2. replaceBlock(f, k, lpn, v) =
        IF ~x.ok THEN x
        ELSE LET h == writeBlock([x EXCEPT !.log[k].vbn = None, !.usn = Wrap(@ + 1)],
                                 x.ret, lpn, v)
                 d == ftl_set_free_vb(h, x.map[lbn])
             IN  IF d.ok THEN [d EXCEPT !.map[lbn] = d.ret] ELSE d
  <2> DEFINE fill(q) == writeBlock([q EXCEPT !.log[k].vbn = None, !.usn = Wrap(@ + 1)],
                                   q.ret, lpn, v)
             done(q) == IF q.ok THEN [q EXCEPT !.map[lbn] = q.ret] ELSE q
             taken(r) == IF r.ok THEN done(ftl_set_free_vb(fill(r), r.map[lbn])) ELSE r
  <2>1. replaceBlock(f, k, lpn, v) = taken(x)
    BY DEF replaceBlock
  <2> HIDE DEF x
  <2> QED BY <2>1
<1> HIDE DEF x
<1>3. CASE ~x.ok
  BY <1>1, <1>2, <1>3 DEF GivenUp, SoundOk, Sound
<1>4. CASE x.ok
  <2>1. x \in State /\ x.st = "ok" /\ x.map = f.map /\ Held(y, {x.ret}, 1)
    BY <1>1, <1>4 DEF GivenUp
  <2>2. o \in Block /\ o \in BlockN /\ x.ret \in Block
    <3>1. f.map \in [Lbn -> Block]
      BY DEF Sound, Held
    <3> QED BY <2>1, <3>1 DEF BlockN, State
  <2>3. y \in State /\ y.st = "ok" /\ y.ret = x.ret /\ SameButLog(x, y)
    BY <2>1, DropRow
  <2>4. [x EXCEPT !.log[k].vbn = None, !.usn = Wrap(@ + 1)] = u
    BY <2>1 DEF State
  <2> HIDE DEF y
  <2>5. Quiet(y, u)
    BY <2>3, NextUsn
  <2> HIDE DEF u
  <2>6. Quiet(y, g)
    <3>1. u \in State /\ (u.ok => u.st = "ok")
      BY <2>5 DEF Quiet
    <3>2. Quiet(u, g)
      BY <3>1, WriteBlock
    <3> HIDE DEF g
    <3> QED BY <2>5, <3>2, QuietTrans
  <2> HIDE DEF g, o
  <2>7. g \in State /\ g.ret = x.ret /\ g.map = f.map /\ Held(g, {x.ret}, 1)
    <3>1. Held(g, {x.ret}, 1)
      BY <2>1, <2>6, QuietHeld
    <3> QED BY <2>1, <2>3, <2>6, <3>1 DEF Quiet, SameButLog
  <2>8. /\ m \in State /\ m.map = f.map /\ m.ret = x.ret /\ (m.ok <=> m.st = "ok")
        /\ m.st = "ok" => Held(m, {x.ret}, 0) /\ \E j \in Ring(m) : m.free[j] = o
    <3>1. g.numFree < Pool
      BY <2>7, RoomInPool
    <3>2. /\ m \in State /\ m.map = f.map /\ m.ret = x.ret /\ (m.ok <=> m.st = "ok")
          /\ \A H : \A n \in Int : Held(g, H, n) /\ m.st = "ok" => Held(m, H \ {o}, n - 1)
          /\ m.st = "ok" => \E j \in Ring(m) : m.free[j] = o
      BY <2>2, <2>7, <3>1, SetFree
    <3> HIDE DEF m
    <3>5. 1 \in Int
      OBVIOUS
    <3>3. m.st = "ok" => Held(m, {x.ret} \ {o}, 1 - 1)
      BY <2>7, <3>2, <3>5
    <3>4. m.st = "ok" => Held(m, {x.ret}, 0)
      BY <3>3, HeldMore
    <3> QED BY <3>2, <3>4
  <2>9. replaceBlock(f, k, lpn, v) = IF m.ok THEN z ELSE m
    <3>1. x.map[lbn] = o
      BY <2>1 DEF o
    <3> QED BY <1>2, <1>4, <2>4, <3>1 DEF g
  <2> HIDE DEF m
  <2>10. CASE ~m.ok
    BY <2>8, <2>9, <2>10 DEF SoundOk, Sound
  <2>11. CASE m.ok
    <3>1. m.st = "ok" /\ Held(m, {x.ret}, 0) /\ \E j \in Ring(m) : m.free[j] = o
      BY <2>8, <2>11
    <3>2. [m.map EXCEPT ![lbn] = m.ret] \in [Lbn -> BlockN]
      BY <2>8, <2>2 DEF State, BlockN
    <3>3. /\ z \in State /\ z.map = [m.map EXCEPT ![lbn] = x.ret] /\ z.log = m.log
          /\ z.free = m.free /\ z.nextFree = m.nextFree /\ z.numFree = m.numFree
          /\ z.ctrl = m.ctrl /\ z.st = "ok"
      BY <3>1, <3>2, <2>8 DEF State
    <3> HIDE DEF z
    <3>4. Held(z, ({x.ret} \ {x.ret}) \cup {m.map[lbn]}, 0)
      BY <2>2, <3>1, <3>3, HeldMap
    <3>5. Held(z, {o}, 0)
      <4>1. m.map[lbn] = o
        BY <2>8 DEF o
      <4> QED BY <3>4, <4>1, HeldMore
    <3>6. \E j \in Ring(z) : z.free[j] = o
      BY <3>1, <3>3 DEF Ring
    <3>7. Held(z, {o} \ {o}, 0)
      BY <3>5, <3>6, HeldRing
    <3>8. Held(z, {}, 0)
      BY <3>7, HeldMore
    <3> QED BY <2>9, <2>11, <3>3, <3>8 DEF SoundOk, Sound
  <2> QED BY <2>10, <2>11
<1> QED BY <1>3, <1>4

LEMMA RoomFor ==
  ASSUME ~EraseFails, NEW f, Prepared(f), f.ok, NEW lbn \in Lbn
  PROVE  Prepared(roomFor(f, lbn))
<1> DEFINE m == ftl_merge(f, f.ret)
<1>1. Sound(f) /\ f.st = "ok" /\ f.ret \in Log /\ f.log[f.ret].vbn # None
  BY DEF Prepared
<1>2. Sound(m)
  BY <1>1, Merge
<1>3. roomFor(f, lbn) = IF f.log[f.ret].used < P THEN f
                        ELSE IF m.ok THEN ftl_prepare_log(m, lbn) ELSE m
  BY DEF roomFor, prepareMerged
<1> HIDE DEF m
<1>4. Prepared(ftl_prepare_log(m, lbn))
  BY <1>2, PrepareLog
<1>5. ~m.ok => Prepared(m)
  BY <1>2 DEF Prepared
<1> QED BY <1>3, <1>4, <1>5


-----------------------------------------------------------------------------
(* A call that writes pages.                                               *)
LEMMA SoundFail ==
  ASSUME NEW g, Sound(g), g.st = "ok" \/ ~g.ok
  PROVE  SoundOk([g EXCEPT !.ok = g.st = "ok"])
<1> DEFINE u == [g EXCEPT !.ok = g.st = "ok"]
<1>1. /\ u \in State /\ u.st = g.st /\ (u.ok <=> g.st = "ok") /\ SamePool(g, u)
  BY DEF Sound, State, SamePool
<1> HIDE DEF u
<1>2. u.st = "ok" => Held(u, {}, 0)
  BY <1>1, HeldSame DEF Sound
<1> QED BY <1>1, <1>2 DEF SoundOk, Sound, u

(* One round: the rest of a block replaces it, or pages go to its log.     *)
LEMMA PutPages ==
  ASSUME NEW r, Prepared(r), r.ok, NEW at \in Nat, NEW v \in Val,
         NEW c \in Nat, c <= P - r.log[r.ret].used,
         NEW put, put = writeLog(r, r.ret, at, v, c)
  PROVE  SoundOk([put EXCEPT !.ok = put.st = "ok"])
<1>1. r \in State /\ r.st = "ok" /\ r.ret \in Log /\ Held(r, {}, 0)
  BY DEF Prepared, Sound
<1> DEFINE k == r.ret
<1>2. k \in Log /\ c <= P - r.log[k].used /\ put = writeLog(r, k, at, v, c)
  BY <1>1
<1> HIDE DEF k
<1>3. Fills(r, k, put)
  BY <1>1, <1>2, WriteLog
<1>4. put \in State /\ (put.ok => put.st = "ok") /\ Held(put, {}, 0)
  BY <1>1, <1>3, FillsHeld DEF Fills
<1> QED BY <1>4, SoundFail DEF Sound

LEMMA WritePages ==
  ASSUME ~EraseFails, NEW f, Sound(f), f.st = "ok", NEW lpn \in Nat, NEW n \in Nat,
         lpn + n < NumLbns * P, NEW v \in Val
  PROVE  SoundOk(writePages(f, lpn, n, v))
<1> DEFINE at(s) == lpn + s.i
           p(s) == ftl_prepare_log(s.f, at(s) \div P)
           r(s) == roomFor(p(s), at(s) \div P)
           c(s) == Min({n - s.i, P - r(s).log[r(s).ret].used, P - (at(s) % P)})
           put(s) == writeLog(r(s), r(s).ret, at(s), v, c(s))
           all(s) == replaceBlock(p(s), p(s).ret, at(s), v)
           round(s, j) ==
             IF ~s.f.ok \/ s.i = n THEN s
             ELSE IF ~p(s).ok THEN [s EXCEPT !.f = p(s)]
             ELSE IF at(s) % P = 0 /\ n - s.i >= P THEN [f |-> all(s), i |-> s.i + P]
             ELSE IF ~r(s).ok THEN [s EXCEPT !.f = r(s)]
             ELSE [f |-> [put(s) EXCEPT !.ok = put(s).st = "ok"], i |-> s.i + c(s)]
           x == [f |-> [f EXCEPT !.ok = TRUE], i |-> 0]
           S == {s \in [f : State, i : 0..n] : SoundOk(s.f)}
           T == [j \in 0..n |-> S]
<1>1. writePages(f, lpn, n, v) = Loop(round, n, x).f
  BY DEF writePages, putPages
<1>2. ASSUME NEW s \in S, NEW j
      PROVE  round(s, j) \in S
  <2> HIDE DEF round
  <2>1. CASE ~s.f.ok \/ s.i = n
    BY <2>1 DEF round
  <2>2. CASE s.f.ok /\ s.i # n
    <3> DEFINE a == at(s)
               q == p(s)
               w == r(s)
               d == c(s)
               u == put(s)
               e == [u EXCEPT !.ok = u.st = "ok"]
    <3>1. s.i \in 0..n /\ s.f \in State /\ Sound(s.f) /\ s.f.st = "ok"
      BY <2>2 DEF SoundOk
    <3>2. a \in Nat /\ a < NumLbns * P /\ n - s.i \in Nat /\ s.i \in Nat
      <4>1. \A y, z, m \in Nat : \A b \in Int : z \in 0..m /\ z # m /\ y + m < b
              => y + z \in Nat /\ y + z < b /\ m - z \in Nat /\ z \in Nat
        OBVIOUS
      <4>2. NumLbns * P \in Int
        BY Constants
      <4>3. s.i \in Nat
        BY <3>1
      <4> QED BY <2>2, <3>1, <4>1, <4>2, <4>3
    <3> HIDE DEF at
    <3>3. a \div P \in Lbn /\ a % P \in 0..P - 1 /\ P - (a % P) \in Nat
      <4>1. a \div P \in 0..NumLbns - 1 /\ a % P \in 0..P - 1
        BY <3>2, DivInRange, Constants
      <4>2. \A m \in Nat : \A y \in 0..m - 1 : m - y \in Nat
        OBVIOUS
      <4> QED BY <4>1, <4>2, Constants DEF Lbn
    <3>4. Prepared(q)
      BY <3>1, <3>3, PrepareLog
    <3>5. round(s, j) = IF ~q.ok THEN [s EXCEPT !.f = q]
                        ELSE IF a % P = 0 /\ n - s.i >= P THEN [f |-> all(s), i |-> s.i + P]
                        ELSE IF ~w.ok THEN [s EXCEPT !.f = w]
                        ELSE [f |-> e, i |-> s.i + d]
      BY <2>2 DEF round
    <3>6. q.ok => Prepared(w)
      <4> HIDE DEF p
      <4> QED BY <3>3, <3>4, RoomFor
    <3>7. q.ok /\ a % P = 0 /\ n - s.i >= P => [f |-> all(s), i |-> s.i + P] \in S
      <4>1. SUFFICES ASSUME q.ok, n - s.i >= P
                     PROVE  [f |-> all(s), i |-> s.i + P] \in S
        OBVIOUS
      <4> DEFINE k == q.ret
      <4>2. Sound(q) /\ q.st = "ok" /\ k \in Log /\ q.log[k].vbn # None
        BY <3>4, <4>1 DEF Prepared
      <4>3. all(s) = replaceBlock(q, k, a, v)
        OBVIOUS
      <4> HIDE DEF q, k, a, all
      <4>4. SoundOk(all(s))
        BY <3>2, <3>3, <4>1, <4>2, <4>3, ReplaceBlock
      <4>5. s.i + P \in 0..n
        BY <3>2, <4>1, Constants
      <4> QED BY <4>4, <4>5 DEF SoundOk, Sound
    <3>8. q.ok /\ w.ok => [f |-> e, i |-> s.i + d] \in S
      <4>1. SUFFICES ASSUME q.ok, w.ok
                     PROVE  [f |-> e, i |-> s.i + d] \in S
        OBVIOUS
      <4> DEFINE k == w.ret
                 L == {n - s.i, P - w.log[k].used, P - (a % P)}
      <4>2. w \in State /\ k \in LogSlot /\ Prepared(w)
        BY <3>6, <4>1, LogSlots DEF Prepared, Sound
      <4>3. d = Min(L) /\ u = writeLog(w, k, a, v, d)
        OBVIOUS
      <4> HIDE DEF w, k, a, d, u
      <4>4. P - w.log[k].used \in Nat
        <5>1. w.log[k].used \in 0..P /\ P \in Nat
          BY <4>2, RowOf, Constants
        <5> QED BY <5>1
      <4>5. L \subseteq Nat /\ L # {}
        BY <3>2, <3>3, <4>4
      <4>6. d \in Nat /\ d <= P - w.log[k].used /\ d <= n - s.i
        <5>1. P - w.log[k].used \in L /\ n - s.i \in L
          OBVIOUS
        <5> HIDE DEF L
        <5> QED BY <4>3, <4>5, <5>1, MinMember
      <4>7. SoundOk(e)
        BY <3>2, <4>1, <4>2, <4>3, <4>6, PutPages DEF k
      <4>8. s.i + d \in 0..n
        <5>1. \A y, z, m \in Nat : z <= m - y => y + z \in 0..m
          OBVIOUS
        <5> QED BY <3>2, <4>6, <5>1
      <4> HIDE DEF e
      <4> QED BY <4>7, <4>8 DEF SoundOk, Sound
    <3>9. ~q.ok => SoundOk(q)
      BY <3>4 DEF Prepared, SoundOk
    <3>10. q.ok /\ ~w.ok => SoundOk(w)
      BY <3>6 DEF Prepared, SoundOk
    <3> HIDE DEF q, w, e, d, a, all
    <3>11. \A y : SoundOk(y) => [s EXCEPT !.f = y] \in S
      BY DEF SoundOk, Sound
    <3> HIDE DEF S
    <3> QED BY <3>5, <3>7, <3>8, <3>9, <3>10, <3>11
  <2> QED BY <2>1, <2>2
<1> HIDE DEF round
<1>3. n \in Nat /\ x \in T[0] /\ \A i \in 0..n - 1 : \A s \in T[i] : round(s, i) \in T[i + 1]
  <2>1. x \in S
    <3> DEFINE y == [f EXCEPT !.ok = TRUE]
    <3>1. f \in State
      BY DEF Sound
    <3>2. Quiet(f, y)
      BY <3>1, OkQuiet
    <3>3. y.st = "ok"
      BY <3>1 DEF State
    <3> HIDE DEF y
    <3>4. SoundOk(y)
      BY <3>2, <3>3, QuietSound DEF SoundOk
    <3>5. x = [f |-> y, i |-> 0] /\ 0 \in 0..n
      BY DEF y
    <3> QED BY <3>4, <3>5 DEF SoundOk, Sound
  <2>2. 0 \in 0..n /\ \A i \in 0..n - 1 : i \in 0..n /\ i + 1 \in 0..n
    OBVIOUS
  <2> HIDE DEF S, x
  <2> QED BY <2>1, <2>2, <1>2
<1> HIDE DEF x
<1> DEFINE phi == [i \in 0..n - 1 |-> [s \in T[i] |-> round(s, i)]]
           run == CHOOSE h : h = [i \in 0..n |->
                                    IF i = 0 THEN x ELSE round(h[i - 1], i - 1)]
<1> HIDE DEF T, round
<1>10. Within(n, T, phi)
  BY <1>3 DEF Within
<1> HIDE DEF phi
<1>11. PICK h : Runs(h, n, x, phi) /\ \A i \in 0..n : h[i] \in T[i]
  BY <1>3, <1>10, LoopRuns
<1>12. \A i \in 0..n : i # 0 => phi[i - 1][h[i - 1]] = round(h[i - 1], i - 1)
  <2>1. SUFFICES ASSUME NEW i \in 0..n, i # 0
                 PROVE  phi[i - 1][h[i - 1]] = round(h[i - 1], i - 1)
    OBVIOUS
  <2>2. i - 1 \in 0..n - 1 /\ i - 1 \in 0..n
    BY <1>3, <2>1
  <2> QED BY <1>11, <2>2 DEF phi
<1>13. h = [i \in 0..n |-> IF i = 0 THEN x ELSE round(h[i - 1], i - 1)]
  BY <1>11, <1>12 DEF Runs
<1>14. run = [i \in 0..n |-> IF i = 0 THEN x ELSE round(run[i - 1], i - 1)]
  BY <1>13
<1> HIDE DEF run
<1>15. run[0] = x /\ \A i \in 0..n - 1 : run[i + 1] = round(run[i], i)
  BY <1>3, <1>14
<1>16. run[n] \in T[n]
  BY <1>3, <1>15, LoopStays
<1>17. Loop(round, n, x) = run[n]
  BY DEF Loop, run
<1>20. run[n] \in S
  BY <1>3, <1>16 DEF T
<1> QED BY <1>1, <1>17, <1>20 DEF S

(* Wear levelling: the logical block moves, and its block takes the place  *)
(* of the free one.                                                        *)
LEMMA WindowInRing ==
  ASSUME NEW f, Sound(f), f.st = "ok"
  PROVE  /\ Window(f) # {}
         /\ LET i == (f.nextFree + Choice(f, Window(f))) % Pool
            IN  i \in Ring(f) /\ f.free[i] \in Block
<1>1. /\ f \in State /\ Held(f, {}, 0) /\ f.numFree \in Nat /\ f.numFree > 0
      /\ \A i \in Ring(f) : f.free[i] \in Block
  <2>1. f \in State /\ Held(f, {}, 0) /\ 0 \in Int
    BY DEF Sound
  <2>2. f.numFree >= 3 - 0
    BY <2>1, HeldCount
  <2> QED BY <2>1, <2>2 DEF State, Held
<1>2. None \notin Block
  BY Constants DEF Block
<1>3. \A j \in 0..f.numFree - 1 : (f.nextFree + j) % Pool \in Ring(f)
  BY DEF Ring, RingOf
<1>4. Window(f) = 0..f.numFree - 1
  BY <1>1, <1>2, <1>3 DEF Window
<1>5. Window(f) # {} /\ Window(f) \subseteq 0..f.numFree
  <2>1. \A n \in Nat : n > 0 => 0..n - 1 # {} /\ 0..n - 1 \subseteq 0..n
    <3>1. \A n \in Nat : n > 0 => 0 \in 0..n - 1
      OBVIOUS
    <3> QED BY <3>1
  <2> QED BY <1>1, <1>4, <2>1
<1>6. Choice(f, Window(f)) \in 0..f.numFree - 1
  BY <1>1, <1>4, <1>5, ChoiceMember
<1> QED BY <1>1, <1>3, <1>5, <1>6

LEMMA MoveToFree ==
  ASSUME ~EraseFails, NEW f, SoundOk(f)
  PROVE  SoundOk(moveToFree(f))
<1> DEFINE L    == {lbn \in Lbn : LogsOf(f, lbn) = {}}
           lbn  == Choice(f, L)
           i    == (f.nextFree + Choice(f, Window(f))) % Pool
           new  == f.free[i]
           old  == f.map[lbn]
           copied(g) == IF g.ok THEN ftl_copy_block(g, lbn, new) ELSE g
           erased(g) == IF g.ok THEN VFL_Erase([g EXCEPT !.map[lbn] = new], old) ELSE g
           done(g)   == IF g.ok THEN [g EXCEPT !.free[i] = old] ELSE g
           a == VFL_Erase(f, new)
           h == copied(a)
           m == [h EXCEPT !.map[lbn] = new]
           e == erased(h)
           z == [e EXCEPT !.free[i] = old]
<1>1. moveToFree(f) = IF ~f.ok \/ f.even \/ L = {} THEN f ELSE IF e.ok THEN z ELSE e
  BY DEF moveToFree
<1>2. CASE ~f.ok \/ f.even \/ L = {}
  BY <1>1, <1>2
<1>3. CASE f.ok /\ ~f.even /\ L # {}
  <2>1. f \in State /\ f.st = "ok" /\ Held(f, {}, 0)
    BY <1>3 DEF SoundOk, Sound
  <2>2. lbn \in Lbn
    <3>1. NumLbns - 1 \in Nat /\ L \subseteq 0..NumLbns - 1
      BY Constants DEF Lbn
    <3> HIDE DEF L
    <3>2. Choice(f, L) \in L
      BY <1>3, <3>1, ChoiceMember
    <3> QED BY <3>2 DEF L
  <2>3. i \in Ring(f) /\ new \in Block
    BY <2>1, WindowInRing DEF SoundOk
  <2>4. Quiet(f, a)
    BY <2>1, EraseQuiet
  <2> HIDE DEF lbn, i, a
  <2>5. Quiet(f, h)
    <3>1. CASE a.ok
      <4>1. a \in State /\ a.st = "ok" /\ Held(a, {}, 0)
        BY <2>1, <2>4, <3>1, QuietHeld DEF Quiet
      <4>2. Quiet(a, ftl_copy_block(a, lbn, new))
        BY <2>2, <4>1, CopyBlock
      <4> QED BY <2>4, <3>1, <4>2, QuietTrans
    <3>2. CASE ~a.ok
      BY <2>4, <3>2
    <3> QED BY <3>1, <3>2
  <2> HIDE DEF h
  <2>6. h \in State /\ (h.ok => h.st = "ok") /\ (h.st = "ok" => Held(h, {}, 0))
        /\ h.map = f.map /\ h.free = f.free /\ Ring(h) = Ring(f)
    BY <2>1, <2>5, QuietHeld DEF Quiet, Ring
  <2>7. CASE ~h.ok
    <3>1. e = h
      BY <2>7
    <3> QED BY <1>1, <1>3, <2>6, <2>7, <3>1 DEF SoundOk, Sound
  <2>8. CASE h.ok
    <3>1. f.map \in [Lbn -> Block] /\ old \in Block
      BY <2>1, <2>2 DEF Held
    <3>2. [h.map EXCEPT ![lbn] = new] \in [Lbn -> BlockN]
      BY <2>2, <2>3, <2>6, <3>1 DEF BlockN
    <3>3. /\ m \in State /\ m.map = [h.map EXCEPT ![lbn] = new] /\ m.log = h.log
          /\ m.free = h.free /\ m.nextFree = h.nextFree /\ m.numFree = h.numFree
          /\ m.ctrl = h.ctrl /\ m.st = h.st /\ Ring(m) = Ring(h)
      BY <3>2, <2>6 DEF State, Ring
    <3>4. e = VFL_Erase(m, old)
      BY <2>8
    <3> HIDE DEF m, new, old, e
    <3>5. Held(m, {old}, 0)
      <4>1. Held(h, {}, 0) /\ h.map[lbn] = old
        BY <2>6, <2>8 DEF old
      <4>2. Held(m, ({} \ {new}) \cup {h.map[lbn]}, 0)
        BY <2>2, <2>3, <3>3, <4>1, HeldMap
      <4> QED BY <4>1, <4>2, HeldMore
    <3>6. Quiet(m, e) /\ (e.st = "ok" => e.ok)
      BY <3>3, <3>4, EraseQuiet
    <3>7. e \in State /\ Held(e, {old}, 0) /\ (e.ok => e.st = "ok")
          /\ e.map = m.map /\ e.free = f.free /\ Ring(e) = Ring(f)
      BY <2>6, <3>3, <3>5, <3>6, QuietHeld DEF Quiet, Ring
    <3>8. e.ok => Sound(z) /\ z.st = "ok"
      <4>1. SUFFICES ASSUME e.ok PROVE Sound(z) /\ z.st = "ok"
        OBVIOUS
      <4>2. [e.free EXCEPT ![i] = old] \in Free
        BY <3>1, <3>7 DEF State, Free, BlockN
      <4>3. /\ z \in State /\ z.free = [e.free EXCEPT ![i] = old] /\ z.log = e.log
            /\ z.map = e.map /\ z.nextFree = e.nextFree /\ z.numFree = e.numFree
            /\ z.ctrl = e.ctrl /\ z.st = e.st
        BY <3>7, <4>2 DEF State
      <4> HIDE DEF z
      <4>4. \E l \in Lbn : e.map[l] = e.free[i]
        <5>1. e.map[lbn] = new
          BY <2>2, <2>6, <3>1, <3>3, <3>7
        <5>2. e.free[i] = new
          BY <3>7 DEF new
        <5> QED BY <2>2, <5>1, <5>2
      <4>5. Held(z, {old} \ {old}, 0)
        BY <2>3, <3>1, <3>7, <4>3, <4>4, HeldSwap
      <4>6. Held(z, {}, 0)
        BY <4>5, HeldMore
      <4> QED BY <3>7, <4>1, <4>3, <4>6 DEF Sound
    <3>9. ~e.ok => SoundOk(e)
      BY <3>6, <3>7 DEF SoundOk, Sound
    <3> HIDE DEF z
    <3> QED BY <1>1, <1>3, <3>8, <3>9 DEF SoundOk
  <2> QED BY <2>7, <2>8
<1> QED BY <1>2, <1>3

LEMMA TryWear ==
  ASSUME ~EraseFails, NEW f, Sound(f)
  PROVE  Sound(tryWear(f))
<1> DEFINE tried(g) == IF g.ok THEN Over([g EXCEPT !.swaps = @ - SyncWear]) ELSE Again(g)
           try(g)   == IF g.st # "ok" THEN Over(g) ELSE tried(ftl_auto_wearlevel(g))
           next(s) == IF s.over THEN s ELSE try(s.f)
           S == {g \in State : Sound(g)}
           R == Tried(S)
<1>1. ASSUME NEW g \in S
      PROVE  try(g) \in R
  <2>1. CASE g.st # "ok"
    BY <2>1 DEF Tried, Over
  <2>2. CASE g.st = "ok"
    <3> DEFINE u == ftl_mark_unclean(g)
               w == moveToFree(u)
               x == [w EXCEPT !.swaps = @ - SyncWear]
    <3>1. KeepsLog(g, u)
      BY <2>2, MarkUnclean
    <3> HIDE DEF u
    <3>2. SoundOk(u)
      BY <3>1, KeepsSound DEF SoundOk, KeepsLog, Keeps
    <3>3. SoundOk(w)
      BY <3>2, MoveToFree
    <3>4. try(g) = IF w.ok THEN [f |-> x, over |-> TRUE] ELSE [f |-> Fail(w), over |-> FALSE]
      BY <2>2 DEF ftl_auto_wearlevel, Over, Again, u
    <3> HIDE DEF w, try
    <3>5. w \in State /\ (w.ok => w.st = "ok") /\ Sound(w)
      BY <3>3 DEF SoundOk, Sound
    <3>6. w.swaps - SyncWear \in Int
      <4>1. SyncWear \in Nat
        BY FtlLogAssumption
      <4> QED BY <3>5, <4>1 DEF State
    <3>7. Quiet(w, x) /\ Quiet(w, Fail(w))
      BY <3>5, <3>6, SwapsQuiet, FailQuiet
    <3> HIDE DEF x
    <3>8. x \in S /\ Fail(w) \in S
      BY <3>5, <3>7, QuietSound DEF Quiet
    <3> HIDE DEF S
    <3> QED BY <3>4, <3>8 DEF Tried
  <2> QED BY <2>1, <2>2
<1>2. f \in S
  BY DEF Sound
<1>3. tryWear(f) = Tries(try, f)
  BY DEF tryWear
<1> HIDE DEF S, try
<1>4. \A s \in R : next(s) \in R
  BY <1>1 DEF Tried
<1>5. try(f) \in R
  BY <1>1, <1>2
<1>6. next(next(try(f))) \in R
  BY <1>4, <1>5
<1>7. \A s \in R : s.f \in S /\ try(s.f).f \in S
  BY <1>1 DEF Tried
<1>8. Tries(try, f) = LET s == next(next(try(f))) IN IF s.over THEN s.f ELSE try(s.f).f
  BY DEF Tries, Next3
<1> HIDE DEF next, R
<1>9. tryWear(f) \in S
  BY <1>3, <1>6, <1>7, <1>8
<1> QED BY <1>9 DEF S

-----------------------------------------------------------------------------
(* The calls of the interface.                                             *)
LEMMA WriteSound ==
  ASSUME ~EraseFails, NEW f, Sound(f), f.st = "ok", NEW lpn \in Nat, NEW n \in Nat,
         lpn + n < NumLbns * P, NEW v \in Val
  PROVE  SoundOk(FTL_Write(f, lpn, n, v))
<1> DEFINE u == ftl_mark_unclean(f)
           p == IF u.ok THEN writePages(u, lpn, n, v) ELSE u
           w == IF p.swaps >= WriteWear THEN tryWear(p) ELSE p
           z == [w EXCEPT !.ok = w.st = "ok"]
<1>1. SoundOk(u)
  <2>1. f \in State
    BY DEF Sound
  <2>2. KeepsLog(f, u)
    BY <2>1, MarkUnclean
  <2> HIDE DEF u
  <2> QED BY <2>2, KeepsSound DEF SoundOk, KeepsLog, Keeps
<1>2. FTL_Write(f, lpn, n, v) = IF p.ok THEN z ELSE p
  BY DEF FTL_Write, writeMarked
<1> HIDE DEF u
<1>3. SoundOk(p)
  <2>1. u.ok => SoundOk(writePages(u, lpn, n, v))
    BY <1>1, WritePages DEF SoundOk
  <2> QED BY <1>1, <2>1
<1> HIDE DEF p
<1>4. Sound(w)
  BY <1>3, TryWear DEF SoundOk
<1> HIDE DEF w
<1>5. SoundOk(z)
  <2>1. /\ z \in State /\ z.st = w.st /\ (z.ok <=> w.st = "ok") /\ SamePool(w, z)
    <3>1. w \in State /\ (w.st = "ok") \in BOOLEAN
      BY <1>4 DEF Sound
    <3>2. z \in State
      BY <3>1 DEF State
    <3>3. z.st = w.st /\ (z.ok <=> w.st = "ok")
      BY <3>1 DEF State
    <3>4. SamePool(w, z)
      BY <3>1 DEF State, SamePool
    <3> QED BY <3>2, <3>3, <3>4
  <2> HIDE DEF z
  <2>2. z.st = "ok" => Held(z, {}, 0)
    BY <1>4, <2>1, HeldSame DEF Sound
  <2> QED BY <2>1, <2>2 DEF SoundOk, Sound
<1> QED BY <1>2, <1>3, <1>5

LEMMA SyncSound ==
  ASSUME ~EraseFails, NEW f, Sound(f), f.st = "ok"
  PROVE  SoundOk(ftl_sync(f))
<1> DEFINE d == check_for_dirty_free_vb(f)
           w == IF d.swaps >= SyncWear THEN tryWear(d) ELSE d
           y == [f EXCEPT !.ok = TRUE]
<1>1. f \in State
  BY DEF Sound
<1>2. SoundOk(y)
  <2>1. Quiet(f, y)
    BY <1>1, OkQuiet
  <2> HIDE DEF y
  <2> QED BY <2>1, QuietSound DEF SoundOk, Quiet
<1>3. ftl_sync(f) = IF f.clean THEN y ELSE tryCommit(w)
  BY DEF ftl_sync
<1>4. Moves(f, d)
  BY <1>1, CheckForDirty
<1> HIDE DEF d
<1>5. Sound(d)
  BY <1>4 DEF Sound, Moves
<1>6. Sound(w)
  BY <1>5, TryWear
<1> HIDE DEF w, y
<1>7. KeepsLog(w, tryCommit(w))
  BY <1>6, TryCommit DEF Sound
<1>8. SoundOk(tryCommit(w))
  BY <1>6, <1>7, KeepsSound DEF KeepsLog, Keeps, SoundOk
<1> QED BY <1>2, <1>3, <1>8

-----------------------------------------------------------------------------
(* Counting: four sets that cover a set as large as the sum of their       *)
(* bounds have no member in common.                                        *)
LEMMA ImageBound ==
  ASSUME NEW S, IsFiniteSet(S), NEW h, NEW T, T = {h[x] : x \in S}
  PROVE  /\ IsFiniteSet(T) /\ Cardinality(T) <= Cardinality(S)
         /\ Cardinality(T) \in Nat /\ Cardinality(S) \in Nat
<1> DEFINE q == [x \in S |-> h[x]]
<1>1. q \in Surjection(S, T)
  BY DEF Surjection
<1> HIDE DEF q
<1>2. IsFiniteSet(T) /\ Cardinality(T) <= Cardinality(S)
  BY <1>1, FS_Surjection
<1> QED BY <1>2, FS_CardinalityType

LEMMA FourParts ==
  ASSUME NEW A, NEW B, NEW C, NEW D, NEW a \in Int, NEW b \in Int, NEW c \in Int, NEW d \in Int,
         IsFiniteSet(A), IsFiniteSet(B), IsFiniteSet(C), IsFiniteSet(D),
         Cardinality(A) <= a, Cardinality(B) <= b, Cardinality(C) <= c, Cardinality(D) <= d,
         Cardinality(A \cup B \cup C \cup D) = a + b + c + d
  PROVE  /\ A \cap B = {} /\ A \cap C = {} /\ A \cap D = {}
         /\ B \cap C = {} /\ B \cap D = {} /\ C \cap D = {}
         /\ Cardinality(C) = c
<1> DEFINE U == A \cup B
           V == U \cup C
<1>1. /\ IsFiniteSet(U)
      /\ Cardinality(U) = Cardinality(A) + Cardinality(B) - Cardinality(A \cap B)
  BY FS_Union
<1>2. /\ IsFiniteSet(V)
      /\ Cardinality(V) = Cardinality(U) + Cardinality(C) - Cardinality(U \cap C)
  <2> HIDE DEF U
  <2> QED BY <1>1, FS_Union
<1>3. Cardinality(V \cup D) = Cardinality(V) + Cardinality(D) - Cardinality(V \cap D)
  <2> HIDE DEF V
  <2> QED BY <1>2, FS_Union
<1>4. IsFiniteSet(A \cap B) /\ IsFiniteSet(U \cap C) /\ IsFiniteSet(V \cap D)
  <2>1. A \cap B \in SUBSET A /\ U \cap C \in SUBSET C /\ V \cap D \in SUBSET D
    OBVIOUS
  <2> QED BY <2>1, FS_Subset
<1>5. Cardinality(V \cup D) = a + b + c + d
  OBVIOUS
<1> DEFINE x == Cardinality(A \cap B)
           y == Cardinality(U \cap C)
           z == Cardinality(V \cap D)
<1>6. x \in Nat /\ y \in Nat /\ z \in Nat
  BY <1>4, FS_CardinalityType
<1>7. Cardinality(A) \in Nat /\ Cardinality(B) \in Nat /\ Cardinality(C) \in Nat
      /\ Cardinality(D) \in Nat
  BY FS_CardinalityType
<1>8. x = 0 /\ y = 0 /\ z = 0 /\ Cardinality(C) = c
  <2> HIDE DEF x, y, z, U, V
  <2>1. a + b + c + d = Cardinality(A) + Cardinality(B) - x + Cardinality(C) - y
                        + Cardinality(D) - z
    BY <1>1, <1>2, <1>3, <1>5 DEF x, y, z
  <2> QED BY <2>1, <1>6, <1>7
<1>9. A \cap B = {} /\ U \cap C = {} /\ V \cap D = {}
  <2> HIDE DEF U, V
  <2> QED BY <1>4, <1>8, FS_EmptySet
<1> QED BY <1>8, <1>9

LEMMA HeldPartition ==
  ASSUME ftl \in State, Held(ftl, {}, 0)
  PROVE  /\ \A x, y \in DOMAIN Blocks : x # y => Blocks[x] \cap Blocks[y] = {}
         /\ UNION {Blocks[x] : x \in DOMAIN Blocks} = Block
         /\ ftl.numFree = Cardinality(Blocks.free)
         /\ ftl.numFree + Cardinality({k \in Log : ftl.log[k].vbn # None}) = Pool
<1> DEFINE M == {ftl.map[l] : l \in Lbn}
           G == {ftl.log[k].vbn : k \in Log} \ {None}
           F == {ftl.free[(ftl.nextFree + i) % Pool] : i \in 0..ftl.numFree - 1}
           C == {ftl.ctrl[i] : i \in 0..2}
           u == Cardinality(Used(ftl))
<1>1. /\ ftl.map \in [Lbn -> Block] /\ ftl.ctrl \in [0..2 -> Block]
      /\ \A k \in Log : ftl.log[k].vbn \in BlockN
      /\ ftl.numFree \in Nat
  BY LogSlots, RowOf DEF Held, State
<1>2. u \in Nat /\ ftl.numFree + u = Pool /\ IsFiniteSet(Used(ftl))
  <2>1. 0 \in Int
    OBVIOUS
  <2>2. IsFiniteSet(Used(ftl)) /\ u \in 0..NumLogs /\ ftl.numFree = Pool - 0 - u
    BY <2>1, HeldCount
  <2> HIDE DEF u
  <2> QED BY <1>1, <2>1, <2>2, Constants
<1>3. None \notin Block
  BY Constants DEF Block
<1>4. F = {ftl.free[i] : i \in Ring(ftl)}
  BY DEF Ring, RingOf
<1>5. IsFiniteSet(M) /\ Cardinality(M) <= NumLbns
  <2>1. IsFiniteSet(Lbn) /\ Cardinality(Lbn) = NumLbns
    BY Constants, FS_Interval DEF Lbn
  <2> QED BY <2>1, ImageBound
<1>6. IsFiniteSet(G) /\ Cardinality(G) <= u
  <2> DEFINE h == [k \in Used(ftl) |-> ftl.log[k].vbn]
  <2>1. G = {h[k] : k \in Used(ftl)}
    BY DEF Used
  <2> HIDE DEF h, G, u
  <2> QED BY <1>2, <2>1, ImageBound DEF u
<1>7. IsFiniteSet(F) /\ Cardinality(F) <= ftl.numFree
  <2> DEFINE h == [i \in 0..ftl.numFree - 1 |-> ftl.free[(ftl.nextFree + i) % Pool]]
  <2>1. IsFiniteSet(0..ftl.numFree - 1) /\ Cardinality(0..ftl.numFree - 1) = ftl.numFree
    <3> DEFINE m == ftl.numFree - 1
    <3>1. 0 \in Int /\ m \in Int /\ ftl.numFree = (IF 0 > m THEN 0 ELSE m - 0 + 1)
      BY <1>1
    <3> HIDE DEF m
    <3>2. IsFiniteSet(0..m) /\ Cardinality(0..m) = IF 0 > m THEN 0 ELSE m - 0 + 1
      BY <3>1, FS_Interval
    <3> QED BY <3>1, <3>2 DEF m
  <2>2. F = {h[i] : i \in 0..ftl.numFree - 1}
    OBVIOUS
  <2> HIDE DEF h, F
  <2>3. IsFiniteSet(F) /\ Cardinality(F) <= Cardinality(0..ftl.numFree - 1)
    BY <2>1, <2>2, ImageBound
  <2> QED BY <2>1, <2>3
<1>8. IsFiniteSet(C) /\ Cardinality(C) <= 3
  <2>1. IsFiniteSet(0..2) /\ Cardinality(0..2) = 3
    <3>1. 0 \in Int /\ 2 \in Int
      OBVIOUS
    <3>2. IsFiniteSet(0..2) /\ Cardinality(0..2) = IF 0 > 2 THEN 0 ELSE 2 - 0 + 1
      BY <3>1, FS_Interval
    <3> QED BY <3>2
  <2> QED BY <2>1, ImageBound
<1>9. M \cup G \cup F \cup C = Block
  <2>1. M \cup G \cup F \cup C \subseteq Block
    <3>1. M \subseteq Block /\ C \subseteq Block
      BY <1>1
    <3>2. G \subseteq Block
      BY <1>1 DEF BlockN
    <3>3. F \subseteq Block
      BY <1>4 DEF Held
    <3> QED BY <3>1, <3>2, <3>3
  <2>2. ASSUME NEW b \in Block
        PROVE  b \in M \cup G \cup F \cup C
    <3>1. \/ \E l \in Lbn : ftl.map[l] = b
          \/ \E k \in Log : ftl.log[k].vbn = b
          \/ \E i \in Ring(ftl) : ftl.free[i] = b
          \/ \E i \in 0..2 : ftl.ctrl[i] = b
      BY DEF Held
    <3> QED BY <3>1, <1>3, <1>4
  <2> HIDE DEF M, G, F, C
  <2> QED BY <2>1, <2>2
<1>10. Cardinality(Block) = NumLbns + u + ftl.numFree + 3
  <2>1. Cardinality(Block) = NumBlocks
    BY Constants, FS_Interval DEF Block
  <2>2. NumBlocks = NumLbns + Pool + 3
    BY DEF NumBlocks
  <2> QED BY <1>1, <1>2, <2>1, <2>2, Constants
<1>11. /\ M \cap G = {} /\ M \cap F = {} /\ M \cap C = {}
       /\ G \cap F = {} /\ G \cap C = {} /\ F \cap C = {}
       /\ Cardinality(F) = ftl.numFree
  <2>1. NumLbns \in Int /\ u \in Int /\ ftl.numFree \in Int /\ 3 \in Int
    BY <1>1, <1>2, Constants
  <2> HIDE DEF M, G, F, C, u
  <2>2. Cardinality(M \cup G \cup F \cup C) = NumLbns + u + ftl.numFree + 3
    BY <1>9, <1>10
  <2> QED BY <2>1, <2>2, <1>5, <1>6, <1>7, <1>8, FourParts
<1>12. Blocks = [map |-> M, log |-> G, free |-> F, ctrl |-> C]
  BY DEF Blocks
<1>13. {k \in Log : ftl.log[k].vbn # None} = Used(ftl)
  BY DEF Used
<1> HIDE DEF M, G, F, C
<1>14. /\ DOMAIN Blocks = {"map", "log", "free", "ctrl"}
       /\ Blocks["map"] = M /\ Blocks["log"] = G /\ Blocks["free"] = F /\ Blocks["ctrl"] = C
  BY <1>12
<1>15. \A x, y \in DOMAIN Blocks : x # y => Blocks[x] \cap Blocks[y] = {}
  BY <1>11, <1>14
<1>16. UNION {Blocks[x] : x \in DOMAIN Blocks} = Block
  <2>1. {Blocks[x] : x \in DOMAIN Blocks} = {M, G, F, C}
    BY <1>14
  <2> QED BY <2>1, <1>9
<1> QED BY <1>2, <1>11, <1>13, <1>14, <1>15, <1>16

-----------------------------------------------------------------------------
(* Power, start-up and the formatted device.                               *)
Powered(f) == Sound(f) /\ (f.st = "off" => ~f.clean)

LEMMA NoLogRow == NoLog \in LogRow /\ NoLog.vbn = None
<1>1. NoOffset \in [Offset -> Offset \cup {None}] /\ 0 \in 0..P /\ 0 \in 0..Top /\ 0 <= 0
  BY Constants DEF NoOffset
<1> QED BY <1>1 DEF NoLog, LogRow, LogRec

LEMMA UnpoweredPowered ==
  ASSUME NEW f \in State
  PROVE  Unpowered(f) \in State /\ Unpowered(f).st = "off" /\ Powered(Unpowered(f))
<1> DEFINE u == Unpowered(f)
           map == [l \in Lbn |-> None]
           log == [k \in LogSlot |-> NoLog]
           free == [i \in 0..Pool - 1 |-> None]
<1>1. map \in [Lbn -> BlockN] /\ log \in Rows /\ free \in Free
  BY NoLogRow DEF Rows, Free, BlockN
<1>2. 0 \in 0..Pool - 1 /\ 0 \in Nat /\ 0 \in Int /\ 0 \in Usn
  BY Constants DEF Usn
<1>3. u = [f EXCEPT !.st = "off", !.map = map, !.log = log, !.free = free, !.nextFree = 0,
                    !.numFree = 0, !.usn = 0, !.usnDec = 0, !.ctrl = f.vflCtrl, !.ctrlPage = 0,
                    !.ctrlChanges = 0, !.swaps = 0, !.clean = FALSE, !.cleanFreeVb = FALSE]
  BY DEF Unpowered
<1> HIDE DEF u, map, log, free
<1>4. u \in State /\ u.st = "off" /\ ~u.clean
  BY <1>1, <1>2, <1>3 DEF State
<1> QED BY <1>4 DEF Powered, Sound, u

LEMMA RestPowered ==
  ASSUME NEW g, Powered(g)
  PROVE  Powered(AtRest(g))
<1> DEFINE r == AtRest(g)
<1>1. 0 \in Nat /\ 0 \in Block
  BY Constants DEF Block
<1>2. g \in State
  BY DEF Powered, Sound
<1>3. r \in State /\ r.st = g.st /\ r.clean = g.clean /\ SamePool(g, r)
  BY <1>1, <1>2 DEF AtRest, State, SamePool
<1> HIDE DEF r
<1>4. r.st = "ok" => Held(r, {}, 0)
  BY <1>3, HeldSame DEF Powered, Sound
<1> QED BY <1>3, <1>4 DEF Powered, Sound, r

LEMMA CallPowered ==
  ASSUME NEW g, Sound(g)
  PROVE  Powered(AtRest(IF g.st = "off" THEN Unpowered(g) ELSE g))
<1> DEFINE u == IF g.st = "off" THEN Unpowered(g) ELSE g
<1>1. g \in State
  BY DEF Sound
<1>2. Powered(u)
  BY <1>1, UnpoweredPowered DEF Powered
<1> HIDE DEF u
<1>3. Powered(AtRest(u))
  BY <1>2, RestPowered
<1> QED BY <1>3 DEF u

(* What the pages of the NAND can hold.                                    *)
LEMMA PageOf ==
  ASSUME NEW f \in State, NEW b \in Block, NEW i \in Offset
  PROVE  /\ f.nand[b][i] \in Page
         /\ IsCtrl(f.nand[b][i]) => f.nand[b][i].dec \in Nat
         /\ f.nand[b][i].k = "cxt" => f.nand[b][i].cxt \in Whole
<1>1. f.nand[b][i] \in Page
  BY DEF State, Pages
<1> DEFINE q == f.nand[b][i]
<1> HIDE DEF q
<1>2. q \in Page
  BY <1>1 DEF q
<1>3. \/ q = Empty \/ q = Bad
      \/ q \in [k : {"user"}, lpn : Nat, usn : Usn, val : Val]
      \/ q \in [k : {"meta"}, dec : Usn]
      \/ q \in [k : {"cxt"}, dec : Usn, cxt : Whole]
      \/ q \in [k : {"mark"}, dec : Usn]
  BY <1>2 DEF Page
<1>4. IsCtrl(q) => q.dec \in Nat
  BY <1>3 DEF IsCtrl, Empty, Bad, Usn
<1>5. q.k = "cxt" => q.cxt \in Whole
  BY <1>3 DEF Empty, Bad
<1> QED BY <1>1, <1>4, <1>5 DEF q

LEMMA LatestBlock ==
  ASSUME NEW f \in State, CtrlBlocks(f) # {}
  PROVE  Latest(f) \in Block
<1> DEFINE C == CtrlBlocks(f)
           decs == {DecOf(f, i) : i \in C}
           low == {i \in C : \A j \in C : DecOf(f, i) <= DecOf(f, j)}
<1>1. \A i \in C : i \in 0..2 /\ DecOf(f, i) \in Nat
  <2>1. SUFFICES ASSUME NEW i \in C PROVE i \in 0..2 /\ DecOf(f, i) \in Nat
    OBVIOUS
  <2>2. i \in 0..2 /\ IsCtrl(f.nand[f.vflCtrl[i]][0])
    BY DEF CtrlBlocks
  <2>3. f.vflCtrl[i] \in Block /\ 0 \in Offset
    BY <2>2, Constants DEF State, Offset
  <2>4. f.nand[f.vflCtrl[i]][0].dec \in Nat
    BY <2>2, <2>3, PageOf
  <2> QED BY <2>2, <2>4 DEF DecOf
<1>2. decs \subseteq Nat /\ decs # {}
  BY <1>1
<1>3. PICK d \in decs : \A y \in decs : d <= y
  <2> HIDE DEF decs
  <2> QED BY <1>2, LeastMember
<1>4. low # {} /\ low \subseteq Nat /\ low \subseteq 0..2
  BY <1>1, <1>3
<1>5. Latest(f) = f.vflCtrl[Min(low)]
  BY DEF Latest
<1> HIDE DEF low
<1>6. Min(low) \in 0..2
  BY <1>4, MinMember
<1> QED BY <1>5, <1>6 DEF State

(* The tables that FTL_Open takes from a context are whole; FTL_Restore    *)
(* leaves them marked as out of date.                                      *)
LEMMA RestoreUnclean ==
  ASSUME NEW f \in State, ~f.clean
  PROVE  ~FTL_Restore(f).clean
<1>1. ~Closed(f).clean
  BY DEF Closed, State
<1>2. ASSUME NEW base, NEW r
      PROVE  ~Rebuild(Load(f, base), r).clean
  <2> DEFINE g == Load(f, base)
  <2>1. DOMAIN g = DOMAIN f /\ ~g.clean /\ "clean" \in DOMAIN f /\ "cleanFreeVb" \in DOMAIN f
        /\ "st" \in DOMAIN f
    BY DEF Load, State
  <2> HIDE DEF g
  <2>2. ~Closed(g).clean
    BY <2>1 DEF Closed
  <2>3. \A a, b, c, d, e, h, i : ~[g EXCEPT !.map = a, !.log = b, !.nextFree = c,
                                   !.numFree = d, !.free = e, !.ctrlPage = h, !.usn = i,
                                   !.clean = FALSE, !.cleanFreeVb = FALSE].clean
    BY <2>1
  <2> QED BY <2>2, <2>3 DEF Rebuild, g
<1> QED BY <1>1, <1>2 DEF FTL_Restore

LEMMA OpenPowered ==
  ASSUME NEW f \in State, ~f.clean, FTL_Open(f).clean
  PROVE  Powered(FTL_Open(f))
<1> DEFINE g == [f EXCEPT !.st = "ok", !.ctrl = f.vflCtrl]
           C == LastCxt(f, Latest(f), {"empty"})
           cxt == f.nand[Latest(f)][Max(C)].cxt
           z == [Load(g, cxt) EXCEPT !.ctrl = cxt.ctrl, !.clean = TRUE, !.cleanFreeVb = TRUE]
<1>1. FTL_Open(f) = IF CtrlBlocks(f) = {} \/ C = {} THEN FTL_Restore(g) ELSE z
  BY DEF FTL_Open
<1>2. g \in State /\ ~g.clean /\ g.st = "ok"
  BY DEF State
<1>3. CtrlBlocks(f) # {} /\ C # {} /\ FTL_Open(f) = z
  <2>1. ~FTL_Restore(g).clean
    <3> HIDE DEF g
    <3> QED BY <1>2, RestoreUnclean
  <2> HIDE DEF g, C, z
  <2> QED BY <1>1, <2>1
<1>4. cxt \in Whole
  <2> DEFINE b == Latest(f)
             i == Max(C)
  <2>1. b \in Block
    BY <1>3, LatestBlock
  <2>2. C \subseteq 0..P - 1 /\ P - 1 \in Nat
    BY Constants DEF LastCxt, Offset
  <2>3. i \in C
    <3> HIDE DEF C
    <3> QED BY <1>3, <2>2, MaxMember
  <2>4. i \in Offset /\ f.nand[b][i].k = "cxt"
    <3> HIDE DEF i
    <3> QED BY <2>3 DEF LastCxt
  <2> HIDE DEF b, i
  <2>5. f.nand[b][i].cxt \in Whole
    BY <2>1, <2>4, PageOf
  <2> QED BY <2>5 DEF b, i
<1> HIDE DEF cxt, g
<1>5. cxt \in Table /\ Held(cxt, {}, 0)
  BY <1>4 DEF Whole
<1>6. z = [g EXCEPT !.map = cxt.map, !.log = cxt.log, !.free = cxt.free,
                    !.nextFree = cxt.nextFree, !.numFree = cxt.numFree,
                    !.usn = cxt.usn, !.usnDec = cxt.usnDec,
                    !.ctrlPage = cxt.ctrlPage, !.ctrlChanges = cxt.ctrlChanges,
                    !.swaps = cxt.swaps, !.ctrl = cxt.ctrl, !.clean = TRUE,
                    !.cleanFreeVb = TRUE]
  BY <1>2 DEF Load, State
<1> HIDE DEF z
<1>7. /\ cxt.map \in [Lbn -> BlockN] /\ cxt.log \in Rows /\ cxt.free \in Free
      /\ cxt.nextFree \in 0..Pool - 1 /\ cxt.numFree \in Nat /\ cxt.usn \in Usn
      /\ cxt.usnDec \in Usn /\ cxt.ctrl \in [0..2 -> Block] /\ cxt.ctrlPage \in Nat
      /\ cxt.ctrlChanges \in Nat /\ cxt.swaps \in Int
  BY <1>5 DEF Table
<1>8. z \in State
  BY <1>2, <1>6, <1>7 DEF State
<1>9. /\ z.st = "ok" /\ z.map = cxt.map /\ z.log = cxt.log /\ z.free = cxt.free
      /\ z.nextFree = cxt.nextFree /\ z.numFree = cxt.numFree /\ z.ctrl = cxt.ctrl
  BY <1>2, <1>6 DEF State
<1>10. Held(z, {}, 0)
  BY <1>5, <1>9, HeldSame DEF SamePool
<1> QED BY <1>3, <1>8, <1>9, <1>10 DEF Powered, Sound

(* Without a power failure ahead a function leaves the power on.           *)
Lit(g) == "power" \in DOMAIN g /\ "st" \in DOMAIN g /\ g.power = 0 /\ g.st # "off"

LEMMA LitNand ==
  ASSUME NEW f, Lit(f), NEW b, NEW new, NEW half, NEW mayFail
  PROVE  Lit(Nand(f, b, new, half, mayFail))
<1> DEFINE later == [f EXCEPT !.power = IF @ = 0 THEN 0 ELSE @ - 1,
                              !.fail  = IF @ = 0 THEN 0 ELSE @ - 1]
           done == [later EXCEPT !.nand[b] = new, !.ok = TRUE]
<1>1. Lit(later)
  BY DEF Lit
<1> HIDE DEF later
<1>2. Lit(Fail(later)) /\ Lit(done) /\ Lit(Fail(f))
  BY <1>1 DEF Lit, Fail
<1>3. f.power # 1
  BY DEF Lit
<1> HIDE DEF done
<1> QED BY <1>2, <1>3 DEF Nand, done, later

LEMMA LitErase ==
  ASSUME NEW f, Lit(f), NEW b
  PROVE  Lit(VFL_Erase(f, b))
BY LitNand DEF VFL_Erase

LEMMA LitWrite ==
  ASSUME NEW f, Lit(f), NEW page
  PROVE  Lit(WriteCtrl(f, page))
<1>1. Lit(Fail([f EXCEPT !.st = "overwritten"]))
  BY DEF Lit, Fail
<1>2. \A b, new, half, mayFail : Lit(Nand(f, b, new, half, mayFail))
  BY LitNand
<1> QED BY <1>1, <1>2 DEF WriteCtrl, VFL_Write

LEMMA LitSetFree ==
  ASSUME NEW f, Lit(f), NEW b
  PROVE  Lit(ftl_set_free_vb(f, b))
<1> DEFINE e == [f EXCEPT !.numFree = @ + 1]
           g == VFL_Erase(e, b)
<1>1. Lit(e)
  BY DEF Lit
<1> HIDE DEF e
<1>2. Lit(g)
  BY <1>1, LitErase
<1> HIDE DEF g
<1>3. \A i : Lit([g EXCEPT !.free[i] = b])
  BY <1>2 DEF Lit
<1> QED BY <1>2, <1>3 DEF ftl_set_free_vb, g, e

LEMMA LitGetFree ==
  ASSUME NEW f, Lit(f)
  PROVE  Lit(ftl_get_free_vb(f))
<1>1. \A c, n, a, b, d, e, r : Lit([f EXCEPT !.free[c] = a, !.free[n] = b, !.numFree = d,
                                            !.nextFree = e, !.ret = r, !.ok = TRUE])
  BY DEF Lit
<1>2. Lit(Fail(f))
  BY DEF Lit, Fail
<1> QED BY <1>1, <1>2 DEF ftl_get_free_vb

LEMMA LitStore ==
  ASSUME NEW f, Lit(f)
  PROVE  Lit(vfl_store_FTLCtrlBlock(f))
<1> DEFINE g == Nand(f, 0, f.nand[0], f.nand[0], FALSE)
<1>1. Lit(g)
  BY LitNand
<1> HIDE DEF g
<1>2. Lit([g EXCEPT !.vflCtrl = f.ctrl])
  BY <1>1 DEF Lit
<1> QED BY <1>1, <1>2 DEF vfl_store_FTLCtrlBlock, g

LEMMA LitNext ==
  ASSUME NEW f, Lit(f)
  PROVE  Lit(ftl_next_ctrl_page(f))
<1> DEFINE p == f.ctrlPage + 1
           here == {i \in 0..2 : (f.ctrl[i] + 1) * P = p}
           n == ((IF here = {} THEN 3 ELSE Min(here)) + 1) % 3
           old == f.ctrl[n]
           next == [f EXCEPT !.ctrlPage = p, !.ctrlChanges = @ + 1]
           reused(g) == IF g.ok THEN [g EXCEPT !.ctrlPage = old * P] ELSE g
           taken(g) == IF ~g.ok THEN g
                       ELSE ftl_set_free_vb([g EXCEPT !.ctrl[n] = g.ret,
                                                      !.ctrlPage = g.ret * P], old)
           stored(g) == IF g.ok THEN vfl_store_FTLCtrlBlock(g) ELSE g
           done(g) == IF g.ok THEN [g EXCEPT !.usnDec = Wrap(@ - 1)] ELSE g
           w == [f EXCEPT !.ctrlPage = p, !.usnDec = Wrap(@ - 1), !.ok = TRUE]
<1>1. ftl_next_ctrl_page(f) =
        IF f.st # "ok" THEN Fail(f) ELSE IF p % P # 0 THEN w
        ELSE IF f.ctrlChanges % CtrlPeriod >= CtrlNew THEN done(reused(VFL_Erase(next, old)))
        ELSE done(stored(taken(ftl_get_free_vb(next))))
  BY DEF ftl_next_ctrl_page
<1> HIDE DEF p, n, old
<1>2. Lit(Fail(f)) /\ Lit(w) /\ Lit(next)
  BY DEF Lit, Fail
<1>3. \A g : Lit(g) => Lit(done(g)) /\ Lit(reused(g))
  BY DEF Lit
<1>4. \A g : Lit(g) => Lit(stored(g))
  BY LitStore
<1>5. \A g : Lit(g) => Lit(taken(g))
  <2>1. SUFFICES ASSUME NEW g, Lit(g) PROVE Lit(taken(g))
    OBVIOUS
  <2> DEFINE e == [g EXCEPT !.ctrl[n] = g.ret, !.ctrlPage = g.ret * P]
  <2>2. Lit(e)
    BY <2>1 DEF Lit
  <2> HIDE DEF e
  <2>3. Lit(ftl_set_free_vb(e, old))
    BY <2>2, LitSetFree
  <2> QED BY <2>1, <2>3 DEF e
<1> HIDE DEF done, reused, stored, taken, next, w
<1>6. Lit(VFL_Erase(next, old)) /\ Lit(ftl_get_free_vb(next))
  BY <1>2, LitErase, LitGetFree
<1>7. Lit(done(reused(VFL_Erase(next, old))))
  BY <1>3, <1>6
<1>8. Lit(done(stored(taken(ftl_get_free_vb(next)))))
  BY <1>3, <1>4, <1>5, <1>6
<1> QED BY <1>1, <1>2, <1>7, <1>8

LEMMA LitTables ==
  ASSUME ~EraseFails, NEW f \in State, f.st = "ok", Lit(f)
  PROVE  Lit(writeTables(f))
<1> DEFINE written(g) == IF g.ok THEN WriteCtrl(g, Meta(g.usnDec)) ELSE g
           page(g, i) == IF g.ok THEN written(ftl_next_ctrl_page(g)) ELSE g
           m == CxtPages - 1
           S == {g \in State : Lit(g)}
           T == [i \in 0..m |-> S]
<1>1. \A g \in S : written(g) \in S
  <2>1. SUFFICES ASSUME NEW g \in State, Lit(g)
                 PROVE  WriteCtrl(g, Meta(g.usnDec)) \in S
    OBVIOUS
  <2>2. Meta(g.usnDec) \in Page
    BY PageTypes DEF State
  <2> QED BY <2>1, <2>2, WriteCtrlQuiet, LitWrite DEF Quiet
<1> HIDE DEF written
<1>2. \A g \in S : \A i : page(g, i) \in S
  <2>1. \A g \in S : ftl_next_ctrl_page(g) \in S
    BY NextCtrlPage, LitNext DEF KeepsLog, Keeps
  <2> HIDE DEF S
  <2> QED BY <1>1, <2>1
<1>3. f \in S
  OBVIOUS
<1> HIDE DEF S, page
<1>4. m \in Nat /\ f \in T[0] /\ \A i \in 0..m - 1 : \A s \in T[i] : page(s, i) \in T[i + 1]
  <2>1. m \in Nat
    BY Constants
  <2>2. 0 \in 0..m /\ \A i \in 0..m - 1 : i \in 0..m /\ i + 1 \in 0..m
    BY <2>1
  <2> QED BY <2>1, <2>2, <1>2, <1>3
<1> DEFINE phi == [i \in 0..m - 1 |-> [s \in T[i] |-> page(s, i)]]
           run == CHOOSE r : r = [i \in 0..m |->
                                    IF i = 0 THEN f ELSE page(r[i - 1], i - 1)]
<1> HIDE DEF T, page
<1>10. Within(m, T, phi)
  BY <1>4 DEF Within
<1> HIDE DEF phi
<1>11. PICK r : Runs(r, m, f, phi) /\ \A i \in 0..m : r[i] \in T[i]
  BY <1>4, <1>10, LoopRuns
<1>12. \A i \in 0..m : i # 0 => phi[i - 1][r[i - 1]] = page(r[i - 1], i - 1)
  <2>1. SUFFICES ASSUME NEW i \in 0..m, i # 0
                 PROVE  phi[i - 1][r[i - 1]] = page(r[i - 1], i - 1)
    OBVIOUS
  <2>2. i - 1 \in 0..m - 1 /\ i - 1 \in 0..m
    BY <1>4, <2>1
  <2> QED BY <1>11, <2>2 DEF phi
<1>13. r = [i \in 0..m |-> IF i = 0 THEN f ELSE page(r[i - 1], i - 1)]
  BY <1>11, <1>12 DEF Runs
<1>14. run = [i \in 0..m |-> IF i = 0 THEN f ELSE page(run[i - 1], i - 1)]
  BY <1>13
<1> HIDE DEF run
<1>15. run[0] = f /\ \A i \in 0..m - 1 : run[i + 1] = page(run[i], i)
  BY <1>4, <1>14
<1>16. run[m] \in T[m]
  BY <1>4, <1>15, LoopStays
<1>17. Loop(page, m, f) = run[m]
  BY DEF Loop, run
<1>20. run[m] \in S
  BY <1>4, <1>16 DEF T
<1>21. writeTables(f) = Loop(page, m, f)
  BY DEF writeTables, page, written, m
<1> QED BY <1>17, <1>20, <1>21 DEF S

LEMMA LitCommit ==
  ASSUME ~EraseFails, NEW f \in State, f.st = "ok", Lit(f)
  PROVE  Lit(ftl_commit_cxt(f))
<1> DEFINE full == f.ctrlPage + CxtPages >= (f.ctrlPage \div P) * P + P
           page == IF full THEN LastOfBlock(f.ctrlPage) ELSE f.ctrlPage
           start == [f EXCEPT !.ctrlPage = page, !.ok = TRUE]
           t == writeTables(start)
           u == IF t.ok THEN ftl_next_ctrl_page(t) ELSE t
           c == [u EXCEPT !.clean = TRUE]
           w == IF ~u.ok THEN u ELSE WriteCtrl(c, Cxt(u.usnDec, Saved(u)))
<1>1. ftl_commit_cxt(f) = w
  BY DEF ftl_commit_cxt
<1>2. page \in Nat
  BY LastPage DEF State
<1> HIDE DEF page
<1>3. start \in State /\ start.st = "ok" /\ Lit(start)
  <2>1. start \in State /\ start.st = "ok"
    BY <1>2 DEF State
  <2>2. Lit(start)
    BY DEF Lit
  <2> QED BY <2>1, <2>2
<1> HIDE DEF start
<1>4. Lit(t)
  BY <1>3, LitTables
<1> HIDE DEF t
<1>5. Lit(u)
  BY <1>4, LitNext
<1> HIDE DEF u
<1>6. Lit(c)
  BY <1>5 DEF Lit
<1> HIDE DEF c
<1>7. Lit(w)
  BY <1>5, <1>6, LitWrite
<1> QED BY <1>1, <1>7

LEMMA FormatPowered ==
  ASSUME ~EraseFails, NEW low \in BOOLEAN, NEW even \in BOOLEAN, NEW junk \in Junk
  PROVE  Powered(Format(low, even, junk))
<1> DEFINE nand == [b \in Block |-> Erased]
           map  == [l \in Lbn |-> l]
           log  == [k \in LogSlot |-> NoLog]
           free == [i \in 0..Pool - 1 |-> NumLbns + i]
           page == FirstCtrl[2] * P + P - 1
           f == [st |-> "ok", nand |-> nand, vflCtrl |-> FirstCtrl,
                 map |-> map, log |-> log, free |-> free, nextFree |-> 0, numFree |-> Pool,
                 usn |-> 2, usnDec |-> Top - 1, ctrl |-> FirstCtrl, ctrlPage |-> page,
                 clean |-> FALSE, cleanFreeVb |-> TRUE, junk |-> junk,
                 ctrlChanges |-> 0, swaps |-> 0, low |-> low, even |-> even, torn |-> FALSE,
                 power |-> 0, fail |-> 0, ok |-> TRUE, ret |-> 0]
<1>1. Format(low, even, junk) = AtRest(ftl_commit_cxt(f))
  BY DEF Format
<1>2. nand \in [Block -> Pages] /\ log \in Rows /\ junk \in Usn \cup {None}
  BY PageTypes, NoLogRow, FtlLogAssumption DEF Rows, Usn
<1>3. /\ Lbn \subseteq Block /\ \A i \in 0..Pool - 1 : NumLbns + i \in Block
      /\ \A i \in 0..2 : NumLbns + Pool + i \in Block
      /\ 0 \in 0..Pool - 1 /\ Pool \in Nat /\ 0 \in Block
      /\ NumLbns \in Nat
  BY Constants DEF Lbn, Block
<1>4. map \in [Lbn -> Block] /\ free \in [0..Pool - 1 -> Block] /\ FirstCtrl \in [0..2 -> Block]
  BY <1>3 DEF FirstCtrl
<1>5. page \in Nat
  <2>1. FirstCtrl[2] = NumLbns + Pool + 2
    BY DEF FirstCtrl
  <2>2. (NumLbns + Pool + 2) * P \in Nat
    BY <1>3, Products
  <2> QED BY <2>1, <2>2, Constants
<1>6. 2 \in Usn /\ Top - 1 \in Usn
  BY Constants, FtlLogAssumption DEF Usn
<1>7. f \in State
  <2>1. map \in [Lbn -> BlockN] /\ free \in Free
    BY <1>4 DEF BlockN, Free
  <2> HIDE DEF nand, map, log, free, page
  <2> QED BY <2>1, <1>2, <1>3, <1>4, <1>5, <1>6 DEF State
<1>8. Held(f, {}, 0)
  <2>1. Used(f) = {} /\ Cardinality(Used(f)) = 0
    <3>1. \A k \in Log : f.log[k].vbn = None
      BY LogSlots, NoLogRow
    <3>2. Used(f) = {}
      BY <3>1 DEF Used
    <3> QED BY <3>2, FS_EmptySet
  <2>2. Ring(f) = 0..Pool - 1
    <3>1. \A i \in 0..Pool - 1 : (0 + i) % Pool = i
      <4>1. \A i \in 0..Pool - 1 : i \in 0..Pool /\ 0 + i < Pool /\ 0 + i = i
        BY <1>3
      <4> QED BY <1>3, <4>1, RingAt
    <3>2. Ring(f) = {(0 + i) % Pool : i \in 0..Pool - 1}
      BY DEF Ring, RingOf
    <3> QED BY <3>1, <3>2
  <2>3. ASSUME NEW b \in Block
        PROVE  \/ \E l \in Lbn : f.map[l] = b
               \/ \E i \in Ring(f) : f.free[i] = b
               \/ \E i \in 0..2 : f.ctrl[i] = b
    <3>1. b \in Nat /\ b < NumLbns + Pool + 3
      BY <1>3, Constants DEF Block, NumBlocks
    <3>2. CASE b < NumLbns
      <4>1. b \in Lbn
        BY <3>1, <3>2, <1>3 DEF Lbn
      <4> QED BY <4>1
    <3>3. CASE b >= NumLbns /\ b < NumLbns + Pool
      <4> DEFINE i == b - NumLbns
      <4>1. i \in 0..Pool - 1 /\ NumLbns + i = b
        BY <1>3, <3>1, <3>3
      <4> HIDE DEF i
      <4>2. f.free[i] = b
        BY <4>1
      <4> QED BY <2>2, <4>1, <4>2
    <3>4. CASE b >= NumLbns + Pool
      <4> DEFINE i == b - (NumLbns + Pool)
      <4>1. i \in 0..2 /\ NumLbns + Pool + i = b
        BY <1>3, <3>1, <3>4
      <4> HIDE DEF i
      <4>2. f.ctrl[i] = b
        BY <4>1 DEF FirstCtrl
      <4> QED BY <4>1, <4>2
    <3>5. b < NumLbns \/ (b >= NumLbns /\ b < NumLbns + Pool) \/ b >= NumLbns + Pool
      BY <1>3, <3>1
    <3> HIDE DEF f
    <3> QED BY <3>2, <3>3, <3>4, <3>5
  <2>4. f.map \in [Lbn -> Block] /\ (\A i \in Ring(f) : f.free[i] \in Block)
        /\ \A k \in Log : f.log[k].vbn = None
    BY <1>4, <2>2, LogSlots, NoLogRow
  <2>5. f.numFree + Cardinality(Used(f)) + 0 = Pool
    BY <1>3, <2>1
  <2> HIDE DEF f
  <2> QED BY <2>3, <2>4, <2>5 DEF Held
<1>9. f.st = "ok" /\ Lit(f)
  BY DEF Lit
<1> HIDE DEF f
<1> DEFINE c == ftl_commit_cxt(f)
<1>10. KeepsLog(f, c)
  BY <1>7, <1>8, <1>9, CommitKeeps
<1>11. Sound(c)
  BY <1>7, <1>8, <1>10, KeepsSound DEF KeepsLog, Sound
<1>12. c.st # "off"
  BY <1>7, <1>9, LitCommit DEF Lit
<1> HIDE DEF c
<1>13. Powered(c)
  BY <1>11, <1>12 DEF Powered
<1> QED BY <1>1, <1>13, RestPowered DEF c


-----------------------------------------------------------------------------
(* The invariant: as long as FTL_Restore has not been needed, the tables   *)
(* place every block, and without power they do not count as clean.        *)
Inv == /\ ~restored => Powered(ftl)
       /\ calls \in Nat

LEMMA InvInit == ~EraseFails /\ Init => Inv
<1>1. ASSUME ~EraseFails, Init PROVE Inv
  <2>1. PICK low \in BOOLEAN, even \in BOOLEAN, junk \in Junk : ftl = Format(low, even, junk)
    BY <1>1 DEF Init
  <2>2. Powered(ftl)
    BY <1>1, <2>1, FormatPowered
  <2> QED BY <1>1, <2>2 DEF Init, Inv
<1> QED BY <1>1

(* A call starts from the state of the FTL with the faults that it meets.  *)
LEMMA FaultSound ==
  ASSUME NEW f, Sound(f), NEW fault \in Nat \X Nat, NEW torn \in BOOLEAN
  PROVE  LET s == [f EXCEPT !.power = fault[1], !.fail = fault[2], !.torn = torn]
         IN  Sound(s) /\ s.st = f.st
<1> DEFINE s == [f EXCEPT !.power = fault[1], !.fail = fault[2], !.torn = torn]
<1>1. f \in State /\ fault[1] \in Nat /\ fault[2] \in Nat
  BY DEF Sound
<1>2. s \in State /\ s.st = f.st /\ SamePool(f, s)
  BY <1>1 DEF State, SamePool
<1> HIDE DEF s
<1>3. s.st = "ok" => Held(s, {}, 0)
  BY <1>2, HeldSame DEF Sound
<1> QED BY <1>2, <1>3 DEF Sound, s

LEMMA FaultsTyped == \A fault \in Faults : fault \in Nat \X Nat
<1>1. MaxOps \in Nat /\ MaxFail \in Nat
  BY FtlLogAssumption
<1> QED BY <1>1 DEF Faults

LEMMA InvWrite == ~EraseFails /\ Inv /\ Write => Inv'
<1>1. SUFFICES ASSUME ~EraseFails, Inv, Write PROVE Inv'
  OBVIOUS
<1>6. PICK req \in Requests :
        /\ ftl.st = "ok" /\ calls' = calls + 1 /\ restored' = restored
        /\ \E fault \in Faults, torn \in BOOLEAN :
           \E g \in {FTL_Write([ftl EXCEPT !.power = fault[1], !.fail = fault[2],
                                         !.torn = torn], req[1], req[2], calls + 1)} :
             ftl' = AtRest(IF g.st = "off" THEN Unpowered(g) ELSE g)
  BY <1>1 DEF Write, Call
<1>2. PICK fault \in Faults, torn \in BOOLEAN :
        LET s == [ftl EXCEPT !.power = fault[1], !.fail = fault[2], !.torn = torn]
            g == FTL_Write(s, req[1], req[2], calls + 1)
        IN  /\ ftl.st = "ok" /\ ftl' = AtRest(IF g.st = "off" THEN Unpowered(g) ELSE g)
            /\ calls' = calls + 1 /\ restored' = restored
  BY <1>6
<1> DEFINE s == [ftl EXCEPT !.power = fault[1], !.fail = fault[2], !.torn = torn]
           g == FTL_Write(s, req[1], req[2], calls + 1)
<1>3. /\ req[1] \in Nat /\ req[2] \in Nat /\ req[1] + req[2] < NumLbns * P
  BY FtlLogAssumption
<1>4. calls + 1 \in Nat /\ calls + 1 \in Val
  BY <1>1 DEF Inv, Val
<1>5. ~restored => Powered(ftl')
  <2>1. SUFFICES ASSUME ~restored PROVE Powered(ftl')
    OBVIOUS
  <2>2. Sound(ftl) /\ fault \in Nat \X Nat /\ ftl.st = "ok"
    BY <1>1, <1>2, <2>1, FaultsTyped DEF Inv, Powered
  <2>3. Sound(s) /\ s.st = "ok"
    BY <2>2, FaultSound
  <2>4. ftl' = AtRest(IF g.st = "off" THEN Unpowered(g) ELSE g)
    BY <1>2
  <2> HIDE DEF s
  <2>5. Sound(g)
    BY <1>1, <1>3, <1>4, <2>3, WriteSound DEF SoundOk
  <2> HIDE DEF g
  <2> QED BY <2>4, <2>5, CallPowered
<1> QED BY <1>2, <1>4, <1>5 DEF Inv

LEMMA InvSync == ~EraseFails /\ Inv /\ Sync => Inv'
<1>1. SUFFICES ASSUME ~EraseFails, Inv, Sync PROVE Inv'
  OBVIOUS
<1>2. PICK fault \in Faults, torn \in BOOLEAN :
        LET s == [ftl EXCEPT !.power = fault[1], !.fail = fault[2], !.torn = torn]
            g == ftl_sync(s)
        IN  /\ ftl.st = "ok" /\ ftl' = AtRest(IF g.st = "off" THEN Unpowered(g) ELSE g)
            /\ calls' = calls + 1 /\ restored' = restored
  BY <1>1 DEF Sync, Call
<1> DEFINE s == [ftl EXCEPT !.power = fault[1], !.fail = fault[2], !.torn = torn]
           g == ftl_sync(s)
<1>3. ~restored => Powered(ftl')
  <2>1. SUFFICES ASSUME ~restored PROVE Powered(ftl')
    OBVIOUS
  <2>2. Sound(ftl) /\ fault \in Nat \X Nat /\ ftl.st = "ok"
    BY <1>1, <1>2, <2>1, FaultsTyped DEF Inv, Powered
  <2>3. Sound(s) /\ s.st = "ok"
    BY <2>2, FaultSound
  <2>4. ftl' = AtRest(IF g.st = "off" THEN Unpowered(g) ELSE g)
    BY <1>2
  <2> HIDE DEF s
  <2>5. Sound(g)
    BY <1>1, <2>3, SyncSound DEF SoundOk
  <2> HIDE DEF g
  <2> QED BY <2>4, <2>5, CallPowered
<1> QED BY <1>1, <1>2, <1>3 DEF Inv

LEMMA InvPowerOff == Inv /\ PowerOff => Inv'
<1>1. SUFFICES ASSUME Inv, PowerOff PROVE Inv'
  OBVIOUS
<1>2. ftl' = Unpowered(ftl) /\ restored' = restored /\ calls' = calls
  BY <1>1 DEF PowerOff
<1>3. ~restored => Powered(ftl')
  BY <1>1, <1>2, UnpoweredPowered DEF Inv, Powered, Sound
<1> QED BY <1>1, <1>2, <1>3 DEF Inv

LEMMA InvRestart == Inv /\ Restart => Inv'
<1>1. SUFFICES ASSUME Inv, Restart PROVE Inv'
  OBVIOUS
<1>2. /\ ftl.st = "off" /\ ftl' = FTL_Open(ftl) /\ calls' = calls
      /\ restored' = (restored \/ ~ftl'.clean)
  BY <1>1 DEF Restart
<1>3. ~restored' => Powered(ftl')
  <2>1. SUFFICES ASSUME ~restored, FTL_Open(ftl).clean PROVE Powered(FTL_Open(ftl))
    BY <1>2
  <2>2. ftl \in State /\ ~ftl.clean
    BY <1>1, <1>2, <2>1 DEF Inv, Powered, Sound
  <2> QED BY <2>1, <2>2, OpenPowered
<1> QED BY <1>1, <1>2, <1>3 DEF Inv

(* As long as no erase fails, the tables place every block from one call   *)
(* to the next, whatever the order of calls, the operation at which the    *)
(* power goes and the write that fails.                                    *)
THEOREM BlocksInPlace ==
  ASSUME ~EraseFails
  PROVE  Spec => []Inv
<1>1. Init => Inv
  BY InvInit
<1>2. Inv /\ [Next]_vars => Inv'
  <2>1. ASSUME Inv, UNCHANGED vars PROVE Inv'
    BY <2>1 DEF Inv, vars
  <2>2. Inv /\ Next => Inv'
    BY InvWrite, InvSync, InvPowerOff, InvRestart DEF Next
  <2> QED BY <2>1, <2>2
<1> QED BY <1>1, <1>2, PTL DEF Spec

(* "The number of free vbs and the number of log blocks used must equal    *)
(* 20": every block has one use, through logs, merges, compaction, wear    *)
(* levelling, power failures and restarts with a context, for every size   *)
(* of the device.                                                          *)
THEOREM PoolStaysWhole ==
  ASSUME ~EraseFails
  PROVE  Spec => []PoolPartition
<1>1. Inv => PoolPartition
  <2>1. SUFFICES ASSUME Inv, Running, ~restored PROVE PoolPartition
    BY DEF PoolPartition
  <2>2. ftl \in State /\ Held(ftl, {}, 0)
    BY <2>1 DEF Inv, Powered, Sound, Running
  <2> QED BY <2>2, HeldPartition DEF PoolPartition
<1>2. Spec => []Inv
  BY BlocksInPlace
<1> QED BY <1>1, <1>2, PTL

=============================================================================
