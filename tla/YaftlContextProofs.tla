------------------------- MODULE YaftlContextProofs -------------------------
(***************************************************************************)
(* Theorems about the saved context of the YAFTL, for every geometry, any  *)
(* control blocks and any number of changes and of failing writes: the     *)
(* types, and, if ErasesOwnBlocks, that a clean context is found again and *)
(* that the module implements CleanMount.                                  *)
(***************************************************************************)
EXTENDS YaftlContext, FiniteSetTheorems, TLAPS

(* After a page of a context that failed, flushQuick erases the block that *)
(* has the number selCtrlBlockIndex (FLUSHQUICK_REPLACE_BLOCK).  That is   *)
(* the control block of this index only if these are the first blocks; if  *)
(* they are others, two failures can leave a clean context that open does  *)
(* not find.                                                               *)
InOrder == \A i \in 0..2 : FTLCtrlBlock[i] = i

ErasesOwnBlocks == InOrder \/ MaxFaults = 0

----------------------------------------------------------------------------
(* The arithmetic of pages.                                                *)

LEMMA DivBlock ==
  ASSUME NEW m \in Nat, m > 0, NEW b \in Nat, NEW q \in Int
  PROVE  q \div m = b <=> q \in b * m..b * m + m - 1
  <1> DEFINE d == q \div m
             r == q % m
  <1>1. d \in Int /\ r \in 0..m-1 /\ q = m * d + r
    BY SMT
  <1>2. ASSUME d > b PROVE m * d >= m * b + m
    <2>1. m * (d - b) >= m * 1
      BY <1>1, <1>2, SMT
    <2> QED BY <2>1, <1>1, SMT
  <1>3. ASSUME d < b PROVE m * d <= m * b - m
    <2>1. m * (b - d) >= m * 1
      BY <1>1, <1>3, SMT
    <2> QED BY <2>1, <1>1, SMT
  <1>4. m * b = b * m BY SMT
  <1> HIDE DEF d, r
  <1>5. d = b => q \in b*m .. b*m + m - 1 BY <1>1, <1>4, SMT
  <1>6. q \in b*m .. b*m + m - 1 => d = b BY <1>1, <1>2, <1>3, <1>4, SMT
  <1> QED BY <1>5, <1>6 DEF d

(* Multiples of m are m apart. *)
LEMMA ModStep ==
  ASSUME NEW m \in Nat, m > 0, NEW x \in Nat, NEW y \in Nat,
         x % m = 0, y % m = 0
  PROVE  /\ 0 % m = 0 /\ (x + m) % m = 0
         /\ y > x => y >= x + m
  <1>1. 0 % m = 0 BY SMT
  <1>3. PICK j \in Int : x = m * j BY SMT
  <1>2. (x + m) % m = 0
    <2> DEFINE e == (x + m) \div m
               r == (x + m) % m
    <2>1. e \in Int /\ r \in 0..m - 1 /\ x + m = m * e + r BY SMT
    <2> HIDE DEF e, r
    <2>2. r = m * (j + 1 - e) BY <2>1, <1>3, SMT
    <2>3. j + 1 - e > 0 => r >= m BY <2>1, <2>2, SMT
    <2>4. j + 1 - e < 0 => r < 0 BY <2>1, <2>2, SMT
    <2>5. j + 1 - e = 0 BY <2>1, <2>3, <2>4, SMT
    <2>6. r = 0 BY <2>2, <2>5, SMT
    <2> QED BY <2>6 DEF r
  <1>4. PICK k \in Int : y = m * k BY SMT
  <1>5. ASSUME y > x PROVE y >= x + m
    <2>1. m * (k - j) > 0 BY <1>3, <1>4, <1>5, SMT
    <2>2. k - j >= 1 BY <2>1, SMT
    <2>3. m * (k - j) >= m * 1 BY <2>2, SMT
    <2> QED BY <2>3, <1>3, <1>4, SMT
  <1> QED BY <1>1, <1>2, <1>5

PagesOf(b) == FirstPage(b)..FirstPage(b) + PagesPerSublk - 1

(* A page is in the block that its number says.                            *)
LEMMA PagesOfBlock ==
  ASSUME NEW b \in Block
  PROVE  /\ FirstPage(b) \in Nat
         /\ FirstPage(b) \in PagesOf(b)
         /\ PagesOf(b) \subseteq Page
         /\ \A q \in Int : BlockOf(q) = b <=> q \in PagesOf(b)
  <1> USE YaftlAssumption
  <1>1. b \in Nat /\ b <= NumBlocks /\ PagesPerSublk \in Nat /\ PagesPerSublk > 0
    BY SMT DEF Block
  <1>2. FirstPage(b) \in Nat
    BY <1>1, SMT DEF FirstPage
  <1>3. FirstPage(b) + PagesPerSublk <= (NumBlocks + 1) * PagesPerSublk
    <2>1. (NumBlocks - b) * PagesPerSublk >= 0 BY <1>1, SMT
    <2> QED BY <2>1, <1>1, SMT DEF FirstPage
  <1>4. \A q \in Int : BlockOf(q) = b <=> q \in PagesOf(b)
    BY <1>1, DivBlock DEF BlockOf, PagesOf, FirstPage
  <1>5. (NumBlocks + 1) * PagesPerSublk \in Nat BY <1>1, SMT
  <1>6. PagesOf(b) \subseteq Page
    BY <1>1, <1>2, <1>3, <1>5, SMT DEF PagesOf, Page
  <1> QED BY <1>1, <1>2, <1>4, <1>6, SMT DEF PagesOf

(* Pages are numbers, and each is in a block. *)
LEMMA PageType ==
  /\ Page \subseteq Nat /\ None \notin Page
  /\ \A q \in Page : BlockOf(q) \in Block
  <1> USE YaftlAssumption
  <1>1. Page \subseteq Nat BY SMT DEF Page
  <1>2. ASSUME NEW q \in Page PROVE BlockOf(q) \in Block
    <2> DEFINE d == BlockOf(q)
    <2>1. q \in Nat /\ q < (NumBlocks + 1) * PagesPerSublk
      BY <1>1, SMT DEF Page
    <2>2. d \in Int /\ q = PagesPerSublk * d + (q % PagesPerSublk)
            /\ q % PagesPerSublk \in 0..PagesPerSublk - 1
      BY <2>1, SMT DEF BlockOf
    <2> HIDE DEF d
    <2>3. ASSUME d < 0 PROVE FALSE
      <3>1. PagesPerSublk * (-1 - d) >= 0 BY <2>2, <2>3, SMT
      <3> QED BY <3>1, <2>1, <2>2, SMT
    <2>4. ASSUME d > NumBlocks PROVE FALSE
      <3>1. PagesPerSublk * (d - NumBlocks - 1) >= 0 BY <2>2, <2>4, SMT
      <3> QED BY <3>1, <2>1, <2>2, SMT
    <2> QED BY <2>2, <2>3, <2>4, SMT DEF Block, d
  <1> QED BY <1>1, <1>2

(* The slots of a block: the first one is at its first page, each has its  *)
(* pages and its mark in the block, and the next begins behind the mark.   *)
LEMMA SlotsOfBlock ==
  ASSUME NEW b \in Block
  PROVE  /\ FirstPage(b) \in Slots(b)
         /\ Slots(b) \subseteq PagesOf(b)
         /\ \A p \in Slots(b) : p >= FirstPage(b) /\ MarkOf(p) \in PagesOf(b)
         /\ \A p, q \in Slots(b) : q > p => q > MarkOf(p)
         /\ \A p \in Slots(b) :
              p + 2 * CtrlBlockPageOffset + 2 \in PagesOf(b)
                => p + CtrlBlockPageOffset + 1 \in Slots(b)
  <1> DEFINE m == CtrlBlockPageOffset + 1
             f == FirstPage(b)
  <1>1. /\ f \in Nat /\ m \in Nat /\ m > 0
        /\ CtrlBlockPageOffset \in Nat /\ CtrlBlockPageOffset > 0
        /\ PagesPerSublk \in Nat /\ PagesPerSublk > CtrlBlockPageOffset
    BY PagesOfBlock, YaftlAssumption, SMT
  <1>2. Slots(b) = {p \in f..f + PagesPerSublk - CtrlBlockPageOffset - 1 :
                      (p - f) % m = 0}
    BY DEF Slots
  <1>3. PagesOf(b) = f..f + PagesPerSublk - 1
    BY DEF PagesOf
  <1>4. \A p : MarkOf(p) = p + CtrlBlockPageOffset
    BY DEF MarkOf
  <1> HIDE DEF f
  <1>5. f \in Slots(b)
    <2>1. (f - f) % m = 0
      <3>1. f - f = 0 BY <1>1, SMT
      <3>2. 0 % m = 0 BY <1>1, SMT
      <3> QED BY <3>1, <3>2
    <2> QED BY <1>1, <1>2, <2>1, SMT
  <1>6. ASSUME NEW p \in Slots(b)
        PROVE  p \in f..f + PagesPerSublk - CtrlBlockPageOffset - 1 /\ (p - f) % m = 0
    BY <1>2
  <1> HIDE DEF m
  <1>7. ASSUME NEW p \in Slots(b), NEW q \in Slots(b), q > p
        PROVE  q > MarkOf(p)
    <2>1. p - f \in Nat /\ q - f \in Nat /\ q - f > p - f
      BY <1>1, <1>6, <1>7, SMT
    <2>2. q - f >= p - f + m
      BY <2>1, <1>1, <1>6, ModStep
    <2> QED BY <2>2, <1>1, <1>4, <1>6, SMT DEF m
  <1>8. ASSUME NEW p \in Slots(b), p + 2 * CtrlBlockPageOffset + 2 \in PagesOf(b)
        PROVE  p + CtrlBlockPageOffset + 1 \in Slots(b)
    <2>1. p - f \in Nat
      BY <1>1, <1>6, SMT
    <2>2. (p - f + m) % m = 0
      BY <2>1, <1>1, <1>6, ModStep
    <2>3. p - f + m = (p + CtrlBlockPageOffset + 1) - f
      BY <1>1, <1>6, SMT DEF m
    <2>4. ((p + CtrlBlockPageOffset + 1) - f) % m = 0
      BY <2>2, <2>3
    <2>5. p + CtrlBlockPageOffset + 1 \in f..f + PagesPerSublk - CtrlBlockPageOffset - 1
      BY <1>1, <1>3, <1>6, <1>8, SMT
    <2> QED BY <2>4, <2>5, <1>2
  <1>9. Slots(b) \subseteq PagesOf(b)
    BY <1>1, <1>3, <1>6, SMT
  <1>10. ASSUME NEW p \in Slots(b)
         PROVE  p >= f /\ MarkOf(p) \in PagesOf(b)
    BY <1>1, <1>3, <1>4, <1>6, SMT
  <1> QED BY <1>5, <1>7, <1>8, <1>9, <1>10 DEF f
----------------------------------------------------------------------------
(* The invariant.                                                          *)

(* Nothing in this block can be trusted: whatever is whole has its mark.   *)
Dead(b) == \A p \in Slots(b) : ~WalkEnds(p) \/ ~Whole(p)
AllDead == \A i \in 0..2 : Dead(FTLCtrlBlock[i])

EmptyFrom(b, p) == \A q \in PagesOf(b) : q >= p => flash[q] = Empty

WalkReaches(b, p) ==
  p \in Slots(b) /\ \A q \in Slots(b) : q < p => ~WalkEnds(q)

(* Open selects control block i. *)
Newest(i) ==
  /\ i \in Candidates
  /\ \A j \in Candidates \ {i} : FirstUsn(j) < FirstUsn(i)

(* Open trusts page p of control block i, and may.                         *)
Current(i, p) ==
  /\ WalkReaches(FTLCtrlBlock[i], p) /\ Whole(p)
  /\ EmptyFrom(FTLCtrlBlock[i], MarkOf(p))
  /\ Newest(i)
  /\ \A j \in 0..2 \ {i} : Dead(FTLCtrlBlock[j])
  /\ flash[p].tables = data
  /\ \A q \in Page : IsCxt(q) => flash[q].usn <= flash[p].usn

(* The last context, p, has its mark; there is room behind it.             *)
Marked(i, p) ==
  /\ WalkReaches(FTLCtrlBlock[i], p) /\ ~WalkEnds(p)
  /\ EmptyFrom(FTLCtrlBlock[i], MarkOf(p) + 1)
  /\ Newest(i)

(* The pages of the new context: those done are newer than any other.      *)
Writing(i) ==
  /\ WalkReaches(FTLCtrlBlock[i], slot.page)
  /\ \A q \in slot.page..CxtPage - 1 : flash[q] = Content
  /\ EmptyFrom(FTLCtrlBlock[i], CxtPage)
  /\ \A q \in Page :
       IsCxt(q) => flash[q].usn < usn \/ q \in slot.page..CxtPage - 1
  /\ slot.page # FirstPage(FTLCtrlBlock[i]) => Newest(i)

Saved == cxtPage \in Page /\ Current(sel, cxtPage)

Room ==
  IF cxtPage = None THEN EmptyFrom(FTLCtrlBlock[sel], 0) ELSE Marked(sel, cxtPage)

(* The power is off: nothing is trusted, or what is describes the data.    *)
Down == AllDead \/ \E i \in 0..2, p \in Page : Current(i, p)

Newer == \A q \in Page : IsCxt(q) => flash[q].usn <= usn

Up ==
  /\ tables = data
  /\ Newer
  /\ clean => pc \in {"idle", "mark", "eraseCurrent", "eraseNext"}
  /\ pc \in {"mark", "eraseCurrent", "eraseNext"} => clean
  /\ clean /\ pc \in {"idle", "mark"} => Saved
  /\ pc = "eraseCurrent" => AllDead \/ Saved
  /\ pc = "eraseNext" \/ ~clean => AllDead
  /\ ~clean /\ pc \in {"idle", "data", "flush"} => Room
  /\ pc = "context" => Writing(sel)
  /\ pc \in {"eraseFailed", "eraseOther"} => InOrder

CInv ==
  /\ phase = "up" => Up
  /\ phase # "up" => Down /\ pc = "idle"

----------------------------------------------------------------------------
(* The three control blocks are three blocks.                              *)
LEMMA CtrlBlockType ==
  ASSUME NEW i \in 0..2
  PROVE  /\ FTLCtrlBlock[i] \in Block /\ FTLCtrlBlock[i] # NumBlocks
         /\ \A j \in 0..2 : j # i => FTLCtrlBlock[j] # FTLCtrlBlock[i]
  <1>1. FTLCtrlBlock[i] \in 0..NumBlocks - 1
    BY YaftlAssumption, SMT
  <1>2. ASSUME NEW j \in 0..2, j # i, FTLCtrlBlock[j] = FTLCtrlBlock[i]
        PROVE  FALSE
    <2>1. PICK k \in 0..2 : k # i /\ k # j /\ 0..2 = {i, j, k}
      BY <1>2, SMT
    <2>2. {FTLCtrlBlock[n] : n \in 0..2} = {FTLCtrlBlock[i], FTLCtrlBlock[k]}
      BY <1>2, <2>1
    <2>3. IsFiniteSet({FTLCtrlBlock[k]}) /\ Cardinality({FTLCtrlBlock[k]}) = 1
      BY FS_Singleton
    <2>4. {FTLCtrlBlock[k]} \cup {FTLCtrlBlock[i]} = {FTLCtrlBlock[i], FTLCtrlBlock[k]}
      OBVIOUS
    <2>5. Cardinality({FTLCtrlBlock[k]} \cup {FTLCtrlBlock[i]}) \in {1, 2}
      BY <2>3, FS_AddElement, SMT
    <2>6. Cardinality({FTLCtrlBlock[n] : n \in 0..2}) = 3
      BY YaftlAssumption, Zenon
    <2>7. Cardinality({FTLCtrlBlock[n] : n \in 0..2}) \in {1, 2}
      BY <2>2, <2>4, <2>5, Zenon
    <2> QED BY <2>6, <2>7, SMT
  <1> QED BY <1>1, <1>2, YaftlAssumption, SMT DEF Block

(* The next control block is another one. *)
LEMMA NextSelType ==
  ASSUME sel \in 0..2
  PROVE  NextSel \in 0..2 /\ NextSel # sel
  BY SMT DEF NextSel

PageContent == Cxt \cup {Empty, Bad, User, Mark}

(* The kinds of pages are told apart by their type. *)
LEMMA ContentType ==
  /\ \A c \in PageContent : c.type = "cxt" <=> c \in Cxt
  /\ \A c \in PageContent : c.type \in {"empty", "bad"} <=> c \in {Empty, Bad}
  /\ \A c \in PageContent : c.type = "empty" <=> c = Empty
  /\ Empty \notin Cxt /\ Bad \notin Cxt /\ Bad # Empty /\ Mark # Empty
  <1>1. Empty.type = "empty" /\ Bad.type = "bad" /\ User.type = "user" /\ Mark.type = "mark"
    BY DEF Empty, Bad, User, Mark
  <1>2. \A c \in Cxt : c.type = "cxt"
    BY DEF Cxt
  <1> QED BY <1>1, <1>2 DEF PageContent

(* What happens to the pages: an erase, a write, a write that fails.       *)
LEMMA ErasedType ==
  ASSUME flash \in [Page -> PageContent], NEW b
  PROVE  Erased(b) \in [Page -> PageContent]
  BY DEF Erased, PageContent

LEMMA ProgrammedType ==
  ASSUME flash \in [Page -> PageContent], NEW p, NEW c \in PageContent,
         Programmed(p, c)
  PROVE  flash' \in [Page -> PageContent]
  BY DEF Programmed, PageContent

LEMMA ProgramFailsType ==
  ASSUME flash \in [Page -> PageContent], NEW p, faults \in 0..MaxFaults,
         ProgramFails(p)
  PROVE  flash' \in [Page -> PageContent] /\ faults' \in 0..MaxFaults
  BY YaftlAssumption, SMT DEF ProgramFails, PageContent

----------------------------------------------------------------------------
(* Type correctness.                                                       *)

TInv ==
  /\ TypeOK
  /\ phase = "up" => tables \in Nat
  /\ phase # "up" => tables = None
  /\ pc \in {"context", "eraseFailed", "eraseOther"} => slot # NoSlot


(* Open selects one of the control blocks that have a context. *)
LEMMA LatestType ==
  ASSUME flash \in [Page -> PageContent], Candidates # {}
  PROVE  /\ Latest \in Candidates /\ Latest \in 0..2
         /\ \A i \in Candidates : i \in 0..2 /\ FirstUsn(i) \in Nat
         /\ \A j \in Candidates :
              FirstUsn(j) < FirstUsn(Latest) \/ (FirstUsn(j) = FirstUsn(Latest) /\ Latest <= j)
  <1> DEFINE U == [i \in 0..2 |-> FirstUsn(i)]
  <1>1. Candidates \subseteq 0..2
    BY DEF Candidates
  <1>2. ASSUME NEW i \in Candidates PROVE U[i] \in Nat
    <2>1. i \in 0..2 /\ FTLCtrlBlock[i] \in Block /\ IsCxt(FirstPage(FTLCtrlBlock[i]))
      BY CtrlBlockType DEF Candidates
    <2>2. FirstPage(FTLCtrlBlock[i]) \in Page
      BY <2>1, PagesOfBlock
    <2>3. flash[FirstPage(FTLCtrlBlock[i])] \in Cxt
      BY <2>1, <2>2, ContentType DEF IsCxt
    <2> QED BY <2>1, <2>3 DEF FirstUsn, Cxt
  <1>3. \A i \in Candidates : U[i] = FirstUsn(i)
    BY <1>1
  <1> HIDE DEF U
  <1>4. PICK S : S = Candidates OBVIOUS
  <1>5. \E i \in S : \A j \in S : U[j] < U[i] \/ (U[j] = U[i] /\ i <= j)
    <2>1. S \subseteq {0, 1, 2} /\ S # {} /\ \A i \in S : U[i] \in Nat
      BY <1>1, <1>2, <1>4, SMT
    <2>2. PICK k \in S : \A j \in S : U[j] <= U[k]
      <3>1. PICK a \in S : TRUE BY <2>1
      <3>2. PICK c \in S : U[c] >= U[a] /\ (0 \in S => U[0] <= U[c])
        BY <2>1, <3>1, SMT
      <3>3. PICK d \in S : U[d] >= U[c] /\ (1 \in S => U[1] <= U[d])
        BY <2>1, <3>2, SMT
      <3>4. PICK e \in S : U[e] >= U[d] /\ (2 \in S => U[2] <= U[e])
        BY <2>1, <3>3, SMT
      <3>5. ASSUME NEW j \in S PROVE U[j] <= U[e]
        BY <2>1, <3>2, <3>3, <3>4, SMT
      <3> QED BY <3>5
    <2>3. PICK M : M = {i \in S : U[i] = U[k]} OBVIOUS
    <2>4. PICK i \in M : \A j \in M : i <= j
      <3>1. M \subseteq {0, 1, 2} /\ M # {}
        BY <2>1, <2>3
      <3>2. CASE 0 \in M BY <3>1, <3>2, SMT
      <3>3. CASE 0 \notin M /\ 1 \in M BY <3>1, <3>3, SMT
      <3>4. CASE 0 \notin M /\ 1 \notin M
        <4>1. M = {2} BY <3>1, <3>4
        <4> QED BY <4>1, SMT
      <3> QED BY <3>2, <3>3, <3>4
    <2>5. ASSUME NEW j \in S PROVE U[j] < U[i] \/ (U[j] = U[i] /\ i <= j)
      BY <2>1, <2>2, <2>3, <2>4, SMT
    <2> QED BY <2>3, <2>4, <2>5
  <1>6. \E i \in Candidates : \A j \in Candidates :
          FirstUsn(j) < FirstUsn(i) \/ (FirstUsn(j) = FirstUsn(i) /\ i <= j)
    BY <1>3, <1>4, <1>5
  <1>7. Latest \in Candidates
        /\ \A j \in Candidates :
             FirstUsn(j) < FirstUsn(Latest) \/ (FirstUsn(j) = FirstUsn(Latest) /\ Latest <= j)
    BY <1>6 DEF Latest
  <1> QED BY <1>1, <1>2, <1>3, <1>7

(* What open trusts is a context. *)
LEMMA TrustedType ==
  ASSUME flash \in [Page -> PageContent], NEW p \in Trusted
  PROVE  /\ Candidates # {} /\ Latest \in 0..2
         /\ p \in Found(FTLCtrlBlock[Latest]) /\ Whole(p)
         /\ p \in Page /\ IsCxt(p) /\ flash[p] \in Cxt
  <1>1. Candidates # {} /\ p \in Found(FTLCtrlBlock[Latest]) /\ Whole(p)
    BY DEF Trusted
  <1>2. Latest \in 0..2
    BY <1>1, LatestType
  <1>3. p \in Slots(FTLCtrlBlock[Latest])
    BY <1>1 DEF Found
  <1>4. p \in Page
    BY <1>2, <1>3, CtrlBlockType, SlotsOfBlock, PagesOfBlock
  <1>5. p \in p..p + CtrlBlockPageOffset - 1
    BY <1>4, PageType, YaftlAssumption, SMT
  <1>6. IsCxt(p)
    BY <1>1, <1>5 DEF Whole
  <1> QED BY <1>1, <1>2, <1>4, <1>6, ContentType DEF IsCxt

LEMMA InitTInv == Init => TInv
  <1> SUFFICES ASSUME Init PROVE TInv OBVIOUS
  <1>1. [type |-> "cxt", usn |-> 1, tables |-> 0] \in Cxt
    BY SMT DEF Cxt
  <1>2. flash \in [Page -> PageContent]
    BY <1>1 DEF Init, PageContent
  <1>3. clean \in BOOLEAN
    BY DEF Init
  <1> QED
    BY <1>2, <1>3, YaftlAssumption, SMT DEF Init, TInv, TypeOK, PageContent

LEMMA OpenTInv ==
  ASSUME TInv, Open \/ OpenPanics \/ Crash
  PROVE  TInv'
  <1> USE DEF TInv, TypeOK, PageContent
  <1>1. CASE Open
    <2>1. PICK p \in Trusted :
            /\ phase' = "up"
            /\ sel' = Latest
            /\ cxtPage' = p /\ clean' = TRUE
            /\ usn' = flash[p].usn
            /\ tables' = flash[p].tables
      BY <1>1 DEF Open
    <2>2. Latest \in 0..2 /\ p \in Page /\ flash[p] \in Cxt
      BY TrustedType
    <2>3. usn' \in Nat /\ tables' \in Nat
      BY <2>1, <2>2 DEF Cxt
    <2> QED BY <1>1, <2>1, <2>2, <2>3, SMT DEF Open
  <1>2. CASE OpenPanics
    BY <1>2, SMT DEF OpenPanics, ram
  <1>3. CASE Crash
    <2>1. clean' \in BOOLEAN
      BY <1>3 DEF Crash
    <2> QED BY <1>3, <2>1, SMT DEF Crash
  <1> QED BY <1>1, <1>2, <1>3

(* The pages that a mark and the next context go to.                       *)
LEMMA FirstPageType ==
  ASSUME NEW i \in 0..2
  PROVE  FirstPage(FTLCtrlBlock[i]) \in Page /\ FTLCtrlBlock[i] \in Block
  BY CtrlBlockType, PagesOfBlock

LEMMA ChangeTInv ==
  ASSUME TInv,
         BeginChange \/ WriteMark \/ MarkFails \/ EraseCurrent \/ EraseNext \/ WriteData
  PROVE  TInv'
  <1> USE DEF TInv, TypeOK
  <1>0. flash \in [Page -> PageContent] /\ Mark \in PageContent
    BY DEF PageContent
  <1>1. CASE BeginChange
    BY <1>1, SMT DEF BeginChange, Goes, ram
  <1>2. CASE WriteMark
    <2>1. flash' \in [Page -> PageContent]
      BY <1>0, <1>2, ProgrammedType DEF WriteMark
    <2>2. clean' \in BOOLEAN
      BY <1>2 DEF WriteMark
    <2> QED BY <1>2, <2>1, <2>2, SMT DEF WriteMark, Goes, PageContent
  <1>3. CASE MarkFails
    <2>1. flash' \in [Page -> PageContent] /\ faults' \in 0..MaxFaults
      BY <1>0, <1>3, ProgramFailsType DEF MarkFails
    <2> QED BY <1>3, <2>1, SMT DEF MarkFails, Goes, PageContent
  <1>4. CASE EraseCurrent
    <2>1. flash' \in [Page -> PageContent]
      BY <1>0, <1>4, ErasedType DEF EraseCurrent
    <2> QED BY <1>4, <2>1, NextSelType, SMT DEF EraseCurrent, Goes, PageContent
  <1>5. CASE EraseNext
    <2>1. flash' \in [Page -> PageContent]
      BY <1>0, <1>5, ErasedType DEF EraseNext
    <2>2. clean' \in BOOLEAN
      BY <1>5 DEF EraseNext
    <2> QED BY <1>5, <2>1, <2>2, SMT DEF EraseNext, Goes, PageContent
  <1>6. CASE WriteData
    BY <1>6, YaftlAssumption, SMT DEF WriteData, Goes
  <1> QED BY <1>1, <1>2, <1>3, <1>4, <1>5, <1>6

(* The slot that a write of the context begins with. *)
LEMMA SlotOf ==
  ASSUME NEW p \in Page, NEW b \in Block, WriteAt(p, b)
  PROVE  slot' \in [page : Page, done : 0..CtrlBlockPageOffset - 1, block : Block]
         /\ slot' # NoSlot
  <1>1. slot' \in [page : Page, done : 0..CtrlBlockPageOffset - 1, block : Block]
    BY YaftlAssumption, SMT DEF WriteAt
  <1>2. slot'.page = p /\ NoSlot.page = None /\ None \notin Page
    BY PageType DEF WriteAt, NoSlot
  <1> QED BY <1>1, <1>2

(* The context behind cxtPage is in the block that FlushBehind has looked  *)
(* at.                                                                     *)
LEMMA FitsType ==
  ASSUME cxtPage \in Page, Fits
  PROVE  NextPage \in Page
  <1>1. BlockOf(cxtPage) \in Block
    BY PageType
  <1>2. NextPage \in Int
    BY PageType, YaftlAssumption, SMT DEF NextPage
  <1>3. BlockOf(NextPage) = BlockOf(cxtPage)
    BY DEF Fits
  <1> QED BY <1>1, <1>2, <1>3, PagesOfBlock

LEMMA FlushTInv ==
  ASSUME TInv, BeginFlush \/ FlushFresh \/ FlushBehind \/ FlushNextBlock
  PROVE  TInv'
  <1> USE DEF TInv, TypeOK
  <1>0. flash \in [Page -> PageContent] /\ usn \in Nat => usn + 1 \in Nat
    BY SMT DEF PageContent
  <1>1. CASE BeginFlush
    BY <1>1, SMT DEF BeginFlush, Goes, ram
  <1>2. CASE FlushFresh
    <2>1. slot' \in [page : Page, done : 0..CtrlBlockPageOffset - 1, block : Block]
            /\ slot' # NoSlot
      BY <1>2, FirstPageType, SlotOf DEF FlushFresh
    <2> QED BY <1>2, <2>1, SMT DEF FlushFresh, WriteAt, Goes
  <1>3. CASE FlushBehind
    <2>1. NumBlocks \in Block
      BY YaftlAssumption, SMT DEF Block
    <2>2. NextPage \in Page
      BY <1>3, FitsType DEF FlushBehind, Fits
    <2>3. slot' \in [page : Page, done : 0..CtrlBlockPageOffset - 1, block : Block]
            /\ slot' # NoSlot
      BY <1>3, <2>1, <2>2, SlotOf DEF FlushBehind
    <2> QED BY <1>3, <2>3, SMT DEF FlushBehind, WriteAt, Goes
  <1>4. CASE FlushNextBlock
    <2>1. NextSel \in 0..2
      BY NextSelType
    <2>2. slot' \in [page : Page, done : 0..CtrlBlockPageOffset - 1, block : Block]
            /\ slot' # NoSlot
      BY <1>4, <2>1, FirstPageType, SlotOf DEF FlushNextBlock
    <2>3. flash' \in [Page -> PageContent]
      BY <1>0, <1>4, ErasedType DEF FlushNextBlock, PageContent
    <2> QED BY <1>4, <2>1, <2>2, <2>3, SMT DEF FlushNextBlock, WriteAt, Goes, PageContent
  <1> QED BY <1>1, <1>2, <1>3, <1>4

LEMMA WriteTInv ==
  ASSUME TInv, WriteCxtPage \/ WriteLastCxtPage \/ CxtPageFails
                 \/ EraseFailed \/ EraseOther
  PROVE  TInv'
  <1> USE DEF TInv, TypeOK
  <1>0. flash \in [Page -> PageContent]
    BY DEF PageContent
  <1>1. ASSUME pc = "context"
        PROVE  slot \in [page : Page, done : 0..CtrlBlockPageOffset - 1, block : Block]
    BY <1>1
  <1>9. ASSUME phase = "up" PROVE Content \in PageContent
    BY <1>9, SMT DEF Content, PageContent, Cxt
  <1>2. CASE WriteCxtPage
    <2>1. slot' = [page |-> slot.page, done |-> slot.done + 1, block |-> slot.block]
      BY <1>1, <1>2 DEF WriteCxtPage, Goes
    <2>2. slot' \in [page : Page, done : 0..CtrlBlockPageOffset - 1, block : Block]
            /\ slot'.page \in Page
      BY <1>1, <1>2, <2>1, YaftlAssumption, SMT DEF WriteCxtPage, Goes
    <2>3. slot' # NoSlot
      BY <2>2, PageType DEF NoSlot
    <2>4. flash' \in [Page -> PageContent]
      BY <1>0, <1>2, <1>9, ProgrammedType DEF WriteCxtPage, Goes
    <2> QED BY <1>2, <2>2, <2>3, <2>4, SMT DEF WriteCxtPage, Goes, PageContent
  <1>3. CASE WriteLastCxtPage
    <2>1. flash' \in [Page -> PageContent]
      BY <1>0, <1>3, <1>9, ProgrammedType DEF WriteLastCxtPage, Goes
    <2>2. slot.page \in Page
      BY <1>1, <1>3 DEF WriteLastCxtPage, Goes
    <2> QED BY <1>3, <2>1, <2>2, SMT DEF WriteLastCxtPage, Goes, PageContent
  <1>4. CASE CxtPageFails
    <2>1. flash' \in [Page -> PageContent] /\ faults' \in 0..MaxFaults
      BY <1>0, <1>4, ProgramFailsType DEF CxtPageFails
    <2> QED BY <1>4, <2>1, SMT DEF CxtPageFails, Goes, ram, PageContent
  <1>5. CASE EraseFailed
    <2>1. flash' \in [Page -> PageContent]
      BY <1>0, <1>5, ErasedType DEF EraseFailed
    <2> QED BY <1>5, <2>1, NextSelType, SMT DEF EraseFailed, Goes, PageContent
  <1>6. CASE EraseOther
    <2>1. flash' \in [Page -> PageContent]
      BY <1>0, <1>6, ErasedType DEF EraseOther
    <2> QED BY <1>6, <2>1, SMT DEF EraseOther, Goes, PageContent
  <1> QED BY <1>2, <1>3, <1>4, <1>5, <1>6

LEMMA NextTInv == TInv /\ [Next]_vars => TInv'
  <1> SUFFICES ASSUME TInv, [Next]_vars PROVE TInv' OBVIOUS
  <1>1. CASE Next
    BY <1>1, OpenTInv, ChangeTInv, FlushTInv, WriteTInv DEF Next, Flushing
  <1>2. CASE UNCHANGED vars
    BY <1>2 DEF vars, ram, TInv, TypeOK
  <1> QED BY <1>1, <1>2

(* The types, with a page to go to whenever a context is being written,    *)
(* and tables in memory exactly while the FTL is open.                     *)
THEOREM SpecTInv == Spec => []TInv
  BY InitTInv, NextTInv, PTL DEF Spec

(* The variables keep their types: for any geometry, any control blocks    *)
(* and whatever fails, the next context (flushQuick) is a page of the      *)
(* device, and no more pages of it are written than it has.                *)
THEOREM SpecTypeOK == Spec => []TypeOK
  <1>1. TInv => TypeOK BY DEF TInv
  <1> QED BY SpecTInv, <1>1, PTL


----------------------------------------------------------------------------
(* What the invariant's parts mean for open.                               *)

LEMMA SlotFacts ==
  ASSUME NEW b \in Block, NEW p \in Slots(b)
  PROVE  /\ p \in Page /\ p \in Nat /\ p \in PagesOf(b)
         /\ \A q \in p..MarkOf(p) : q \in PagesOf(b) /\ q \in Page
         /\ MarkOf(p) = p + CtrlBlockPageOffset
         /\ p \in p..p + CtrlBlockPageOffset - 1
  <1>1. p \in PagesOf(b) /\ MarkOf(p) \in PagesOf(b) /\ PagesOf(b) \subseteq Page
    BY SlotsOfBlock, PagesOfBlock
  <1>2. p \in Nat
    BY <1>1, PageType
  <1>3. FirstPage(b) \in Nat
    BY PagesOfBlock
  <1>4. \A q \in p..MarkOf(p) : q \in PagesOf(b)
    BY <1>1, <1>2, <1>3, YaftlAssumption, SMT DEF PagesOf
  <1>5. p \in p..p + CtrlBlockPageOffset - 1
    BY <1>2, YaftlAssumption, SMT
  <1> QED BY <1>1, <1>2, <1>4, <1>5 DEF MarkOf

LEMMA EmptyIsNot ==
  ASSUME NEW p, flash[p] = Empty
  PROVE  ~IsCxt(p) /\ ~Readable(p)
  BY DEF IsCxt, Readable, Empty

(* A block whose last slot is marked or not whole is dead. *)
DeadEnd ==
  \A b \in Block : \A p \in Slots(b) :
    WalkReaches(b, p) /\ (~WalkEnds(p) \/ ~Whole(p)) /\ EmptyFrom(b, MarkOf(p) + 1)
      => Dead(b)

LEMMA DeadEndIsDead == DeadEnd
  <1> SUFFICES ASSUME NEW b \in Block, NEW p \in Slots(b), WalkReaches(b, p),
                      ~WalkEnds(p) \/ ~Whole(p), EmptyFrom(b, MarkOf(p) + 1),
                      NEW q \in Slots(b), WalkEnds(q)
               PROVE  ~Whole(q)
    BY DEF DeadEnd, Dead
  <1>1. CASE q < p
    BY <1>1 DEF WalkReaches
  <1>2. CASE q = p
    BY <1>2
  <1>3. CASE q > p
    <2>1. q > MarkOf(p)
      BY <1>3, SlotsOfBlock
    <2>2. q \in PagesOf(b) /\ q >= MarkOf(p) + 1
      BY <2>1, SlotFacts, YaftlAssumption, SMT
    <2>3. flash[q] = Empty
      BY <2>2 DEF EmptyFrom
    <2> QED BY <2>3, EmptyIsNot, SlotFacts DEF Whole
  <1> QED BY <1>1, <1>2, <1>3, SlotFacts, SMT

LEMMA DeadEndIsDeadNext == DeadEnd'
  BY DeadEndIsDead, PTL

(* So is an erased one. *)
BlankBlock == \A b \in Block : EmptyFrom(b, 0) => Dead(b)

LEMMA BlankIsDead == BlankBlock
  <1> SUFFICES ASSUME NEW b \in Block, EmptyFrom(b, 0), NEW p \in Slots(b)
               PROVE  ~Whole(p)
    BY DEF BlankBlock, Dead
  <1>1. p \in PagesOf(b) /\ p >= 0
    BY SlotFacts, SMT
  <1>2. flash[p] = Empty
    BY <1>1 DEF EmptyFrom
  <1> QED BY <1>2, EmptyIsNot, SlotFacts DEF Whole

LEMMA BlankIsDeadNext == BlankBlock'
  BY BlankIsDead, PTL

(* Open trusts nothing in dead blocks ... *)
NothingTrusted ==
  flash \in [Page -> PageContent] /\ AllDead => Trusted = {} /\ SavedTables = None

LEMMA DeadIsNotTrusted == NothingTrusted
  <1> SUFFICES ASSUME flash \in [Page -> PageContent], AllDead
               PROVE  Trusted = {} /\ SavedTables = None
    BY DEF NothingTrusted
  <1>1. ASSUME NEW p \in Trusted PROVE FALSE
    <2>1. Latest \in 0..2 /\ p \in Found(FTLCtrlBlock[Latest]) /\ Whole(p)
      BY TrustedType
    <2>2. p \in Slots(FTLCtrlBlock[Latest]) /\ WalkEnds(p)
      BY <2>1 DEF Found
    <2> QED BY <2>1, <2>2 DEF AllDead, Dead
  <1> QED BY <1>1 DEF SavedTables

LEMMA DeadIsNotTrustedNext == NothingTrusted'
  BY DeadIsNotTrusted, PTL

(* ... and just the current context otherwise. *)
CurrentTrusted ==
  \A i \in 0..2, p \in Page :
    Current(i, p) /\ flash \in [Page -> PageContent]
      => Trusted = {p} /\ Latest = i /\ SavedTables = data /\ flash[p] \in Cxt

LEMMA CurrentIsTrusted == CurrentTrusted
  <1> SUFFICES ASSUME NEW i \in 0..2, NEW p \in Page, Current(i, p),
                      flash \in [Page -> PageContent]
               PROVE  Trusted = {p} /\ Latest = i /\ SavedTables = data /\ flash[p] \in Cxt
    BY DEF CurrentTrusted
  <1>1. PICK b \in Block : b = FTLCtrlBlock[i]
    BY CtrlBlockType
  <1>2. p \in Slots(b) /\ \A q \in Slots(b) : q < p => ~WalkEnds(q)
    BY <1>1 DEF Current, WalkReaches
  <1>3. Latest = i
    <2>1. i \in Candidates /\ \A j \in Candidates \ {i} : FirstUsn(j) < FirstUsn(i)
      BY DEF Current, Newest
    <2>2. Latest \in Candidates /\ Latest \in 0..2
      BY <2>1, LatestType
    <2>3. FirstUsn(i) < FirstUsn(Latest) \/ (FirstUsn(i) = FirstUsn(Latest) /\ Latest <= i)
      BY <2>1, LatestType
    <2>4. FirstUsn(i) \in Nat /\ FirstUsn(Latest) \in Nat
      BY <2>1, <2>2, LatestType
    <2> QED BY <2>1, <2>2, <2>3, <2>4, SMT
  <1>4. WalkEnds(p)
    <2>1. MarkOf(p) \in PagesOf(b) /\ MarkOf(p) \in Int
      <3>1. MarkOf(p) \in PagesOf(b)
        BY <1>2, SlotsOfBlock
      <3>2. MarkOf(p) \in Page
        BY <3>1, PagesOfBlock
      <3>3. MarkOf(p) \in Nat
        BY <3>2, PageType
      <3> QED BY <3>1, <3>3, SMT
    <2>2. flash[MarkOf(p)] = Empty
      BY <1>1, <2>1, SMT DEF Current, EmptyFrom
    <2> QED BY <2>2 DEF WalkEnds
  <1>5. p \in Found(b)
    BY <1>2, <1>4 DEF Found
  <1>6. ASSUME NEW q \in Found(b) PROVE q = p
    <2>1. q \in Slots(b) /\ WalkEnds(q) /\ \A r \in Slots(b) : r < q => ~WalkEnds(r)
      BY <1>6 DEF Found
    <2>2. ~(q < p) /\ ~(p < q)
      BY <1>2, <1>4, <2>1
    <2> QED BY <1>2, <2>1, <2>2, SlotFacts, SMT
  <1>7. Whole(p) /\ i \in Candidates /\ flash[p].tables = data
    BY DEF Current, Newest
  <1>8. Trusted = {p}
    <2>1. Candidates # {}
      BY <1>7
    <2>2. Trusted = {q \in Found(b) : Whole(q)}
      BY <1>1, <1>3, <2>1 DEF Trusted
    <2> QED BY <1>5, <1>6, <1>7, <2>2
  <1>9. SavedTables = data
    <2>1. (CHOOSE q \in Trusted : TRUE) = p
      BY <1>8
    <2> QED BY <1>7, <1>8, <2>1 DEF SavedTables
  <1>10. flash[p] \in Cxt
    BY <1>8, TrustedType
  <1> QED BY <1>3, <1>8, <1>9, <1>10

LEMMA CurrentIsTrustedNext == CurrentTrusted'
  BY CurrentIsTrusted, PTL

----------------------------------------------------------------------------
(* What an operation on the NAND leaves as it was.                         *)

LEMMA SameBlock ==
  ASSUME NEW b \in Block, \A q \in PagesOf(b) : flash'[q] = flash[q]
  PROVE  /\ \A p \in Slots(b) : (WalkEnds(p)' <=> WalkEnds(p)) /\ (Whole(p)' <=> Whole(p))
         /\ Dead(b)' <=> Dead(b)
         /\ \A p : WalkReaches(b, p)' <=> WalkReaches(b, p)
         /\ \A p : EmptyFrom(b, p)' <=> EmptyFrom(b, p)
  <1>1. ASSUME NEW p \in Slots(b)
        PROVE  (WalkEnds(p)' <=> WalkEnds(p)) /\ (Whole(p)' <=> Whole(p))
    <2>1. flash'[p] = flash[p] /\ flash'[MarkOf(p)] = flash[MarkOf(p)]
      BY SlotFacts, SlotsOfBlock
    <2>2. WalkEnds(p)' <=> WalkEnds(p)
      BY <2>1 DEF WalkEnds, Readable
    <2>3. \A q \in p..p + CtrlBlockPageOffset - 1 : flash'[q] = flash[q]
      <3>1. \A q \in p..p + CtrlBlockPageOffset - 1 : q \in p..MarkOf(p)
        BY SlotFacts, YaftlAssumption, SMT
      <3> QED BY <3>1, SlotFacts
    <2>4. Whole(p)' <=> Whole(p)
      BY <2>3 DEF Whole, IsCxt
    <2> QED BY <2>2, <2>4
  <1>2. Dead(b)' <=> Dead(b)
    BY <1>1 DEF Dead
  <1>3. ASSUME NEW p PROVE WalkReaches(b, p)' <=> WalkReaches(b, p)
    BY <1>1 DEF WalkReaches
  <1>4. ASSUME NEW p PROVE EmptyFrom(b, p)' <=> EmptyFrom(b, p)
    BY DEF EmptyFrom
  <1> QED BY <1>1, <1>2, <1>3, <1>4

(* The block that open selects depends on the first pages only. *)
LEMMA SameFirst ==
  ASSUME \A j \in 0..2 :
           flash'[FirstPage(FTLCtrlBlock[j])] = flash[FirstPage(FTLCtrlBlock[j])]
  PROVE  \A i \in 0..2 : Newest(i)' <=> Newest(i)
  <1>1. Candidates' = Candidates
    BY DEF Candidates, IsCxt
  <1>2. \A j \in Candidates : FirstUsn(j)' = FirstUsn(j) /\ j \in 0..2
    BY DEF FirstUsn, Candidates
  <1> QED BY <1>1, <1>2 DEF Newest, FirstUsn

(* A step that leaves the NAND alone. *)
LEMMA SameFlash ==
  ASSUME flash' = flash
  PROVE  /\ AllDead' <=> AllDead
         /\ \A i \in 0..2 : Newest(i)' <=> Newest(i)
         /\ \A i \in 0..2 : \A p : Marked(i, p)' <=> Marked(i, p)
         /\ \A b \in Block : \A p : WalkReaches(b, p)' <=> WalkReaches(b, p)
         /\ \A b \in Block : \A p : EmptyFrom(b, p)' <=> EmptyFrom(b, p)
         /\ data' = data => \A i \in 0..2, p \in Page : Current(i, p)' <=> Current(i, p)
  <1>1. \A b \in Block : \A p : WalkReaches(b, p)' <=> WalkReaches(b, p)
    BY SameBlock
  <1>2. \A b \in Block : \A p : EmptyFrom(b, p)' <=> EmptyFrom(b, p)
    BY SameBlock
  <1>3. \A i \in 0..2 : Dead(FTLCtrlBlock[i])' <=> Dead(FTLCtrlBlock[i])
    BY SameBlock, CtrlBlockType
  <1>4. \A i \in 0..2 : Newest(i)' <=> Newest(i)
    BY SameFirst
  <1>5. \A p : /\ Whole(p)' <=> Whole(p)
               /\ WalkEnds(p)' <=> WalkEnds(p)
               /\ IsCxt(p)' <=> IsCxt(p)
    BY DEF Whole, WalkEnds, Readable, IsCxt
  <1>6. \A i \in 0..2 : \A p : Marked(i, p)' <=> Marked(i, p)
    BY <1>1, <1>2, <1>4, <1>5, CtrlBlockType DEF Marked
  <1>7. ASSUME data' = data, NEW i \in 0..2, NEW p \in Page
        PROVE  Current(i, p)' <=> Current(i, p)
    BY <1>1, <1>2, <1>3, <1>4, <1>5, <1>7, CtrlBlockType DEF Current
  <1>8. AllDead' <=> AllDead
    BY <1>3 DEF AllDead
  <1> QED BY <1>1, <1>2, <1>4, <1>6, <1>7, <1>8

(* An erase, of any block.                                                 *)
LEMMA EraseKeepsDead ==
  ASSUME flash \in [Page -> PageContent], NEW b \in Block, flash' = Erased(b),
         \A j \in 0..2 : FTLCtrlBlock[j] = b \/ Dead(FTLCtrlBlock[j])
  PROVE  /\ AllDead' /\ EmptyFrom(b, 0)'
         /\ \A q \in Page : IsCxt(q)' => IsCxt(q) /\ flash'[q] = flash[q]
  <1>1. \A q \in Page : flash'[q] = IF BlockOf(q) = b THEN Empty ELSE flash[q]
    BY DEF Erased
  <1>5. \A q \in Page : q \in Int
    BY PageType, SMT
  <1>2. EmptyFrom(b, 0)'
    BY <1>1, <1>5, PagesOfBlock DEF EmptyFrom
  <1>3. ASSUME NEW j \in 0..2 PROVE Dead(FTLCtrlBlock[j])'
    <2>1. PICK c \in Block : c = FTLCtrlBlock[j]
      BY CtrlBlockType
    <2>2. CASE c = b
      BY <1>2, <2>1, <2>2, BlankIsDeadNext DEF BlankBlock
    <2>3. CASE c # b
      <3>1. \A q \in PagesOf(c) : q \in Page /\ BlockOf(q) = c
        BY <1>5, PagesOfBlock
      <3>2. \A q \in PagesOf(c) : flash'[q] = flash[q]
        BY <1>1, <2>3, <3>1
      <3> QED BY <2>1, <2>3, <3>2, SameBlock
    <2> QED BY <2>2, <2>3
  <1>4. ASSUME NEW q \in Page, IsCxt(q)' PROVE IsCxt(q) /\ flash'[q] = flash[q]
    BY <1>1, <1>4 DEF IsCxt, Empty
  <1> QED BY <1>2, <1>3, <1>4 DEF AllDead

(* A write into a slot that a walk reaches, or behind it on its mark.      *)
PutInSlot(i, p, w, v) ==
  /\ WalkReaches(FTLCtrlBlock[i], p) /\ w \in p..MarkOf(p)
  /\ flash' = [flash EXCEPT ![w] = v]

LEMMA PageWritten ==
  ASSUME flash \in [Page -> PageContent], NEW i \in 0..2, NEW p, NEW w, NEW v,
         PutInSlot(i, p, w, v)
  PROVE  /\ w \in PagesOf(FTLCtrlBlock[i]) /\ w \in Page /\ p \in Slots(FTLCtrlBlock[i])
         /\ \A q \in Page : flash'[q] = IF q = w THEN v ELSE flash[q]
         /\ WalkReaches(FTLCtrlBlock[i], p)'
         /\ \A j \in 0..2 \ {i} : Dead(FTLCtrlBlock[j])' <=> Dead(FTLCtrlBlock[j])
         /\ w # FirstPage(FTLCtrlBlock[i]) => (Newest(i)' <=> Newest(i))
  <1>1. PICK b \in Block : b = FTLCtrlBlock[i]
    BY CtrlBlockType
  <1>2. p \in Slots(b) /\ \A q \in Slots(b) : q < p => ~WalkEnds(q)
    BY <1>1 DEF PutInSlot, WalkReaches
  <1>3. w \in PagesOf(b) /\ w \in Page
    BY <1>2, SlotFacts DEF PutInSlot
  <1>4. \A q \in Page : flash'[q] = IF q = w THEN v ELSE flash[q]
    BY DEF PutInSlot
  <1>5. ASSUME NEW q \in Slots(b), q < p PROVE ~WalkEnds(q)'
    <2>1. MarkOf(q) < p /\ w \in p..MarkOf(p)
      BY <1>2, <1>5, SlotsOfBlock DEF PutInSlot
    <2>2. q \in Page /\ MarkOf(q) \in Page /\ q # w /\ MarkOf(q) # w
      BY <1>2, <2>1, SlotFacts, SlotsOfBlock, PagesOfBlock, PageType, YaftlAssumption, SMT
    <2>3. flash'[q] = flash[q] /\ flash'[MarkOf(q)] = flash[MarkOf(q)]
      BY <1>4, <2>2
    <2> QED BY <1>2, <1>5, <2>3 DEF WalkEnds, Readable
  <1>6. WalkReaches(b, p)'
    BY <1>2, <1>5 DEF WalkReaches
  <1>7. ASSUME NEW j \in 0..2, j # i
        PROVE  /\ Dead(FTLCtrlBlock[j])' <=> Dead(FTLCtrlBlock[j])
               /\ flash'[FirstPage(FTLCtrlBlock[j])] = flash[FirstPage(FTLCtrlBlock[j])]
    <2>1. PICK c \in Block : c = FTLCtrlBlock[j] /\ c # b
      BY <1>1, <1>7, CtrlBlockType
    <2>2. \A q \in PagesOf(c) : q \in Page /\ q # w
      BY <1>3, <2>1, PagesOfBlock, PageType
    <2>3. \A q \in PagesOf(c) : flash'[q] = flash[q]
      BY <1>4, <2>2
    <2> QED BY <2>1, <2>3, SameBlock, PagesOfBlock
  <1>8. ASSUME w # FirstPage(b) PROVE Newest(i)' <=> Newest(i)
    <2>1. flash'[FirstPage(b)] = flash[FirstPage(b)]
      BY <1>4, <1>8, PagesOfBlock
    <2> QED BY <1>1, <1>7, <2>1, SameFirst
  <1> QED BY <1>1, <1>2, <1>3, <1>4, <1>6, <1>7, <1>8


----------------------------------------------------------------------------
(* The steps.                                                              *)

LEMMA InitCurrent == Init => \E p \in Page : Current(0, p)
  <1> SUFFICES ASSUME Init PROVE \E p \in Page : Current(0, p) OBVIOUS
  <1>0. TInv /\ flash \in [Page -> PageContent]
    BY InitTInv DEF TInv, TypeOK, PageContent
  <1>1. PICK b \in Block : b = FTLCtrlBlock[0]
    BY CtrlBlockType, SMT
  <1>2. PICK f : f = FirstPage(b) OBVIOUS
  <1>3. f \in Nat /\ f \in Slots(b) /\ f \in Page /\ f \in PagesOf(b)
    BY <1>1, <1>2, SlotsOfBlock, SlotFacts
  <1>4. PICK c : c = [type |-> "cxt", usn |-> 1, tables |-> 0] OBVIOUS
  <1>5. \A q \in Page :
          flash[q] = IF BlockOf(q) \notin CtrlBlocks THEN User
                     ELSE IF q \in f..f + CtrlBlockPageOffset - 1 THEN c ELSE Empty
    BY <1>1, <1>2, <1>4 DEF Init
  <1>6. \A j \in 0..2 : \A q \in PagesOf(FTLCtrlBlock[j]) :
          q \in Page /\ BlockOf(q) = FTLCtrlBlock[j] /\ BlockOf(q) \in CtrlBlocks
    <2> TAKE j \in 0..2
    <2>1. FTLCtrlBlock[j] \in Block
      BY CtrlBlockType
    <2>2. \A q \in Page : q \in Int
      BY PageType, SMT
    <2> QED BY <2>1, <2>2, PagesOfBlock DEF CtrlBlocks
  <1>7. \A q \in f..f + CtrlBlockPageOffset - 1 : q \in PagesOf(b)
    <2>1. \A q \in f..f + CtrlBlockPageOffset - 1 : q \in f..MarkOf(f)
      BY <1>3, SlotFacts, YaftlAssumption, SMT
    <2> QED BY <1>3, <2>1, SlotFacts
  <1>8. \A q \in f..f + CtrlBlockPageOffset - 1 : flash[q] = c
    BY <1>1, <1>5, <1>6, <1>7, SMT
  <1>9. \A j \in 0..2 : \A q \in PagesOf(FTLCtrlBlock[j]) :
          q \notin f..f + CtrlBlockPageOffset - 1 => flash[q] = Empty
    BY <1>5, <1>6
  <1>10. \A j \in 0..2 \ {0} : EmptyFrom(FTLCtrlBlock[j], 0)
    <2> TAKE j \in 0..2 \ {0}
    <2>1. FTLCtrlBlock[j] # b
      BY <1>1, CtrlBlockType, SMT
    <2>2. \A q \in PagesOf(FTLCtrlBlock[j]) : q \notin f..f + CtrlBlockPageOffset - 1
      BY <1>1, <1>6, <1>7, <2>1, SMT
    <2> QED BY <1>9, <2>2 DEF EmptyFrom
  <1>11. Current(0, f)
    <2>1. WalkReaches(b, f)
      <3>1. ~\E q \in Slots(b) : q < f
        <4> SUFFICES ASSUME NEW q \in Slots(b), q < f PROVE FALSE OBVIOUS
        <4>1. q \in Nat /\ q >= f
          BY <1>2, SlotsOfBlock, SlotFacts
        <4> QED BY <1>3, <4>1, SMT
      <3> QED BY <1>3, <3>1 DEF WalkReaches
    <2>2. Whole(f)
      BY <1>4, <1>8 DEF Whole, IsCxt
    <2>3. EmptyFrom(b, MarkOf(f))
      <3> SUFFICES ASSUME NEW q \in PagesOf(b), q >= MarkOf(f) PROVE flash[q] = Empty
        BY DEF EmptyFrom
      <3>1. q \in Nat
        BY PagesOfBlock, PageType
      <3>2. q \notin f..f + CtrlBlockPageOffset - 1
        BY <1>3, <3>1, YaftlAssumption, SMT DEF MarkOf
      <3> QED BY <1>1, <1>9, <3>2, SMT
    <2>4. f \in f..f + CtrlBlockPageOffset - 1
      BY <1>3, SlotFacts
    <2>5. flash[f] = c
      BY <1>8, <2>4
    <2>6. Newest(0)
      <3>1. 0 \in Candidates
        BY <1>1, <1>2, <1>4, <2>5, SMT DEF Candidates, IsCxt
      <3>2. ASSUME NEW j \in Candidates \ {0} PROVE FALSE
        <4>1. j \in 0..2 \ {0} /\ IsCxt(FirstPage(FTLCtrlBlock[j]))
          BY DEF Candidates
        <4>2. FirstPage(FTLCtrlBlock[j]) \in PagesOf(FTLCtrlBlock[j])
              /\ FirstPage(FTLCtrlBlock[j]) \in Nat
          BY <4>1, CtrlBlockType, PagesOfBlock
        <4>3. flash[FirstPage(FTLCtrlBlock[j])] = Empty
          BY <1>10, <4>1, <4>2, SMT DEF EmptyFrom
        <4> QED BY <4>1, <4>3, EmptyIsNot
      <3> QED BY <3>1, <3>2 DEF Newest
    <2>7. \A j \in 0..2 \ {0} : Dead(FTLCtrlBlock[j])
      BY <1>10, BlankIsDead, CtrlBlockType DEF BlankBlock
    <2>8. flash[f].tables = data
      BY <1>4, <2>5 DEF Init
    <2>9. ASSUME NEW q \in Page, IsCxt(q) PROVE flash[q].usn <= flash[f].usn
      <3>1. flash[q] = c
        BY <1>5, <2>9 DEF IsCxt, Empty, User
      <3> QED BY <1>4, <2>5, <3>1, SMT
    <2> QED BY <1>1, <2>1, <2>2, <2>3, <2>6, <2>7, <2>8, <2>9 DEF Current
  <1> QED BY <1>3, <1>11

LEMMA InitCInv == Init => CInv
  <1> SUFFICES ASSUME Init PROVE CInv OBVIOUS
  <1>1. Down
    BY InitCurrent, SMT DEF Down
  <1> QED BY <1>1 DEF Init, CInv

LEMMA FlashType ==
  ASSUME TInv
  PROVE  flash \in [Page -> PageContent]
  BY DEF TInv, TypeOK, PageContent

LEMMA UpIsDown ==
  ASSUME TInv, Up
  PROVE  AllDead \/ (Saved /\ clean)
  <1>1. clean \in BOOLEAN
    BY DEF TInv, TypeOK
  <1>2. CASE ~clean
    BY <1>2 DEF Up
  <1>3. CASE clean
    BY <1>3 DEF Up
  <1> QED BY <1>2, <1>3

LEMMA OpenCInv ==
  ASSUME TInv, CInv, Open \/ OpenPanics \/ Crash
  PROVE  CInv'
  <1>0. flash \in [Page -> PageContent] /\ flash' = flash /\ data' = data
    BY FlashType DEF Open, OpenPanics, Crash
  <1>1. CASE Open
    <2>1. PICK p \in Trusted :
            /\ phase' = "up"
            /\ sel' = Latest
            /\ cxtPage' = p /\ clean' = TRUE
            /\ usn' = flash[p].usn
            /\ tables' = flash[p].tables
      BY <1>1 DEF Open
    <2>2. ~AllDead
      BY <1>0, <2>1, DeadIsNotTrusted DEF NothingTrusted
    <2>3. Down /\ pc = "idle"
      BY <1>1 DEF Open, CInv
    <2>4. PICK i \in 0..2, q \in Page : Current(i, q)
      BY <2>2, <2>3 DEF Down
    <2>5. Trusted = {q} /\ Latest = i
      BY <1>0, <2>4, CurrentIsTrusted DEF CurrentTrusted
    <2>6. q = p /\ sel' = i /\ cxtPage' = q
      BY <2>1, <2>5
    <2>7. Current(i, q)'
      BY <1>0, <2>4, SameFlash
    <2>8. Saved'
      BY <2>4, <2>6, <2>7 DEF Saved
    <2>9. Newer'
      BY <1>0, <2>1, <2>4, <2>6 DEF Newer, Current, IsCxt
    <2>10. tables' = data'
      BY <1>0, <2>1, <2>4, <2>6 DEF Current
    <2>11. pc' = "idle" /\ clean'
      BY <1>1, <2>1, <2>3 DEF Open
    <2> QED BY <2>1, <2>8, <2>9, <2>10, <2>11 DEF CInv, Up
  <1>2. CASE OpenPanics
    <2>1. Down'
      BY <1>0, <1>2, SameFlash DEF OpenPanics, CInv, Down
    <2> QED BY <1>2, <2>1 DEF OpenPanics, CInv
  <1>3. CASE Crash
    <2>1. Down
      <3>1. CASE phase = "up"
        <4>1. AllDead \/ Saved
          BY <3>1, UpIsDown DEF CInv
        <4>2. sel \in 0..2
          BY DEF TInv, TypeOK
        <4> QED BY <4>1, <4>2 DEF Down, Saved
      <3> QED BY <3>1 DEF CInv
    <2>2. Down'
      BY <1>0, <2>1, SameFlash DEF Down
    <2> QED BY <1>3, <2>2 DEF Crash, CInv
  <1> QED BY <1>1, <1>2, <1>3


LEMMA BeginChangeCInv ==
  ASSUME TInv, CInv, BeginChange
  PROVE  CInv'
  <1>1. /\ phase' = "up" /\ pc' = "mark" /\ pc = "idle" /\ flash' = flash /\ data' = data
        /\ sel' = sel /\ cxtPage' = cxtPage /\ tables' = tables /\ usn' = usn
    BY DEF BeginChange, Goes, ram
  <1>2. clean /\ clean'
    BY DEF BeginChange, ram
  <1>3. Up
    BY DEF BeginChange, Goes, CInv
  <1>4. Saved
    BY <1>1, <1>2, <1>3 DEF Up
  <1>5. Saved'
    <2>1. sel \in 0..2
      BY DEF TInv, TypeOK
    <2>2. Current(sel, cxtPage)'
      BY <1>1, <1>4, <2>1, SameFlash DEF Saved
    <2> QED BY <1>1, <1>4, <2>2 DEF Saved
  <1>6. Newer'
    BY <1>1, <1>3 DEF Up, Newer, IsCxt
  <1> QED BY <1>1, <1>2, <1>3, <1>5, <1>6 DEF CInv, Up

(* The mark behind the last context, whether it can be read or not: from   *)
(* then on nothing is trusted, and the next context has its place.         *)
LEMMA MarkPage ==
  ASSUME TInv, NEW i \in 0..2, NEW p \in Page, Current(i, p), NEW v \in {Mark, Bad},
         flash' = [flash EXCEPT ![MarkOf(p)] = v]
  PROVE  /\ AllDead' /\ Marked(i, p)'
         /\ \A q \in Page : IsCxt(q)' => IsCxt(q) /\ flash'[q] = flash[q]
  <1>0. flash \in [Page -> PageContent]
    BY FlashType
  <1>1. PICK b \in Block : b = FTLCtrlBlock[i]
    BY CtrlBlockType
  <1>2. WalkReaches(b, p) /\ p \in Slots(b)
    BY <1>1 DEF Current, WalkReaches
  <1>3. MarkOf(p) \in p..MarkOf(p) /\ MarkOf(p) \in Nat
    BY <1>2, SlotFacts, YaftlAssumption, SMT
  <1>4. /\ MarkOf(p) \in PagesOf(b) /\ MarkOf(p) \in Page
        /\ \A q \in Page : flash'[q] = IF q = MarkOf(p) THEN v ELSE flash[q]
        /\ WalkReaches(b, p)'
        /\ \A j \in 0..2 \ {i} : Dead(FTLCtrlBlock[j])' <=> Dead(FTLCtrlBlock[j])
        /\ MarkOf(p) # FirstPage(b) => (Newest(i)' <=> Newest(i))
    <2>1. PutInSlot(i, p, MarkOf(p), v)
      BY <1>1, <1>2, <1>3 DEF PutInSlot
    <2> QED BY <1>0, <1>1, <2>1, PageWritten
  <1>5. MarkOf(p) > p /\ p >= FirstPage(b) /\ MarkOf(p) # FirstPage(b)
    <2>1. p >= FirstPage(b) /\ FirstPage(b) \in Nat
      BY <1>2, SlotsOfBlock, PagesOfBlock
    <2> QED BY <1>2, <2>1, SlotFacts, YaftlAssumption, SMT
  <1>6. v # Empty /\ v.type # "cxt"
    BY DEF Mark, Bad, Empty
  <1>7. (~WalkEnds(p))'
    <2>1. p # MarkOf(p) /\ IsCxt(p)
      BY <1>2, <1>3, <1>5, SlotFacts, SMT DEF Current, Whole
    <2>2. flash'[p] = flash[p] /\ flash'[MarkOf(p)] = v
      BY <1>4, <2>1
    <2> QED BY <1>6, <2>1, <2>2 DEF WalkEnds, Readable, IsCxt
  <1>8. EmptyFrom(b, MarkOf(p) + 1)'
    <2> SUFFICES ASSUME NEW q \in PagesOf(b), q >= MarkOf(p) + 1
                 PROVE  flash'[q] = Empty
      BY DEF EmptyFrom
    <2>1. q \in Page /\ q \in Nat
      BY PagesOfBlock, PageType
    <2>2. q >= MarkOf(p) /\ q # MarkOf(p)
      BY <1>3, <2>1, SMT
    <2> QED BY <1>1, <1>4, <2>1, <2>2 DEF Current, EmptyFrom
  <1>9. Marked(i, p)'
    BY <1>1, <1>4, <1>5, <1>7, <1>8 DEF Marked, Current
  <1>10. Dead(b)'
    BY <1>2, <1>4, <1>7, <1>8, DeadEndIsDeadNext DEF DeadEnd
  <1>11. AllDead'
    BY <1>1, <1>4, <1>10 DEF AllDead, Current
  <1>12. ASSUME NEW q \in Page, IsCxt(q)' PROVE IsCxt(q) /\ flash'[q] = flash[q]
    BY <1>4, <1>6, <1>12 DEF IsCxt
  <1> QED BY <1>9, <1>11, <1>12

(* The page of the mark is still empty. *)
LEMMA MarkIsEmpty ==
  ASSUME TInv, NEW i \in 0..2, NEW p \in Page, Current(i, p)
  PROVE  MarkOf(p) \in Page /\ flash[MarkOf(p)] = Empty
  <1>1. PICK b \in Block : b = FTLCtrlBlock[i]
    BY CtrlBlockType
  <1>2. MarkOf(p) \in PagesOf(b) /\ MarkOf(p) \in Page
    BY <1>1, SlotsOfBlock, PagesOfBlock DEF Current, WalkReaches
  <1>3. MarkOf(p) >= MarkOf(p)
    <2>1. MarkOf(p) \in Nat
      BY <1>2, PageType
    <2> QED BY <2>1, SMT
  <1> QED BY <1>1, <1>2, <1>3 DEF Current, EmptyFrom

(* A larger usn is still no less than any on the NAND. *)
LEMMA NewerKept ==
  ASSUME TInv, Newer, usn' \in {usn, usn + 1},
         \A q \in Page : IsCxt(q)' => IsCxt(q) /\ flash'[q] = flash[q]
  PROVE  Newer'
  <1> SUFFICES ASSUME NEW q \in Page, IsCxt(q)' PROVE flash'[q].usn <= usn'
    BY DEF Newer
  <1>1. IsCxt(q) /\ flash'[q] = flash[q] /\ flash[q].usn <= usn
    BY DEF Newer
  <1>2. flash[q].usn \in Nat
    BY <1>1, FlashType, ContentType DEF IsCxt, Cxt
  <1>3. usn \in Nat
    BY DEF TInv, TypeOK
  <1> QED BY <1>1, <1>2, <1>3, SMT

LEMMA WriteMarkCInv ==
  ASSUME TInv, CInv, WriteMark
  PROVE  CInv'
  <1>1. /\ phase' = "up" /\ pc' = "data" /\ pc = "mark" /\ data' = data
        /\ sel' = sel /\ cxtPage' = cxtPage /\ tables' = tables /\ usn' = usn + 1
    BY DEF WriteMark, Goes
  <1>2. ~clean'
    BY DEF WriteMark
  <1>3. Up /\ clean
    BY DEF WriteMark, Goes, CInv, Up
  <1>4. Saved /\ sel \in 0..2 /\ cxtPage # None
    BY <1>1, <1>3, PageType DEF Up, Saved, TInv, TypeOK
  <1>5. flash' = [flash EXCEPT ![MarkOf(cxtPage)] = Mark]
    BY <1>4, MarkIsEmpty DEF WriteMark, Programmed, Saved
  <1>6. /\ AllDead' /\ Marked(sel, cxtPage)'
        /\ \A q \in Page : IsCxt(q)' => IsCxt(q) /\ flash'[q] = flash[q]
    BY <1>1, <1>4, <1>5, MarkPage DEF Saved
  <1>7. Newer'
    BY <1>1, <1>3, <1>6, NewerKept DEF Up
  <1>8. Room'
    BY <1>1, <1>4, <1>6 DEF Room
  <1> QED BY <1>1, <1>2, <1>3, <1>6, <1>7, <1>8 DEF CInv, Up

LEMMA MarkFailsCInv ==
  ASSUME TInv, CInv, MarkFails
  PROVE  CInv'
  <1>1. /\ phase' = "up" /\ pc' = "eraseCurrent" /\ pc = "mark" /\ data' = data
        /\ sel' = sel /\ cxtPage' = cxtPage /\ tables' = tables /\ usn' = usn + 1
    BY DEF MarkFails, Goes
  <1>2. Up /\ clean /\ clean'
    BY DEF MarkFails, Goes, CInv, Up
  <1>3. Saved /\ sel \in 0..2
    BY <1>1, <1>2 DEF Up, Saved, TInv, TypeOK
  <1>4. flash' = flash \/ flash' = [flash EXCEPT ![MarkOf(cxtPage)] = Bad]
    BY <1>3, MarkIsEmpty DEF MarkFails, ProgramFails, Saved
  <1>5. CASE flash' = flash
    <2>1. Current(sel, cxtPage)'
      BY <1>1, <1>3, <1>5, SameFlash DEF Saved
    <2>2. Saved'
      BY <1>1, <1>3, <2>1 DEF Saved
    <2>3. Newer'
      BY <1>1, <1>2, <1>5, NewerKept DEF Up, IsCxt
    <2> QED BY <1>1, <1>2, <2>2, <2>3 DEF CInv, Up
  <1>6. CASE flash' = [flash EXCEPT ![MarkOf(cxtPage)] = Bad]
    <2>1. /\ AllDead'
          /\ \A q \in Page : IsCxt(q)' => IsCxt(q) /\ flash'[q] = flash[q]
      BY <1>3, <1>6, MarkPage DEF Saved
    <2>2. Newer'
      BY <1>1, <1>2, <2>1, NewerKept DEF Up
    <2> QED BY <1>1, <1>2, <2>1, <2>2 DEF CInv, Up
  <1> QED BY <1>4, <1>5, <1>6

LEMMA EraseCurrentCInv ==
  ASSUME TInv, CInv, EraseCurrent
  PROVE  CInv'
  <1>1. /\ phase' = "up" /\ pc' = "eraseNext" /\ pc = "eraseCurrent" /\ data' = data
        /\ tables' = tables /\ usn' = usn /\ flash' = Erased(FTLCtrlBlock[sel])
    BY DEF EraseCurrent, Goes
  <1>2. Up /\ clean /\ clean'
    BY DEF EraseCurrent, Goes, CInv, Up
  <1>3. AllDead \/ Saved
    BY <1>1, <1>2 DEF Up
  <1>4. sel \in 0..2 /\ FTLCtrlBlock[sel] \in Block /\ flash \in [Page -> PageContent]
    BY CtrlBlockType, FlashType DEF TInv, TypeOK
  <1>5. \A j \in 0..2 : FTLCtrlBlock[j] = FTLCtrlBlock[sel] \/ Dead(FTLCtrlBlock[j])
    BY <1>3 DEF AllDead, Saved, Current
  <1>6. /\ AllDead'
        /\ \A q \in Page : IsCxt(q)' => IsCxt(q) /\ flash'[q] = flash[q]
    BY <1>1, <1>4, <1>5, EraseKeepsDead
  <1>7. Newer'
    BY <1>1, <1>2, <1>6, NewerKept DEF Up
  <1> QED BY <1>1, <1>2, <1>6, <1>7 DEF CInv, Up

LEMMA EraseNextCInv ==
  ASSUME TInv, CInv, EraseNext
  PROVE  CInv'
  <1>1. /\ phase' = "up" /\ pc' = "data" /\ pc = "eraseNext" /\ data' = data
        /\ sel' = sel /\ cxtPage' = None
        /\ tables' = tables /\ usn' = usn /\ flash' = Erased(FTLCtrlBlock[sel])
    BY DEF EraseNext, Goes
  <1>2. Up /\ ~clean'
    BY DEF EraseNext, Goes, CInv, Up
  <1>3. AllDead
    BY <1>1, <1>2 DEF Up
  <1>4. sel \in 0..2 /\ FTLCtrlBlock[sel] \in Block /\ flash \in [Page -> PageContent]
    BY CtrlBlockType, FlashType DEF TInv, TypeOK
  <1>5. /\ AllDead' /\ EmptyFrom(FTLCtrlBlock[sel], 0)'
        /\ \A q \in Page : IsCxt(q)' => IsCxt(q) /\ flash'[q] = flash[q]
    BY <1>1, <1>3, <1>4, EraseKeepsDead DEF AllDead
  <1>6. Room'
    BY <1>1, <1>5 DEF Room
  <1>7. Newer'
    BY <1>1, <1>2, <1>5, NewerKept DEF Up
  <1> QED BY <1>1, <1>2, <1>5, <1>6, <1>7 DEF CInv, Up

(* A step that leaves the NAND alone while no context is saved. *)
LEMMA RoomKept ==
  ASSUME TInv, Room, flash' = flash, sel' = sel, cxtPage' = cxtPage
  PROVE  Room'
  <1>1. sel \in 0..2 /\ FTLCtrlBlock[sel] \in Block
    BY CtrlBlockType DEF TInv, TypeOK
  <1>2. EmptyFrom(FTLCtrlBlock[sel], 0)' <=> EmptyFrom(FTLCtrlBlock[sel], 0)
    BY <1>1, SameFlash
  <1>3. Marked(sel, cxtPage)' <=> Marked(sel, cxtPage)
    BY <1>1, SameFlash
  <1> QED BY <1>2, <1>3 DEF Room

LEMMA WriteDataCInv ==
  ASSUME TInv, CInv, WriteData \/ BeginFlush
  PROVE  CInv'
  <1>1. /\ phase' = "up" /\ pc' \in {"idle", "flush"} /\ pc \in {"idle", "data"}
        /\ flash' = flash /\ sel' = sel /\ cxtPage' = cxtPage /\ usn' = usn
    BY DEF WriteData, BeginFlush, Goes, ram
  <1>2. Up /\ ~clean /\ ~clean'
    BY DEF WriteData, BeginFlush, Goes, ram, CInv
  <1>3. AllDead /\ Room
    BY <1>1, <1>2 DEF Up
  <1>4. Room'
    BY <1>1, <1>3, RoomKept
  <1>5. AllDead'
    BY <1>1, <1>3, SameFlash
  <1>6. Newer'
    BY <1>1, <1>2, NewerKept DEF Up, IsCxt
  <1>7. tables' = data'
    BY <1>2 DEF WriteData, BeginFlush, ram, Up
  <1> QED BY <1>1, <1>2, <1>4, <1>5, <1>6, <1>7 DEF CInv, Up


(* writeCxtInfo begins at a slot that a walk reaches, with nothing in it.  *)
LEMMA WritingBegins ==
  ASSUME TInv, Newer, NEW i \in 0..2, NEW p \in Slots(FTLCtrlBlock[i]), NEW b \in Block,
         WriteAt(p, b),
         WalkReaches(FTLCtrlBlock[i], p)', EmptyFrom(FTLCtrlBlock[i], p)',
         \A q \in Page : IsCxt(q)' => IsCxt(q) /\ flash'[q] = flash[q],
         p # FirstPage(FTLCtrlBlock[i]) => Newest(i)'
  PROVE  Writing(i)' /\ Newer'
  <1>1. slot'.page = p /\ slot'.done = 0 /\ usn' = usn + 1
    BY DEF WriteAt
  <1>2. FTLCtrlBlock[i] \in Block
    BY CtrlBlockType
  <1>3. p \in Nat
    BY <1>2, SlotFacts
  <1>4. CxtPage' = p
    BY <1>1, <1>3, SMT DEF CxtPage
  <1>5. Newer'
    BY <1>1, NewerKept
  <1>6. ~\E q \in p..p - 1 : TRUE
    BY <1>3, SMT
  <1>7. ASSUME NEW q \in Page, IsCxt(q)' PROVE flash'[q].usn < usn'
    <2>1. IsCxt(q) /\ flash'[q] = flash[q] /\ flash[q].usn <= usn
      BY <1>7 DEF Newer
    <2>2. flash[q].usn \in Nat
      BY <2>1, FlashType, ContentType DEF IsCxt, Cxt
    <2>3. usn \in Nat
      BY DEF TInv, TypeOK
    <2> QED BY <1>1, <2>1, <2>2, <2>3, SMT
  <1>8. \A q \in slot'.page..CxtPage' - 1 : flash'[q] = Content'
    BY <1>1, <1>4, <1>6
  <1> QED BY <1>1, <1>4, <1>5, <1>7, <1>8 DEF Writing

LEMMA FirstReached ==
  ASSUME NEW b \in Block
  PROVE  WalkReaches(b, FirstPage(b)) /\ WalkReaches(b, FirstPage(b))'
  <1>1. ASSUME NEW q \in Slots(b), q < FirstPage(b) PROVE FALSE
    <2>1. q \in Nat /\ q >= FirstPage(b) /\ FirstPage(b) \in Nat
      BY SlotsOfBlock, SlotFacts, PagesOfBlock
    <2> QED BY <1>1, <2>1, SMT
  <1> QED BY <1>1, SlotsOfBlock DEF WalkReaches

LEMMA EmptyFromLater ==
  ASSUME NEW b \in Block, NEW p \in Nat, EmptyFrom(b, 0)'
  PROVE  EmptyFrom(b, p)'
  <1>1. \A q \in PagesOf(b) : q >= 0
    <2> TAKE q \in PagesOf(b)
    <2>1. q \in Nat BY PagesOfBlock, PageType
    <2> QED BY <2>1, SMT
  <1> QED BY <1>1 DEF EmptyFrom

LEMMA FlushFreshCInv ==
  ASSUME TInv, CInv, FlushFresh
  PROVE  CInv'
  <1>1. /\ phase' = "up" /\ pc' = "context" /\ pc = "flush" /\ data' = data
        /\ sel' = sel /\ tables' = tables /\ flash' = flash /\ cxtPage = None
    BY DEF FlushFresh, Goes
  <1>2. Up /\ ~clean /\ ~clean'
    BY DEF FlushFresh, Goes, CInv, Up
  <1>3. PICK b \in Block : b = FTLCtrlBlock[sel] /\ sel \in 0..2
    BY CtrlBlockType DEF TInv, TypeOK
  <1>4. AllDead /\ EmptyFrom(b, 0)
    BY <1>1, <1>2, <1>3 DEF Up, Room
  <1>5. AllDead' /\ EmptyFrom(b, 0)'
    BY <1>1, <1>4, SameFlash
  <1>6. FirstPage(b) \in Slots(b) /\ FirstPage(b) \in Nat
    BY SlotsOfBlock, PagesOfBlock
  <1>7. WalkReaches(b, FirstPage(b))' /\ EmptyFrom(b, FirstPage(b))'
    BY <1>5, <1>6, FirstReached, EmptyFromLater
  <1>8. WriteAt(FirstPage(b), b)
    BY <1>3 DEF FlushFresh
  <1>9. \A q \in Page : IsCxt(q)' => IsCxt(q) /\ flash'[q] = flash[q]
    BY <1>1 DEF IsCxt
  <1>10. \A i \in 0..2 : i = sel => Writing(i)' /\ Newer'
    BY <1>2, <1>3, <1>6, <1>7, <1>8, <1>9, WritingBegins DEF Up
  <1>11. Writing(sel)' /\ Newer'
    BY <1>1, <1>3, <1>10
  <1> QED BY <1>1, <1>2, <1>5, <1>11 DEF CInv, Up

LEMMA FlushBehindCInv ==
  ASSUME TInv, CInv, FlushBehind
  PROVE  CInv'
  <1>1. /\ phase' = "up" /\ pc' = "context" /\ pc = "flush" /\ data' = data
        /\ sel' = sel /\ tables' = tables /\ flash' = flash /\ cxtPage # None
    BY DEF FlushBehind, Goes, Fits
  <1>2. Up /\ ~clean /\ ~clean'
    BY DEF FlushBehind, Goes, CInv, Up
  <1>3. PICK b \in Block : b = FTLCtrlBlock[sel] /\ sel \in 0..2
    BY CtrlBlockType DEF TInv, TypeOK
  <1>4. PICK p : p = cxtPage OBVIOUS
  <1>5. AllDead /\ Marked(sel, p)
    BY <1>1, <1>2, <1>4 DEF Up, Room
  <1>6. /\ p \in Slots(b) /\ \A q \in Slots(b) : q < p => ~WalkEnds(q)
        /\ ~WalkEnds(p) /\ EmptyFrom(b, MarkOf(p) + 1) /\ Newest(sel)
    BY <1>3, <1>5 DEF Marked, WalkReaches
  <1>7. p \in Nat /\ p \in Page /\ p \in PagesOf(b) /\ MarkOf(p) = p + CtrlBlockPageOffset
    BY <1>6, SlotFacts
  <1>8. PICK n \in Nat :
          n = NextPage /\ n = MarkOf(p) + 1 /\ n = p + CtrlBlockPageOffset + 1
    BY <1>4, <1>7, YaftlAssumption, SMT DEF NextPage
  <1>9. n \in Slots(b)
    <2>1. BlockOf(p) = b
      <3>1. p \in Int BY <1>7, SMT
      <3> QED BY <1>7, <3>1, PagesOfBlock
    <2>2. BlockOf(p + 2 * CtrlBlockPageOffset + 2) = b
      BY <1>4, <2>1 DEF FlushBehind, Fits
    <2>3. p + 2 * CtrlBlockPageOffset + 2 \in Int
      BY <1>7, YaftlAssumption, SMT
    <2>4. p + 2 * CtrlBlockPageOffset + 2 \in PagesOf(b)
      BY <2>2, <2>3, PagesOfBlock
    <2> QED BY <1>6, <1>8, <2>4, SlotsOfBlock
  <1>10. WalkReaches(b, n)
    <2> SUFFICES ASSUME NEW q \in Slots(b), q < n PROVE ~WalkEnds(q)
      BY <1>9 DEF WalkReaches
    <2>1. q > p => q > MarkOf(p)
      BY <1>6, SlotsOfBlock
    <2>2. q \in Nat
      BY SlotFacts
    <2>3. q <= p
      BY <1>7, <1>8, <2>1, <2>2, YaftlAssumption, SMT
    <2>4. q < p \/ q = p
      BY <1>7, <2>2, <2>3, SMT
    <2> QED BY <1>6, <2>4
  <1>11. EmptyFrom(b, n)
    BY <1>6, <1>8
  <1>12. AllDead' /\ WalkReaches(b, n)' /\ EmptyFrom(b, n)' /\ Newest(sel)'
    BY <1>1, <1>3, <1>5, <1>6, <1>10, <1>11, SameFlash
  <1>13. NumBlocks \in Block /\ WriteAt(n, NumBlocks)
    BY <1>8, YaftlAssumption, SMT DEF FlushBehind, Block
  <1>14. \A q \in Page : IsCxt(q)' => IsCxt(q) /\ flash'[q] = flash[q]
    BY <1>1 DEF IsCxt
  <1>15. ASSUME NEW i \in 0..2, i = sel PROVE Writing(i)' /\ Newer'
    <2>1. n \in Slots(FTLCtrlBlock[i])
      BY <1>3, <1>9, <1>15
    <2>2. WalkReaches(FTLCtrlBlock[i], n)' /\ EmptyFrom(FTLCtrlBlock[i], n)'
      BY <1>3, <1>12, <1>15
    <2>3. Newest(i)'
      BY <1>1, <1>12, <1>15
    <2> QED BY <1>2, <1>13, <1>14, <2>1, <2>2, <2>3, WritingBegins DEF Up
  <1>16. Writing(sel)' /\ Newer'
    BY <1>1, <1>3, <1>15
  <1> QED BY <1>1, <1>2, <1>12, <1>16 DEF CInv, Up

LEMMA FlushNextBlockCInv ==
  ASSUME TInv, CInv, FlushNextBlock
  PROVE  CInv'
  <1>1. /\ phase' = "up" /\ pc' = "context" /\ pc = "flush" /\ data' = data
        /\ sel' = NextSel /\ tables' = tables /\ flash' = Erased(FTLCtrlBlock[NextSel])
    BY DEF FlushNextBlock, Goes
  <1>2. Up /\ ~clean /\ ~clean'
    BY DEF FlushNextBlock, Goes, CInv, Up
  <1>3. PICK i \in 0..2 : i = NextSel
    BY NextSelType DEF TInv, TypeOK
  <1>4. PICK b \in Block : b = FTLCtrlBlock[i]
    BY CtrlBlockType
  <1>5. AllDead
    BY <1>2 DEF Up
  <1>6. /\ AllDead' /\ EmptyFrom(b, 0)'
        /\ \A q \in Page : IsCxt(q)' => IsCxt(q) /\ flash'[q] = flash[q]
    BY <1>1, <1>3, <1>4, <1>5, FlashType, EraseKeepsDead DEF AllDead
  <1>7. FirstPage(b) \in Slots(b) /\ FirstPage(b) \in Nat
    BY SlotsOfBlock, PagesOfBlock
  <1>8. WalkReaches(b, FirstPage(b))' /\ EmptyFrom(b, FirstPage(b))'
    BY <1>6, <1>7, FirstReached, EmptyFromLater
  <1>9. WriteAt(FirstPage(b), b)
    BY <1>3, <1>4 DEF FlushNextBlock
  <1>10. Writing(i)' /\ Newer'
    BY <1>2, <1>4, <1>6, <1>7, <1>8, <1>9, WritingBegins DEF Up
  <1>11. Writing(sel)' /\ Newer'
    BY <1>1, <1>3, <1>10
  <1> QED BY <1>1, <1>2, <1>6, <1>11 DEF CInv, Up


(* Where a page of the context goes, and what is known of it. *)
LEMMA CxtPageFacts ==
  ASSUME TInv, NEW i \in 0..2, pc = "context", Writing(i)
  PROVE  \E b \in Block, p \in Slots(FTLCtrlBlock[i]), k \in 0..CtrlBlockPageOffset - 1 :
           /\ b = FTLCtrlBlock[i] /\ slot.page = p /\ slot.done = k /\ CxtPage = p + k
           /\ WalkReaches(b, p)
           /\ p + k \in p..MarkOf(p) /\ p + k \in p..p + CtrlBlockPageOffset - 1
           /\ p + k \in Page /\ p + k \in PagesOf(b) /\ flash[p + k] = Empty
           /\ p \in Page /\ p \in Nat /\ MarkOf(p) = p + CtrlBlockPageOffset
           /\ FirstPage(b) \in Nat /\ p >= FirstPage(b)
  <1>1. PICK b \in Block : b = FTLCtrlBlock[i]
    BY CtrlBlockType
  <1>2. PICK p \in Slots(b) : p = slot.page
    BY <1>1 DEF Writing, WalkReaches
  <1>3. slot \in [page : Page, done : 0..CtrlBlockPageOffset - 1, block : Block]
    BY DEF TInv, TypeOK
  <1>4. PICK k \in 0..CtrlBlockPageOffset - 1 : k = slot.done
    BY <1>3
  <1>5. CxtPage = p + k
    BY <1>2, <1>4 DEF CxtPage
  <1>6. p \in Page /\ p \in Nat /\ MarkOf(p) = p + CtrlBlockPageOffset
    BY <1>2, SlotFacts
  <1>7. p + k \in p..MarkOf(p) /\ p + k \in p..p + CtrlBlockPageOffset - 1
    BY <1>6, YaftlAssumption, SMT
  <1>8. p + k \in Page /\ p + k \in PagesOf(b)
    BY <1>2, <1>7, SlotFacts
  <1>9. flash[p + k] = Empty
    <2>1. p + k >= p + k
      BY <1>6, SMT
    <2> QED BY <1>1, <1>5, <1>8, <2>1 DEF Writing, EmptyFrom
  <1>10. FirstPage(b) \in Nat /\ p >= FirstPage(b)
    BY <1>2, SlotsOfBlock, PagesOfBlock
  <1> QED
    BY <1>1, <1>2, <1>4, <1>5, <1>6, <1>7, <1>8, <1>9, <1>10 DEF Writing

(* The control block with an unfinished or broken context is dead. *)
LEMMA UnfinishedIsDead ==
  ASSUME TInv, AllDead, NEW i \in 0..2, pc = "context", Writing(i), NEW v,
         flash' = [flash EXCEPT ![CxtPage] = v],
         v.type # "cxt" \/ slot.done < CtrlBlockPageOffset - 1
  PROVE  AllDead'
  <1>1. PICK b \in Block, p \in Slots(FTLCtrlBlock[i]), k \in 0..CtrlBlockPageOffset - 1 :
           /\ b = FTLCtrlBlock[i] /\ slot.page = p /\ slot.done = k /\ CxtPage = p + k
           /\ WalkReaches(b, p)
           /\ p + k \in p..MarkOf(p) /\ p + k \in p..p + CtrlBlockPageOffset - 1
           /\ p + k \in Page /\ p \in Nat /\ MarkOf(p) = p + CtrlBlockPageOffset
    BY CxtPageFacts
  <1>2. PICK w : w = p + k OBVIOUS
  <1>3. w \in p..MarkOf(p) /\ flash' = [flash EXCEPT ![w] = v]
        /\ WalkReaches(FTLCtrlBlock[i], p)
    BY <1>1, <1>2
  <1>10. flash \in [Page -> PageContent]
    BY FlashType
  <1>4. /\ \A q \in Page : flash'[q] = IF q = w THEN v ELSE flash[q]
        /\ WalkReaches(FTLCtrlBlock[i], p)'
        /\ \A j \in 0..2 \ {i} : Dead(FTLCtrlBlock[j])' <=> Dead(FTLCtrlBlock[j])
    <2>1. PutInSlot(i, p, w, v)
      BY <1>3 DEF PutInSlot
    <2> QED BY <1>10, <2>1, PageWritten
  <1>5. EmptyFrom(b, w)
    BY <1>1, <1>2 DEF Writing
  <1>6. ASSUME NEW q \in PagesOf(b), q > w PROVE flash'[q] = Empty
    <2>1. q \in Page /\ q \in Nat
      BY PagesOfBlock, PageType
    <2>2. q >= w /\ q # w
      BY <1>1, <1>2, <1>6, <2>1, SMT
    <2> QED BY <1>4, <1>5, <2>1, <2>2 DEF EmptyFrom
  <1>7. EmptyFrom(b, MarkOf(p) + 1)'
    <2> SUFFICES ASSUME NEW q \in PagesOf(b), q >= MarkOf(p) + 1 PROVE flash'[q] = Empty
      BY DEF EmptyFrom
    <2>1. q \in Nat
      BY PagesOfBlock, PageType
    <2>2. q > w
      BY <1>1, <1>2, <2>1, YaftlAssumption, SMT
    <2> QED BY <1>6, <2>2
  <1>8. (~Whole(p))'
    <2>1. CASE v.type # "cxt"
      <3>1. w \in Page /\ flash'[w].type # "cxt"
        BY <1>1, <1>2, <1>4, <2>1
      <3> QED BY <1>1, <1>2, <3>1 DEF Whole, IsCxt
    <2>2. CASE slot.done < CtrlBlockPageOffset - 1
      <3>1. PICK q : q = w + 1 OBVIOUS
      <3>2. q \in p..MarkOf(p) /\ q \in p..p + CtrlBlockPageOffset - 1 /\ q > w
        BY <1>1, <1>2, <2>2, <3>1, YaftlAssumption, SMT
      <3>3. q \in PagesOf(b)
        BY <1>1, <3>2, SlotFacts
      <3>4. flash'[q] = Empty
        BY <1>6, <3>2, <3>3
      <3>5. flash'[q].type # "cxt"
        BY <3>4 DEF Empty
      <3> QED BY <3>2, <3>5 DEF Whole, IsCxt
    <2> QED BY <2>1, <2>2, YaftlAssumption
  <1>9. Dead(b)'
    BY <1>1, <1>4, <1>7, <1>8, DeadEndIsDeadNext DEF DeadEnd
  <1> QED BY <1>1, <1>4, <1>9 DEF AllDead

LEMMA ContentIsCxt ==
  ASSUME TInv, phase = "up"
  PROVE  /\ Content.type = "cxt" /\ Content.usn = usn /\ Content.tables = tables
         /\ Content \in Cxt /\ usn \in Nat
  BY SMT DEF TInv, TypeOK, Content, Cxt

(* A page is added to the context. *)
LEMMA CxtPageAdded ==
  ASSUME TInv, NEW i \in 0..2, phase = "up", pc = "context", Writing(i), Newer,
         flash' = [flash EXCEPT ![CxtPage] = Content], usn' = usn, tables' = tables,
         NEW first, first = slot.page, NEW last, last = CxtPage
  PROVE  /\ Newer'
         /\ \A q \in first..last : flash'[q] = Content
         /\ EmptyFrom(FTLCtrlBlock[i], last + 1)'
         /\ WalkReaches(FTLCtrlBlock[i], first)'
         /\ \A j \in 0..2 \ {i} : Dead(FTLCtrlBlock[j])' <=> Dead(FTLCtrlBlock[j])
         /\ \A q \in Page : IsCxt(q)' => flash'[q].usn < usn \/ q \in first..last
         /\ first # FirstPage(FTLCtrlBlock[i]) => Newest(i)'
  <1>1. PICK b \in Block, p \in Slots(FTLCtrlBlock[i]), k \in 0..CtrlBlockPageOffset - 1 :
           /\ b = FTLCtrlBlock[i] /\ slot.page = p /\ slot.done = k /\ CxtPage = p + k
           /\ WalkReaches(b, p)
           /\ p + k \in p..MarkOf(p) /\ p + k \in Page /\ p + k \in PagesOf(b)
           /\ p \in Page /\ p \in Nat /\ MarkOf(p) = p + CtrlBlockPageOffset
           /\ FirstPage(b) \in Nat /\ p >= FirstPage(b)
    BY CxtPageFacts
  <1>2. PICK w : w = p + k OBVIOUS
  <1>3. w \in p..MarkOf(p) /\ flash' = [flash EXCEPT ![w] = Content] /\ CxtPage = w
        /\ WalkReaches(FTLCtrlBlock[i], p)
    BY <1>1, <1>2
  <1>11. flash \in [Page -> PageContent]
    BY FlashType
  <1>4. /\ \A q \in Page : flash'[q] = IF q = w THEN Content ELSE flash[q]
        /\ WalkReaches(FTLCtrlBlock[i], p)'
        /\ \A j \in 0..2 \ {i} : Dead(FTLCtrlBlock[j])' <=> Dead(FTLCtrlBlock[j])
        /\ w # FirstPage(FTLCtrlBlock[i]) => (Newest(i)' <=> Newest(i))
    <2>1. PutInSlot(i, p, w, Content)
      BY <1>3 DEF PutInSlot
    <2> QED BY <1>11, <2>1, PageWritten
  <1>5. /\ Content.type = "cxt" /\ Content.usn = usn /\ usn \in Nat
    BY ContentIsCxt
  <1>6. Newer'
    <2> SUFFICES ASSUME NEW q \in Page, IsCxt(q)' PROVE flash'[q].usn <= usn'
      BY DEF Newer
    <2>1. CASE q = w
      BY <1>4, <1>5, <2>1, SMT
    <2>2. CASE q # w
      BY <1>4, <2>2 DEF Newer, IsCxt
    <2> QED BY <2>1, <2>2
  <1>7. ASSUME NEW q \in p..w PROVE flash'[q] = Content
    <2>1. q \in p..MarkOf(p)
      BY <1>1, <1>3, YaftlAssumption, SMT
    <2>2. q \in Page
      BY <1>1, <2>1, SlotFacts
    <2>3. q # w => q \in p..w - 1
      BY <1>1, <1>2, SMT
    <2> QED BY <1>1, <1>3, <1>4, <2>2, <2>3 DEF Writing
  <1>8. EmptyFrom(b, w + 1)'
    <2> SUFFICES ASSUME NEW q \in PagesOf(b), q >= w + 1 PROVE flash'[q] = Empty
      BY DEF EmptyFrom
    <2>1. q \in Page /\ q \in Nat
      BY PagesOfBlock, PageType
    <2>2. q >= w /\ q # w
      BY <1>1, <1>2, <2>1, SMT
    <2> QED BY <1>1, <1>3, <1>4, <2>1, <2>2 DEF Writing, EmptyFrom
  <1>9. ASSUME NEW q \in Page, IsCxt(q)' PROVE flash'[q].usn < usn \/ q \in p..w
    <2>1. CASE q = w
      BY <1>1, <1>2, <2>1, SMT
    <2>2. CASE q # w
      <3>1. IsCxt(q) /\ flash'[q] = flash[q]
        BY <1>4, <1>9, <2>2 DEF IsCxt
      <3>2. flash[q].usn < usn \/ q \in p..w - 1
        BY <1>1, <1>3, <3>1 DEF Writing
      <3>3. q \in p..w - 1 => q \in p..w
        BY <1>1, <1>2, SMT
      <3> QED BY <3>1, <3>2, <3>3
    <2> QED BY <2>1, <2>2
  <1>10. ASSUME p # FirstPage(b) PROVE Newest(i)'
    <2>1. w # FirstPage(b)
      BY <1>1, <1>2, <1>10, SMT
    <2> QED BY <1>1, <1>4, <1>10, <2>1 DEF Writing
  <1>12. first = p /\ last = w /\ b = FTLCtrlBlock[i]
    BY <1>1, <1>3
  <1> QED BY <1>4, <1>6, <1>7, <1>8, <1>9, <1>10, <1>12

LEMMA WriteCxtPageCInv ==
  ASSUME TInv, CInv, WriteCxtPage
  PROVE  CInv'
  <1>1. /\ phase' = "up" /\ phase = "up" /\ pc' = "context" /\ pc = "context"
        /\ data' = data /\ sel' = sel /\ tables' = tables /\ usn' = usn
        /\ slot.done < CtrlBlockPageOffset - 1 /\ slot' = [slot EXCEPT !.done = @ + 1]
    BY DEF WriteCxtPage, Goes
  <1>2. Up /\ ~clean /\ ~clean'
    BY DEF WriteCxtPage, Goes, CInv, Up
  <1>3. PICK i \in 0..2 : i = sel
    BY DEF TInv, TypeOK
  <1>4. Writing(i) /\ AllDead /\ Newer
    BY <1>1, <1>2, <1>3 DEF Up
  <1>5. PICK b \in Block, p \in Slots(FTLCtrlBlock[i]), k \in 0..CtrlBlockPageOffset - 1 :
           /\ b = FTLCtrlBlock[i] /\ slot.page = p /\ slot.done = k /\ CxtPage = p + k
           /\ p \in Nat /\ flash[p + k] = Empty /\ p + k \in Page
    BY <1>1, <1>4, CxtPageFacts
  <1>6. flash' = [flash EXCEPT ![CxtPage] = Content]
    BY <1>5 DEF WriteCxtPage, Programmed
  <1>7. AllDead'
    BY <1>1, <1>4, <1>6, UnfinishedIsDead
  <1>8. PICK w : w = p + k OBVIOUS
  <1>9. /\ Newer'
        /\ \A q \in p..w : flash'[q] = Content
        /\ EmptyFrom(b, w + 1)'
        /\ WalkReaches(b, p)'
        /\ \A q \in Page : IsCxt(q)' => flash'[q].usn < usn \/ q \in p..w
        /\ p # FirstPage(b) => Newest(i)'
    <2>1. p = slot.page /\ w = CxtPage /\ b = FTLCtrlBlock[i]
      BY <1>5, <1>8
    <2> QED BY <1>1, <1>4, <1>6, <2>1, CxtPageAdded
  <1>10. slot' = [page |-> p, done |-> k + 1, block |-> slot.block]
    <2>1. slot \in [page : Page, done : 0..CtrlBlockPageOffset - 1, block : Block]
      BY <1>1 DEF TInv, TypeOK
    <2> QED BY <1>1, <1>5, <2>1
  <1>11. slot'.page = p /\ CxtPage' = w + 1
    BY <1>5, <1>8, <1>10, SMT DEF CxtPage
  <1>12. p..CxtPage' - 1 = p..w
    BY <1>5, <1>8, <1>11, SMT
  <1>13. Content' = Content
    BY <1>1 DEF Content
  <1>14. Writing(i)'
    BY <1>1, <1>5, <1>9, <1>11, <1>12, <1>13 DEF Writing
  <1>15. Writing(sel)'
    BY <1>1, <1>3, <1>14
  <1> QED BY <1>1, <1>2, <1>7, <1>9, <1>15 DEF CInv, Up


LEMMA WriteLastCxtPageCInv ==
  ASSUME TInv, CInv, WriteLastCxtPage
  PROVE  CInv'
  <1>1. /\ phase' = "up" /\ phase = "up" /\ pc' = "idle" /\ pc = "context" /\ data' = data
        /\ sel' = sel /\ tables' = tables /\ usn' = usn /\ cxtPage' = slot.page
        /\ slot.done = CtrlBlockPageOffset - 1
    BY DEF WriteLastCxtPage, Goes
  <1>2. Up /\ ~clean /\ clean'
    BY DEF WriteLastCxtPage, Goes, CInv, Up
  <1>3. PICK i \in 0..2 : i = sel
    BY DEF TInv, TypeOK
  <1>4. Writing(i) /\ AllDead /\ Newer /\ tables = data
    BY <1>1, <1>2, <1>3 DEF Up
  <1>5. PICK b \in Block, p \in Slots(FTLCtrlBlock[i]), k \in 0..CtrlBlockPageOffset - 1 :
           /\ b = FTLCtrlBlock[i] /\ slot.page = p /\ slot.done = k /\ CxtPage = p + k
           /\ p \in Nat /\ p \in Page /\ MarkOf(p) = p + CtrlBlockPageOffset
           /\ flash[p + k] = Empty /\ p + k \in Page
    BY <1>1, <1>4, CxtPageFacts
  <1>6. flash' = [flash EXCEPT ![CxtPage] = Content]
    BY <1>5 DEF WriteLastCxtPage, Programmed
  <1>7. PICK w : w = p + k OBVIOUS
  <1>8. w = p + CtrlBlockPageOffset - 1 /\ w + 1 = MarkOf(p) /\ p \in p..w
    BY <1>1, <1>5, <1>7, YaftlAssumption, SMT
  <1>9. /\ Newer'
        /\ \A q \in p..w : flash'[q] = Content
        /\ EmptyFrom(b, w + 1)'
        /\ WalkReaches(b, p)'
        /\ \A j \in 0..2 \ {i} : Dead(FTLCtrlBlock[j])' <=> Dead(FTLCtrlBlock[j])
        /\ \A q \in Page : IsCxt(q)' => flash'[q].usn < usn \/ q \in p..w
        /\ p # FirstPage(b) => Newest(i)'
    <2>1. p = slot.page /\ w = CxtPage /\ b = FTLCtrlBlock[i]
      BY <1>5, <1>7
    <2> QED BY <1>1, <1>4, <1>6, <2>1, CxtPageAdded
  <1>10. Content.type = "cxt" /\ Content.usn = usn /\ Content.tables = tables /\ usn \in Nat
    BY <1>1, ContentIsCxt
  <1>11. Whole(p)'
    BY <1>8, <1>9, <1>10 DEF Whole, IsCxt
  <1>12. EmptyFrom(b, MarkOf(p))'
    BY <1>8, <1>9
  <1>13. Newest(i)'
    <2>1. CASE p # FirstPage(b)
      BY <1>9, <2>1
    <2>2. CASE p = FirstPage(b)
      <3>1. flash'[FirstPage(b)] = Content
        BY <1>8, <1>9, <2>2
      <3>2. (i \in Candidates)' /\ FirstUsn(i)' = usn
        BY <1>5, <1>10, <3>1 DEF Candidates, IsCxt, FirstUsn
      <3>3. ASSUME NEW j \in Candidates', j # i PROVE FirstUsn(j)' < usn
        <4>1. j \in 0..2 /\ IsCxt(FirstPage(FTLCtrlBlock[j]))'
          BY DEF Candidates
        <4>2. PICK c \in Block : c = FTLCtrlBlock[j] /\ c # b
          BY <1>5, <3>3, <4>1, CtrlBlockType
        <4>3. FirstPage(c) \in Page /\ FirstPage(c) \in Int /\ BlockOf(FirstPage(c)) = c
          <5>1. FirstPage(c) \in PagesOf(c) /\ FirstPage(c) \in Nat
            BY PagesOfBlock
          <5>2. FirstPage(c) \in Int BY <5>1, SMT
          <5> QED BY <5>1, <5>2, PagesOfBlock
        <4>4. FirstPage(c) \notin p..w
          <5> SUFFICES ASSUME FirstPage(c) \in p..w PROVE FALSE OBVIOUS
          <5>1. FirstPage(c) \in p..MarkOf(p)
            BY <1>5, <1>8, <4>3, YaftlAssumption, SMT
          <5>2. FirstPage(c) \in PagesOf(b)
            BY <1>5, <5>1, SlotFacts
          <5>3. BlockOf(FirstPage(c)) = b
            BY <4>3, <5>2, PagesOfBlock
          <5> QED BY <4>2, <4>3, <5>3
        <4>5. flash'[FirstPage(c)].usn < usn
          BY <1>9, <4>1, <4>2, <4>3, <4>4
        <4> QED BY <4>2, <4>5 DEF FirstUsn
      <3> QED BY <3>2, <3>3 DEF Newest
    <2> QED BY <2>1, <2>2
  <1>14. flash'[p] = Content
    BY <1>8, <1>9
  <1>15. /\ (flash[p].tables = data)'
         /\ (\A q \in Page : IsCxt(q) => flash[q].usn <= flash[p].usn)'
    BY <1>1, <1>4, <1>9, <1>10, <1>14 DEF Newer
  <1>16. Current(i, p)'
    BY <1>4, <1>5, <1>9, <1>11, <1>12, <1>13, <1>15 DEF Current, AllDead
  <1>17. Saved'
    BY <1>1, <1>3, <1>5, <1>16 DEF Saved
  <1> QED BY <1>1, <1>2, <1>4, <1>9, <1>17 DEF CInv, Up

LEMMA CxtPageFailsCInv ==
  ASSUME ErasesOwnBlocks, TInv, CInv, CxtPageFails
  PROVE  CInv'
  <1>1. /\ phase' = "up" /\ phase = "up" /\ pc' = "eraseFailed" /\ pc = "context"
        /\ data' = data /\ sel' = sel /\ tables' = tables /\ usn' = usn
    BY DEF CxtPageFails, Goes, ram
  <1>2. Up /\ ~clean /\ ~clean'
    BY DEF CxtPageFails, Goes, ram, CInv, Up
  <1>3. PICK i \in 0..2 : i = sel
    BY DEF TInv, TypeOK
  <1>4. Writing(i) /\ AllDead /\ Newer
    BY <1>1, <1>2, <1>3 DEF Up
  <1>5. CxtPage \in Page /\ flash[CxtPage] = Empty
    BY <1>1, <1>4, CxtPageFacts
  <1>6. /\ flash' = flash \/ flash' = [flash EXCEPT ![CxtPage] = Bad]
        /\ faults < MaxFaults
    BY <1>5 DEF CxtPageFails, ProgramFails
  <1>7. InOrder
    BY <1>6, SMT DEF ErasesOwnBlocks, TInv, TypeOK
  <1>8. Bad.type # "cxt"
    BY DEF Bad
  <1>9. AllDead'
    <2>1. CASE flash' = flash
      BY <1>4, <2>1, SameFlash
    <2>2. CASE flash' = [flash EXCEPT ![CxtPage] = Bad]
      BY <1>1, <1>4, <1>8, <2>2, UnfinishedIsDead
    <2> QED BY <1>6, <2>1, <2>2
  <1>10. \A q \in Page : IsCxt(q)' => IsCxt(q) /\ flash'[q] = flash[q]
    BY <1>6, <1>8, FlashType DEF IsCxt
  <1>11. Newer'
    BY <1>1, <1>4, <1>10, NewerKept
  <1> QED BY <1>1, <1>2, <1>7, <1>9, <1>11 DEF CInv, Up, InOrder

LEMMA EraseFailedCInv ==
  ASSUME TInv, CInv, EraseFailed
  PROVE  CInv'
  <1>1. /\ phase' = "up" /\ phase = "up" /\ pc' = "eraseOther" /\ pc = "eraseFailed"
        /\ data' = data /\ tables' = tables /\ usn' = usn /\ flash' = Erased(slot.block)
    BY DEF EraseFailed, Goes
  <1>2. Up /\ ~clean /\ ~clean'
    BY DEF EraseFailed, Goes, CInv, Up
  <1>3. AllDead /\ Newer /\ InOrder
    BY <1>1, <1>2 DEF Up
  <1>4. slot.block \in Block
    BY <1>1 DEF TInv, TypeOK
  <1>5. AllDead' /\ \A q \in Page : IsCxt(q)' => IsCxt(q) /\ flash'[q] = flash[q]
    BY <1>1, <1>3, <1>4, FlashType, EraseKeepsDead DEF AllDead
  <1>6. Newer'
    BY <1>1, <1>3, <1>5, NewerKept
  <1> QED BY <1>1, <1>2, <1>3, <1>5, <1>6 DEF CInv, Up, InOrder

LEMMA EraseOtherCInv ==
  ASSUME TInv, CInv, EraseOther
  PROVE  CInv'
  <1>1. /\ phase' = "up" /\ phase = "up" /\ pc' \in {"idle", "flush"} /\ pc = "eraseOther"
        /\ data' = data /\ tables' = tables /\ usn' = usn /\ sel' = sel
        /\ flash' = Erased(sel) /\ cxtPage' = None
    BY DEF EraseOther, Goes
  <1>2. Up /\ ~clean /\ ~clean'
    BY DEF EraseOther, Goes, CInv, Up
  <1>3. AllDead /\ Newer /\ InOrder
    BY <1>1, <1>2 DEF Up
  <1>4. sel \in 0..2 /\ sel = FTLCtrlBlock[sel] /\ sel \in Block
    BY <1>3, CtrlBlockType DEF InOrder, TInv, TypeOK
  <1>5. /\ AllDead' /\ EmptyFrom(sel, 0)'
        /\ \A q \in Page : IsCxt(q)' => IsCxt(q) /\ flash'[q] = flash[q]
    BY <1>1, <1>3, <1>4, FlashType, EraseKeepsDead DEF AllDead
  <1>6. Newer'
    BY <1>1, <1>3, <1>5, NewerKept
  <1>7. Room'
    BY <1>1, <1>4, <1>5 DEF Room
  <1> QED BY <1>1, <1>2, <1>3, <1>5, <1>6, <1>7 DEF CInv, Up

LEMMA NextCInv ==
  ASSUME ErasesOwnBlocks, TInv, CInv, [Next]_vars
  PROVE  CInv'
  <1>1. CASE Next
    BY <1>1, OpenCInv, BeginChangeCInv, WriteMarkCInv, MarkFailsCInv, EraseCurrentCInv,
       EraseNextCInv, WriteDataCInv, FlushFreshCInv, FlushBehindCInv, FlushNextBlockCInv,
       WriteCxtPageCInv, WriteLastCxtPageCInv, CxtPageFailsCInv, EraseFailedCInv,
       EraseOtherCInv DEF Next, Flushing
  <1>2. CASE UNCHANGED vars
    <2>1. /\ flash' = flash /\ phase' = phase /\ pc' = pc /\ sel' = sel /\ cxtPage' = cxtPage
          /\ clean' = clean /\ usn' = usn /\ tables' = tables /\ slot' = slot /\ data' = data
      BY <1>2 DEF vars, ram
    <2> QED
      BY <2>1 DEF CInv, Up, Down, Saved, Room, Newer, Current, Marked, Writing, Newest,
         AllDead, Dead, EmptyFrom, WalkReaches, WalkEnds, Whole, Readable, IsCxt, Content,
         CxtPage, Candidates, FirstUsn, InOrder
  <1> QED BY <1>1, <1>2

(* The invariant of the context, if writes that fail make the code erase   *)
(* only control blocks: these are the first blocks, or no write fails.     *)
THEOREM SpecCInv == ErasesOwnBlocks /\ Spec => []CInv
  <1> SUFFICES ASSUME ErasesOwnBlocks PROVE Spec => []CInv
    OBVIOUS
  <1>1. TInv /\ TInv' /\ CInv /\ [Next]_vars => CInv'
    BY NextCInv
  <1> QED BY InitCInv, SpecTInv, <1>1, PTL DEF Spec

(* After a flush that says the context is on the NAND (field_78), open     *)
(* finds it, in every geometry and whatever writes have failed on the way. *)
THEOREM SpecCleanReopens == ErasesOwnBlocks /\ Spec => []CleanReopens
  <1>1. TInv /\ CInv => CleanReopens
    <2> SUFFICES ASSUME TInv, CInv, phase = "up", pc = "idle", clean
                 PROVE  SavedTables = data
      BY DEF CleanReopens
    <2>1. Saved
      BY DEF CInv, Up
    <2>2. sel \in 0..2 /\ flash \in [Page -> PageContent]
      BY FlashType DEF TInv, TypeOK
    <2> QED BY <2>1, <2>2, CurrentIsTrusted DEF CurrentTrusted, Saved
  <1> QED BY SpecTInv, SpecCInv, <1>1, PTL

----------------------------------------------------------------------------
(* The refinement of CleanMount.                                           *)

LEMMA SavedOf ==
  /\ flash' = flash => SavedTables' = SavedTables
  /\ TInv /\ CInv /\ phase = "up" => SavedTables \in {None, data}
  <1>1. flash' = flash => SavedTables' = SavedTables
    BY DEF SavedTables, Trusted, Candidates, IsCxt, Found, Latest, FirstUsn, WalkEnds,
       Readable, Whole
  <1>2. ASSUME TInv, CInv, phase = "up" PROVE SavedTables \in {None, data}
    <2>1. AllDead \/ Saved
      BY <1>2, UpIsDown DEF CInv
    <2>2. sel \in 0..2 /\ flash \in [Page -> PageContent]
      BY <1>2, FlashType DEF TInv, TypeOK
    <2>3. AllDead => SavedTables = None
      BY <2>2, DeadIsNotTrusted DEF NothingTrusted
    <2>4. Saved => SavedTables = data
      BY <2>2, CurrentIsTrusted DEF CurrentTrusted, Saved
    <2> QED BY <2>1, <2>3, <2>4
  <1> QED BY <1>1, <1>2

UpIsSaved == TInv /\ CInv /\ phase = "up" => SavedTables \in {None, data}

LEMMA UpIsSavedNext == UpIsSaved'
  <1>1. UpIsSaved BY SavedOf DEF UpIsSaved
  <1> QED BY <1>1, PTL

LEMMA InitPromise == Init => Promise!Init
  <1> SUFFICES ASSUME Init PROVE Promise!Init OBVIOUS
  <1>1. flash \in [Page -> PageContent]
    BY InitTInv, FlashType
  <1>2. PICK p \in Page : Current(0, p)
    BY InitCurrent
  <1>3. SavedTables = data
    <2>1. 0 \in 0..2 BY SMT
    <2> QED BY <1>1, <1>2, <2>1, CurrentIsTrusted DEF CurrentTrusted
  <1>4. (phase = "up") = FALSE /\ tables = None /\ data = 0
    BY DEF Init
  <1> QED BY <1>3, <1>4 DEF Promise!Init

(* While the FTL is open, a step that does not touch the data saves the    *)
(* tables or makes sure that nothing is trusted.                           *)
LEMMA SaveOrUnsave ==
  ASSUME TInv, TInv', CInv', phase = "up", phase' = "up", data' = data, tables' = tables
  PROVE  Promise!Next
  <1>1. SavedTables' \in {None, data'}
    BY UpIsSavedNext DEF UpIsSaved
  <1>2. tables' = data'
    BY DEF CInv, Up
  <1>3. (phase = "up") = TRUE /\ (phase' = "up") = TRUE
    OBVIOUS
  <1>4. CASE SavedTables' = None
    <2>1. Promise!Unsave
      BY <1>3, <1>4 DEF Promise!Unsave
    <2> QED BY <2>1 DEF Promise!Next
  <1>5. CASE SavedTables' = tables
    <2>1. Promise!Save
      BY <1>3, <1>5 DEF Promise!Save
    <2> QED BY <2>1 DEF Promise!Next
  <1> QED BY <1>1, <1>2, <1>4, <1>5

LEMMA StepPromise ==
  ASSUME TInv, TInv', CInv, CInv', [Next]_vars
  PROVE  [Promise!Next]_<<phase = "up", tables, data, SavedTables>>
  <1>1. CASE Open
    <2>1. phase = "off" /\ phase' = "up" /\ data' = data /\ flash' = flash
      BY <1>1 DEF Open
    <2>2. tables' = data'
      BY <2>1 DEF CInv, Up
    <2>3. SavedTables' = SavedTables
      BY <2>1, SavedOf
    <2>4. SavedTables' \in {None, data'}
      BY <2>1, UpIsSavedNext DEF UpIsSaved
    <2>5. SavedTables = data
      <3>1. Trusted # {} /\ Down /\ flash \in [Page -> PageContent]
        BY <1>1, FlashType DEF Open, CInv
      <3>2. ~AllDead
        BY <3>1, DeadIsNotTrusted DEF NothingTrusted
      <3> QED BY <3>1, <3>2, CurrentIsTrusted DEF CurrentTrusted, Down
    <2>6. (phase = "up") = FALSE /\ (phase' = "up") = TRUE
      BY <2>1
    <2>7. Promise!Mount
      BY <2>1, <2>2, <2>3, <2>5, <2>6 DEF Promise!Mount
    <2> QED BY <2>7 DEF Promise!Next
  <1>2. CASE OpenPanics
    <2>1. /\ phase = "off" /\ phase' = "panic"
          /\ data' = data /\ flash' = flash /\ tables' = tables
      BY <1>2 DEF OpenPanics, ram
    <2>2. SavedTables' = SavedTables
      BY <2>1, SavedOf
    <2>3. (phase' = "up") = (phase = "up")
      BY <2>1
    <2> QED BY <2>1, <2>2, <2>3
  <1>3. CASE Crash
    <2>1. phase' = "off" /\ data' = data /\ flash' = flash /\ tables' = None
      BY <1>3 DEF Crash
    <2>2. SavedTables' = SavedTables
      BY <2>1, SavedOf
    <2>3. CASE phase = "up"
      <3>1. (phase = "up") = TRUE /\ (phase' = "up") = FALSE
        BY <2>1, <2>3
      <3>2. Promise!PowerLost
        BY <2>1, <2>2, <3>1 DEF Promise!PowerLost
      <3> QED BY <3>2 DEF Promise!Next
    <2>4. CASE phase # "up"
      <3>1. tables = None
        BY <2>4 DEF TInv
      <3>2. (phase' = "up") = (phase = "up")
        BY <2>1, <2>4
      <3> QED BY <2>1, <2>2, <3>1, <3>2
    <2> QED BY <2>3, <2>4
  <1>4. CASE WriteData
    <2>1. /\ phase = "up" /\ phase' = "up"
          /\ data' = data + 1 /\ tables' = data' /\ flash' = flash
      BY <1>4 DEF WriteData
    <2>2. SavedTables' = SavedTables
      BY <2>1, SavedOf
    <2>3. ~clean
      BY <1>4 DEF WriteData
    <2>4. AllDead
      BY <2>1, <2>3 DEF CInv, Up
    <2>5. SavedTables = None
      BY <2>4, FlashType, DeadIsNotTrusted DEF NothingTrusted
    <2>6. (phase = "up") = TRUE /\ (phase' = "up") = TRUE
      BY <2>1
    <2>7. Promise!Change
      BY <2>1, <2>2, <2>5, <2>6 DEF Promise!Change
    <2> QED BY <2>7 DEF Promise!Next
  <1>5. CASE \/ BeginChange \/ WriteMark \/ MarkFails \/ EraseCurrent \/ EraseNext
             \/ BeginFlush \/ Flushing
    <2>1. phase = "up" /\ phase' = "up" /\ data' = data /\ tables' = tables
      BY <1>5 DEF BeginChange, WriteMark, MarkFails, EraseCurrent, EraseNext, BeginFlush,
         Flushing, FlushFresh, FlushBehind, FlushNextBlock, WriteCxtPage, WriteLastCxtPage,
         CxtPageFails, EraseFailed, EraseOther, Goes, ram
    <2> QED BY <2>1, SaveOrUnsave
  <1>6. CASE UNCHANGED vars
    <2>1. flash' = flash /\ phase' = phase /\ tables' = tables /\ data' = data
      BY <1>6 DEF vars, ram
    <2>2. (phase' = "up") = (phase = "up")
      BY <2>1
    <2> QED BY <2>1, <2>2, SavedOf
  <1> QED BY <1>1, <1>2, <1>3, <1>4, <1>5, <1>6 DEF Next

(* The saved context keeps the promise of CleanMount: data changes only    *)
(* while open would trust no context (YAFTL_writeIndexTOC comes first),    *)
(* and a context that open trusts describes the data, wherever the power   *)
(* fails.                                                                  *)
THEOREM SpecKeepsPromise == ErasesOwnBlocks /\ Spec => KeepsPromise
  <1>1. TInv /\ TInv' /\ CInv /\ CInv' /\ [Next]_vars
          => [Promise!Next]_<<phase = "up", tables, data, SavedTables>>
    BY StepPromise
  <1> QED
    BY InitPromise, SpecTInv, SpecCInv, <1>1, PTL DEF KeepsPromise, Promise!Spec, Spec

=============================================================================
