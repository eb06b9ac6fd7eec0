-------------------------- MODULE VflContextProofs --------------------------
(***************************************************************************)
(* Theorems about the contexts of the VSVFL, for any number of chip        *)
(* enables, any size of the blocks and any number of failing writes and    *)
(* erases.                                                                 *)
(***************************************************************************)
EXTENDS VflContext, WellFoundedInduction, SequenceTheorems, TLAPS

----------------------------------------------------------------------------
(* Least and greatest members.                                             *)

LEMMA LeastMember ==
  ASSUME NEW S, S \subseteq Nat, S # {}
  PROVE  \E x \in S : \A y \in S : x <= y
<1>1. PICK x \in S : \A y \in S : ~(<<y, x>> \in OpToRel(<, Nat))
  BY NatLessThanWellFounded, WFMin
<1>2. OpToRel(<, Nat) = {r \in Nat \X Nat : r[1] < r[2]}
  BY DEF OpToRel
<1>3. \A y \in S : x <= y
  <2> TAKE y \in S
  <2>1. x \in Nat /\ y \in Nat /\ ~(<<y, x>> \in {r \in Nat \X Nat : r[1] < r[2]})
    BY <1>1, <1>2
  <2>2. ~(y < x)
    BY <2>1
  <2>3. QED
    BY <2>1, <2>2
<1>4. QED
  BY <1>3

LEMMA LeastIndex ==
  ASSUME NEW S, S \subseteq Nat, S # {}
  PROVE  Min(S) \in S /\ \A y \in S : Min(S) <= y
  BY LeastMember DEF Min

(* Of finitely many numbers one is the highest, and of the highest one is  *)
(* the last: by the least counterexample.                                  *)
LEMMA LastHighest ==
  ASSUME NEW n \in Nat, NEW f \in [0..n -> Nat]
  PROVE  \E m \in 0..n : \A k \in 0..n : f[k] < f[m] \/ (f[k] = f[m] /\ k <= m)
<1> DEFINE P(i) == \E m \in 0..i : \A k \in 0..i : f[k] < f[m] \/ (f[k] = f[m] /\ k <= m)
           T == {i \in 0..n : ~P(i)}
<1>1. SUFFICES P(n)
  OBVIOUS
<1> HIDE DEF P
<1>2. SUFFICES ASSUME T # {} PROVE FALSE
  <2>1. T # {} \/ n \notin T
    OBVIOUS
  <2>2. n \in 0..n
    OBVIOUS
  <2>3. QED
    BY <2>1, <2>2
<1>3. T \subseteq Nat
  OBVIOUS
<1>4. PICK i \in T : \A j \in T : i <= j
  BY <1>2, <1>3, LeastMember
<1>5. i \in 0..n /\ ~P(i)
  OBVIOUS
<1>6. i # 0
  <2>1. P(0)
    BY DEF P
  <2>2. QED
    BY <1>5, <2>1
<1>7. P(i - 1)
  <2>1. i - 1 \in 0..n /\ ~(i <= i - 1)
    BY <1>5, <1>6
  <2>2. QED
    BY <1>4, <2>1
<1>8. PICK m \in 0..i - 1 :
        \A k \in 0..i - 1 : f[k] < f[m] \/ (f[k] = f[m] /\ k <= m)
  BY <1>7 DEF P
<1>9. \A k \in 0..i : f[k] \in Nat /\ (k = i \/ k \in 0..i - 1)
  BY <1>5
<1>10. m \in 0..i /\ f[m] \in Nat /\ f[i] \in Nat /\ i \in 0..i
  BY <1>5, <1>8, <1>9
<1>11. CASE f[i] < f[m]
  <2>1. \A k \in 0..i : f[k] < f[m] \/ (f[k] = f[m] /\ k <= m)
    <3> TAKE k \in 0..i
    <3>1. CASE k = i
      BY <1>11, <3>1
    <3>2. CASE k \in 0..i - 1
      BY <1>8, <3>2
    <3>3. QED
      BY <1>9, <3>1, <3>2
  <2>2. QED
    BY <1>5, <1>10, <2>1 DEF P
<1>12. CASE ~(f[i] < f[m])
  <2>1. \A k \in 0..i : f[k] < f[i] \/ (f[k] = f[i] /\ k <= i)
    <3> TAKE k \in 0..i
    <3>1. CASE k = i
      BY <1>9, <3>1
    <3>2. CASE k \in 0..i - 1
      <4>1. f[k] < f[m] \/ (f[k] = f[m] /\ k <= m)
        BY <1>8, <3>2
      <4>2. f[k] \in Nat /\ f[m] \in Nat /\ f[i] \in Nat /\ k <= i /\ f[m] <= f[i]
        BY <1>9, <1>10, <1>12, <3>2
      <4>3. QED
        BY <4>1, <4>2
    <3>3. QED
      BY <1>9, <3>1, <3>2
  <2>2. QED
    BY <1>5, <1>10, <2>1 DEF P
<1>13. QED
  BY <1>11, <1>12

----------------------------------------------------------------------------
(* Types.                                                                  *)

Good == [dec : Nat, inc : Nat, control : 0..MaxIssued, blk : Block,
         page : 1..Entries + 1, readable : {TRUE}]

Ent == Good \cup {Torn}

LEMMA EntFacts ==
  /\ \A e \in Ent : e.readable \in BOOLEAN /\ (e.readable <=> e \in Good)
  /\ Good \subseteq Ent /\ Torn \in Ent /\ ~Torn.readable
<1>1. \A e \in Good : e.readable = TRUE
  BY DEF Good
<1>2. Torn.readable = FALSE
  BY DEF Torn
<1>3. \A e \in Ent : e \in Good \/ e = Torn
  BY DEF Ent
<1>4. Good \subseteq Ent /\ Torn \in Ent
  BY DEF Ent
<1>5. QED
  BY <1>1, <1>2, <1>3, <1>4

LEMMA GoodFields ==
  ASSUME NEW e \in Good
  PROVE  /\ e.dec \in Nat /\ e.inc \in Nat /\ e.control \in Nat
         /\ e.blk \in Block /\ e.page \in 1..Entries + 1 /\ e.page \in Nat
<1>1. e.dec \in Nat /\ e.inc \in Nat /\ e.control \in 0..MaxIssued /\ e.blk \in Block
        /\ e.page \in 1..Entries + 1
  BY DEF Good
<1>2. QED
  BY <1>1, VflAssumption

Ctx == [dec : Nat, blk : Block, page : 1..Entries + 1]

(* How often a store may still write, from block b on, this time included. *)
Attempts(b, start) ==
  IF b = start THEN 4
  ELSE IF b = NextBlock(start) THEN 3
  ELSE IF b = NextBlock(NextBlock(start)) THEN 2 ELSE 1

(* The counters suffice for the attempts that are left, and a page is only *)
(* written where the block has one.                                        *)
JobOK ==
  job # NoJob =>
    /\ up
    /\ job.stage = "write" =>
         /\ ctx[job.ce].page <= Entries
         /\ ctx[job.ce].dec >= Attempts(ctx[job.ce].blk, job.start)
    /\ job.stage = "erase" =>
         /\ job.next # job.start
         /\ ctx[job.ce].dec >= Attempts(job.next, job.start)

FlashOK ==
  /\ flash \in [CE -> [Block -> Seq(Ent)]]
  /\ \A c \in CE, b \in Block : Len(flash[c][b]) <= Entries
  /\ \A c \in CE, b \in Block : \A i \in 1..Len(flash[c][b]) :
       flash[c][b][i].readable => flash[c][b][i].control <= issued

TInv ==
  /\ FlashOK
  /\ up \in BOOLEAN
  /\ version \in Nat /\ control \in 0..issued
  /\ ctx \in [CE -> Ctx]
  /\ job \in Job \cup {NoJob}
  /\ issued \in 0..MaxIssued /\ acked \in 0..issued /\ found \in 0..issued
  /\ faults \in 0..MaxFaults
  /\ JobOK

LEMMA Blocks ==
  ASSUME NEW b \in Block
  PROVE  /\ NextBlock(b) \in Block /\ NextBlock(b) # b
         /\ \A s \in Block :
              /\ Attempts(b, s) \in 1..4
              /\ NextBlock(b) # s => Attempts(NextBlock(b), s) = Attempts(b, s) - 1
              /\ NextBlock(b) = s => Attempts(b, s) = 1
<1>1. b = 0 \/ b = 1 \/ b = 2 \/ b = 3
  BY DEF Block
<1>2. /\ NextBlock(0) = 1 /\ NextBlock(1) = 2 /\ NextBlock(2) = 3 /\ NextBlock(3) = 0
  BY DEF NextBlock
<1>3. NextBlock(b) \in Block /\ NextBlock(b) # b
  BY <1>1, <1>2 DEF Block
<1>4. ASSUME NEW s \in Block
      PROVE  /\ Attempts(b, s) \in 1..4
             /\ NextBlock(b) # s => Attempts(NextBlock(b), s) = Attempts(b, s) - 1
             /\ NextBlock(b) = s => Attempts(b, s) = 1
  <2>1. s = 0 \/ s = 1 \/ s = 2 \/ s = 3
    BY DEF Block
  <2>2. QED
    BY <1>1, <1>2, <2>1 DEF Attempts
<1>5. QED
  BY <1>3, <1>4

LEMMA JobTypes ==
  ASSUME job \in Job \cup {NoJob}
  PROVE  /\ job # NoJob <=> job \in Job
         /\ job.stage \in {"write", "erase"} <=> job \in Job
         /\ job \in Job => /\ job.ce \in CE /\ job.start \in Block /\ job.next \in Block
                           /\ job.ack \in BOOLEAN
  BY DEF Job, NoJob

(* What a write leaves in a block.                                         *)
Placed(s, p, e) ==
  IF p <= Len(s) THEN [s EXCEPT ![p] = Torn] ELSE Append(s, e)

PlacedAs(s, p, e, x) ==
  /\ x \in Seq(Ent)
  /\ Len(x) = IF p <= Len(s) THEN Len(s) ELSE Len(s) + 1
  /\ \A i \in 1..Len(s) : i # p => x[i] = s[i]
  /\ p <= Len(s) => x[p] = Torn
  /\ p > Len(s) => x[Len(s) + 1] = e

LEMMA PlacedFacts ==
  ASSUME NEW s \in Seq(Ent), NEW e \in Ent, NEW p \in 1..Entries, Len(s) <= Entries
  PROVE  /\ Placed(s, p, e) \in Seq(Ent)
         /\ Len(Placed(s, p, e)) = IF p <= Len(s) THEN Len(s) ELSE Len(s) + 1
         /\ \A i \in 1..Len(s) : i # p => Placed(s, p, e)[i] = s[i]
         /\ p <= Len(s) => Placed(s, p, e)[p] = Torn
         /\ p > Len(s) => Placed(s, p, e)[Len(s) + 1] = e
<1>1. Torn \in Ent
  BY EntFacts
<1>2. Len(s) \in Nat /\ DOMAIN s = 1..Len(s)
  OBVIOUS
<1>3. CASE p <= Len(s)
  <2>1. Placed(s, p, e) = [s EXCEPT ![p] = Torn]
    BY <1>3 DEF Placed
  <2>2. [s EXCEPT ![p] = Torn] \in Seq(Ent) /\ Len([s EXCEPT ![p] = Torn]) = Len(s)
    BY <1>1, <1>2, <1>3
  <2>3. /\ [s EXCEPT ![p] = Torn][p] = Torn
        /\ \A i \in 1..Len(s) : i # p => [s EXCEPT ![p] = Torn][i] = s[i]
    BY <1>2, <1>3
  <2>4. QED
    BY <1>1, <1>3, <2>1, <2>2, <2>3
<1>4. CASE p > Len(s)
  <2>1. Placed(s, p, e) = Append(s, e)
    <3>1. p \in Int
      BY VflAssumption
    <3>2. ~(p <= Len(s))
      BY <1>2, <1>4, <3>1
    <3>3. QED
      BY <3>2, Zenon DEF Placed
  <2>2. /\ Append(s, e) \in Seq(Ent) /\ Len(Append(s, e)) = Len(s) + 1
        /\ Append(s, e)[Len(s) + 1] = e
        /\ \A i \in 1..Len(s) : Append(s, e)[i] = s[i]
    OBVIOUS
  <2>3. QED
    BY <1>1, <1>2, <1>4, <2>1, <2>2
<1>5. QED
  BY <1>2, <1>3, <1>4

(* A step that changes one block. *)
BlockIs(c, b, x) == flash' = [flash EXCEPT ![c][b] = x]

LEMMA FlashUpdate ==
  ASSUME FlashOK, issued' = issued, NEW c \in CE, NEW b \in Block, NEW x \in Seq(Ent),
         Len(x) <= Entries,
         \A i \in 1..Len(x) : x[i].readable => x[i].control <= issued,
         BlockIs(c, b, x)
  PROVE  /\ FlashOK'
         /\ flash'[c][b] = x
         /\ \A d \in CE, a \in Block : d # c \/ a # b => flash'[d][a] = flash[d][a]
<1>1. flash \in [CE -> [Block -> Seq(Ent)]]
  BY DEF FlashOK
<1>2. flash' \in [CE -> [Block -> Seq(Ent)]]
  BY <1>1 DEF BlockIs
<1>3. flash'[c][b] = x
  BY <1>1 DEF BlockIs
<1>4. \A d \in CE, a \in Block : d # c \/ a # b => flash'[d][a] = flash[d][a]
  BY <1>1 DEF BlockIs
<1>5. FlashOK'
  <2>1. ASSUME NEW d \in CE, NEW a \in Block
        PROVE  /\ Len(flash'[d][a]) <= Entries
               /\ \A i \in 1..Len(flash'[d][a]) :
                    flash'[d][a][i].readable => flash'[d][a][i].control <= issued'
    <3>1. CASE d = c /\ a = b
      BY <1>3, <3>1
    <3>2. CASE ~(d = c /\ a = b)
      <4>1. flash'[d][a] = flash[d][a]
        BY <1>4, <3>2
      <4>2. QED
        BY <4>1 DEF FlashOK
    <3>3. QED
      BY <3>1, <3>2
  <2>2. QED
    BY <1>2, <2>1 DEF FlashOK
<1>6. QED
  BY <1>3, <1>4, <1>5

(* The entry a write leaves when it is the first one to its pages.         *)
Left(r) == IF r THEN NewEntry ELSE Torn

LEMMA Written ==
  ASSUME TInv, job.stage = "write", NEW r \in BOOLEAN, Place(r)
  PROVE  /\ job \in Job /\ job.ce \in CE /\ ctx[job.ce] \in Ctx
         /\ ctx[job.ce].page \in 1..Entries
         /\ NewEntry \in Good /\ Left(r) \in Ent
         /\ flash' = [flash EXCEPT ![job.ce][ctx[job.ce].blk] =
              Placed(flash[job.ce][ctx[job.ce].blk], ctx[job.ce].page, Left(r))]
<1>1. job \in Job /\ job.ce \in CE
  BY JobTypes DEF TInv
<1>2. ctx[job.ce] \in Ctx
  BY <1>1 DEF TInv
<1>3. /\ ctx[job.ce].page \in 1..Entries + 1 /\ ctx[job.ce].dec \in Nat
      /\ ctx[job.ce].blk \in Block
  BY <1>2 DEF Ctx
<1>4. job # NoJob
  BY <1>1, JobTypes DEF TInv
<1>5. ctx[job.ce].page <= Entries /\ ctx[job.ce].dec >= Attempts(ctx[job.ce].blk, job.start)
  BY <1>4 DEF TInv, JobOK
<1>6. Attempts(ctx[job.ce].blk, job.start) \in 1..4
  BY <1>1, <1>3, Blocks, JobTypes DEF TInv
<1>7. Entries \in Nat /\ MaxIssued \in Nat
  BY VflAssumption
<1>8. ctx[job.ce].page \in 1..Entries /\ ctx[job.ce].dec - 1 \in Nat
  BY <1>3, <1>5, <1>6, <1>7
<1>9. control \in 0..MaxIssued /\ version \in Nat
  BY <1>7 DEF TInv
<1>10. NewEntry \in Good
  BY <1>3, <1>7, <1>8, <1>9 DEF NewEntry, Good
<1>11. Left(r) \in Ent
  BY <1>10, EntFacts DEF Left
<1>12. flash' = [flash EXCEPT ![job.ce][ctx[job.ce].blk] =
              Placed(flash[job.ce][ctx[job.ce].blk], ctx[job.ce].page, Left(r))]
  <2>1. flash \in [CE -> [Block -> Seq(Ent)]]
    BY DEF TInv, FlashOK
  <2>2. QED
    BY <1>1, <1>3, <2>1 DEF Place, Placed, Used, ReplaceAt, Left
<1>13. QED
  BY <1>1, <1>2, <1>8, <1>10, <1>11, <1>12

----------------------------------------------------------------------------
(* What open settles on.                                                   *)

LEMMA NewestBlocks ==
  ASSUME FlashOK, NEW c \in CE, Candidates(c) # {}
  PROVE  /\ NewestBlock(c) \in Candidates(c)
         /\ \A d \in Candidates(c) :
              flash[c][NewestBlock(c)][1].dec < flash[c][d][1].dec
                \/ (flash[c][NewestBlock(c)][1].dec = flash[c][d][1].dec
                      /\ d <= NewestBlock(c))
<1> DEFINE S == Candidates(c)
           f(b) == flash[c][b][1].dec
           Decs == {f(b) : b \in S}
<1>1. \A b \in S : b \in Block /\ f(b) \in Nat
  <2> TAKE b \in S
  <2>1. b \in Block /\ flash[c][b] # <<>>
    BY DEF Candidates
  <2>2. flash[c][b] \in Seq(Ent)
    BY <2>1 DEF FlashOK
  <2>3. flash[c][b][1] \in Ent /\ flash[c][b][1].readable
    BY <2>1, <2>2 DEF Candidates
  <2>4. flash[c][b][1] \in Good
    BY <2>3, EntFacts
  <2>5. QED
    BY <2>1, <2>4 DEF Good
<1> HIDE DEF S, f
<1>2. Decs \subseteq Nat /\ Decs # {}
  BY <1>1 DEF S
<1>3. PICK m \in Decs : \A n \in Decs : m <= n
  BY <1>2, LeastMember
<1> DEFINE Rev == {k \in 0..3 : \E b \in S : k = 3 - b /\ f(b) = m}
<1>4. Rev \subseteq Nat /\ Rev # {}
  <2>1. PICK b \in S : f(b) = m
    BY <1>3
  <2>2. b \in 0..3
    BY <1>1 DEF Block
  <2>3. 3 - b \in Rev
    BY <2>1, <2>2
  <2>4. QED
    BY <2>3
<1>5. PICK k \in Rev : \A l \in Rev : k <= l
  BY <1>4, LeastMember
<1>6. PICK b \in S : k = 3 - b /\ f(b) = m
  BY <1>5
<1>7. \A d \in S : f(b) < f(d) \/ (f(b) = f(d) /\ d <= b)
  <2> TAKE d \in S
  <2>1. f(d) \in Nat /\ f(b) \in Nat /\ m <= f(d)
    BY <1>1, <1>3
  <2>2. CASE f(d) = m
    <3>1. d \in 0..3 /\ b \in 0..3
      BY <1>1 DEF Block
    <3>2. 3 - d \in Rev
      BY <2>2, <3>1
    <3>3. k <= 3 - d
      BY <1>5, <3>2
    <3>4. QED
      BY <1>6, <2>2, <3>1, <3>3
  <2>3. QED
    BY <1>6, <2>1, <2>2
<1>8. \E x \in Candidates(c) : \A d \in Candidates(c) :
        flash[c][x][1].dec < flash[c][d][1].dec
          \/ (flash[c][x][1].dec = flash[c][d][1].dec /\ d <= x)
  BY <1>7 DEF S, f
<1>9. QED
  BY <1>8 DEF NewestBlock

(* The last readable entry, when only the last entries cannot be read. *)
LEMMA NewestEntries ==
  ASSUME FlashOK, NEW c \in CE, Candidates(c) # {}
  PROVE  \E k \in 1..Len(flash[c][NewestBlock(c)]) :
           /\ NewestEntry(c) = flash[c][NewestBlock(c)][k]
           /\ \A i \in 1..k : flash[c][NewestBlock(c)][i].readable
           /\ k < Len(flash[c][NewestBlock(c)]) =>
                ~flash[c][NewestBlock(c)][k + 1].readable
<1> DEFINE s == flash[c][NewestBlock(c)]
           I == {i \in 1..Len(s) : ~s[i].readable}
           bad == SelectInSeq(s, LAMBDA e : ~e.readable)
<1>1. NewestBlock(c) \in Block /\ s # <<>> /\ s[1].readable
  BY NewestBlocks DEF Candidates
<1>2. s \in Seq(Ent)
  BY <1>1 DEF FlashOK
<1>3. bad = IF I # {} THEN Min(I) ELSE 0
  BY DEF SelectInSeq
<1>4. NewestEntry(c) = s[IF bad = 0 THEN Len(s) ELSE bad - 1]
  BY DEF NewestEntry
<1> HIDE DEF bad, s
<1>5. Len(s) \in Nat \ {0}
  BY <1>1, <1>2
<1>6. CASE I = {}
  <2>1. NewestEntry(c) = s[Len(s)]
    BY <1>3, <1>4, <1>6
  <2>2. \A i \in 1..Len(s) : s[i].readable
    BY <1>6
  <2>3. QED
    BY <1>5, <2>1, <2>2 DEF s
<1>7. CASE I # {}
  <2>1. I \subseteq Nat
    BY <1>5
  <2>2. Min(I) \in I /\ \A i \in I : Min(I) <= i
    BY <1>7, <2>1, LeastIndex
  <2>3. bad \in I /\ \A i \in I : bad <= i
    BY <1>3, <1>7, <2>2
  <2>4. bad \in 2..Len(s)
    BY <1>1, <1>5, <2>3
  <2>5. NewestEntry(c) = s[bad - 1]
    BY <1>4, <2>4
  <2>6. \A i \in 1..bad - 1 : s[i].readable
    BY <1>5, <2>3, <2>4
  <2>7. bad - 1 \in 1..Len(s) /\ ~s[bad - 1 + 1].readable
    BY <1>5, <2>3, <2>4
  <2>8. QED
    BY <2>5, <2>6, <2>7 DEF s
<1>8. QED
  BY <1>6, <1>7

LEMMA NewestTypes ==
  ASSUME FlashOK, NEW c \in CE, Candidates(c) # {}
  PROVE  NewestEntry(c) \in Good /\ NewestEntry(c).control <= issued
<1>1. NewestBlock(c) \in Block
  BY NewestBlocks DEF Candidates
<1>2. PICK k \in 1..Len(flash[c][NewestBlock(c)]) :
        /\ NewestEntry(c) = flash[c][NewestBlock(c)][k]
        /\ \A i \in 1..k : flash[c][NewestBlock(c)][i].readable
  BY NewestEntries
<1>3. flash[c][NewestBlock(c)] \in Seq(Ent)
  BY <1>1 DEF FlashOK
<1>4. NewestEntry(c) \in Ent /\ NewestEntry(c).readable
  BY <1>2, <1>3
<1>5. NewestEntry(c).control <= issued
  BY <1>1, <1>2, <1>4 DEF FlashOK
<1>6. QED
  BY <1>4, <1>5, EntFacts

LEMMA MostUpdatedCE ==
  ASSUME FlashOK, Openable
  PROVE  MostUpdated \in CE
<1> DEFINE f == [d \in 0..NumCE - 1 |-> NewestEntry(d).inc]
<1>1. NumCE - 1 \in Nat /\ CE = 0..NumCE - 1
  BY VflAssumption DEF CE
<1>2. \A d \in CE : NewestEntry(d).inc \in Nat
  BY NewestTypes DEF Openable, Good
<1>3. f \in [0..NumCE - 1 -> Nat]
  BY <1>1, <1>2
<1> HIDE DEF f
<1>4. PICK m \in 0..NumCE - 1 :
        \A k \in 0..NumCE - 1 : f[k] < f[m] \/ (f[k] = f[m] /\ k <= m)
  BY <1>1, <1>3, LastHighest
<1>5. \A d \in CE : f[d] = NewestEntry(d).inc
  BY <1>1 DEF f
<1>6. \E x \in CE : \A d \in CE :
        NewestEntry(d).inc < NewestEntry(x).inc
          \/ (NewestEntry(d).inc = NewestEntry(x).inc /\ d <= x)
  BY <1>1, <1>4, <1>5
<1>7. QED
  BY <1>6 DEF MostUpdated

----------------------------------------------------------------------------
(* What the parts of the actions do.                                       *)

(* The context of CE c is r, the others are unchanged. *)
CtxIs(c, r) == ctx' = [ctx EXCEPT ![c] = r]

LEMMA CtxFacts ==
  ASSUME ctx \in [CE -> Ctx], NEW c \in CE, NEW r \in Ctx, CtxIs(c, r)
  PROVE  /\ ctx' \in [CE -> Ctx]
         /\ ctx'[c] = r
         /\ \A d \in CE : d # c => ctx'[d] = ctx[d]
  BY DEF CtxIs

LEMMA DecUpdate ==
  ASSUME NEW r \in Ctx, NEW x \in Nat, NEW y \in 1..Entries + 1
  PROVE  [[r EXCEPT !.dec = x] EXCEPT !.page = y] = [dec |-> x, blk |-> r.blk, page |-> y]
<1> DEFINE h == [r EXCEPT !.dec = x]
           g == [h EXCEPT !.page = y]
<1>1. h \in Ctx /\ h.dec = x /\ h.blk = r.blk
  BY DEF Ctx
<1> HIDE DEF h
<1>2. g \in Ctx /\ g.dec = x /\ g.blk = r.blk /\ g.page = y
  BY <1>1 DEF Ctx
<1> HIDE DEF g
<1>3. g = [dec |-> x, blk |-> r.blk, page |-> y]
  BY <1>2 DEF Ctx
<1>4. QED
  BY <1>3 DEF g, h

LEMMA BlkUpdate ==
  ASSUME NEW r \in Ctx, NEW x \in Block, NEW y \in 1..Entries + 1
  PROVE  [[r EXCEPT !.blk = x] EXCEPT !.page = y] = [dec |-> r.dec, blk |-> x, page |-> y]
<1> DEFINE h == [r EXCEPT !.blk = x]
           g == [h EXCEPT !.page = y]
<1>1. h \in Ctx /\ h.blk = x /\ h.dec = r.dec
  BY DEF Ctx
<1> HIDE DEF h
<1>2. g \in Ctx /\ g.blk = x /\ g.dec = r.dec /\ g.page = y
  BY <1>1 DEF Ctx
<1> HIDE DEF g
<1>3. g = [dec |-> r.dec, blk |-> x, page |-> y]
  BY <1>2 DEF Ctx
<1>4. QED
  BY <1>3 DEF g, h

LEMMA Advances ==
  ASSUME TInv, job.stage = "write", Advance
  PROVE  /\ version' \in Nat
         /\ CtxIs(job.ce, [dec  |-> ctx[job.ce].dec - 1, blk |-> ctx[job.ce].blk,
                           page |-> ctx[job.ce].page + 1])
         /\ [dec  |-> ctx[job.ce].dec - 1, blk |-> ctx[job.ce].blk,
             page |-> ctx[job.ce].page + 1] \in Ctx
<1> DEFINE c == job.ce
           r == ctx[c]
           d == r.dec - 1
           p == r.page + 1
<1>1. job \in Job /\ c \in CE /\ job.start \in Block /\ job # NoJob
  BY JobTypes DEF TInv
<1>2. ctx \in [CE -> Ctx] /\ r \in Ctx
  BY <1>1 DEF TInv
<1>3. r.dec \in Nat /\ r.blk \in Block /\ r.page \in 1..Entries + 1 /\ Entries \in Nat
  BY <1>2, VflAssumption DEF Ctx
<1>4. r.page <= Entries /\ r.dec >= Attempts(r.blk, job.start)
  BY <1>1 DEF TInv, JobOK
<1>5. Attempts(r.blk, job.start) \in 1..4
  BY <1>1, <1>3, Blocks
<1>6. d \in Nat /\ p \in 1..Entries + 1
  BY <1>3, <1>4, <1>5
<1>7. [dec |-> d, blk |-> r.blk, page |-> p] \in Ctx
  BY <1>3, <1>6 DEF Ctx
<1>8. version' \in Nat
  BY DEF TInv, Advance
<1>9. ctx' = [ctx EXCEPT ![c].dec = d, ![c].page = p]
  BY <1>1, <1>2 DEF Advance
<1> HIDE DEF d, p, c
<1>10. ctx' = [ctx EXCEPT ![c] = [dec |-> d, blk |-> r.blk, page |-> p]]
  <2>1. [[r EXCEPT !.dec = d] EXCEPT !.page = p] = [dec |-> d, blk |-> r.blk, page |-> p]
    <3>1. r \in Ctx /\ d \in Nat /\ p \in 1..Entries + 1
      BY <1>2, <1>6
    <3> HIDE DEF r
    <3>2. QED
      BY <3>1, DecUpdate
  <2>2. ctx' = [ctx EXCEPT ![c] = [[r EXCEPT !.dec = d] EXCEPT !.page = p]]
    BY <1>2, <1>9
  <2>3. QED
    BY <2>1, <2>2
<1>11. QED
  BY <1>7, <1>8, <1>10 DEF CtxIs, c, d, p

LEMMA Erases ==
  ASSUME TInv, job.stage = "erase", Erase
  PROVE  /\ CtxIs(job.ce, [dec |-> ctx[job.ce].dec, blk |-> job.next, page |-> 1])
         /\ [dec |-> ctx[job.ce].dec, blk |-> job.next, page |-> 1] \in Ctx
         /\ job' \in Job /\ job'.stage = "write" /\ job'.ce = job.ce
         /\ job'.start = job.start /\ job'.ack = job.ack /\ job'.next = job.next
<1> DEFINE c == job.ce
           r == ctx[c]
           b == job.next
<1>1. job \in Job /\ c \in CE /\ b \in Block
  BY JobTypes DEF TInv
<1>2. ctx \in [CE -> Ctx] /\ r \in Ctx
  BY <1>1 DEF TInv
<1>3. r.dec \in Nat /\ Entries \in Nat \ {0}
  BY <1>2, VflAssumption DEF Ctx
<1>4. [dec |-> r.dec, blk |-> b, page |-> 1] \in Ctx
  BY <1>1, <1>3 DEF Ctx
<1>5. ctx' = [ctx EXCEPT ![c].blk = b, ![c].page = 1] /\ job' = [job EXCEPT !.stage = "write"]
  BY DEF Erase
<1>6. job' \in Job /\ job'.stage = "write" /\ job'.ce = job.ce
        /\ job'.start = job.start /\ job'.ack = job.ack /\ job'.next = job.next
  BY <1>1, <1>5 DEF Job
<1> HIDE DEF c, b
<1>7. ctx' = [ctx EXCEPT ![c] = [dec |-> r.dec, blk |-> b, page |-> 1]]
  <2>1. [[r EXCEPT !.blk = b] EXCEPT !.page = 1] = [dec |-> r.dec, blk |-> b, page |-> 1]
    <3>1. r \in Ctx /\ b \in Block /\ 1 \in 1..Entries + 1
      BY <1>1, <1>2, <1>3
    <3> HIDE DEF r
    <3>2. QED
      BY <3>1, BlkUpdate
  <2>2. ctx' = [ctx EXCEPT ![c] = [[r EXCEPT !.blk = b] EXCEPT !.page = 1]]
    BY <1>2, <1>5
  <2>3. QED
    BY <2>1, <2>2
<1>8. QED
  BY <1>4, <1>6, <1>7 DEF CtxIs, c, b

LEMMA Tries ==
  ASSUME job \in Job, NEW b \in Block, TryBlock(b)
  PROVE  /\ job' \in Job \cup {NoJob}
         /\ b = job.start => job' = NoJob
         /\ b # job.start =>
              /\ job' \in Job /\ job'.stage = "erase" /\ job'.ce = job.ce
              /\ job'.start = job.start /\ job'.ack = job.ack /\ job'.next = b
<1>1. CASE b = job.start
  BY <1>1 DEF TryBlock
<1>2. CASE b # job.start
  <2>1. job' = [job EXCEPT !.stage = "erase", !.next = b]
    BY <1>2 DEF TryBlock
  <2>2. job' \in Job /\ job'.stage = "erase" /\ job'.ce = job.ce
          /\ job'.start = job.start /\ job'.ack = job.ack /\ job'.next = b
    BY <2>1 DEF Job
  <2>3. QED
    BY <1>2, <2>1, <2>2
<1>3. QED
  BY <1>1, <1>2

LEMMA Starts ==
  ASSUME ctx \in [CE -> Ctx], NEW c \in CE, NEW ack \in BOOLEAN, StartJob(c, ack)
  PROVE  /\ job' \in Job /\ job' # NoJob /\ job'.ce = c /\ job'.ack = ack
         /\ job'.start = ctx[c].blk /\ job'.next = NextBlock(ctx[c].blk)
         /\ job'.next # job'.start /\ job'.start \in Block
         /\ job'.stage = "write" => ctx[c].page <= Entries
         /\ job'.stage = "erase" => ctx[c].page = Entries + 1
<1>1. ctx[c] \in Ctx
  OBVIOUS
<1>2. ctx[c].blk \in Block /\ ctx[c].page \in 1..Entries + 1 /\ Entries \in Nat
  BY <1>1, VflAssumption DEF Ctx
<1>3. NextBlock(ctx[c].blk) \in Block /\ NextBlock(ctx[c].blk) # ctx[c].blk
  BY <1>2, Blocks
<1>4. job' \in Job
  BY <1>2, <1>3 DEF StartJob, Job
<1>5. job' # NoJob
  BY DEF StartJob, NoJob
<1>6. QED
  BY <1>2, <1>3, <1>4, <1>5 DEF StartJob

----------------------------------------------------------------------------
(* The types, action by action.                                            *)

LEMMA InitTypes == Init => TInv
<1> SUFFICES ASSUME Init PROVE TInv
  OBVIOUS
<1> DEFINE e(c) == [dec |-> FirstDec, inc |-> c, control |-> 0,
                    blk |-> 0, page |-> 2, readable |-> TRUE]
<1>1. Entries \in Nat \ {0} /\ FirstDec \in Nat /\ MaxIssued \in Nat /\ MaxFaults \in Nat
        /\ NumCE \in Nat
  BY VflAssumption
<1>2. \A c \in CE : e(c) \in Ent
  BY <1>1 DEF CE, Ent, Good, Block
<1>3. \A c \in CE, b \in Block : flash[c][b] = IF b = 0 THEN <<e(c)>> ELSE <<>>
  BY DEF Init
<1>4. \A c \in CE : e(c).control = 0
  OBVIOUS
<1> HIDE DEF e
<1>5. \A c \in CE, b \in Block : flash[c][b] \in Seq(Ent) /\ Len(flash[c][b]) <= Entries
  <2> TAKE c \in CE, b \in Block
  <2>1. CASE b = 0
    <3>1. flash[c][b] = <<e(c)>> /\ e(c) \in Ent
      BY <1>2, <1>3, <2>1
    <3>2. QED
      BY <1>1, <3>1
  <2>2. CASE b # 0
    <3>1. flash[c][b] = <<>>
      BY <1>3, <2>2
    <3>2. QED
      BY <1>1, <3>1
  <2>3. QED
    BY <2>1, <2>2
<1>6. \A c \in CE, b \in Block : \A i \in 1..Len(flash[c][b]) : flash[c][b][i].control <= 0
  <2> TAKE c \in CE, b \in Block
  <2>1. CASE b = 0
    <3>1. flash[c][b] = <<e(c)>> /\ e(c).control = 0
      BY <1>3, <1>4, <2>1
    <3>2. QED
      BY <3>1
  <2>2. CASE b # 0
    <3>1. flash[c][b] = <<>>
      BY <1>3, <2>2
    <3>2. QED
      BY <3>1
  <2>3. QED
    BY <2>1, <2>2
<1>8. flash \in [CE -> [Block -> Seq(Ent)]]
  <2>1. flash = [c \in CE |-> [b \in Block |-> flash[c][b]]]
    BY DEF Init
  <2>2. QED
    BY <1>5, <2>1
<1>9. issued = 0 /\ acked = 0 /\ found = 0 /\ control = 0 /\ version = 0 /\ faults = 0
        /\ up = FALSE /\ job = NoJob
  BY DEF Init
<1>10. FlashOK
  BY <1>5, <1>6, <1>8, <1>9 DEF FlashOK
<1>11. ctx \in [CE -> Ctx]
  BY <1>1 DEF Init, NoCtx, Ctx, Block
<1>12. JobOK
  BY <1>9 DEF JobOK
<1>13. /\ version \in Nat /\ control \in 0..issued /\ issued \in 0..MaxIssued
       /\ acked \in 0..issued /\ found \in 0..issued /\ faults \in 0..MaxFaults
  BY <1>1, <1>9
<1>14. up \in BOOLEAN /\ job \in Job \cup {NoJob}
  BY <1>9
<1>15. QED
  BY <1>10, <1>11, <1>12, <1>13, <1>14, Zenon DEF TInv

LEMMA OpenTypes == TInv /\ Open => TInv'
<1> SUFFICES ASSUME TInv, Open PROVE TInv'
  OBVIOUS
<1>1. /\ ~up /\ Openable /\ up' = TRUE
      /\ flash' = flash /\ job' = job /\ issued' = issued /\ faults' = faults
  BY DEF Open
<1>2. \A c \in CE : NewestEntry(c) \in Good /\ NewestEntry(c).control <= issued
  BY <1>1, NewestTypes DEF TInv, Openable
<1>3. MostUpdated \in CE
  BY <1>1, MostUpdatedCE DEF TInv
<1>4. /\ version' = NewestEntry(MostUpdated).inc
      /\ control' = NewestEntry(MostUpdated).control
      /\ acked' = IF control' > acked THEN control' ELSE acked
      /\ found' = IF control' > found THEN control' ELSE found
      /\ ctx' = [c \in CE |-> [dec  |-> NewestEntry(c).dec, blk |-> NewestEntry(c).blk,
                               page |-> NewestEntry(c).page]]
  BY DEF Open
<1>5. version' \in Nat /\ control' \in 0..issued
  BY <1>2, <1>3, <1>4, GoodFields DEF TInv
<1>6. acked' \in 0..issued /\ found' \in 0..issued
  BY <1>4, <1>5 DEF TInv
<1>7. ctx' \in [CE -> Ctx]
  <2>1. \A c \in CE : [dec  |-> NewestEntry(c).dec, blk |-> NewestEntry(c).blk,
                       page |-> NewestEntry(c).page] \in Ctx
    BY <1>2 DEF Good, Ctx
  <2>2. QED
    BY <1>4, <2>1
<1>8. job = NoJob
  BY <1>1 DEF TInv, JobOK
<1>9. FlashOK' /\ JobOK'
  BY <1>1, <1>8 DEF TInv, FlashOK, JobOK
<1>10. QED
  BY <1>1, <1>5, <1>6, <1>7, <1>9 DEF TInv

LEMMA CrashTypes ==
  ASSUME TInv, MemoryLost, FlashOK', issued' = issued, acked' = acked, found' = found,
         faults' = faults
  PROVE  TInv'
<1>1. /\ up' = FALSE /\ version' = 0 /\ control' = 0 /\ ctx' = NoCtx /\ job' = NoJob
  BY DEF MemoryLost
<1>2. ctx' \in [CE -> Ctx]
  BY <1>1, VflAssumption DEF NoCtx, Ctx, Block
<1>3. control' \in 0..issued'
  BY <1>1 DEF TInv
<1>4. JobOK'
  BY <1>1 DEF JobOK
<1>5. QED
  BY <1>1, <1>2, <1>3, <1>4 DEF TInv

LEMMA StartTypes ==
  ASSUME TInv, up, NEW c \in CE, NEW ack \in BOOLEAN, StartJob(c, ack),
         ctx[c].dec > 4, ctx' = ctx, up' = up
  PROVE  job' \in Job \cup {NoJob} /\ JobOK'
<1>1. ctx \in [CE -> Ctx]
  BY DEF TInv
<1>2. ctx[c].dec \in Nat /\ ctx[c].blk \in Block
  BY <1>1 DEF Ctx
<1>3. /\ job' \in Job /\ job' # NoJob /\ job'.ce = c
      /\ job'.start = ctx[c].blk /\ job'.next = NextBlock(ctx[c].blk)
      /\ job'.next # job'.start /\ job'.start \in Block
      /\ job'.stage = "write" => ctx[c].page <= Entries
  BY <1>1, Starts
<1>4. job'.next \in Block
  BY <1>2, <1>3, Blocks
<1>5. /\ Attempts(ctx[c].blk, job'.start) \in 1..4
      /\ Attempts(job'.next, job'.start) \in 1..4
  BY <1>2, <1>3, <1>4, Blocks
<1>6. \A b, s : Attempts(b, s)' = Attempts(b', s')
  OBVIOUS
<1>7. JobOK'
  BY <1>2, <1>3, <1>5 DEF JobOK
<1>8. QED
  BY <1>3, <1>7

LEMMA WriteContextTypes == TInv /\ WriteContext => TInv'
<1> SUFFICES ASSUME TInv, WriteContext PROVE TInv'
  OBVIOUS
<1> DEFINE c == version % NumCE
<1>1. c \in CE
  BY VflAssumption DEF TInv, CE
<1>2. /\ up /\ ctx[c].dec > 4 /\ issued < MaxIssued
      /\ issued' = issued + 1 /\ control' = issued + 1 /\ StartJob(c, TRUE)
      /\ flash' = flash /\ up' = up /\ version' = version /\ ctx' = ctx /\ acked' = acked
      /\ found' = found /\ faults' = faults
  BY DEF WriteContext
<1> HIDE DEF c
<1>3. job' \in Job \cup {NoJob} /\ JobOK'
  BY <1>1, <1>2, StartTypes
<1>4. /\ issued' \in 0..MaxIssued /\ control' \in 0..issued'
      /\ acked' \in 0..issued' /\ found' \in 0..issued'
  BY <1>2, VflAssumption DEF TInv
<1>5. FlashOK'
  <2>1. flash \in [CE -> [Block -> Seq(Ent)]] /\ issued \in Nat
    BY DEF TInv, FlashOK
  <2>2. ASSUME NEW d \in CE, NEW b \in Block, NEW i \in 1..Len(flash[d][b]),
               flash[d][b][i].readable
        PROVE  flash[d][b][i].control <= issued + 1
    <3>1. flash[d][b] \in Seq(Ent)
      BY <2>1
    <3>2. flash[d][b][i] \in Good
      BY <2>2, <3>1, EntFacts
    <3>3. flash[d][b][i].control \in Nat
      BY <3>2, GoodFields
    <3>4. flash[d][b][i].control <= issued
      BY <2>2 DEF TInv, FlashOK
    <3>5. QED
      BY <2>1, <3>3, <3>4
  <2>3. \A d \in CE, b \in Block : \A i \in 1..Len(flash[d][b]) :
          flash[d][b][i].readable => flash[d][b][i].control <= issued + 1
    BY <2>2
  <2>4. QED
    BY <1>2, <2>3 DEF TInv, FlashOK
<1>6. QED
  BY <1>2, <1>3, <1>4, <1>5 DEF TInv

LEMMA StoreTypes ==
  ASSUME TInv, NEW c \in CE, StoreForBadBlock(c)
  PROVE  TInv'
<1>1. /\ up /\ ctx[c].dec > 4 /\ StartJob(c, FALSE)
      /\ flash' = flash /\ up' = up /\ version' = version /\ control' = control /\ ctx' = ctx
      /\ issued' = issued /\ acked' = acked /\ found' = found /\ faults' = faults
  BY DEF StoreForBadBlock, ram
<1>2. job' \in Job \cup {NoJob} /\ JobOK'
  BY <1>1, StartTypes
<1>3. FlashOK'
  BY <1>1 DEF TInv, FlashOK
<1>4. QED
  BY <1>1, <1>2, <1>3 DEF TInv

(* What a write does to the block it writes to. *)
LEMMA WriteEffect ==
  ASSUME TInv, job.stage = "write", NEW r \in BOOLEAN, Place(r), issued' = issued,
         NEW c, c = job.ce, NEW b, b = ctx[c].blk, NEW p, p = ctx[c].page,
         NEW e, e = Left(r)
  PROVE  /\ FlashOK'
         /\ c \in CE /\ b \in Block /\ p \in 1..Entries /\ e \in Ent
         /\ PlacedAs(flash[c][b], p, e, flash'[c][b])
         /\ flash[c][b] \in Seq(Ent) /\ Len(flash[c][b]) <= Entries
         /\ \A d \in CE, a \in Block : d # c \/ a # b => flash'[d][a] = flash[d][a]
<1> DEFINE s == flash[c][b]
           x == Placed(s, p, e)
<1>1. /\ c \in CE /\ ctx[c] \in Ctx /\ p \in 1..Entries /\ e \in Ent
      /\ flash' = [flash EXCEPT ![c][b] = x]
  BY Written
<1>2. b \in Block
  BY <1>1 DEF Ctx
<1>3. s \in Seq(Ent) /\ Len(s) <= Entries /\ \A i \in 1..Len(s) : s[i].readable => s[i].control <= issued
  BY <1>1, <1>2 DEF TInv, FlashOK
<1>4. p \in Nat /\ Entries \in Nat
  BY <1>1, VflAssumption
<1> HIDE DEF s
<1>5. /\ x \in Seq(Ent)
      /\ Len(x) = IF p <= Len(s) THEN Len(s) ELSE Len(s) + 1
      /\ \A i \in 1..Len(s) : i # p => x[i] = s[i]
      /\ p <= Len(s) => x[p] = Torn
      /\ p > Len(s) => x[Len(s) + 1] = e
  <2>1. s \in Seq(Ent) /\ e \in Ent /\ p \in 1..Entries /\ Len(s) <= Entries
    BY <1>1, <1>3
  <2>2. QED
    BY <2>1, PlacedFacts, Zenon
<1>6. Len(x) <= Entries
  BY <1>1, <1>3, <1>4, <1>5
<1>7. (e.readable => e.control <= issued) /\ ~Torn.readable
  <2>1. NewEntry.control <= issued
    BY DEF TInv, NewEntry
  <2>2. ~Torn.readable
    BY EntFacts
  <2>3. QED
    BY <2>1, <2>2 DEF Left
<1>8. \A i \in 1..Len(x) : x[i].readable => x[i].control <= issued
  <2> TAKE i \in 1..Len(x)
  <2>1. CASE p <= Len(s)
    BY <1>3, <1>5, <1>7, <2>1
  <2>2. CASE ~(p <= Len(s))
    <3>1. Len(s) \in Nat /\ p > Len(s)
      BY <1>3, <1>4, <2>2
    <3>2. Len(x) = Len(s) + 1 /\ x[Len(s) + 1] = e /\ i \in 1..Len(s) + 1
      BY <1>5, <2>2, <3>1
    <3>3. CASE i = Len(s) + 1
      BY <1>7, <3>2, <3>3
    <3>4. CASE i \in 1..Len(s)
      BY <1>3, <1>5, <3>1, <3>4
    <3>5. QED
      BY <3>1, <3>2, <3>3, <3>4
  <2>3. QED
    BY <2>1, <2>2
<1> HIDE DEF x
<1>9. /\ FlashOK'
      /\ flash'[c][b] = x
      /\ \A d \in CE, a \in Block : d # c \/ a # b => flash'[d][a] = flash[d][a]
  <2>1. PICK y : y = x
    OBVIOUS
  <2>2. FlashOK /\ issued' = issued /\ c \in CE /\ b \in Block
    BY <1>1, <1>2 DEF TInv
  <2>3. y \in Seq(Ent) /\ Len(y) <= Entries
    BY <1>5, <1>6, <2>1
  <2>4. \A i \in 1..Len(y) : y[i].readable => y[i].control <= issued
    BY <1>8, <2>1
  <2>5. BlockIs(c, b, y)
    BY <1>1, <2>1 DEF BlockIs
  <2>6. /\ FlashOK'
        /\ flash'[c][b] = y
        /\ \A d \in CE, a \in Block : d # c \/ a # b => flash'[d][a] = flash[d][a]
    BY <2>2, <2>3, <2>4, <2>5, FlashUpdate
  <2>7. QED
    BY <2>1, <2>6
<1>10. PlacedAs(s, p, e, x)
  BY <1>5 DEF PlacedAs
<1>11. QED
  BY <1>1, <1>2, <1>3, <1>9, <1>10 DEF s

LEMMA EraseTypes == TInv /\ Erase => TInv'
<1> SUFFICES ASSUME TInv, Erase PROVE TInv'
  OBVIOUS
<1> DEFINE c == job.ce
           b == job.next
<1>1. /\ job.stage = "erase" /\ flash' = [flash EXCEPT ![c][b] = <<>>]
      /\ up' = up /\ version' = version /\ control' = control
      /\ issued' = issued /\ acked' = acked /\ found' = found /\ faults' = faults
  BY DEF Erase
<1>2. job \in Job /\ c \in CE /\ b \in Block /\ job # NoJob
  BY <1>1, JobTypes DEF TInv
<1> DEFINE r == [dec |-> ctx[c].dec, blk |-> b, page |-> 1]
<1>3. /\ CtxIs(c, r) /\ r \in Ctx /\ job' \in Job /\ job'.stage = "write" /\ job'.ce = c
      /\ job'.start = job.start
  BY <1>1, Erases
<1> HIDE DEF c, b
<1>4. FlashOK'
  <2>1. <<>> \in Seq(Ent) /\ Len(<<>>) <= Entries
          /\ \A i \in 1..Len(<<>>) : <<>>[i].readable => <<>>[i].control <= issued
    BY VflAssumption
  <2>2. BlockIs(c, b, <<>>)
    BY <1>1 DEF BlockIs
  <2>3. QED
    BY <1>1, <1>2, <2>1, <2>2, FlashUpdate DEF TInv
<1>5. ctx' \in [CE -> Ctx] /\ ctx'[c] = r
  BY <1>2, <1>3, CtxFacts DEF TInv
<1>6. up /\ ctx[c].dec >= Attempts(b, job.start)
  BY <1>1, <1>2 DEF TInv, JobOK, c, b
<1>7. r.dec = ctx[c].dec /\ r.blk = b /\ r.page = 1 /\ 1 <= Entries
  BY VflAssumption
<1> HIDE DEF r
<1>8. JobOK'
  BY <1>1, <1>3, <1>5, <1>6, <1>7 DEF JobOK
<1>9. QED
  BY <1>1, <1>3, <1>4, <1>5, <1>8 DEF TInv

LEMMA EraseFailsTypes == TInv /\ EraseFails => TInv'
<1> SUFFICES ASSUME TInv, EraseFails PROVE TInv'
  OBVIOUS
<1> DEFINE b == NextBlock(job.next)
<1>1. /\ job.stage = "erase" /\ faults < MaxFaults /\ faults' = faults + 1 /\ TryBlock(b)
      /\ flash' = flash /\ up' = up /\ version' = version /\ control' = control /\ ctx' = ctx
      /\ issued' = issued /\ acked' = acked /\ found' = found
  BY DEF EraseFails, ram
<1>2. job \in Job /\ job.ce \in CE /\ job.start \in Block /\ job.next \in Block /\ job # NoJob
  BY <1>1, JobTypes DEF TInv
<1>3. /\ b \in Block /\ Attempts(b, job.start) \in 1..4 /\ Attempts(job.next, job.start) \in 1..4
      /\ b # job.start => Attempts(b, job.start) = Attempts(job.next, job.start) - 1
  BY <1>2, Blocks
<1>4. up /\ ctx[job.ce].dec >= Attempts(job.next, job.start)
  BY <1>1, <1>2 DEF TInv, JobOK
<1>5. ctx[job.ce].dec \in Nat
  BY <1>2 DEF TInv, Ctx
<1> HIDE DEF b
<1>6. /\ job' \in Job \cup {NoJob}
      /\ b = job.start => job' = NoJob
      /\ b # job.start => /\ job'.stage = "erase" /\ job'.ce = job.ce
                          /\ job'.start = job.start /\ job'.next = b
  BY <1>1, <1>2, <1>3, Tries DEF TInv
<1>7. JobOK'
  BY <1>1, <1>3, <1>4, <1>5, <1>6 DEF JobOK
<1>8. FlashOK'
  BY <1>1 DEF TInv, FlashOK
<1>9. faults' \in 0..MaxFaults
  BY <1>1, VflAssumption DEF TInv
<1>10. QED
  BY <1>1, <1>6, <1>7, <1>8, <1>9 DEF TInv

LEMMA WriteSucceedsTypes ==
  ASSUME TInv, NEW r \in BOOLEAN, WriteSucceeds(r)
  PROVE  TInv'
<1>1. /\ job.stage = "write" /\ Place(r) /\ Advance /\ job' = NoJob
      /\ acked' = IF job.ack THEN control ELSE acked
      /\ found' = IF job.ack /\ Found(r) THEN control ELSE found
      /\ r \/ Used \/ faults < MaxFaults
      /\ faults' = IF r \/ Used THEN faults ELSE faults + 1
      /\ up' = up /\ control' = control /\ issued' = issued
  BY DEF WriteSucceeds
<1>2. FlashOK'
  BY <1>1, WriteEffect
<1>3. version' \in Nat /\ ctx' \in [CE -> Ctx]
  BY <1>1, Advances, CtxFacts, JobTypes DEF TInv
<1>4. acked' \in 0..issued /\ found' \in 0..issued
  BY <1>1 DEF TInv
<1>5. JobOK'
  BY <1>1 DEF JobOK
<1>6. faults' \in 0..MaxFaults
  BY <1>1, VflAssumption DEF TInv
<1>7. QED
  BY <1>1, <1>2, <1>3, <1>4, <1>5, <1>6 DEF TInv

LEMMA WriteFailsTypes ==
  ASSUME TInv, NEW r \in BOOLEAN, WriteFails(r)
  PROVE  TInv'
<1> DEFINE c == job.ce
           b == NextBlock(ctx[c].blk)
<1>1. /\ job.stage = "write" /\ (Used \/ faults < MaxFaults)
      /\ faults' = IF Used THEN faults ELSE faults + 1
      /\ Place(r) /\ Advance /\ TryBlock(b)
      /\ up' = up /\ control' = control /\ issued' = issued /\ acked' = acked
      /\ found' = found
  BY DEF WriteFails
<1>2. job \in Job /\ c \in CE /\ job.start \in Block /\ job # NoJob
  BY <1>1, JobTypes DEF TInv
<1>3. ctx[c] \in Ctx /\ ctx[c].blk \in Block /\ ctx[c].dec \in Nat
  BY <1>2 DEF TInv, Ctx
<1>4. /\ b \in Block /\ Attempts(b, job.start) \in 1..4
      /\ Attempts(ctx[c].blk, job.start) \in 1..4
      /\ b # job.start => Attempts(b, job.start) = Attempts(ctx[c].blk, job.start) - 1
  BY <1>2, <1>3, Blocks
<1>5. up /\ ctx[c].dec >= Attempts(ctx[c].blk, job.start)
  BY <1>1, <1>2 DEF TInv, JobOK
<1> HIDE DEF b
<1>6. FlashOK'
  BY <1>1, WriteEffect
<1>7. /\ version' \in Nat /\ ctx' \in [CE -> Ctx] /\ ctx'[c].dec = ctx[c].dec - 1
  BY <1>1, <1>2, Advances, CtxFacts DEF TInv
<1> HIDE DEF c
<1>8. /\ job' \in Job \cup {NoJob}
      /\ b = job.start => job' = NoJob
      /\ b # job.start => /\ job'.stage = "erase" /\ job'.ce = c
                          /\ job'.start = job.start /\ job'.next = b
  BY <1>1, <1>2, <1>4, Tries DEF TInv, c
<1>9. JobOK'
  BY <1>1, <1>3, <1>4, <1>5, <1>7, <1>8 DEF JobOK
<1>10. faults' \in 0..MaxFaults
  BY <1>1, VflAssumption DEF TInv
<1>11. QED
  BY <1>1, <1>6, <1>7, <1>8, <1>9, <1>10 DEF TInv

LEMMA WriteCutTypes ==
  ASSUME TInv, NEW r \in BOOLEAN, WriteCut(r)
  PROVE  TInv'
<1>1. /\ job.stage = "write" /\ Place(r) /\ MemoryLost
      /\ issued' = issued /\ acked' = acked /\ found' = found /\ faults' = faults
  BY DEF WriteCut
<1>2. FlashOK'
  BY <1>1, WriteEffect
<1>3. QED
  BY <1>1, <1>2, CrashTypes

LEMMA NextTypes == TInv /\ [Next]_vars => TInv'
<1> SUFFICES ASSUME TInv, [Next]_vars PROVE TInv'
  OBVIOUS
<1>1. CASE Open
  BY <1>1, OpenTypes
<1>2. CASE Crash
  <2>1. /\ MemoryLost /\ flash' = flash /\ issued' = issued /\ acked' = acked
        /\ found' = found /\ faults' = faults
    BY <1>2 DEF Crash
  <2>2. FlashOK'
    BY <2>1 DEF TInv, FlashOK
  <2>3. QED
    BY <2>1, <2>2, CrashTypes
<1>3. CASE WriteContext
  BY <1>3, WriteContextTypes
<1>4. CASE \E c \in CE : StoreForBadBlock(c)
  BY <1>4, StoreTypes
<1>5. CASE Erase
  BY <1>5, EraseTypes
<1>6. CASE EraseFails
  BY <1>6, EraseFailsTypes
<1>7. ASSUME NEW r \in BOOLEAN, WriteSucceeds(r)
      PROVE  TInv'
  BY <1>7, WriteSucceedsTypes
<1>8. ASSUME NEW r \in BOOLEAN, WriteFails(r)
      PROVE  TInv'
  BY <1>8, WriteFailsTypes
<1>9. ASSUME NEW r \in BOOLEAN, WriteCut(r)
      PROVE  TInv'
  BY <1>9, WriteCutTypes
<1>10. CASE UNCHANGED vars
  BY <1>10 DEF vars, ram, TInv, FlashOK, JobOK
<1>11. QED
  BY <1>1, <1>2, <1>3, <1>4, <1>5, <1>6, <1>7, <1>8, <1>9, <1>10 DEF Next

(* The strengthened types hold: a store never runs out of usn_dec nor      *)
(* writes past the pages of a block, whatever fails and wherever the power *)
(* is cut (vsvfl_store_vfl_cxt).                                           *)
THEOREM SpecTInv == Spec => []TInv
<1>1. Init => TInv
  BY InitTypes
<1>2. TInv /\ [Next]_vars => TInv'
  BY NextTypes
<1>3. QED
  BY <1>1, <1>2, PTL DEF Spec

(* Every context on the NAND and in memory has the fields' ranges, a block *)
(* never has more contexts than fit its pages, and no list is acknowledged *)
(* that was not handed over (vfl_vsvfl_write_context, vfl_vsvfl_open).     *)
THEOREM SpecTypeOK == Spec => []TypeOK
<1>1. TInv => TypeOK
  <2> SUFFICES ASSUME TInv PROVE TypeOK
    OBVIOUS
  <2>1. Ent \subseteq Entry \cup {Torn}
    <3>1. 0..MaxIssued \subseteq Nat /\ 1..Entries + 1 \subseteq Nat
      BY VflAssumption
    <3>2. Good \subseteq Entry
      BY <3>1 DEF Good, Entry
    <3>3. QED
      BY <3>2 DEF Ent
  <2>2. flash \in [CE -> [Block -> Seq(Entry \cup {Torn})]]
    BY <2>1 DEF TInv, FlashOK
  <2>3. control \in 0..MaxIssued
    BY VflAssumption DEF TInv
  <2>4. QED
    BY <2>2, <2>3 DEF TInv, FlashOK, TypeOK, Ctx
<1>2. QED
  BY <1>1, SpecTInv, PTL

----------------------------------------------------------------------------
(* The ring of blocks.                                                     *)

(* The steps from one block of the ring to another.                        *)
Dist(a, b) == (b + 4 - a) % 4

(* The block that begins with the lowest usn_dec, and alone does.          *)
IsNewest(c, b) ==
  /\ b \in Candidates(c)
  /\ \A d \in Candidates(c) : d # b => flash[c][b][1].dec < flash[c][d][1].dec

(* A write to page p leaves alone what open reads of s.                    *)
Past(s, p) == p <= Len(s) => \E i \in 1..p : ~s[i].readable

(* The entries that can be read are where they say, and none is older than *)
(* the first one of its block.                                             *)
Sound(c) ==
  /\ \A b \in Block : \A i \in 1..Len(flash[c][b]) :
       flash[c][b][i].readable => flash[c][b][i].blk = b /\ flash[c][b][i].page = i + 1
  /\ \A b \in Candidates(c) : \A i \in 1..Len(flash[c][b]) :
       flash[c][b][i].readable => flash[c][b][i].dec <= flash[c][b][1].dec
  /\ \A a, b \in Candidates(c) : flash[c][a][1].dec = flash[c][b][1].dec => a = b

(* The context in memory goes on from what its CE holds.                   *)
Current(c) ==
  LET s == flash[c][ctx[c].blk]
  IN  /\ \A b \in Candidates(c) : ctx[c].dec <= flash[c][b][1].dec
      /\ ctx[c].page <= Len(s) + 1
      /\ Past(s, ctx[c].page)
      /\ ctx[c].page = 1 => job.stage = "write" /\ job.ce = c /\ s = <<>>

(* A store is not further along the ring than operations have failed, so   *)
(* that it does not come round to the newest block.                        *)
Near(c) ==
  LET d == Dist(NewestBlock(c), ctx[c].blk)
  IN  /\ d <= IF ctx[c].page = 1 THEN faults + 1 ELSE faults
      /\ job.stage = "erase" /\ job.ce = c =>
           Dist(NewestBlock(c), job.next) \in 1..faults + 1

RingOf(c) ==
  /\ Sound(c)
  /\ up => Current(c)
  /\ faults < 3 => Candidates(c) # {} /\ (up => Near(c))

RInv == \A c \in CE : RingOf(c)

LEMMA Dists ==
  ASSUME NEW a \in Block, NEW b \in Block
  PROVE  /\ Dist(a, b) \in 0..3 /\ (Dist(a, b) = 0 <=> a = b)
         /\ Dist(a, b) < 3 => Dist(a, NextBlock(b)) = Dist(a, b) + 1
<1>1. /\ a = 0 \/ a = 1 \/ a = 2 \/ a = 3
      /\ b = 0 \/ b = 1 \/ b = 2 \/ b = 3
  BY DEF Block
<1>2. /\ NextBlock(0) = 1 /\ NextBlock(1) = 2 /\ NextBlock(2) = 3 /\ NextBlock(3) = 0
  BY DEF NextBlock
<1>3. /\ \A i \in {4, 0} : i % 4 = 0
      /\ \A i \in {5, 1} : i % 4 = 1
      /\ \A i \in {6, 2} : i % 4 = 2
      /\ \A i \in {7, 3} : i % 4 = 3
  OBVIOUS
<1>4. Dist(a, b) = IF b >= a THEN b - a ELSE b + 4 - a
  BY <1>1, <1>3 DEF Dist
<1>5. Dist(a, NextBlock(b)) =
        IF NextBlock(b) >= a THEN NextBlock(b) - a ELSE NextBlock(b) + 4 - a
  BY <1>1, <1>2, <1>3 DEF Dist
<1>6. QED
  BY <1>1, <1>2, <1>4, <1>5

LEMMA CandidateFacts ==
  ASSUME FlashOK, NEW c \in CE, NEW b \in Block
  PROVE  /\ flash[c][b] \in Seq(Ent) /\ Len(flash[c][b]) \in Nat
         /\ flash[c][b] # <<>> <=> Len(flash[c][b]) >= 1
         /\ b \in Candidates(c) <=> Len(flash[c][b]) >= 1 /\ flash[c][b][1].readable
         /\ b \in Candidates(c) => flash[c][b][1] \in Good /\ flash[c][b][1].dec \in Nat
<1>1. flash[c][b] \in Seq(Ent) /\ Len(flash[c][b]) \in Nat
  BY DEF FlashOK
<1>2. flash[c][b] # <<>> <=> Len(flash[c][b]) >= 1
  BY <1>1
<1>3. b \in Candidates(c) <=> Len(flash[c][b]) >= 1 /\ flash[c][b][1].readable
  BY <1>2 DEF Candidates
<1>4. ASSUME b \in Candidates(c)
      PROVE  flash[c][b][1] \in Good /\ flash[c][b][1].dec \in Nat
  <2>1. flash[c][b][1] \in Ent /\ flash[c][b][1].readable
    BY <1>1, <1>3, <1>4
  <2>2. QED
    BY <2>1, EntFacts, GoodFields
<1>5. QED
  BY <1>1, <1>2, <1>3, <1>4

(* The block that open settles on. *)
LEMMA TheNewest ==
  ASSUME FlashOK, NEW c \in CE, Sound(c)
  PROVE  /\ Candidates(c) # {} => IsNewest(c, NewestBlock(c))
         /\ \A b : IsNewest(c, b) => b = NewestBlock(c)
<1>1. \A d \in Candidates(c) : d \in Block /\ flash[c][d][1].dec \in Nat
  BY CandidateFacts DEF Candidates
<1>2. ASSUME Candidates(c) # {}
      PROVE  IsNewest(c, NewestBlock(c))
  <2>1. /\ NewestBlock(c) \in Candidates(c)
        /\ \A d \in Candidates(c) :
             flash[c][NewestBlock(c)][1].dec < flash[c][d][1].dec
               \/ flash[c][NewestBlock(c)][1].dec = flash[c][d][1].dec
    BY <1>2, NewestBlocks
  <2>2. QED
    BY <2>1 DEF IsNewest, Sound
<1>3. ASSUME NEW b, IsNewest(c, b), b # NewestBlock(c)
      PROVE  FALSE
  <2>1. b \in Candidates(c)
    BY <1>3 DEF IsNewest
  <2>2. IsNewest(c, NewestBlock(c))
    BY <1>2, <2>1
  <2>3. /\ NewestBlock(c) \in Candidates(c)
        /\ flash[c][b][1].dec < flash[c][NewestBlock(c)][1].dec
        /\ flash[c][NewestBlock(c)][1].dec < flash[c][b][1].dec
    BY <1>3, <2>1, <2>2 DEF IsNewest
  <2>4. QED
    BY <1>1, <2>1, <2>3
<1>4. QED
  BY <1>2, <1>3

(* The entry that open settles on. *)
LEMMA TheEntry ==
  ASSUME FlashOK, NEW c \in CE, Sound(c), NEW b, IsNewest(c, b),
         NEW k \in 1..Len(flash[c][b]),
         \A i \in 1..k : flash[c][b][i].readable,
         k < Len(flash[c][b]) => ~flash[c][b][k + 1].readable
  PROVE  NewestEntry(c) = flash[c][b][k]
<1>1. b = NewestBlock(c) /\ Candidates(c) # {} /\ b \in Block
  BY TheNewest DEF IsNewest, Candidates
<1>2. PICK m \in 1..Len(flash[c][b]) :
           /\ NewestEntry(c) = flash[c][b][m]
           /\ \A i \in 1..m : flash[c][b][i].readable
           /\ m < Len(flash[c][b]) => ~flash[c][b][m + 1].readable
  BY <1>1, NewestEntries
<1>3. Len(flash[c][b]) \in Nat
  BY <1>1, CandidateFacts
<1>4. ~(m < k)
  <2>1. m < k => m + 1 \in 1..k /\ m < Len(flash[c][b])
    BY <1>3
  <2>2. QED
    BY <1>2, <2>1
<1>5. ~(k < m)
  <2>1. k < m => k + 1 \in 1..m /\ k < Len(flash[c][b])
    BY <1>3
  <2>2. QED
    BY <1>2, <2>1
<1>6. m = k
  BY <1>3, <1>4, <1>5
<1>7. QED
  BY <1>2, <1>6

(* A step that leaves a CE alone. *)
LEMMA CEKept ==
  ASSUME NEW c \in CE, flash'[c] = flash[c]
  PROVE  /\ Candidates(c)' = Candidates(c) /\ NewestBlock(c)' = NewestBlock(c)
         /\ NewestEntry(c)' = NewestEntry(c)
         /\ Sound(c) => Sound(c)'
<1>1. Candidates(c)' = Candidates(c)
  BY DEF Candidates
<1>2. NewestBlock(c)' = NewestBlock(c)
  BY <1>1 DEF NewestBlock
<1>3. NewestEntry(c)' = NewestEntry(c)
  BY <1>2 DEF NewestEntry, SelectInSeq
<1>4. Sound(c) => Sound(c)'
  BY <1>1 DEF Sound
<1>5. QED
  BY <1>1, <1>2, <1>3, <1>4

(* A step that leaves the beginnings of the blocks alone. *)
LEMMA FirstsKept ==
  ASSUME FlashOK, NEW c \in CE, NEW b \in Block,
         \A a \in Block : a # b => flash'[c][a] = flash[c][a],
         b \in Candidates(c)' <=> b \in Candidates(c),
         b \in Candidates(c) => flash'[c][b][1] = flash[c][b][1]
  PROVE  /\ Candidates(c)' = Candidates(c)
         /\ \A a \in Candidates(c) : flash'[c][a][1] = flash[c][a][1]
         /\ \A a : IsNewest(c, a) => IsNewest(c, a)'
<1>1. \A a \in Block : a \in Candidates(c)' <=> a \in Candidates(c)
  <2> TAKE a \in Block
  <2>1. CASE a = b
    BY <2>1
  <2>2. CASE a # b
    BY <2>2 DEF Candidates
  <2>3. QED
    BY <2>1, <2>2
<1>2. Candidates(c)' = Candidates(c)
  <2>1. Candidates(c) \subseteq Block /\ Candidates(c)' \subseteq Block
    BY DEF Candidates
  <2>2. QED
    BY <1>1, <2>1
<1>3. \A a \in Candidates(c) : flash'[c][a][1] = flash[c][a][1]
  BY DEF Candidates
<1>4. \A a : IsNewest(c, a) => IsNewest(c, a)'
  BY <1>2, <1>3 DEF IsNewest
<1>5. QED
  BY <1>2, <1>3, <1>4

(* Both facts, to be used after a step too.                                *)
Finds ==
  FlashOK =>
    \A c \in CE : Sound(c) =>
      /\ Candidates(c) # {} => IsNewest(c, NewestBlock(c))
      /\ \A b : IsNewest(c, b) =>
           /\ b = NewestBlock(c)
           /\ \A k \in 1..Len(flash[c][b]) :
                /\ \A i \in 1..k : flash[c][b][i].readable
                /\ k < Len(flash[c][b]) => ~flash[c][b][k + 1].readable
                => NewestEntry(c) = flash[c][b][k]

LEMMA Finding == Finds /\ Finds'
<1>1. Finds
  BY TheNewest, TheEntry DEF Finds
<1>2. QED
  BY <1>1, PTL

(* A write of CE c, by whether it is the first one to its pages: s is what *)
(* the block b held and x what it holds then.                              *)
WriteCase(c, b, p, s, x, r) ==
  /\ c \in CE /\ b \in Block /\ p \in 1..Entries
  /\ s \in Seq(Ent) /\ Len(s) \in Nat /\ x \in Seq(Ent) /\ Len(x) \in Nat
  /\ p \in Nat /\ p >= 1 /\ p <= Len(s) + 1
  /\ \A a \in Block : a # b => flash'[c][a] = flash[c][a]
  /\ \A d \in CE : d # c => flash'[d] = flash[d]
  /\ \A i \in 1..Len(s) : i # p => x[i] = s[i]
  /\ Used <=> p <= Len(s)
  /\ p <= Len(s) => /\ Len(x) = Len(s) /\ x[p] = Torn
                    /\ \E i \in 1..p : ~s[i].readable
  /\ p > Len(s) => p = Len(s) + 1 /\ Len(x) = p /\ x[p] = Left(r)

LEMMA WriteCases ==
  ASSUME TInv, job.stage = "write", NEW r \in BOOLEAN, Place(r), issued' = issued,
         NEW c, c = job.ce, NEW b, b = ctx[c].blk, NEW p, p = ctx[c].page, Current(c),
         NEW s, s = flash[c][b], NEW x, x = flash'[c][b]
  PROVE  FlashOK' /\ WriteCase(c, b, p, s, x, r)
<1>1. PICK e : e = Left(r)
  OBVIOUS
<1>2. /\ FlashOK' /\ c \in CE /\ b \in Block /\ p \in 1..Entries /\ e \in Ent
      /\ PlacedAs(s, p, e, x) /\ s \in Seq(Ent) /\ Len(s) <= Entries
      /\ \A d \in CE, a \in Block : d # c \/ a # b => flash'[d][a] = flash[d][a]
  BY <1>1, WriteEffect
<1>3. Entries \in Nat
  BY VflAssumption
<1>4. p \in Nat /\ p >= 1 /\ Len(s) \in Nat
  BY <1>2, <1>3
<1>5. /\ x \in Seq(Ent)
      /\ Len(x) = IF p <= Len(s) THEN Len(s) ELSE Len(s) + 1
      /\ \A i \in 1..Len(s) : i # p => x[i] = s[i]
      /\ p <= Len(s) => x[p] = Torn
      /\ p > Len(s) => x[Len(s) + 1] = e
  BY <1>2 DEF PlacedAs
<1>6. p <= Len(s) + 1 /\ Past(s, p)
  BY DEF Current
<1>7. \A d \in CE : d # c => flash'[d] = flash[d]
  <2> TAKE d \in CE
  <2>1. flash'[d] \in [Block -> Seq(Ent)] /\ flash[d] \in [Block -> Seq(Ent)]
    BY <1>2 DEF TInv, FlashOK
  <2>2. d # c => \A a \in Block : flash'[d][a] = flash[d][a]
    BY <1>2
  <2>3. QED
    BY <2>1, <2>2
<1>8. Used <=> p <= Len(s)
  BY DEF Used
<1>9. p <= Len(s) => \E i \in 1..p : ~s[i].readable
  BY <1>6 DEF Past
<1>10. p > Len(s) => p = Len(s) + 1
  BY <1>4, <1>6
<1>11. ~(p > Len(s)) <=> p <= Len(s)
  BY <1>4
<1>12. /\ p <= Len(s) => Len(x) = Len(s)
       /\ p > Len(s) => Len(x) = p /\ x[p] = e
  BY <1>4, <1>5, <1>10, <1>11
<1>13. Len(x) \in Nat
  BY <1>5
<1>14. \A a \in Block : a # b => flash'[c][a] = flash[c][a]
  BY <1>2
<1>15. QED
  BY <1>1, <1>2, <1>4, <1>5, <1>6, <1>7, <1>8, <1>9, <1>10, <1>12, <1>13, <1>14
     DEF WriteCase

(* Only a context that can be read, on the first page of an erased block,  *)
(* makes a candidate of a block, and no write unmakes one.                 *)
LEMMA WriteFirst ==
  ASSUME TInv, job.stage = "write", NEW r \in BOOLEAN, Place(r), issued' = issued,
         NEW c, c = job.ce, NEW b, b = ctx[c].blk, NEW p, p = ctx[c].page, Current(c),
         NEW s, s = flash[c][b], NEW x, x = flash'[c][b]
  PROVE  /\ s = <<>> <=> Len(s) = 0
         /\ s = <<>> /\ r => /\ p = 1 /\ Len(x) = 1 /\ x[1] = NewEntry
                             /\ b \in Candidates(c)' /\ b \notin Candidates(c)
         /\ ~(s = <<>> /\ r) => /\ b \in Candidates(c)' <=> b \in Candidates(c)
                                /\ b \in Candidates(c) => x[1] = s[1]
<1>1. /\ FlashOK'
      /\ c \in CE /\ b \in Block
      /\ s \in Seq(Ent) /\ Len(s) \in Nat /\ x \in Seq(Ent) /\ Len(x) \in Nat
      /\ p \in Nat /\ p >= 1 /\ p <= Len(s) + 1
      /\ \A i \in 1..Len(s) : i # p => x[i] = s[i]
      /\ p <= Len(s) => /\ Len(x) = Len(s) /\ x[p] = Torn
                        /\ \E i \in 1..p : ~s[i].readable
      /\ p > Len(s) => p = Len(s) + 1 /\ Len(x) = p /\ x[p] = Left(r)
  <2>1. FlashOK' /\ WriteCase(c, b, p, s, x, r)
    BY WriteCases
  <2>2. QED
    BY <2>1 DEF WriteCase
<1>2. NewEntry \in Good
  BY Written
<1>3. NewEntry.readable /\ ~Torn.readable
  BY <1>2, EntFacts
<1>4. s = <<>> <=> Len(s) = 0
  BY <1>1
<1>5. /\ b \in Candidates(c) <=> Len(s) >= 1 /\ s[1].readable
      /\ b \in Candidates(c)' <=> Len(x) >= 1 /\ x[1].readable
  <2>1. b \in Candidates(c) <=> Len(s) >= 1 /\ s[1].readable
    BY <1>1, CandidateFacts DEF TInv
  <2>2. b \in Candidates(c)' <=> x # <<>> /\ x[1].readable
    BY <1>1 DEF Candidates
  <2>3. x # <<>> <=> Len(x) >= 1
    BY <1>1
  <2>4. QED
    BY <2>1, <2>2, <2>3
<1>6. CASE s = <<>>
  <2>1. Len(s) = 0 /\ p = 1 /\ Len(x) = 1 /\ x[1] = Left(r)
    <3>1. Len(s) = 0 /\ p = 1
      BY <1>1, <1>4, <1>6
    <3>2. p > Len(s)
      BY <3>1
    <3>3. QED
      BY <1>1, <3>1, <3>2
  <2>2. r => Left(r) = NewEntry
    BY DEF Left
  <2>3. ~r => Left(r) = Torn
    BY DEF Left
  <2>4. QED
    BY <1>3, <1>4, <1>5, <1>6, <2>1, <2>2, <2>3
<1>7. CASE s # <<>>
  <2>1. Len(s) >= 1 /\ Len(x) >= 1
    <3>1. Len(s) >= 1 /\ (p <= Len(s) \/ p > Len(s)) /\ p >= 1
      BY <1>1, <1>4, <1>7
    <3>2. (p <= Len(s) => Len(x) = Len(s)) /\ (p > Len(s) => Len(x) = p)
      BY <1>1
    <3>3. QED
      BY <3>1, <3>2
  <2>2. CASE p = 1
    <3>1. x[1] = Torn /\ ~s[1].readable
      BY <1>1, <2>1, <2>2
    <3>2. QED
      BY <1>3, <1>4, <1>5, <1>7, <3>1
  <2>3. CASE p # 1
    <3>1. x[1] = s[1]
      BY <1>1, <2>1, <2>3
    <3>2. QED
      BY <1>4, <1>5, <1>7, <2>1, <3>1
  <2>4. QED
    BY <2>2, <2>3
<1>8. QED
  BY <1>6, <1>7

(* What a write makes of its ring. *)
LEMMA WriteRing ==
  ASSUME TInv, job.stage = "write", NEW r \in BOOLEAN, Place(r), issued' = issued,
         NEW c, c = job.ce, NEW b, b = ctx[c].blk, NEW p, p = ctx[c].page,
         Sound(c), Current(c)
  PROVE  /\ Sound(c)'
         /\ \A a \in Candidates(c)' : ctx[c].dec - 1 <= flash'[c][a][1].dec
         /\ flash[c][b] = <<>> /\ r => IsNewest(c, b)' /\ NewestEntry(c)' = NewEntry
         /\ ~(flash[c][b] = <<>> /\ r) =>
              /\ Candidates(c)' = Candidates(c)
              /\ \A a : IsNewest(c, a) => IsNewest(c, a)'
         /\ p + 1 <= Len(flash'[c][b]) + 1 /\ Past(flash'[c][b], p + 1)
<1> DEFINE s == flash[c][b]
           x == flash'[c][b]
<1>1. /\ FlashOK'
      /\ c \in CE /\ b \in Block
      /\ s \in Seq(Ent) /\ Len(s) \in Nat /\ x \in Seq(Ent) /\ Len(x) \in Nat
      /\ p \in Nat /\ p >= 1 /\ p <= Len(s) + 1
      /\ \A a \in Block : a # b => flash'[c][a] = flash[c][a]
      /\ \A i \in 1..Len(s) : i # p => x[i] = s[i]
      /\ p <= Len(s) => /\ Len(x) = Len(s) /\ x[p] = Torn
                        /\ \E i \in 1..p : ~s[i].readable
      /\ p > Len(s) => p = Len(s) + 1 /\ Len(x) = p /\ x[p] = Left(r)
  <2>1. FlashOK' /\ WriteCase(c, b, p, s, x, r)
    BY WriteCases
  <2>2. QED
    BY <2>1 DEF WriteCase
<1>2. /\ s = <<>> <=> Len(s) = 0
      /\ s = <<>> /\ r => /\ p = 1 /\ Len(x) = 1 /\ x[1] = NewEntry
                          /\ b \in Candidates(c)' /\ b \notin Candidates(c)
      /\ ~(s = <<>> /\ r) => /\ b \in Candidates(c)' <=> b \in Candidates(c)
                             /\ b \in Candidates(c) => x[1] = s[1]
  BY WriteFirst
<1>3. NewEntry \in Good /\ ctx[c] \in Ctx
  BY Written
<1>4. /\ NewEntry.readable /\ ~Torn.readable
      /\ NewEntry.dec = ctx[c].dec - 1 /\ NewEntry.dec \in Nat /\ ctx[c].dec \in Nat
      /\ NewEntry.blk = b /\ NewEntry.page = p + 1
  <2>1. NewEntry.readable /\ ~Torn.readable
    BY <1>3, EntFacts
  <2>2. NewEntry.dec \in Nat
    BY <1>3, GoodFields
  <2>3. ctx[c].dec \in Nat
    BY <1>3 DEF Ctx
  <2>4. NewEntry.dec = ctx[c].dec - 1 /\ NewEntry.blk = b /\ NewEntry.page = p + 1
    BY DEF NewEntry
  <2>5. QED
    BY <2>1, <2>2, <2>3, <2>4
<1> HIDE DEF s, x
<1>5. \A a \in Candidates(c) :
        a \in Block /\ flash[c][a][1].dec \in Nat /\ ctx[c].dec <= flash[c][a][1].dec
  BY <1>1, CandidateFacts DEF TInv, Current, Candidates
<1>6. ~(s = <<>> /\ r) => /\ Candidates(c)' = Candidates(c)
                          /\ \A a \in Candidates(c) : flash'[c][a][1] = flash[c][a][1]
                          /\ \A a : IsNewest(c, a) => IsNewest(c, a)'
  <2> SUFFICES ASSUME ~(s = <<>> /\ r)
               PROVE  /\ Candidates(c)' = Candidates(c)
                      /\ \A a \in Candidates(c) : flash'[c][a][1] = flash[c][a][1]
                      /\ \A a : IsNewest(c, a) => IsNewest(c, a)'
    OBVIOUS
  <2>1. /\ b \in Candidates(c)' <=> b \in Candidates(c)
        /\ b \in Candidates(c) => flash'[c][b][1] = flash[c][b][1]
    BY <1>2 DEF s, x
  <2>2. FlashOK
    BY DEF TInv
  <2>3. QED
    BY <1>1, <2>1, <2>2, FirstsKept
<1>7. s = <<>> /\ r => /\ Candidates(c)' = Candidates(c) \cup {b}
                       /\ \A a \in Candidates(c) : a # b /\ flash'[c][a] = flash[c][a]
  BY <1>1, <1>2 DEF Candidates
<1>8. \A a \in Candidates(c)' : ctx[c].dec - 1 <= flash'[c][a][1].dec
  <2> TAKE a \in Candidates(c)'
  <2>1. CASE s = <<>> /\ r /\ a = b
    BY <1>2, <1>4, <2>1 DEF x
  <2>2. CASE ~(s = <<>> /\ r /\ a = b)
    <3>1. a \in Candidates(c) /\ flash'[c][a][1] = flash[c][a][1]
      BY <1>6, <1>7, <2>2
    <3>2. QED
      BY <1>4, <1>5, <3>1
  <2>3. QED
    BY <2>1, <2>2
<1>9. s = <<>> /\ r => IsNewest(c, b)'
  <2> SUFFICES ASSUME s = <<>>, r
               PROVE  IsNewest(c, b)'
    OBVIOUS
  <2>1. b \in Candidates(c)' /\ flash'[c][b][1].dec = ctx[c].dec - 1
    BY <1>2, <1>4 DEF x
  <2>2. ASSUME NEW d \in Candidates(c)', d # b
        PROVE  flash'[c][b][1].dec < flash'[c][d][1].dec
    <3>1. d \in Candidates(c) /\ flash'[c][d][1].dec = flash[c][d][1].dec
      BY <1>7, <2>2
    <3>2. QED
      BY <1>4, <1>5, <2>1, <3>1
  <2>3. QED
    BY <2>1, <2>2 DEF IsNewest
<1>10. \A i \in 1..Len(x) : x[i].readable =>
         \/ i \in 1..Len(s) /\ x[i] = s[i]
         \/ i = p /\ p = Len(s) + 1 /\ x[i] = NewEntry
  <2> TAKE i \in 1..Len(x)
  <2>1. CASE p <= Len(s)
    BY <1>1, <1>4, <2>1
  <2>2. CASE p > Len(s)
    <3>1. i = p \/ i \in 1..Len(s)
      BY <1>1, <2>2
    <3>2. x[p] = Torn \/ x[p] = NewEntry
      BY <1>1, <2>2 DEF Left
    <3>3. QED
      BY <1>1, <1>4, <2>2, <3>1, <3>2
  <2>3. QED
    BY <1>1, <2>1, <2>2
<1>11. ASSUME NEW a \in Block, NEW i \in 1..Len(flash'[c][a]), flash'[c][a][i].readable
       PROVE  flash'[c][a][i].blk = a /\ flash'[c][a][i].page = i + 1
  <2>0. \A d \in Block : \A j \in 1..Len(flash[c][d]) :
          flash[c][d][j].readable => flash[c][d][j].blk = d /\ flash[c][d][j].page = j + 1
    BY DEF Sound
  <2>1. CASE a = b
    <3>1. i \in 1..Len(x) /\ x[i].readable
      BY <1>11, <2>1 DEF x
    <3>2. CASE i \in 1..Len(s) /\ x[i] = s[i]
      <4>1. s[i].readable /\ b \in Block
        BY <1>1, <3>1, <3>2
      <4>2. s[i].blk = b /\ s[i].page = i + 1
        BY <2>0, <3>2, <4>1 DEF s
      <4>3. QED
        BY <2>1, <3>2, <4>2 DEF x
    <3>3. CASE i = p /\ x[i] = NewEntry
      BY <1>4, <2>1, <3>3 DEF x
    <3>4. QED
      BY <1>10, <3>1, <3>2, <3>3
  <2>2. CASE a # b
    <3>1. flash'[c][a] = flash[c][a]
      BY <1>1, <2>2
    <3>2. QED
      BY <1>11, <2>0, <3>1
  <2>3. QED
    BY <2>1, <2>2
<1>12. ASSUME NEW a \in Candidates(c)', NEW i \in 1..Len(flash'[c][a]),
              flash'[c][a][i].readable
       PROVE  flash'[c][a][i].dec <= flash'[c][a][1].dec
  <2>1. CASE s = <<>> /\ r /\ a = b
    <3>1. i = 1 /\ x[1] = NewEntry
      BY <1>2, <1>12, <2>1 DEF x
    <3>2. QED
      BY <1>4, <2>1, <3>1 DEF x
  <2>2. CASE ~(s = <<>> /\ r /\ a = b)
    <3>1. a \in Candidates(c) /\ flash'[c][a][1] = flash[c][a][1]
      BY <1>6, <1>7, <2>2
    <3>2. CASE a # b
      <4>1. flash'[c][a] = flash[c][a]
        BY <1>1, <1>5, <3>1, <3>2
      <4>2. QED
        BY <1>12, <3>1, <4>1 DEF Sound
    <3>3. CASE a = b
      <4>1. \/ i \in 1..Len(s) /\ x[i] = s[i]
            \/ x[i] = NewEntry
        BY <1>10, <1>12, <3>3 DEF x
      <4>2. CASE i \in 1..Len(s) /\ x[i] = s[i]
        BY <1>12, <3>1, <3>3, <4>2 DEF Sound, s, x
      <4>3. CASE x[i] = NewEntry
        BY <1>4, <1>5, <3>1, <3>3, <4>3 DEF x
      <4>4. QED
        BY <4>1, <4>2, <4>3
    <3>4. QED
      BY <3>2, <3>3
  <2>3. QED
    BY <2>1, <2>2
<1>13. ASSUME NEW a \in Candidates(c)', NEW d \in Candidates(c)',
              flash'[c][a][1].dec = flash'[c][d][1].dec
       PROVE  a = d
  <2>1. CASE ~(s = <<>> /\ r)
    BY <1>6, <1>13, <2>1 DEF Sound
  <2>2. CASE s = <<>> /\ r
    <3>1. flash'[c][b][1].dec = ctx[c].dec - 1
      BY <1>2, <1>4, <2>2 DEF x
    <3>2. \A e \in Candidates(c)' : e = b \/ (e \in Candidates(c) /\ e # b
            /\ flash'[c][e][1].dec = flash[c][e][1].dec)
      BY <1>7, <2>2
    <3>3. ASSUME a # b, d # b
          PROVE  a = d
      BY <1>13, <3>2, <3>3 DEF Sound
    <3>4. ASSUME NEW e \in Candidates(c)', e # b
          PROVE  flash'[c][e][1].dec # ctx[c].dec - 1
      BY <1>4, <1>5, <3>2, <3>4
    <3>5. QED
      BY <1>13, <3>1, <3>3, <3>4
  <2>3. QED
    BY <2>1, <2>2
<1>14. Sound(c)'
  BY <1>11, <1>12, <1>13 DEF Sound
<1>15. s = <<>> /\ r => NewestEntry(c)' = NewEntry
  <2> SUFFICES ASSUME s = <<>>, r
               PROVE  NewestEntry(c)' = NewEntry
    OBVIOUS
  <2>1. Len(x) = 1 /\ x[1] = NewEntry /\ IsNewest(c, b)'
    BY <1>2, <1>9
  <2>2. FlashOK'
    BY <1>1
  <2>3. 1 \in 1..Len(x) /\ ~(1 < Len(x)) /\ \A i \in 1..1 : x[i].readable
    BY <1>4, <2>1
  <2>4. NewestEntry(c)' = x[1]
    BY <1>1, <1>14, <2>1, <2>2, <2>3, Finding DEF Finds, x
  <2>5. QED
    BY <2>1, <2>4
<1>16. p + 1 <= Len(x) + 1 /\ Past(x, p + 1)
  <2>1. CASE p <= Len(s)
    <3>1. Len(x) = Len(s) /\ ~x[p].readable /\ p \in 1..p + 1
      BY <1>1, <1>4, <2>1
    <3>2. QED
      BY <1>1, <2>1, <3>1 DEF Past
  <2>2. CASE p > Len(s)
    <3>1. Len(x) = p /\ ~(p + 1 <= Len(x))
      BY <1>1, <2>2
    <3>2. QED
      BY <1>1, <3>1 DEF Past
  <2>3. QED
    BY <1>1, <2>1, <2>2
<1>17. QED
  BY <1>6, <1>8, <1>9, <1>14, <1>15, <1>16 DEF s, x

(* A write that begins no block leaves open the block and the entry it     *)
(* would settle on, or gives it the entry that is written.                 *)
LEMMA WriteNewest ==
  ASSUME TInv, job.stage = "write", NEW r \in BOOLEAN, Place(r), issued' = issued,
         NEW c, c = job.ce, NEW b, b = ctx[c].blk, NEW p, p = ctx[c].page,
         Sound(c), Current(c), Candidates(c) # {}, ~(flash[c][b] = <<>> /\ r)
  PROVE  /\ NewestBlock(c)' = NewestBlock(c)
         /\ NewestEntry(c)' = NewestEntry(c) \/ NewestEntry(c)' = NewEntry
<1>1. PICK L, s, x : L = NewestBlock(c) /\ s = flash[c][L] /\ x = flash'[c][L]
  OBVIOUS
<1>2. FlashOK' /\ WriteCase(c, b, p, flash[c][b], flash'[c][b], r)
  BY WriteCases
<1>3. Sound(c)' /\ \A a : IsNewest(c, a) => IsNewest(c, a)'
  BY WriteRing
<1>4. c \in CE /\ FlashOK
  BY <1>2 DEF WriteCase, TInv
<1>5. IsNewest(c, L) /\ L \in Block
  BY <1>1, <1>4, TheNewest DEF IsNewest, Candidates
<1>6. IsNewest(c, L)'
  BY <1>3, <1>5
<1>7. /\ L = NewestBlock(c)'
      /\ \A k \in 1..Len(x) :
           /\ \A i \in 1..k : x[i].readable
           /\ k < Len(x) => ~x[k + 1].readable
           => NewestEntry(c)' = x[k]
  BY <1>1, <1>2, <1>3, <1>4, <1>6, Finding DEF Finds
<1>8. PICK k \in 1..Len(s) :
        /\ NewestEntry(c) = s[k]
        /\ \A i \in 1..k : s[i].readable
        /\ k < Len(s) => ~s[k + 1].readable
  BY <1>1, <1>4, NewestEntries
<1>9. CASE L # b
  <2>1. x = s
    BY <1>1, <1>2, <1>5, <1>9 DEF WriteCase
  <2>2. NewestEntry(c)' = x[k]
    BY <1>7, <1>8, <2>1
  <2>3. QED
    BY <1>1, <1>7, <1>8, <2>1, <2>2
<1>10. CASE L = b
  <2>1. /\ Len(s) \in Nat /\ Len(x) \in Nat /\ p \in Nat /\ p >= 1 /\ p <= Len(s) + 1
        /\ \A i \in 1..Len(s) : i # p => x[i] = s[i]
        /\ p <= Len(s) => /\ Len(x) = Len(s) /\ x[p] = Torn
                          /\ \E i \in 1..p : ~s[i].readable
        /\ p > Len(s) => p = Len(s) + 1 /\ Len(x) = p /\ x[p] = Left(r)
    <3>1. flash[c][b] = s /\ flash'[c][b] = x
      BY <1>1, <1>10
    <3>2. WriteCase(c, b, p, s, x, r)
      BY <1>2, <3>1
    <3>3. QED
      BY <3>2 DEF WriteCase
  <2>2. ~Torn.readable /\ NewEntry.readable
    <3>1. NewEntry \in Good
      BY Written
    <3>2. QED
      BY <3>1, EntFacts
  <2>3. CASE p <= Len(s)
    <3>1. PICK i \in 1..p : ~s[i].readable
      BY <2>1, <2>3
    <3>2. ~(i <= k)
      BY <1>8, <3>1
    <3>3. k < p /\ k < Len(s) /\ k + 1 \in 1..Len(s)
      BY <2>1, <2>3, <3>1, <3>2
    <3>4. \A j \in 1..k : x[j] = s[j]
      BY <2>1, <3>3
    <3>5. ~x[k + 1].readable
      BY <1>8, <2>1, <2>2, <2>3, <3>3
    <3>6. NewestEntry(c)' = x[k] /\ x[k] = s[k]
      BY <1>7, <1>8, <2>1, <2>3, <3>3, <3>4, <3>5
    <3>7. QED
      BY <1>1, <1>7, <1>8, <3>6
  <2>4. CASE p > Len(s)
    <3>1. /\ Len(x) = Len(s) + 1 /\ x[Len(s) + 1] = Left(r)
          /\ \A j \in 1..Len(s) : x[j] = s[j]
      BY <2>1, <2>4
    <3>2. CASE k < Len(s)
      <4>1. k \in 1..Len(x) /\ k + 1 \in 1..Len(s) /\ \A j \in 1..k : j \in 1..Len(s)
        BY <2>1, <3>1, <3>2
      <4>2. NewestEntry(c)' = x[k] /\ x[k] = s[k]
        BY <1>7, <1>8, <3>1, <3>2, <4>1
      <4>3. QED
        BY <1>1, <1>7, <1>8, <4>2
    <3>3. CASE k = Len(s) /\ r
      <4>1. x[k + 1] = NewEntry /\ k + 1 \in 1..Len(x) /\ ~(k + 1 < Len(x))
        BY <2>1, <3>1, <3>3 DEF Left
      <4>2. \A j \in 1..k + 1 : x[j].readable
        <5> TAKE j \in 1..k + 1
        <5>1. j = k + 1 \/ j \in 1..k
          OBVIOUS
        <5>2. QED
          BY <1>8, <2>2, <3>1, <3>3, <4>1, <5>1
      <4>3. NewestEntry(c)' = x[k + 1]
        BY <1>7, <4>1, <4>2
      <4>4. QED
        BY <1>1, <1>7, <4>1, <4>3
    <3>4. CASE k = Len(s) /\ ~r
      <4>1. x[k + 1] = Torn /\ k \in 1..Len(x)
        BY <2>1, <3>1, <3>4 DEF Left
      <4>2. NewestEntry(c)' = x[k] /\ x[k] = s[k]
        BY <1>7, <1>8, <2>2, <3>1, <3>4, <4>1
      <4>3. QED
        BY <1>1, <1>7, <1>8, <4>2
    <3>5. QED
      BY <1>8, <2>1, <3>2, <3>3, <3>4
  <2>5. QED
    BY <2>1, <2>3, <2>4
<1>11. QED
  BY <1>9, <1>10

----------------------------------------------------------------------------
(* The ring, action by action.                                             *)

LEMMA Numbers == TInv => faults \in Nat /\ (job # NoJob => up)
  BY VflAssumption DEF TInv, JobOK

(* A CE the step is not about. *)
LEMMA RingOther ==
  ASSUME TInv, NEW c \in CE, RingOf(c), flash'[c] = flash[c], up' = up, ctx'[c] = ctx[c],
         faults' \in Nat, faults' >= faults,
         job # NoJob => job.ce # c,
         job'.stage = "erase" => job'.ce # c
  PROVE  RingOf(c)'
<1>1. /\ Candidates(c)' = Candidates(c) /\ NewestBlock(c)' = NewestBlock(c)
      /\ Sound(c)'
  BY CEKept DEF RingOf
<1>2. job.stage = "write" => job # NoJob
  BY DEF NoJob
<1>3. up => Current(c)' /\ ctx[c].page # 1
  BY <1>1, <1>2 DEF RingOf, Current, Past
<1>4. ASSUME faults' < 3, up
      PROVE  Near(c)'
  <2>1. faults \in Nat /\ faults < 3
    BY <1>4, Numbers
  <2>2. ctx[c].page # 1 /\ Near(c)
    BY <1>3, <1>4, <2>1 DEF RingOf
  <2>3. Dist(NewestBlock(c), ctx[c].blk) <= faults
    BY <2>2 DEF Near
  <2>4. ctx[c] \in Ctx
    BY DEF TInv
  <2>5. NewestBlock(c) \in Block
    <3>1. Candidates(c) # {}
      BY <2>1 DEF RingOf
    <3>2. QED
      BY <3>1, NewestBlocks DEF TInv, Candidates
  <2>6. Dist(NewestBlock(c), ctx[c].blk) \in 0..3
    BY <2>4, <2>5, Dists DEF Ctx
  <2>7. Dist(NewestBlock(c)', ctx'[c].blk) <= faults'
    BY <1>1, <2>1, <2>3, <2>6
  <2>8. QED
    BY <2>2, <2>7 DEF Near
<1>5. faults' < 3 => Candidates(c)' # {}
  BY <1>1, Numbers DEF RingOf
<1>6. QED
  BY <1>1, <1>3, <1>4, <1>5 DEF RingOf

LEMMA RingInit == Init => RInv
<1> SUFFICES ASSUME Init, NEW c \in CE PROVE RingOf(c)
  BY DEF RInv
<1> DEFINE e == [dec |-> FirstDec, inc |-> c, control |-> 0,
                 blk |-> 0, page |-> 2, readable |-> TRUE]
<1>1. \A b \in Block : flash[c][b] = IF b = 0 THEN <<e>> ELSE <<>>
  BY DEF Init
<1>2. up = FALSE
  BY DEF Init
<1>3. e.readable /\ e.blk = 0 /\ e.page = 1 + 1 /\ e.dec = FirstDec
  OBVIOUS
<1> HIDE DEF e
<1>4. 0 \in Block
  BY DEF Block
<1>5. Candidates(c) = {0}
  <2>1. flash[c][0] = <<e>> /\ <<e>> # <<>> /\ <<e>>[1] = e
    BY <1>1, <1>4
  <2>2. \A b \in Block : b # 0 => flash[c][b] = <<>>
    BY <1>1
  <2>3. QED
    BY <1>3, <1>4, <2>1, <2>2 DEF Candidates
<1>6. \A b \in Block : \A i \in 1..Len(flash[c][b]) : b = 0 /\ i = 1 /\ flash[c][b][i] = e
  <2> TAKE b \in Block
  <2>1. CASE b = 0
    <3>1. flash[c][b] = <<e>> /\ Len(<<e>>) = 1 /\ <<e>>[1] = e
      BY <1>1, <2>1
    <3>2. QED
      BY <2>1, <3>1
  <2>2. CASE b # 0
    <3>1. flash[c][b] = <<>> /\ Len(<<>>) = 0
      BY <1>1, <2>2
    <3>2. QED
      BY <3>1
  <2>3. QED
    BY <2>1, <2>2
<1>8. Sound(c)
  <2>1. e.dec <= e.dec
    BY <1>3, VflAssumption
  <2>2. QED
    BY <1>1, <1>3, <1>4, <1>5, <1>6, <2>1 DEF Sound
<1>9. QED
  BY <1>2, <1>5, <1>8 DEF RingOf

LEMMA RingOpen == TInv /\ RInv /\ Open => RInv'
<1> SUFFICES ASSUME TInv, RInv, Open, NEW c \in CE PROVE RingOf(c)'
  BY DEF RInv
<1>1. /\ ~up /\ Openable /\ up' = TRUE /\ flash' = flash /\ job' = job /\ faults' = faults
      /\ ctx' = [d \in CE |-> [dec  |-> NewestEntry(d).dec, blk |-> NewestEntry(d).blk,
                               page |-> NewestEntry(d).page]]
  BY DEF Open
<1>2. job = NoJob /\ faults \in Nat
  BY <1>1, Numbers
<1>3. PICK L, s : L = NewestBlock(c) /\ s = flash[c][L]
  OBVIOUS
<1>4. RingOf(c) /\ FlashOK /\ Candidates(c) # {}
  BY <1>1 DEF RInv, TInv, Openable
<1>5. IsNewest(c, L) /\ L \in Block /\ L \in Candidates(c)
  BY <1>3, <1>4, TheNewest DEF RingOf, IsNewest, Candidates
<1>6. PICK k \in 1..Len(s) :
        /\ NewestEntry(c) = s[k]
        /\ \A i \in 1..k : s[i].readable
        /\ k < Len(s) => ~s[k + 1].readable
  BY <1>3, <1>4, NewestEntries
<1>7. Len(s) \in Nat /\ k \in 1..k
  BY <1>3, <1>4, <1>5, CandidateFacts
<1>8. s[k].blk = L /\ s[k].page = k + 1 /\ s[k].dec <= s[1].dec
  BY <1>3, <1>4, <1>5, <1>6, <1>7 DEF RingOf, Sound
<1>9. ctx'[c].dec = s[k].dec /\ ctx'[c].blk = L /\ ctx'[c].page = k + 1
  BY <1>1, <1>6, <1>8
<1>10. s[k].dec \in Nat
  BY <1>4, <1>6, NewestTypes, GoodFields
<1>11. \A b \in Candidates(c) : ctx'[c].dec <= flash[c][b][1].dec
  <2> TAKE b \in Candidates(c)
  <2>1. b \in Block /\ flash[c][b][1].dec \in Nat /\ s[1].dec \in Nat
    BY <1>3, <1>4, <1>5, CandidateFacts DEF Candidates
  <2>2. s[1].dec <= flash[c][b][1].dec
    BY <1>3, <1>5, <2>1 DEF IsNewest
  <2>3. QED
    BY <1>8, <1>9, <1>10, <2>1, <2>2
<1>12. /\ Candidates(c)' = Candidates(c) /\ NewestBlock(c)' = NewestBlock(c) /\ Sound(c)'
  BY <1>1, <1>4, CEKept DEF RingOf
<1>13. flash'[c][ctx'[c].blk] = s
  BY <1>1, <1>3, <1>9
<1>14. Past(s, k + 1)
  <2>1. k + 1 <= Len(s) => k < Len(s) /\ k + 1 \in 1..k + 1
    BY <1>7
  <2>2. QED
    BY <1>6, <2>1 DEF Past
<1>15. Current(c)'
  <2>1. k + 1 <= Len(s) + 1 /\ k + 1 # 1
    BY <1>7
  <2>2. Past(s, ctx[c].page)'
    BY <1>9, <1>14 DEF Past
  <2>3. QED
    BY <1>1, <1>9, <1>11, <1>12, <1>13, <1>14, <2>1 DEF Current, Past
<1>16. Near(c)'
  <2>1. Dist(L, L) = 0
    BY <1>5, Dists
  <2>2. Dist(NewestBlock(c)', ctx'[c].blk) = 0 /\ job'.stage # "erase"
    BY <1>1, <1>2, <1>3, <1>9, <1>12, <2>1 DEF NoJob
  <2>3. QED
    BY <1>1, <1>2, <2>2 DEF Near
<1>17. QED
  BY <1>4, <1>12, <1>15, <1>16 DEF RingOf

(* The memory is lost, and the contexts are not changed. *)
LEMMA RingLost ==
  ASSUME TInv, NEW c \in CE, RingOf(c), flash'[c] = flash[c], up' = FALSE, faults' = faults
  PROVE  RingOf(c)'
<1>1. Candidates(c)' = Candidates(c) /\ Sound(c)'
  BY CEKept DEF RingOf
<1>2. QED
  BY <1>1 DEF RingOf

LEMMA RingStart ==
  ASSUME TInv, RInv, up, job = NoJob, NEW c \in CE, NEW ack \in BOOLEAN, StartJob(c, ack),
         flash' = flash, up' = up, ctx' = ctx, faults' = faults
  PROVE  RInv'
<1> SUFFICES ASSUME NEW d \in CE PROVE RingOf(d)'
  BY DEF RInv
<1>1. /\ job'.ce = c /\ job'.next = NextBlock(ctx[c].blk) /\ ctx[c] \in Ctx
  BY Starts DEF TInv
<1>2. RingOf(d) /\ faults \in Nat
  BY Numbers DEF RInv
<1>3. CASE d # c
  BY <1>1, <1>2, <1>3, RingOther
<1>4. CASE d = c
  <2>1. /\ Candidates(c)' = Candidates(c) /\ NewestBlock(c)' = NewestBlock(c)
        /\ Sound(c)' /\ Current(c)
    BY <1>2, <1>4, CEKept DEF RingOf
  <2>2. ctx[c].page # 1
    BY <2>1 DEF Current, NoJob
  <2>3. Current(c)'
    BY <2>1, <2>2 DEF Current, Past
  <2>4. ASSUME faults < 3
        PROVE  Near(c)'
    <3>1. Dist(NewestBlock(c), ctx[c].blk) <= faults
      BY <1>2, <1>4, <2>2, <2>4 DEF RingOf, Near
    <3>2. NewestBlock(c) \in Block
      BY <1>2, <1>4, <2>4, NewestBlocks DEF RingOf, TInv, Candidates
    <3>3. /\ Dist(NewestBlock(c), ctx[c].blk) \in 0..3
          /\ Dist(NewestBlock(c), ctx[c].blk) < 3 =>
               Dist(NewestBlock(c), NextBlock(ctx[c].blk)) =
                 Dist(NewestBlock(c), ctx[c].blk) + 1
      BY <1>1, <3>2, Dists DEF Ctx
    <3>4. Dist(NewestBlock(c), NextBlock(ctx[c].blk)) \in 1..faults + 1
      BY <1>2, <2>4, <3>1, <3>3
    <3>5. QED
      BY <1>1, <2>1, <2>2, <3>1, <3>4 DEF Near
  <2>5. QED
    BY <1>2, <1>4, <2>1, <2>3, <2>4 DEF RingOf
<1>5. QED
  BY <1>3, <1>4

(* The search does not reach the newest block: it has gone no further than *)
(* operations have failed, and a block that is erased is not the newest.   *)
LEMMA RingErase == TInv /\ RInv /\ Erase => RInv'
<1> SUFFICES ASSUME TInv, RInv, Erase, NEW d \in CE PROVE RingOf(d)'
  BY DEF RInv
<1>1. PICK c, b : c = job.ce /\ b = job.next
  OBVIOUS
<1>2. /\ job.stage = "erase" /\ flash' = [flash EXCEPT ![c][b] = <<>>]
      /\ up' = up /\ issued' = issued /\ faults' = faults
  BY <1>1 DEF Erase
<1>3. job \in Job /\ c \in CE /\ b \in Block /\ job # NoJob
  BY <1>1, <1>2, JobTypes DEF TInv
<1>4. /\ ctx' = [ctx EXCEPT ![c] = [dec |-> ctx[c].dec, blk |-> b, page |-> 1]]
      /\ job'.stage = "write" /\ job'.ce = c
  BY <1>1, <1>2, Erases DEF CtxIs
<1>5. /\ ctx'[c] = [dec |-> ctx[c].dec, blk |-> b, page |-> 1]
      /\ \A e \in CE : e # c => ctx'[e] = ctx[e]
  BY <1>3, <1>4 DEF TInv
<1>6. ctx'[c].dec = ctx[c].dec /\ ctx'[c].blk = b /\ ctx'[c].page = 1
  BY <1>5
<1>7. flash \in [CE -> [Block -> Seq(Ent)]] /\ FlashOK
  BY DEF TInv, FlashOK
<1>8. /\ flash'[c][b] = <<>>
      /\ \A a \in Block : a # b => flash'[c][a] = flash[c][a]
      /\ \A e \in CE : e # c => flash'[e] = flash[e]
  BY <1>2, <1>3, <1>7
<1>9. RingOf(c) /\ RingOf(d) /\ faults \in Nat /\ up
  BY <1>3, Numbers DEF RInv
<1>10. CASE d # c
  BY <1>1, <1>2, <1>4, <1>5, <1>8, <1>9, <1>10, RingOther
<1>11. CASE d = c
  <2>1. Sound(c) /\ Current(c)
    BY <1>9 DEF RingOf
  <2>2. /\ Candidates(c)' = Candidates(c) \ {b}
        /\ \A a \in Candidates(c)' : a \in Block /\ flash'[c][a] = flash[c][a]
    BY <1>3, <1>8 DEF Candidates
  <2>3. Len(flash'[c][b]) = 0
    BY <1>8
  <2>4. Sound(c)'
    <3>1. \A a \in Block : \A i \in 1..Len(flash'[c][a]) :
            a # b /\ flash'[c][a] = flash[c][a]
      BY <1>8, <2>3
    <3>2. QED
      BY <2>1, <2>2, <3>1 DEF Sound
  <2>5. Current(c)'
    <3>1. \A a \in Candidates(c)' : ctx'[c].dec <= flash'[c][a][1].dec
      BY <1>6, <2>1, <2>2 DEF Current
    <3>2. flash'[c][ctx'[c].blk] = <<>> /\ Len(<<>>) = 0
      BY <1>6, <1>8
    <3>3. ctx'[c].page <= Len(flash'[c][ctx'[c].blk]) + 1
      BY <1>6, <3>2
    <3>4. ~(ctx'[c].page <= Len(flash'[c][ctx'[c].blk]))
      BY <1>6, <3>2
    <3>5. QED
      BY <1>4, <3>1, <3>2, <3>3, <3>4 DEF Current, Past
  <2>6. ASSUME faults < 3
        PROVE  Candidates(c)' # {} /\ Near(c)'
    <3>1. PICK L : L = NewestBlock(c)
      OBVIOUS
    <3>2. IsNewest(c, L) /\ L \in Block
      BY <1>3, <1>7, <1>9, <2>1, <2>6, <3>1, TheNewest DEF RingOf, IsNewest, Candidates
    <3>3. Dist(L, b) \in 1..faults + 1
      BY <1>1, <1>2, <1>9, <2>6, <3>1 DEF RingOf, Near
    <3>4. Dist(L, b) # 0
      BY <1>9, <3>3
    <3>5. L # b
      BY <1>3, <3>2, <3>4, Dists
    <3>6. IsNewest(c, L)'
      BY <2>2, <3>2, <3>5 DEF IsNewest
    <3>7. FlashOK'
      BY EraseTypes DEF TInv
    <3>8. L = NewestBlock(c)'
      BY <1>3, <2>4, <3>6, <3>7, Finding DEF Finds
    <3>9. Dist(L, b) <= faults + 1
      BY <1>9, <3>3
    <3>10. Near(c)'
      BY <1>2, <1>4, <1>6, <3>8, <3>9 DEF Near
    <3>11. Candidates(c)' # {}
      BY <3>6 DEF IsNewest
    <3>12. QED
      BY <3>10, <3>11
  <2>7. QED
    BY <1>2, <1>11, <2>4, <2>5, <2>6 DEF RingOf
<1>12. QED
  BY <1>10, <1>11

LEMMA RingEraseFails == TInv /\ RInv /\ EraseFails => RInv'
<1> SUFFICES ASSUME TInv, RInv, EraseFails, NEW d \in CE PROVE RingOf(d)'
  BY DEF RInv
<1>1. PICK c, b : c = job.ce /\ b = NextBlock(job.next)
  OBVIOUS
<1>2. /\ job.stage = "erase" /\ faults' = faults + 1 /\ TryBlock(b)
      /\ flash' = flash /\ up' = up /\ ctx' = ctx
  BY <1>1 DEF EraseFails, ram
<1>3. job \in Job /\ c \in CE /\ job.next \in Block /\ b \in Block /\ job # NoJob
  BY <1>1, <1>2, JobTypes, Blocks DEF TInv
<1>4. job'.stage # "write" /\ (job'.stage = "erase" => job'.ce = c /\ job'.next = b)
  BY <1>1, <1>2, <1>3, Tries DEF NoJob
<1>5. RingOf(c) /\ RingOf(d) /\ faults \in Nat /\ up
  BY <1>3, Numbers DEF RInv
<1>6. CASE d # c
  <2>1. faults' \in Nat /\ faults' >= faults
    BY <1>2, <1>5
  <2>2. QED
    BY <1>1, <1>2, <1>4, <1>5, <1>6, <2>1, RingOther
<1>7. CASE d = c
  <2>1. /\ Candidates(c)' = Candidates(c) /\ NewestBlock(c)' = NewestBlock(c)
        /\ Sound(c)' /\ Current(c)
    BY <1>2, <1>3, <1>5, CEKept DEF RingOf
  <2>2. ctx[c].page # 1
    BY <1>2, <2>1 DEF Current
  <2>3. Current(c)'
    BY <1>2, <2>1, <2>2 DEF Current, Past
  <2>4. ASSUME faults' < 3
        PROVE  Candidates(c)' # {} /\ Near(c)'
    <3>1. faults < 2 /\ faults < 3
      BY <1>2, <1>5, <2>4
    <3>2. /\ Dist(NewestBlock(c), ctx[c].blk) <= faults
          /\ Dist(NewestBlock(c), job.next) \in 1..faults + 1
          /\ Candidates(c) # {}
      BY <1>1, <1>2, <1>5, <2>2, <3>1 DEF RingOf, Near
    <3>3. NewestBlock(c) \in Block /\ ctx[c].blk \in Block
      BY <1>3, <3>2, NewestBlocks DEF TInv, Candidates, Ctx
    <3>4. /\ Dist(NewestBlock(c), ctx[c].blk) \in 0..3
          /\ Dist(NewestBlock(c), job.next) < 3 =>
               Dist(NewestBlock(c), b) = Dist(NewestBlock(c), job.next) + 1
      BY <1>1, <1>3, <3>3, Dists
    <3>5. /\ Dist(NewestBlock(c), b) \in 1..faults' + 1
          /\ Dist(NewestBlock(c), ctx[c].blk) <= faults'
      BY <1>2, <1>5, <3>1, <3>2, <3>4
    <3>6. QED
      BY <1>2, <1>4, <2>1, <2>2, <3>2, <3>5 DEF Near
  <2>5. QED
    BY <1>7, <2>1, <2>3, <2>4 DEF RingOf
<1>8. QED
  BY <1>6, <1>7

(* A write after which the device is still open: it succeeds, or the next  *)
(* block is tried.                                                         *)
LEMMA RingWritten ==
  ASSUME TInv, RInv, job.stage = "write", NEW r \in BOOLEAN, Place(r), Advance,
         issued' = issued, up' = up,
         NEW c, c = job.ce, NEW b, b = ctx[c].blk,
         faults' \in {faults, faults + 1}, ~Used /\ ~r => faults' = faults + 1,
         job'.stage # "write",
         job'.stage = "erase" => job'.ce = c /\ job'.next = NextBlock(b)
  PROVE  RInv'
<1> SUFFICES ASSUME NEW d \in CE PROVE RingOf(d)'
  BY DEF RInv
<1>1. PICK p, s, x : p = ctx[c].page /\ s = flash[c][b] /\ x = flash'[c][b]
  OBVIOUS
<1>2. job # NoJob /\ up /\ faults \in Nat /\ job \in Job /\ c \in CE
  BY JobTypes, Numbers DEF TInv, NoJob
<1>3. RingOf(c) /\ RingOf(d) /\ Sound(c) /\ Current(c)
  BY <1>2 DEF RInv, RingOf
<1>4. FlashOK' /\ WriteCase(c, b, p, s, x, r)
  BY <1>1, <1>3, WriteCases
<1>5. /\ CtxIs(c, [dec |-> ctx[c].dec - 1, blk |-> b, page |-> p + 1])
      /\ [dec |-> ctx[c].dec - 1, blk |-> b, page |-> p + 1] \in Ctx
  BY <1>1, Advances
<1>6. /\ ctx'[c] = [dec |-> ctx[c].dec - 1, blk |-> b, page |-> p + 1]
      /\ \A e \in CE : e # c => ctx'[e] = ctx[e]
  BY <1>2, <1>5 DEF CtxIs, TInv
<1>7. ctx'[c].dec = ctx[c].dec - 1 /\ ctx'[c].blk = b /\ ctx'[c].page = p + 1
  BY <1>6
<1>8. faults' \in Nat /\ faults' >= faults /\ faults' <= faults + 1
  BY <1>2
<1>9. CASE d # c
  <2>1. flash'[d] = flash[d]
    BY <1>4, <1>9 DEF WriteCase
  <2>2. QED
    BY <1>2, <1>3, <1>6, <1>8, <1>9, <2>1, RingOther
<1>10. CASE d = c
  <2>1. /\ Sound(c)'
        /\ \A a \in Candidates(c)' : ctx[c].dec - 1 <= flash'[c][a][1].dec
        /\ s = <<>> /\ r => IsNewest(c, b)'
        /\ ~(s = <<>> /\ r) => Candidates(c)' = Candidates(c)
        /\ p + 1 <= Len(x) + 1 /\ Past(x, p + 1)
    BY <1>1, <1>3, WriteRing
  <2>2. p \in Nat /\ p >= 1 /\ Len(s) \in Nat /\ b \in Block /\ (Used <=> p <= Len(s))
    BY <1>4 DEF WriteCase
  <2>3. p + 1 # 1
    BY <2>2
  <2>4. Current(c)'
    BY <1>1, <1>7, <2>1, <2>3 DEF Current, Past
  <2>5. ASSUME faults' < 3
        PROVE  Candidates(c)' # {} /\ Near(c)'
    <3>1. faults < 3 /\ Candidates(c) # {} /\ Near(c)
      BY <1>2, <1>3, <1>8, <2>5 DEF RingOf
    <3>2. PICK N : N = NewestBlock(c)'
      OBVIOUS
    <3>3. /\ Candidates(c)' # {} /\ N \in Block
          /\ Dist(N, b) <= faults'
      <4>1. CASE s = <<>> /\ r
        <5>1. IsNewest(c, b)'
          BY <2>1, <4>1
        <5>2. b = N
          BY <1>2, <1>4, <2>1, <3>2, <5>1, Finding DEF Finds
        <5>3. Dist(N, b) = 0
          BY <2>2, <5>2, Dists
        <5>4. QED
          BY <1>8, <2>2, <5>1, <5>2, <5>3 DEF IsNewest
      <4>2. CASE ~(s = <<>> /\ r)
        <5>1. NewestBlock(c)' = NewestBlock(c)
          BY <1>1, <1>3, <3>1, <4>2, WriteNewest
        <5>2. N \in Block
          BY <1>2, <3>1, <3>2, <5>1, NewestBlocks DEF TInv, Candidates
        <5>3. Dist(N, b) \in 0..3
          BY <2>2, <5>2, Dists
        <5>4. Dist(N, b) <= IF p = 1 THEN faults + 1 ELSE faults
          BY <1>1, <3>1, <3>2, <5>1 DEF Near
        <5>5. p = 1 => s = <<>>
          BY <1>1, <1>3 DEF Current
        <5>6. p = 1 => faults' = faults + 1
          <6>1. p = 1 => Len(s) = 0 /\ ~r
            BY <4>2, <5>5
          <6>2. p = 1 => ~Used /\ ~r
            BY <2>2, <6>1
          <6>3. QED
            BY <6>2
        <5>7. Dist(N, b) <= faults'
          BY <1>2, <1>8, <5>3, <5>4, <5>6
        <5>8. QED
          BY <2>1, <3>1, <4>2, <5>2, <5>7
      <4>3. QED
        BY <4>1, <4>2
    <3>4. /\ Dist(N, b) \in 0..3
          /\ Dist(N, b) < 3 => Dist(N, NextBlock(b)) = Dist(N, b) + 1
      BY <2>2, <3>3, Dists
    <3>5. Dist(N, NextBlock(b)) \in 1..faults' + 1
      BY <1>8, <2>5, <3>3, <3>4
    <3>6. Near(c)'
      BY <1>7, <2>3, <3>2, <3>3, <3>5 DEF Near
    <3>7. QED
      BY <3>3, <3>6
  <2>6. QED
    BY <1>10, <2>1, <2>4, <2>5 DEF RingOf
<1>11. QED
  BY <1>9, <1>10

LEMMA RingWriteSucceeds ==
  ASSUME TInv, RInv, NEW r \in BOOLEAN, WriteSucceeds(r)
  PROVE  RInv'
<1>1. /\ job.stage = "write" /\ Place(r) /\ Advance /\ issued' = issued /\ up' = up
      /\ faults' = (IF r \/ Used THEN faults ELSE faults + 1) /\ job' = NoJob
  BY DEF WriteSucceeds
<1>2. faults' \in {faults, faults + 1} /\ (~Used /\ ~r => faults' = faults + 1)
  BY <1>1
<1>3. job'.stage = "none"
  BY <1>1 DEF NoJob
<1>4. QED
  BY <1>1, <1>2, <1>3, RingWritten

LEMMA RingWriteFails ==
  ASSUME TInv, RInv, NEW r \in BOOLEAN, WriteFails(r)
  PROVE  RInv'
<1>1. PICK c, b : c = job.ce /\ b = ctx[c].blk
  OBVIOUS
<1>2. /\ job.stage = "write" /\ Place(r) /\ Advance /\ issued' = issued /\ up' = up
      /\ faults' = (IF Used THEN faults ELSE faults + 1) /\ TryBlock(NextBlock(b))
  BY <1>1 DEF WriteFails
<1>3. job \in Job /\ c \in CE /\ b \in Block /\ NextBlock(b) \in Block
  BY <1>1, <1>2, JobTypes, Blocks DEF TInv, Ctx
<1>4. /\ job'.stage # "write"
      /\ job'.stage = "erase" => job'.ce = c /\ job'.next = NextBlock(b)
  BY <1>1, <1>2, <1>3, Tries DEF NoJob
<1>5. faults' \in {faults, faults + 1} /\ (~Used /\ ~r => faults' = faults + 1)
  BY <1>2
<1>6. QED
  BY <1>1, <1>2, <1>4, <1>5, RingWritten

LEMMA RingWriteCut ==
  ASSUME TInv, RInv, NEW r \in BOOLEAN, WriteCut(r)
  PROVE  RInv'
<1> SUFFICES ASSUME NEW d \in CE PROVE RingOf(d)'
  BY DEF RInv
<1>1. PICK c, b, p : c = job.ce /\ b = ctx[c].blk /\ p = ctx[c].page
  OBVIOUS
<1>2. /\ job.stage = "write" /\ Place(r) /\ issued' = issued /\ up' = FALSE
      /\ faults' = faults
  BY DEF WriteCut, MemoryLost
<1>3. job # NoJob /\ up /\ faults \in Nat /\ c \in CE
  BY <1>1, <1>2, JobTypes, Numbers DEF TInv, NoJob
<1>4. RingOf(c) /\ RingOf(d) /\ Sound(c) /\ Current(c)
  BY <1>3 DEF RInv, RingOf
<1>5. FlashOK' /\ WriteCase(c, b, p, flash[c][b], flash'[c][b], r)
  BY <1>1, <1>2, <1>4, WriteCases
<1>6. CASE d # c
  <2>1. flash'[d] = flash[d]
    BY <1>5, <1>6 DEF WriteCase
  <2>2. QED
    BY <1>2, <1>4, <2>1, RingLost
<1>7. CASE d = c
  <2>1. /\ Sound(c)'
        /\ flash[c][b] = <<>> /\ r => IsNewest(c, b)'
        /\ ~(flash[c][b] = <<>> /\ r) => Candidates(c)' = Candidates(c)
    BY <1>1, <1>2, <1>4, WriteRing
  <2>2. faults < 3 => Candidates(c)' # {}
    BY <1>4, <2>1 DEF RingOf, IsNewest
  <2>3. QED
    BY <1>2, <1>7, <2>1, <2>2 DEF RingOf
<1>8. QED
  BY <1>6, <1>7

LEMMA RingNext == TInv /\ RInv /\ [Next]_vars => RInv'
<1> SUFFICES ASSUME TInv, RInv, [Next]_vars PROVE RInv'
  OBVIOUS
<1>1. CASE Open
  BY <1>1, RingOpen
<1>2. CASE Crash
  <2>1. flash' = flash /\ up' = FALSE /\ faults' = faults
    BY <1>2 DEF Crash, MemoryLost
  <2>2. QED
    BY <2>1, RingLost DEF RInv
<1>3. CASE WriteContext
  <2>1. PICK c : c = version % NumCE
    OBVIOUS
  <2>2. c \in CE
    BY <2>1, VflAssumption DEF TInv, CE
  <2>3. /\ up /\ job = NoJob /\ StartJob(c, TRUE)
        /\ flash' = flash /\ up' = up /\ ctx' = ctx /\ faults' = faults
    BY <1>3, <2>1 DEF WriteContext
  <2>4. QED
    BY <2>2, <2>3, RingStart
<1>4. ASSUME NEW c \in CE, StoreForBadBlock(c)
      PROVE  RInv'
  <2>1. /\ up /\ job = NoJob /\ StartJob(c, FALSE)
        /\ flash' = flash /\ up' = up /\ ctx' = ctx /\ faults' = faults
    BY <1>4 DEF StoreForBadBlock, ram
  <2>2. QED
    BY <2>1, RingStart
<1>5. CASE Erase
  BY <1>5, RingErase
<1>6. CASE EraseFails
  BY <1>6, RingEraseFails
<1>7. ASSUME NEW r \in BOOLEAN, WriteSucceeds(r)
      PROVE  RInv'
  BY <1>7, RingWriteSucceeds
<1>8. ASSUME NEW r \in BOOLEAN, WriteFails(r)
      PROVE  RInv'
  BY <1>8, RingWriteFails
<1>9. ASSUME NEW r \in BOOLEAN, WriteCut(r)
      PROVE  RInv'
  BY <1>9, RingWriteCut
<1>10. CASE UNCHANGED vars
  <2>1. ASSUME NEW c \in CE PROVE RingOf(c)'
    <3>1. flash' = flash /\ up' = up /\ ctx' = ctx /\ faults' = faults /\ job' = job
      BY <1>10 DEF vars, ram
    <3>2. RingOf(c)
      BY DEF RInv
    <3>3. /\ Candidates(c)' = Candidates(c) /\ NewestBlock(c)' = NewestBlock(c)
          /\ Sound(c)'
      BY <3>1, <3>2, CEKept DEF RingOf
    <3>4. QED
      BY <3>1, <3>2, <3>3 DEF RingOf, Current, Past, Near
  <2>2. QED
    BY <2>1 DEF RInv
<1>11. QED
  BY <1>1, <1>2, <1>3, <1>4, <1>5, <1>6, <1>7, <1>8, <1>9, <1>10 DEF Next

(* The blocks of every ring are sound, and a store is never further along  *)
(* its ring than operations have failed, wherever the power is cut         *)
(* (vsvfl_store_vfl_cxt, vfl_vsvfl_open).                                  *)
THEOREM SpecRing == Spec => [](TInv /\ RInv)
<1>1. Init => TInv /\ RInv
  BY InitTypes, RingInit
<1>2. TInv /\ RInv /\ [Next]_vars => TInv' /\ RInv'
  BY NextTypes, RingNext
<1>3. QED
  BY <1>1, <1>2, PTL DEF Spec

(* As long as fewer than three operations of the NAND have failed, every   *)
(* CE has a context that open can read, however often the power fails and  *)
(* whichever copies it tears (vsvfl_store_vfl_cxt, vfl_vsvfl_open).        *)
THEOREM SpecAlwaysOpenable == Spec => []AlwaysOpenable
<1>1. RInv => AlwaysOpenable
  BY DEF RInv, RingOf, AlwaysOpenable, Openable
<1>2. QED
  BY <1>1, SpecRing, PTL

(* Whatever has failed, the blocks of a ring begin with different usn_dec, *)
(* none of them lower than that of the context in memory: open's lowest    *)
(* one is unambiguous (vfl_vsvfl_open).                                    *)
THEOREM SpecFirstPagesOrdered == Spec => []FirstPagesOrdered
<1>1. RInv => FirstPagesOrdered
  BY DEF RInv, RingOf, Sound, Current, FirstPagesOrdered
<1>2. QED
  BY <1>1, SpecRing, PTL

(* What open would find on a CE stays until a newer context is written     *)
(* that it finds instead.                                                  *)
KeepsFound ==
  faults < 3 =>
    \A c \in CE : \/ NewestEntry(c)' = NewestEntry(c)
                  \/ /\ job.stage = "write" /\ c = job.ce
                     /\ NewestEntry(c)' = NewEntry

LEMMA WriteKeeps ==
  ASSUME TInv, RInv, job.stage = "write", NEW r \in BOOLEAN, Place(r), issued' = issued
  PROVE  KeepsFound
<1> SUFFICES ASSUME faults < 3, NEW d \in CE
             PROVE  \/ NewestEntry(d)' = NewestEntry(d)
                    \/ d = job.ce /\ NewestEntry(d)' = NewEntry
  BY DEF KeepsFound
<1>1. PICK c, b, p : c = job.ce /\ b = ctx[c].blk /\ p = ctx[c].page
  OBVIOUS
<1>2. job # NoJob /\ up /\ c \in CE
  BY <1>1, JobTypes, Numbers DEF TInv, NoJob
<1>3. Sound(c) /\ Current(c) /\ Candidates(c) # {}
  BY <1>2 DEF RInv, RingOf
<1>4. WriteCase(c, b, p, flash[c][b], flash'[c][b], r)
  BY <1>1, <1>3, WriteCases
<1>5. CASE d # c
  BY <1>4, <1>5, CEKept DEF WriteCase
<1>6. CASE d = c /\ flash[c][b] = <<>> /\ r
  BY <1>1, <1>3, <1>6, WriteRing
<1>7. CASE d = c /\ ~(flash[c][b] = <<>> /\ r)
  BY <1>1, <1>3, <1>7, WriteNewest
<1>8. QED
  BY <1>5, <1>6, <1>7

LEMMA EraseKeeps == TInv /\ RInv /\ Erase => KeepsFound
<1> SUFFICES ASSUME TInv, RInv, Erase, faults < 3, NEW d \in CE
             PROVE  NewestEntry(d)' = NewestEntry(d)
  BY DEF KeepsFound
<1>1. PICK c, b : c = job.ce /\ b = job.next
  OBVIOUS
<1>2. job.stage = "erase" /\ flash' = [flash EXCEPT ![c][b] = <<>>]
  BY <1>1 DEF Erase
<1>3. job \in Job /\ c \in CE /\ b \in Block /\ up /\ faults \in Nat
  BY <1>1, <1>2, JobTypes, Numbers DEF TInv, NoJob
<1>4. flash \in [CE -> [Block -> Seq(Ent)]] /\ FlashOK
  BY DEF TInv, FlashOK
<1>5. /\ \A a \in Block : a # b => flash'[c][a] = flash[c][a]
      /\ \A e \in CE : e # c => flash'[e] = flash[e]
  BY <1>2, <1>3, <1>4
<1>6. CASE d # c
  BY <1>5, <1>6, CEKept
<1>7. CASE d = c
  <2>1. PICK L, s : L = NewestBlock(c) /\ s = flash[c][L]
    OBVIOUS
  <2>2. Sound(c) /\ Candidates(c) # {} /\ Near(c)
    BY <1>3 DEF RInv, RingOf
  <2>3. IsNewest(c, L) /\ L \in Block
    BY <1>3, <1>4, <2>1, <2>2, TheNewest DEF IsNewest, Candidates
  <2>4. Dist(L, b) # 0
    BY <1>1, <1>2, <1>3, <2>1, <2>2 DEF Near
  <2>5. flash'[c][L] = s
    BY <1>3, <1>5, <2>1, <2>3, <2>4, Dists
  <2>6. RingOf(c)' /\ FlashOK'
    BY <1>3, RingErase, EraseTypes DEF RInv, TInv
  <2>7. Sound(c)'
    BY <2>6 DEF RingOf
  <2>8. IsNewest(c, L)'
    <3>1. \A a \in Candidates(c)' : a \in Candidates(c) /\ flash'[c][a] = flash[c][a]
      <4> TAKE a \in Candidates(c)'
      <4>1. a \in Block /\ flash'[c][a] # <<>>
        BY DEF Candidates
      <4>2. flash'[c][b] = <<>>
        BY <1>2, <1>3, <1>4
      <4>3. flash'[c][a] = flash[c][a]
        BY <1>5, <4>1, <4>2
      <4>4. QED
        BY <4>1, <4>3 DEF Candidates
    <3>2. L \in Candidates(c)'
      BY <2>1, <2>3, <2>5 DEF IsNewest, Candidates
    <3>3. QED
      BY <2>3, <3>1, <3>2 DEF IsNewest
  <2>9. PICK k \in 1..Len(s) :
          /\ NewestEntry(c) = s[k]
          /\ \A i \in 1..k : s[i].readable
          /\ k < Len(s) => ~s[k + 1].readable
    BY <1>3, <1>4, <2>1, <2>2, NewestEntries
  <2>10. \A m \in 1..Len(s) :
           /\ \A i \in 1..m : s[i].readable
           /\ m < Len(s) => ~s[m + 1].readable
           => NewestEntry(c)' = s[m]
    BY <1>3, <2>5, <2>6, <2>7, <2>8, Finding DEF Finds
  <2>11. NewestEntry(c)' = s[k]
    BY <2>9, <2>10
  <2>12. QED
    BY <1>7, <2>9, <2>11
<1>8. QED
  BY <1>6, <1>7

LEMMA NextKeeps == TInv /\ RInv /\ [Next]_vars => KeepsFound
<1> SUFFICES ASSUME TInv, RInv, [Next]_vars PROVE KeepsFound
  OBVIOUS
<1>1. ASSUME flash' = flash
      PROVE  KeepsFound
  BY <1>1, CEKept DEF KeepsFound
<1>2. CASE Open \/ Crash \/ WriteContext \/ EraseFails \/ UNCHANGED vars
  BY <1>1, <1>2 DEF Open, Crash, WriteContext, EraseFails, vars
<1>3. CASE \E c \in CE : StoreForBadBlock(c)
  BY <1>1, <1>3 DEF StoreForBadBlock
<1>4. CASE Erase
  BY <1>4, EraseKeeps
<1>5. ASSUME NEW r \in BOOLEAN, WriteSucceeds(r) \/ WriteFails(r) \/ WriteCut(r)
      PROVE  KeepsFound
  <2>1. job.stage = "write" /\ Place(r) /\ issued' = issued
    BY <1>5 DEF WriteSucceeds, WriteFails, WriteCut
  <2>2. QED
    BY <2>1, WriteKeeps
<1>6. QED
  BY <1>2, <1>3, <1>4, <1>5 DEF Next

(* As long as fewer than three operations of the NAND have failed, no step *)
(* of a store, of a reboot or of the power failing takes what open would   *)
(* find on a CE back to an older context (vsvfl_store_vfl_cxt,             *)
(* vfl_vsvfl_open).                                                        *)
THEOREM SpecNothingFoundIsLost == Spec => NothingFoundIsLost
<1>1. TInv /\ RInv /\ [Next]_vars => KeepsFound
  BY NextKeeps
<1>2. KeepsFound =>
        (faults < 3 =>
           \A c \in CE : \/ NewestEntry(c)' = NewestEntry(c)
                         \/ /\ job.stage = "write" /\ c = job.ce
                            /\ NewestEntry(c)' = NewEntry)
  BY DEF KeepsFound
<1>3. QED
  BY <1>1, <1>2, SpecRing, PTL DEF Spec, NothingFoundIsLost
=============================================================================
