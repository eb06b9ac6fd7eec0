---------------------------- MODULE EventsProofs ----------------------------
(***************************************************************************)
(* Theorems about the timed events, for any set of events, any timeouts,   *)
(* any period and any largest count of the timers.                         *)
(***************************************************************************)
EXTENDS Events, WellFoundedInduction, SequenceTheorems, TLAPS

----------------------------------------------------------------------------
(* Sequences.                                                              *)

LEMMA LeastIndex ==
  ASSUME NEW S, S \subseteq Nat, S # {}
  PROVE  Min(S) \in S /\ \A y \in S : Min(S) <= y
<1>1. PICK x \in S : \A y \in S : ~(<<y, x>> \in OpToRel(<, Nat))
  BY NatLessThanWellFounded, WFMin
<1>2. OpToRel(<, Nat) = {r \in Nat \X Nat : r[1] < r[2]}
  BY DEF OpToRel
<1>3. \A y \in S : x <= y
  <2> TAKE y \in S
  <2>1. x \in Nat /\ y \in Nat /\ ~(<<y, x>> \in {r \in Nat \X Nat : r[1] < r[2]})
    BY <1>1, <1>2
  <2>2. ~(y < x)
    BY <2>1
  <2>3. QED
    BY <2>1, <2>2
<1>4. QED
  BY <1>3 DEF Min

(* The first element of a sequence that is e.                              *)
IndexOf(s, e) == SelectInSeq(s, LAMBDA v : v = e)

LEMMA IndexFacts ==
  ASSUME NEW E, NEW s \in Seq(E), NEW e, NEW i \in 1..Len(s), s[i] = e
  PROVE  IndexOf(s, e) \in 1..Len(s) /\ s[IndexOf(s, e)] = e
<1> DEFINE I == {j \in 1..Len(s) : s[j] = e}
<1>1. IndexOf(s, e) = IF I # {} THEN Min(I) ELSE 0
  BY DEF IndexOf, SelectInSeq
<1>2. I \subseteq Nat /\ I # {}
  OBVIOUS
<1>3. Min(I) \in I
  BY <1>2, LeastIndex
<1>4. QED
  BY <1>1, <1>2, <1>3

(* Removing an element of a sequence that has it once: what is left, and   *)
(* how its indices correspond.                                             *)
Once(s) == \A i, j \in 1..Len(s) : i # j => s[i] # s[j]

LEMMA Removed ==
  ASSUME NEW E, NEW s \in Seq(E), NEW e, NEW k \in 1..Len(s), s[k] = e, Once(s),
         NEW r, r = RemoveFirst(s, e)
  PROVE  /\ r \in Seq(E) /\ Len(r) = Len(s) - 1
         /\ \A i \in 1..Len(r) : r[i] = IF i < k THEN s[i] ELSE s[i + 1]
<1>1. IndexOf(s, e) = k
  BY IndexFacts DEF Once
<1>2. r = RemoveAt(s, IndexOf(s, e))
  BY DEF RemoveFirst, IndexOf
<1> DEFINE a == SubSeq(s, 1, k - 1)
           b == SubSeq(s, k + 1, Len(s))
<1>3. r = a \o b
  BY <1>1, <1>2 DEF RemoveAt
<1>4. /\ a \in Seq(E) /\ Len(a) = k - 1
      /\ \A i \in 1..k - 1 : a[i] = s[i]
  <2>1. \A i \in 1..k - 1 : s[i] \in E
    OBVIOUS
  <2>2. 1 \in Int /\ k - 1 \in Int
    OBVIOUS
  <2>3. /\ a \in Seq(E)
        /\ Len(a) = IF 1 <= k - 1 THEN (k - 1) - 1 + 1 ELSE 0
        /\ \A i \in 1..(k - 1) - 1 + 1 : a[i] = s[1 + i - 1]
    BY <2>1, <2>2, SubSeqProperties
  <2> HIDE DEF a
  <2>4. QED
    BY <2>3
<1>5. /\ b \in Seq(E) /\ Len(b) = Len(s) - k
      /\ \A i \in 1..Len(s) - k : b[i] = s[i + k]
  <2>1. \A i \in k + 1..Len(s) : s[i] \in E
    OBVIOUS
  <2>2. Len(s) \in Int /\ k + 1 \in Int
    OBVIOUS
  <2>3. /\ b \in Seq(E)
        /\ Len(b) = IF k + 1 <= Len(s) THEN Len(s) - (k + 1) + 1 ELSE 0
        /\ \A i \in 1..Len(s) - (k + 1) + 1 : b[i] = s[(k + 1) + i - 1]
    BY <2>1, <2>2, SubSeqProperties
  <2> HIDE DEF b
  <2>4. QED
    BY <2>3
<1> HIDE DEF a, b
<1>6. /\ a \o b \in Seq(E) /\ Len(a \o b) = Len(a) + Len(b)
      /\ \A i \in 1..Len(a) + Len(b) : (a \o b)[i] =
           IF i <= Len(a) THEN a[i] ELSE b[i - Len(a)]
  BY <1>4, <1>5, ConcatProperties
<1>7. QED
  BY <1>3, <1>4, <1>5, <1>6, SMTT(30)

LEMMA NothingRemoved ==
  ASSUME NEW s, NEW e, \A i \in 1..Len(s) : s[i] # e
  PROVE  RemoveFirst(s, e) = s
  BY DEF RemoveFirst

LEMMA Inserted ==
  ASSUME NEW E, NEW s \in Seq(E), NEW e \in E, NEW k \in 1..Len(s) + 1,
         NEW r, r = InsertAt(s, k, e)
  PROVE  /\ r \in Seq(E) /\ Len(r) = Len(s) + 1
         /\ \A i \in 1..Len(r) :
              r[i] = IF i < k THEN s[i] ELSE IF i = k THEN e ELSE s[i - 1]
<1> DEFINE a == SubSeq(s, 1, k - 1)
           b == SubSeq(s, k, Len(s))
           m == <<e>>
           c == a \o m
<1>1. r = c \o b
  BY DEF InsertAt
<1>2. /\ a \in Seq(E) /\ Len(a) = k - 1
      /\ \A i \in 1..k - 1 : a[i] = s[i]
  <2>1. \A i \in 1..k - 1 : s[i] \in E
    OBVIOUS
  <2>2. 1 \in Int /\ k - 1 \in Int
    OBVIOUS
  <2>3. /\ a \in Seq(E)
        /\ Len(a) = IF 1 <= k - 1 THEN (k - 1) - 1 + 1 ELSE 0
        /\ \A i \in 1..(k - 1) - 1 + 1 : a[i] = s[1 + i - 1]
    BY <2>1, <2>2, SubSeqProperties
  <2> HIDE DEF a
  <2>4. QED
    BY <2>3
<1>3. /\ b \in Seq(E) /\ Len(b) = Len(s) - k + 1
      /\ \A i \in 1..Len(s) - k + 1 : b[i] = s[i + k - 1]
  <2>1. \A i \in k..Len(s) : s[i] \in E
    OBVIOUS
  <2>2. Len(s) \in Int /\ k \in Int
    OBVIOUS
  <2>3. /\ b \in Seq(E)
        /\ Len(b) = IF k <= Len(s) THEN Len(s) - k + 1 ELSE 0
        /\ \A i \in 1..Len(s) - k + 1 : b[i] = s[k + i - 1]
    BY <2>1, <2>2, SubSeqProperties
  <2> HIDE DEF b
  <2>4. QED
    BY <2>3
<1>4. m \in Seq(E) /\ Len(m) = 1 /\ m[1] = e
  OBVIOUS
<1> HIDE DEF a, b, m
<1>5. /\ c \in Seq(E) /\ Len(c) = Len(a) + Len(m)
      /\ \A i \in 1..Len(a) + Len(m) : c[i] =
           IF i <= Len(a) THEN a[i] ELSE m[i - Len(a)]
  BY <1>2, <1>4, ConcatProperties
<1> HIDE DEF c
<1>6. /\ c \o b \in Seq(E) /\ Len(c \o b) = Len(c) + Len(b)
      /\ \A i \in 1..Len(c) + Len(b) : (c \o b)[i] =
           IF i <= Len(c) THEN c[i] ELSE b[i - Len(c)]
  <2>1. c \in Seq(E) /\ b \in Seq(E)
    BY <1>3, <1>5
  <2>2. QED
    BY <2>1, ConcatProperties
<1>7. Len(c) = k /\ \A i \in 1..k : c[i] = IF i < k THEN s[i] ELSE e
  BY <1>2, <1>4, <1>5
<1>8. QED
  BY <1>1, <1>3, <1>6, <1>7

(* Where event_add inserts.                                                *)
LEMMA PositionFacts ==
  ASSUME NEW q \in Seq(Event), NEW t, NEW k, k = Position(q, t)
  PROVE  /\ k \in 1..Len(q) + 1
         /\ \A i \in 1..Len(q) : i < k => ~(due[q[i]] > t)
         /\ k <= Len(q) => due[q[k]] > t
<1> DEFINE I == {i \in 1..Len(q) : due[q[i]] > t}
           l == SelectInSeq(q, LAMBDA e : due[e] > t)
<1>1. l = IF I # {} THEN Min(I) ELSE 0
  BY DEF SelectInSeq
<1>2. k = IF l = 0 THEN Len(q) + 1 ELSE l
  BY DEF Position
<1>3. I \subseteq Nat /\ \A i \in I : i # 0
  OBVIOUS
<1>4. CASE I = {}
  <2>1. k = Len(q) + 1
    BY <1>1, <1>2, <1>4
  <2>2. \A i \in 1..Len(q) : ~(due[q[i]] > t)
    BY <1>4
  <2>3. QED
    BY <2>1, <2>2
<1>5. CASE I # {}
  <2>1. Min(I) \in I /\ \A y \in I : Min(I) <= y
    BY <1>3, <1>5, LeastIndex
  <2>2. k = Min(I)
    BY <1>1, <1>2, <1>3, <1>5, <2>1
  <2>3. k \in I /\ \A y \in I : k <= y
    BY <2>1, <2>2
  <2>4. \A i \in 1..Len(q) : i < k => i \notin I
    BY <2>3
  <2>5. QED
    BY <2>3, <2>4
<1>6. QED
  BY <1>4, <1>5

(* The order of a sequence: x comes somewhere before y.                    *)
Before(s, x, y) == \E i, j \in 1..Len(s) : i < j /\ s[i] = x /\ s[j] = y

LEMMA SetOfSeq ==
  ASSUME NEW E, NEW s \in Seq(E)
  PROVE  ToSet(s) = {s[i] : i \in 1..Len(s)} /\ ToSet(s) \subseteq E
  BY DEF ToSet

LEMMA RemovedOrder ==
  ASSUME NEW E, NEW s \in Seq(E), NEW e, Once(s), NEW r, r = RemoveFirst(s, e)
  PROVE  /\ r \in Seq(E) /\ ToSet(r) = ToSet(s) \ {e}
         /\ \A x, y : Before(r, x, y) <=> Before(s, x, y) /\ x # e /\ y # e
<1>1. CASE \A i \in 1..Len(s) : s[i] # e
  <2>1. r = s
    BY <1>1, NothingRemoved
  <2>2. ToSet(s) = ToSet(s) \ {e}
    BY <1>1, SetOfSeq
  <2>3. QED
    BY <1>1, <2>1, <2>2 DEF Before
<1>2. CASE \E i \in 1..Len(s) : s[i] = e
  <2>1. PICK k \in 1..Len(s) : s[k] = e
    BY <1>2
  <2>2. /\ r \in Seq(E) /\ Len(r) = Len(s) - 1
        /\ \A i \in 1..Len(r) : r[i] = IF i < k THEN s[i] ELSE s[i + 1]
    BY <2>1, Removed
  <2>3. \A i \in 1..Len(s) : i # k => s[i] # e
    BY <2>1 DEF Once
  <2>4. \A i \in 1..Len(r) : \E j \in 1..Len(s) : j # k /\ r[i] = s[j]
    <3> TAKE i \in 1..Len(r)
    <3>1. CASE i < k
      BY <2>2, <3>1
    <3>2. CASE ~(i < k)
      <4>1. i + 1 \in 1..Len(s) /\ i + 1 # k /\ r[i] = s[i + 1]
        BY <2>2, <3>2
      <4>2. QED
        BY <4>1
    <3>3. QED
      BY <3>1, <3>2
  <2>5. \A j \in 1..Len(s) : j # k => \E i \in 1..Len(r) : r[i] = s[j]
    <3> SUFFICES ASSUME NEW j \in 1..Len(s), j # k
                 PROVE  \E i \in 1..Len(r) : r[i] = s[j]
      OBVIOUS
    <3>1. CASE j < k
      BY <2>2, <3>1
    <3>2. CASE j > k
      <4>1. j - 1 \in 1..Len(r) /\ ~(j - 1 < k) /\ (j - 1) + 1 = j
        BY <2>2, <3>2
      <4>2. QED
        BY <2>2, <4>1
    <3>3. QED
      BY <3>1, <3>2
  <2>6. ToSet(r) = ToSet(s) \ {e}
    <3>1. ToSet(r) = {r[i] : i \in 1..Len(r)} /\ ToSet(s) = {s[i] : i \in 1..Len(s)}
      BY <2>2, SetOfSeq
    <3>2. \A x \in ToSet(r) : x \in ToSet(s) /\ x # e
      BY <2>3, <2>4, <3>1
    <3>3. \A x \in ToSet(s) : x # e => x \in ToSet(r)
      BY <2>1, <2>5, <3>1
    <3>4. QED
      BY <3>2, <3>3
  <2>7. ASSUME NEW x, NEW y, Before(r, x, y)
        PROVE  Before(s, x, y) /\ x # e /\ y # e
    <3>1. PICK i \in 1..Len(r), j \in 1..Len(r) : i < j /\ r[i] = x /\ r[j] = y
      BY <2>7 DEF Before
    <3> DEFINE a == IF i < k THEN i ELSE i + 1
               b == IF j < k THEN j ELSE j + 1
    <3>2. a \in 1..Len(s) /\ b \in 1..Len(s) /\ a < b /\ a # k /\ b # k
      BY <2>2, <3>1
    <3>3. s[a] = x /\ s[b] = y
      BY <2>2, <3>1
    <3> HIDE DEF a, b
    <3>4. QED
      BY <2>3, <3>2, <3>3 DEF Before
  <2>8. ASSUME NEW x, NEW y, Before(s, x, y), x # e, y # e
        PROVE  Before(r, x, y)
    <3>1. PICK i \in 1..Len(s), j \in 1..Len(s) : i < j /\ s[i] = x /\ s[j] = y
      BY <2>8 DEF Before
    <3> DEFINE a == IF i < k THEN i ELSE i - 1
               b == IF j < k THEN j ELSE j - 1
    <3>2. i # k /\ j # k
      BY <2>1, <2>8, <3>1
    <3>3. a \in 1..Len(r) /\ b \in 1..Len(r) /\ a < b
      BY <2>2, <3>1, <3>2
    <3>4. r[a] = x /\ r[b] = y
      <4>1. r[a] = s[i]
        BY <2>2, <3>2, <3>3
      <4>2. r[b] = s[j]
        <5>1. CASE j < k
          BY <2>2, <3>3, <5>1
        <5>2. CASE j > k
          <6>1. b = j - 1 /\ ~(b < k) /\ b + 1 = j
            BY <5>2
          <6>2. QED
            BY <2>2, <3>3, <6>1
        <5>3. QED
          BY <3>2, <5>1, <5>2
      <4>3. QED
        BY <3>1, <4>1, <4>2
    <3> HIDE DEF a, b
    <3>5. QED
      BY <3>3, <3>4 DEF Before
  <2>9. QED
    BY <2>2, <2>6, <2>7, <2>8
<1>3. QED
  BY <1>1, <1>2

LEMMA InsertedOrder ==
  ASSUME NEW E, NEW s \in Seq(E), NEW e \in E, NEW k \in 1..Len(s) + 1,
         NEW r, r = InsertAt(s, k, e)
  PROVE  /\ r \in Seq(E) /\ ToSet(r) = ToSet(s) \cup {e} /\ r # <<>>
         /\ \A x, y : Before(r, x, y) =>
              \/ Before(s, x, y)
              \/ y = e /\ \E i \in 1..Len(s) : i < k /\ s[i] = x
              \/ x = e /\ \E i \in 1..Len(s) : i >= k /\ s[i] = y
<1>1. /\ r \in Seq(E) /\ Len(r) = Len(s) + 1
      /\ \A i \in 1..Len(r) :
           r[i] = IF i < k THEN s[i] ELSE IF i = k THEN e ELSE s[i - 1]
  BY Inserted
<1>2. r # <<>>
  BY <1>1
<1>3. \A i \in 1..Len(r) : r[i] = e \/ \E j \in 1..Len(s) : r[i] = s[j]
  <2> TAKE i \in 1..Len(r)
  <2>1. CASE i < k
    BY <1>1, <2>1
  <2>2. CASE i = k
    BY <1>1, <2>2
  <2>3. CASE i > k
    <3>1. i - 1 \in 1..Len(s) /\ r[i] = s[i - 1]
      BY <1>1, <2>3
    <3>2. QED
      BY <3>1
  <2>4. QED
    BY <2>1, <2>2, <2>3
<1>4. \A j \in 1..Len(s) : \E i \in 1..Len(r) : r[i] = s[j]
  <2> TAKE j \in 1..Len(s)
  <2>1. CASE j < k
    BY <1>1, <2>1
  <2>2. CASE ~(j < k)
    <3>1. j + 1 \in 1..Len(r) /\ r[j + 1] = s[(j + 1) - 1] /\ (j + 1) - 1 = j
      BY <1>1, <2>2
    <3>2. QED
      BY <3>1
  <2>3. QED
    BY <2>1, <2>2
<1>5. k \in 1..Len(r) /\ r[k] = e
  BY <1>1
<1>6. ToSet(r) = ToSet(s) \cup {e}
  <2>1. ToSet(r) = {r[i] : i \in 1..Len(r)} /\ ToSet(s) = {s[i] : i \in 1..Len(s)}
    BY <1>1, SetOfSeq
  <2>2. \A x \in ToSet(r) : x \in ToSet(s) \/ x = e
    BY <1>3, <2>1
  <2>3. e \in ToSet(r) /\ \A x \in ToSet(s) : x \in ToSet(r)
    BY <1>4, <1>5, <2>1
  <2>4. QED
    BY <2>2, <2>3
<1>7. ASSUME NEW x, NEW y, Before(r, x, y)
      PROVE  \/ Before(s, x, y)
             \/ y = e /\ \E i \in 1..Len(s) : i < k /\ s[i] = x
             \/ x = e /\ \E i \in 1..Len(s) : i >= k /\ s[i] = y
  <2>1. PICK i \in 1..Len(r), j \in 1..Len(r) : i < j /\ r[i] = x /\ r[j] = y
    BY <1>7 DEF Before
  <2>2. CASE i = k
    <3>1. j - 1 \in 1..Len(s) /\ j - 1 >= k /\ r[j] = s[j - 1]
      BY <1>1, <2>1, <2>2
    <3>2. QED
      BY <1>5, <2>1, <2>2, <3>1
  <2>3. CASE j = k
    <3>1. i \in 1..Len(s) /\ i < k /\ r[i] = s[i]
      BY <1>1, <2>1, <2>3
    <3>2. QED
      BY <1>5, <2>1, <2>3, <3>1
  <2>4. CASE i # k /\ j # k
    <3> DEFINE a == IF i < k THEN i ELSE i - 1
               b == IF j < k THEN j ELSE j - 1
    <3>1. a \in 1..Len(s) /\ b \in 1..Len(s) /\ a < b
      BY <1>1, <2>1, <2>4
    <3>2. r[i] = s[a] /\ r[j] = s[b]
      BY <1>1, <2>4
    <3> HIDE DEF a, b
    <3>3. QED
      BY <2>1, <3>1, <3>2 DEF Before
  <2>5. QED
    BY <2>2, <2>3, <2>4
<1>8. QED
  BY <1>1, <1>2, <1>6, <1>7

LEMMA AppendedOrder ==
  ASSUME NEW E, NEW s \in Seq(E), NEW e \in E
  PROVE  /\ Append(s, e) \in Seq(E) /\ ToSet(Append(s, e)) = ToSet(s) \cup {e}
         /\ \A x, y : Before(Append(s, e), x, y) <=>
              Before(s, x, y) \/ (y = e /\ x \in ToSet(s))
<1> DEFINE r == Append(s, e)
           n == Len(s)
<1>1. /\ r \in Seq(E) /\ Len(r) = n + 1 /\ r[n + 1] = e
      /\ n \in Nat /\ \A i \in 1..n : r[i] = s[i]
  OBVIOUS
<1> HIDE DEF r
<1>2. \A i \in 1..n + 1 : i \in 1..n \/ i = n + 1
  BY <1>1
<1>3. ToSet(r) = ToSet(s) \cup {e}
  <2>1. ToSet(r) = {r[i] : i \in 1..n + 1}
    BY <1>1, SetOfSeq
  <2>2. QED
    BY <1>1, <1>2, <2>1, SetOfSeq
<1>4. ASSUME NEW x, NEW y
      PROVE  Before(r, x, y) <=> Before(s, x, y) \/ (y = e /\ x \in ToSet(s))
  <2>1. ASSUME Before(r, x, y)
        PROVE  Before(s, x, y) \/ (y = e /\ x \in ToSet(s))
    <3>1. PICK i \in 1..n + 1, j \in 1..n + 1 : i < j /\ r[i] = x /\ r[j] = y
      BY <1>1, <2>1 DEF Before
    <3>2. i \in 1..n /\ x = s[i]
      BY <1>1, <3>1
    <3>3. CASE j \in 1..n
      BY <1>1, <3>1, <3>2, <3>3 DEF Before
    <3>4. CASE j = n + 1
      BY <1>1, <3>1, <3>2, <3>4, SetOfSeq
    <3>5. QED
      BY <1>2, <3>3, <3>4
  <2>2. ASSUME Before(s, x, y)
        PROVE  Before(r, x, y)
    <3>1. PICK i \in 1..n, j \in 1..n : i < j /\ s[i] = x /\ s[j] = y
      BY <2>2 DEF Before
    <3>2. i \in 1..Len(r) /\ j \in 1..Len(r) /\ r[i] = x /\ r[j] = y
      BY <1>1, <3>1
    <3>3. QED
      BY <3>1, <3>2 DEF Before
  <2>3. ASSUME y = e, x \in ToSet(s)
        PROVE  Before(r, x, y)
    <3>1. PICK i \in 1..n : s[i] = x
      BY <2>3, SetOfSeq
    <3>2. i \in 1..Len(r) /\ n + 1 \in 1..Len(r) /\ i < n + 1 /\ r[i] = x /\ r[n + 1] = y
      BY <1>1, <2>3, <3>1
    <3>3. QED
      BY <3>2 DEF Before
  <2>4. QED
    BY <2>1, <2>2, <2>3
<1>5. QED
  BY <1>1, <1>3, <1>4 DEF r

LEMMA TailOrder ==
  ASSUME NEW E, NEW s \in Seq(E), s # <<>>, Once(s)
  PROVE  /\ Head(s) \in ToSet(s) /\ Head(s) \in E
         /\ Tail(s) \in Seq(E) /\ ToSet(Tail(s)) = ToSet(s) \ {Head(s)}
         /\ \A x, y : Before(Tail(s), x, y) =>
              Before(s, x, y) /\ x # Head(s) /\ y # Head(s)
         /\ \A x \in ToSet(s) : x = Head(s) \/ Before(s, Head(s), x)
<1> DEFINE r == Tail(s)
           h == Head(s)
<1>1. /\ h \in E /\ r \in Seq(E) /\ Len(r) = Len(s) - 1
      /\ \A i \in 1..Len(r) : r[i] = s[i + 1]
  BY HeadTailProperties
<1>2. h = s[1] /\ Len(s) \in Nat /\ 1 \in 1..Len(s)
  BY EmptySeq
<1> HIDE DEF r, h
<1>3. h \in ToSet(s)
  BY <1>2, SetOfSeq
<1>4. \A i \in 1..Len(s) : i = 1 \/ (s[i] # h /\ i - 1 \in 1..Len(r) /\ r[i - 1] = s[i])
  BY <1>1, <1>2 DEF Once
<1>5. \A i \in 1..Len(r) : i + 1 \in 1..Len(s) /\ s[i + 1] # h
  BY <1>1, <1>2 DEF Once
<1>6. ToSet(r) = ToSet(s) \ {h}
  <2>1. ToSet(r) = {r[i] : i \in 1..Len(r)} /\ ToSet(s) = {s[i] : i \in 1..Len(s)}
    BY <1>1, SetOfSeq
  <2>2. \A x \in ToSet(r) : x \in ToSet(s) /\ x # h
    BY <1>1, <1>5, <2>1
  <2>3. \A x \in ToSet(s) : x # h => x \in ToSet(r)
    BY <1>2, <1>4, <2>1
  <2>4. QED
    BY <2>2, <2>3
<1>7. ASSUME NEW x, NEW y, Before(r, x, y)
      PROVE  Before(s, x, y) /\ x # h /\ y # h
  <2>1. PICK i \in 1..Len(r), j \in 1..Len(r) : i < j /\ r[i] = x /\ r[j] = y
    BY <1>7 DEF Before
  <2>2. /\ i + 1 \in 1..Len(s) /\ j + 1 \in 1..Len(s) /\ i + 1 < j + 1
        /\ s[i + 1] = x /\ s[j + 1] = y /\ x # h /\ y # h
    BY <1>1, <1>5, <2>1
  <2>3. QED
    BY <2>2 DEF Before
<1>8. ASSUME NEW x \in ToSet(s), x # h
      PROVE  Before(s, h, x)
  <2>1. PICK i \in 1..Len(s) : s[i] = x
    BY SetOfSeq
  <2>2. 1 < i
    BY <1>2, <1>8, <2>1
  <2>3. QED
    BY <1>2, <2>1, <2>2 DEF Before
<1>9. QED
  BY <1>1, <1>3, <1>6, <1>7, <1>8 DEF r, h

----------------------------------------------------------------------------
(* The invariant.                                                          *)

(* The queue is sorted and has every event once.                           *)
Ordered == \A x, y : Before(queue, x, y) => due[x] <= due[y] /\ x # y

(* The history has the listed events, and the queue keeps the order of the *)
(* history among events with the same deadline.                            *)
Mirrored ==
  /\ ToSet(armed) = Listed
  /\ \A x : ~Before(armed, x, x)
  /\ \A x, y : Before(queue, x, y) /\ due[x] = due[y] => Before(armed, x, y)

(* While its handler runs, the periodic timer counts on from the period.   *)
PeriodOK ==
  ~OneShot => /\ left \in 0..Period
              /\ age # Idle /\ left > 0 => left = Period - age

(* Every listed event has its owner for its opaque pointer; the S5L8720    *)
(* does not store it (plat-s5l8720/event.c).                               *)
Owned ==
  platform # "s5l8720" => WakesItsSleeper /\ \A e \in Listed : opaque[e] = e

IInv ==
  /\ TypeOK
  /\ Ordered
  /\ Mirrored
  /\ PeriodOK
  /\ LateByATickAtMost
  /\ TimerArmed
  /\ Owned

LEMMA OnceIfUnordered ==
  ASSUME NEW E, NEW s \in Seq(E), \A x : ~Before(s, x, x)
  PROVE  Once(s)
<1> SUFFICES ASSUME NEW i \in 1..Len(s), NEW j \in 1..Len(s), i # j, s[i] = s[j]
             PROVE  FALSE
  BY DEF Once
<1>1. i < j \/ j < i
  OBVIOUS
<1>2. Before(s, s[i], s[i])
  BY <1>1 DEF Before
<1>3. QED
  BY <1>2

LEMMA QueueOnce ==
  ASSUME TypeOK, Ordered, Mirrored
  PROVE  /\ queue \in Seq(Event) /\ armed \in Seq(Event)
         /\ Once(queue) /\ Once(armed)
<1>1. queue \in Seq(Event) /\ armed \in Seq(Event)
  BY DEF TypeOK
<1>2. (\A x : ~Before(queue, x, x)) /\ (\A x : ~Before(armed, x, x))
  BY DEF Ordered, Mirrored
<1>3. QED
  BY <1>1, <1>2, OnceIfUnordered

(* event_add keeps the queue sorted, and puts the event behind the others  *)
(* with its deadline.                                                      *)
LEMMA AddFacts ==
  ASSUME TypeOK, Ordered, Mirrored, NEW e \in Event, NEW t \in Nat, NEW o, Add(e, t, o)
  PROVE  /\ queue' \in Seq(Event) /\ queue' # <<>> /\ Listed' = Listed \cup {e}
         /\ armed' \in Seq(Event)
         /\ due' \in [Event -> Int] /\ due'[e] = t
         /\ \A x \in Event : x # e => due'[x] = due[x]
         /\ Ordered' /\ Mirrored'
<1> DEFINE rest == RemoveFirst(queue, e)
           k == Position(rest, t)
           a == RemoveFirst(armed, e)
<1>1. /\ queue' = InsertAt(rest, k, e)
      /\ due' = [due EXCEPT ![e] = t]
      /\ armed' = Append(a, e)
  BY DEF Add
<1>2. /\ queue \in Seq(Event) /\ armed \in Seq(Event)
      /\ Once(queue) /\ Once(armed)
  BY QueueOnce
<1>3. /\ rest \in Seq(Event) /\ ToSet(rest) = Listed \ {e}
      /\ \A x, y : Before(rest, x, y) <=> Before(queue, x, y) /\ x # e /\ y # e
  BY <1>2, RemovedOrder DEF Listed
<1>4. /\ a \in Seq(Event) /\ ToSet(a) = ToSet(armed) \ {e}
      /\ \A x, y : Before(a, x, y) <=> Before(armed, x, y) /\ x # e /\ y # e
  BY <1>2, RemovedOrder
<1> HIDE DEF rest, a
<1>5. /\ k \in 1..Len(rest) + 1
      /\ \A i \in 1..Len(rest) : i < k => ~(due[rest[i]] > t)
      /\ k <= Len(rest) => due[rest[k]] > t
  BY <1>3, PositionFacts
<1> HIDE DEF k
<1>6. /\ queue' \in Seq(Event) /\ ToSet(queue') = ToSet(rest) \cup {e} /\ queue' # <<>>
      /\ \A x, y : Before(queue', x, y) =>
              \/ Before(rest, x, y)
              \/ y = e /\ \E i \in 1..Len(rest) : i < k /\ rest[i] = x
              \/ x = e /\ \E i \in 1..Len(rest) : i >= k /\ rest[i] = y
  BY <1>1, <1>3, <1>5, InsertedOrder
<1>7. /\ armed' \in Seq(Event) /\ ToSet(armed') = ToSet(a) \cup {e}
      /\ \A x, y : Before(armed', x, y) <=> Before(a, x, y) \/ (y = e /\ x \in ToSet(a))
  BY <1>1, <1>4, AppendedOrder
<1>8. /\ due' \in [Event -> Int] /\ due'[e] = t
      /\ \A x \in Event : x # e => due'[x] = due[x]
  BY <1>1 DEF TypeOK
<1>9. Listed' = Listed \cup {e} /\ ToSet(armed') = Listed'
  BY <1>3, <1>4, <1>6, <1>7 DEF Listed, Mirrored
<1>10. Listed \subseteq Event /\ \A i \in 1..Len(rest) : rest[i] \in Listed /\ rest[i] # e
  <2>1. Listed \subseteq Event
    BY <1>2, SetOfSeq DEF Listed
  <2>2. ToSet(rest) = {rest[i] : i \in 1..Len(rest)}
    BY <1>3, SetOfSeq
  <2>3. QED
    BY <1>3, <2>1, <2>2
<1>11. \A x, y : Before(rest, x, y) =>
         x \in Event /\ y \in Event /\ x # e /\ y # e /\ x # y /\ due[x] <= due[y]
  <2> TAKE x, y
  <2>1. Before(rest, x, y) => x \in Event /\ y \in Event
    BY <1>10 DEF Before
  <2>2. QED
    BY <1>3, <2>1 DEF Ordered
<1>12. ASSUME NEW i \in 1..Len(rest), i < k
       PROVE  rest[i] # e /\ due'[rest[i]] <= t
  BY <1>5, <1>8, <1>10, <1>12 DEF TypeOK
<1>13. ASSUME NEW i \in 1..Len(rest), i >= k
       PROVE  rest[i] # e /\ t < due'[rest[i]]
  <2>1. k \in 1..Len(rest) /\ due[rest[k]] > t
    BY <1>3, <1>5, <1>13
  <2>2. CASE i = k
    BY <1>8, <1>10, <2>1, <2>2 DEF TypeOK
  <2>3. CASE i # k
    <3>1. Before(rest, rest[k], rest[i])
      BY <1>13, <2>1, <2>3 DEF Before
    <3>2. due[rest[k]] <= due[rest[i]]
      BY <1>11, <3>1
    <3>3. due[rest[k]] \in Int /\ due[rest[i]] \in Int
      BY <1>10, <2>1 DEF TypeOK
    <3>4. QED
      BY <1>8, <1>10, <2>1, <3>2, <3>3
  <2>4. QED
    BY <2>2, <2>3
<1>14. ASSUME NEW x, NEW y, Before(queue', x, y)
       PROVE  /\ due'[x] <= due'[y] /\ x # y
              /\ due'[x] = due'[y] => Before(armed', x, y)
  <2>1. CASE Before(rest, x, y)
    <3>1. x \in Event /\ y \in Event /\ x # e /\ y # e /\ x # y /\ due[x] <= due[y]
      BY <1>11, <2>1
    <3>2. due'[x] = due[x] /\ due'[y] = due[y]
      BY <1>8, <3>1
    <3>3. Before(queue, x, y)
      BY <1>3, <2>1
    <3>4. due[x] = due[y] => Before(armed', x, y)
      BY <1>4, <1>7, <3>1, <3>3 DEF Mirrored
    <3>5. QED
      BY <3>1, <3>2, <3>4
  <2>2. CASE y = e /\ \E i \in 1..Len(rest) : i < k /\ rest[i] = x
    <3>1. x # e /\ due'[x] <= t /\ x \in Listed
      BY <1>10, <1>12, <2>2
    <3>2. x \in ToSet(a)
      BY <1>4, <3>1 DEF Mirrored
    <3>3. QED
      BY <1>7, <1>8, <2>2, <3>1, <3>2
  <2>3. CASE x = e /\ \E i \in 1..Len(rest) : i >= k /\ rest[i] = y
    <3>1. y # e /\ t < due'[y] /\ y \in Event
      BY <1>10, <1>13, <2>3
    <3>2. due'[y] \in Int
      BY <1>8, <3>1
    <3>3. QED
      BY <1>8, <2>3, <3>1, <3>2
  <2>4. QED
    BY <1>6, <1>14, <2>1, <2>2, <2>3
<1>15. \A x : ~Before(armed', x, x)
  BY <1>4, <1>7 DEF Mirrored
<1>16. Ordered'
  BY <1>14 DEF Ordered
<1>17. Mirrored'
  BY <1>9, <1>14, <1>15 DEF Mirrored
<1>18. QED
  BY <1>6, <1>7, <1>8, <1>9, <1>16, <1>17

----------------------------------------------------------------------------
(* The actions.                                                            *)

LEMMA InitIInv ==
  Init => IInv
<1> SUFFICES ASSUME Init PROVE IInv
  OBVIOUS
<1>1. /\ queue = <<>> /\ armed = <<>> /\ age = Idle /\ handling = NULL
      /\ left = IF OneShot THEN Off ELSE Period
  BY DEF Init
<1>2. \A x, y : ~Before(queue, x, y) /\ ~Before(armed, x, y)
  BY <1>1 DEF Before
<1>3. Listed = {} /\ ToSet(armed) = {}
  BY <1>1 DEF Listed, ToSet
<1>4. TypeOK
  BY <1>1, EventsAssumption DEF TypeOK, Init, Off
<1>5. Ordered /\ Mirrored
  BY <1>2, <1>3 DEF Ordered, Mirrored
<1>6. PeriodOK
  BY <1>1, EventsAssumption DEF PeriodOK, Idle
<1>7. LateByATickAtMost /\ TimerArmed
  BY <1>1, <1>3 DEF LateByATickAtMost, TimerArmed
<1>8. Owned
  BY <1>1, <1>3 DEF Owned, WakesItsSleeper
<1>9. QED
  BY <1>4, <1>5, <1>6, <1>7, <1>8 DEF IInv

LEMMA CountIsNat ==
  ASSUME NEW t \in Nat
  PROVE  Count(t) \in Nat
  BY EventsAssumption DEF Count

LEMMA AddIInv ==
  ASSUME IInv, NEW e \in Event, NEW t \in Timeout, NEW o \in Event \cup {NULL},
         Add(e, t, o), UNCHANGED <<age, handling>>,
         platform # "s5l8720" => o = e
  PROVE  IInv'
<1>1. TypeOK /\ Ordered /\ Mirrored /\ t \in Nat
  BY EventsAssumption DEF IInv
<1>2. /\ queue' \in Seq(Event) /\ queue' # <<>> /\ Listed' = Listed \cup {e}
      /\ armed' \in Seq(Event)
      /\ due' \in [Event -> Int] /\ due'[e] = t
      /\ \A x \in Event : x # e => due'[x] = due[x]
      /\ Ordered' /\ Mirrored'
  BY <1>1, AddFacts
<1> DEFINE rest == RemoveFirst(queue, e)
<1>3. /\ interval' = [interval EXCEPT ![e] = t]
      /\ opaque' = IF platform = "s5l8720" THEN opaque ELSE [opaque EXCEPT ![e] = o]
      /\ left' = IF OneShot /\ rest = <<>> THEN Count(t) ELSE left
      /\ platform' = platform /\ moved' = e /\ age' = age /\ handling' = handling
  BY DEF Add
<1>4. left' \in Nat \cup {Off}
  BY <1>1, <1>3, CountIsNat DEF TypeOK
<1>5. TypeOK'
  <2>1. interval' \in [Event -> Timeout \cup {0}]
    BY <1>1, <1>3 DEF TypeOK
  <2>2. opaque' \in [Event -> Event \cup {NULL}]
    BY <1>1, <1>3 DEF TypeOK
  <2>3. /\ platform' \in Platform /\ age' \in 0..MaxAge \cup {Idle}
        /\ handling' \in Event \cup {NULL} /\ moved' \in Event \cup {NULL}
    BY <1>1, <1>3 DEF TypeOK
  <2>4. QED
    BY <1>2, <1>4, <2>1, <2>2, <2>3 DEF TypeOK
<1>6. OneShot' = OneShot
  BY <1>3 DEF OneShot
<1>7. PeriodOK'
  BY <1>3, <1>6 DEF IInv, PeriodOK
<1>8. LateByATickAtMost'
  <2> SUFFICES ASSUME ~OneShot, age = Idle, left > 0, NEW x \in Listed'
               PROVE  due'[x] >= left - Period
    BY <1>3, <1>6 DEF LateByATickAtMost
  <2>1. left \in 0..Period /\ Period \in Nat
    BY EventsAssumption DEF IInv, PeriodOK
  <2>2. CASE x = e
    BY <1>1, <1>2, <2>1, <2>2
  <2>3. CASE x # e
    <3>1. x \in Listed /\ x \in Event
      BY <1>1, <1>2, <2>3, SetOfSeq DEF Listed, TypeOK
    <3>2. due[x] >= left - Period /\ due'[x] = due[x]
      BY <1>2, <2>3, <3>1 DEF IInv, LateByATickAtMost
    <3>3. QED
      BY <3>2
  <2>4. QED
    BY <2>2, <2>3
<1>9. TimerArmed'
  <2> SUFFICES ASSUME OneShot, age = Idle
               PROVE  left' # Off
    BY <1>3, <1>6 DEF TimerArmed
  <2>1. CASE rest = <<>>
    <3>1. left' \in Nat
      BY <1>1, <1>3, <2>1, CountIsNat
    <3>2. QED
      BY <3>1 DEF Off
  <2>2. CASE rest # <<>>
    <3>1. queue # <<>>
      <4> SUFFICES ASSUME queue = <<>> PROVE FALSE
        OBVIOUS
      <4>1. \A i \in 1..Len(queue) : queue[i] # e
        OBVIOUS
      <4>2. QED
        BY <2>2, <4>1, NothingRemoved
    <3>2. left # Off
      BY <3>1 DEF IInv, TimerArmed
    <3>3. QED
      BY <1>3, <2>2, <3>2
  <2>3. QED
    BY <2>1, <2>2
<1>10. Owned'
  <2> SUFFICES ASSUME platform # "s5l8720"
               PROVE  WakesItsSleeper' /\ \A x \in Listed' : opaque'[x] = x
    BY <1>3 DEF Owned
  <2>1. opaque' = [opaque EXCEPT ![e] = e] /\ opaque \in [Event -> Event \cup {NULL}]
    BY <1>1, <1>3 DEF TypeOK
  <2>2. \A x \in Event : opaque'[x] = IF x = e THEN e ELSE opaque[x]
    BY <2>1
  <2>3. \A x \in Listed : x \in Event /\ opaque[x] = x
    BY <1>1, SetOfSeq DEF Listed, TypeOK, IInv, Owned
  <2>4. handling # NULL => handling \in Event /\ opaque[handling] = handling
    BY <1>1 DEF TypeOK, IInv, Owned, WakesItsSleeper
  <2>5. QED
    BY <1>2, <1>3, <2>2, <2>3, <2>4 DEF WakesItsSleeper
<1>11. QED
  BY <1>2, <1>5, <1>7, <1>8, <1>9, <1>10 DEF IInv

LEMMA ReaddIInv ==
  ASSUME IInv, NEW e \in Event, NEW new \in Timeout, Readd(e, new)
  PROVE  IInv'
<1> DEFINE t == IF new = 0 THEN interval[e] ELSE new
<1>1. /\ handling = e /\ t > 0 /\ Add(e, t, opaque[e])
      /\ UNCHANGED <<age, handling>>
  BY DEF Readd
<1>2. TypeOK
  BY DEF IInv
<1>3. t \in Timeout
  <2>1. t \in Timeout \cup {0} /\ t # 0
    BY <1>1, <1>2 DEF TypeOK
  <2>2. QED
    BY <2>1
<1>4. opaque[e] \in Event \cup {NULL}
  BY <1>2 DEF TypeOK
<1>5. platform # "s5l8720" => opaque[e] = e
  BY <1>1, EventsAssumption DEF IInv, Owned, WakesItsSleeper
<1> HIDE DEF t
<1>6. QED
  BY <1>1, <1>3, <1>4, <1>5, AddIInv

LEMMA AddEventIInv ==
  ASSUME IInv, NEW e \in Event, NEW t \in Timeout, AddEvent(e, t)
  PROVE  IInv'
  BY AddIInv DEF AddEvent

(* Steps that leave the queue alone.                                       *)
LEMMA QueueKept ==
  ASSUME Ordered, Mirrored, UNCHANGED evars
  PROVE  Ordered' /\ Mirrored' /\ Listed' = Listed /\ OneShot' = OneShot
  BY DEF evars, Ordered, Mirrored, Listed, OneShot

LEMMA ReturnsIInv ==
  ASSUME IInv, HandlerReturns
  PROVE  IInv'
<1>1. UNCHANGED evars /\ left' = left /\ age' = age /\ handling' = NULL /\ moved' = NULL
  BY DEF HandlerReturns
<1>2. Ordered' /\ Mirrored' /\ Listed' = Listed /\ OneShot' = OneShot
  BY <1>1, QueueKept DEF IInv
<1>3. TypeOK'
  BY <1>1 DEF IInv, TypeOK, evars
<1>4. PeriodOK' /\ LateByATickAtMost' /\ TimerArmed'
  BY <1>1, <1>2 DEF IInv, PeriodOK, LateByATickAtMost, TimerArmed, evars
<1>5. Owned'
  BY <1>1, <1>2 DEF IInv, Owned, WakesItsSleeper, evars
<1>6. QED
  BY <1>2, <1>3, <1>4, <1>5 DEF IInv

LEMMA FiresIInv ==
  ASSUME IInv, TimerFires
  PROVE  IInv'
<1>1. /\ age = Idle /\ left = 0 /\ age' = 0
      /\ left' = IF OneShot THEN Off ELSE Period
      /\ moved' = NULL /\ UNCHANGED evars /\ handling' = handling
  BY DEF TimerFires
<1>2. Ordered' /\ Mirrored' /\ Listed' = Listed /\ OneShot' = OneShot
  BY <1>1, QueueKept DEF IInv
<1>3. TypeOK'
  BY <1>1, EventsAssumption DEF IInv, TypeOK, evars
<1>4. PeriodOK' /\ LateByATickAtMost' /\ TimerArmed'
  <2>1. age' # Idle /\ Period \in Nat
    BY <1>1, EventsAssumption DEF Idle
  <2>2. PeriodOK'
    BY <1>1, <1>2, <2>1 DEF PeriodOK
  <2>3. QED
    BY <2>1, <2>2 DEF LateByATickAtMost, TimerArmed
<1>5. Owned'
  BY <1>1, <1>2 DEF IInv, Owned, WakesItsSleeper, evars
<1>6. QED
  BY <1>2, <1>3, <1>4, <1>5 DEF IInv

(* When nothing more is due, the first deadline is the earliest.           *)
LEMMA NothingDue ==
  ASSUME TypeOK, Ordered, Mirrored, queue # <<>>, ~Reached(Head(queue)),
         NEW x \in Listed, age # Idle
  PROVE  /\ due[Head(queue)] + age \in Nat
         /\ due[x] > -age
<1> DEFINE h == Head(queue)
<1>1. queue \in Seq(Event) /\ Once(queue)
  BY QueueOnce
<1>2. h \in Event /\ x \in Event /\ (x = h \/ Before(queue, h, x))
  BY <1>1, TailOrder, SetOfSeq DEF Listed
<1>3. due[h] \in Int /\ due[x] \in Int /\ age \in Nat
  BY <1>2 DEF TypeOK
<1>4. due[h] <= due[x]
  BY <1>2, <1>3 DEF Ordered
<1>5. ~(due[h] <= -age)
  BY DEF Reached
<1> HIDE DEF h
<1>6. due[h] + age \in Nat /\ due[x] > -age
  BY <1>3, <1>4, <1>5
<1>7. QED
  BY <1>6 DEF h

LEMMA EndsIInv ==
  ASSUME IInv, HandlerEnds
  PROVE  IInv'
<1>1. /\ age # Idle /\ handling = NULL /\ age' = Idle
      /\ queue # <<>> => ~Reached(Head(queue))
      /\ left' = IF OneShot /\ queue # <<>> THEN Count(due[Head(queue)] + age) ELSE left
      /\ moved' = NULL /\ UNCHANGED evars /\ handling' = handling
  BY DEF HandlerEnds
<1>2. Ordered' /\ Mirrored' /\ Listed' = Listed /\ OneShot' = OneShot
  BY <1>1, QueueKept DEF IInv
<1>3. TypeOK /\ Ordered /\ Mirrored
  BY DEF IInv
<1>4. queue # <<>> => Count(due[Head(queue)] + age) \in Nat
  <2> SUFFICES ASSUME queue # <<>> PROVE Count(due[Head(queue)] + age) \in Nat
    OBVIOUS
  <2>1. Head(queue) \in Listed
    BY <1>3, QueueOnce, TailOrder DEF Listed
  <2>2. due[Head(queue)] + age \in Nat
    BY <1>1, <1>3, <2>1, NothingDue
  <2>3. QED
    BY <2>2, CountIsNat
<1>5. left' \in Nat \cup {Off}
  BY <1>1, <1>3, <1>4 DEF TypeOK
<1>6. TypeOK'
  BY <1>1, <1>3, <1>5 DEF TypeOK, evars
<1>7. PeriodOK'
  BY <1>1, <1>2 DEF IInv, PeriodOK
<1>8. LateByATickAtMost'
  <2> SUFFICES ASSUME ~OneShot, left > 0, NEW x \in Listed
               PROVE  due[x] >= left - Period
    BY <1>1, <1>2 DEF LateByATickAtMost, evars
  <2>1. queue # <<>>
    BY DEF Listed, ToSet
  <2>2. due[x] > -age
    BY <1>1, <1>3, <2>1, NothingDue
  <2>3. left = Period - age /\ Period \in Nat /\ age \in Nat
    BY <1>1, <1>3, EventsAssumption DEF IInv, PeriodOK, TypeOK
  <2>4. x \in Event /\ due[x] \in Int
    BY <1>3, SetOfSeq DEF Listed, TypeOK
  <2>5. QED
    BY <2>2, <2>3, <2>4
<1>9. TimerArmed'
  <2> SUFFICES ASSUME OneShot, queue # <<>>
               PROVE  left' # Off
    BY <1>1, <1>2 DEF TimerArmed, evars
  <2>1. left' \in Nat
    BY <1>1, <1>4
  <2>2. QED
    BY <2>1 DEF Off
<1>10. Owned'
  BY <1>1, <1>2 DEF IInv, Owned, WakesItsSleeper, evars
<1>11. QED
  BY <1>2, <1>6, <1>7, <1>8, <1>9, <1>10 DEF IInv

LEMMA DispatchIInv ==
  ASSUME IInv, Dispatch
  PROVE  IInv'
<1> DEFINE h == Head(queue)
<1>1. /\ age # Idle /\ handling = NULL /\ queue # <<>>
      /\ handling' = h /\ queue' = Tail(queue)
      /\ due' = [due EXCEPT ![h] = 0]
      /\ armed' = RemoveFirst(armed, h)
      /\ moved' = NULL
      /\ platform' = platform /\ interval' = interval /\ opaque' = opaque
      /\ left' = left /\ age' = age
  BY DEF Dispatch
<1>2. TypeOK /\ Ordered /\ Mirrored
  BY DEF IInv
<1>3. queue \in Seq(Event) /\ armed \in Seq(Event) /\ Once(queue) /\ Once(armed)
  BY <1>2, QueueOnce
<1>4. /\ h \in Listed /\ h \in Event
      /\ queue' \in Seq(Event) /\ ToSet(queue') = Listed \ {h}
      /\ \A x, y : Before(queue', x, y) => Before(queue, x, y) /\ x # h /\ y # h
  BY <1>1, <1>3, TailOrder DEF Listed
<1> HIDE DEF h
<1>5. /\ armed' \in Seq(Event) /\ ToSet(armed') = ToSet(armed) \ {h}
      /\ \A x, y : Before(armed', x, y) <=> Before(armed, x, y) /\ x # h /\ y # h
  BY <1>1, <1>3, RemovedOrder
<1>6. Listed' = Listed \ {h}
  BY <1>4 DEF Listed
<1>7. due' \in [Event -> Int] /\ \A x \in Event : x # h => due'[x] = due[x]
  BY <1>1, <1>2, <1>4 DEF TypeOK
<1>8. \A x, y : Before(queue, x, y) => x \in Event /\ y \in Event
  BY <1>3 DEF Before
<1>9. Ordered'
  BY <1>2, <1>4, <1>7, <1>8 DEF Ordered
<1>10. Mirrored'
  <2>1. ToSet(armed') = Listed' /\ \A x : ~Before(armed', x, x)
    BY <1>2, <1>5, <1>6 DEF Mirrored
  <2>2. \A x, y : Before(queue', x, y) /\ due'[x] = due'[y] => Before(armed', x, y)
    BY <1>2, <1>4, <1>5, <1>7, <1>8 DEF Mirrored
  <2>3. QED
    BY <2>1, <2>2 DEF Mirrored
<1>11. TypeOK'
  BY <1>1, <1>2, <1>4, <1>5, <1>7 DEF TypeOK
<1>12. OneShot' = OneShot
  BY <1>1 DEF OneShot
<1>13. PeriodOK' /\ LateByATickAtMost' /\ TimerArmed'
  BY <1>1, <1>12 DEF IInv, PeriodOK, LateByATickAtMost, TimerArmed
<1>14. Owned'
  BY <1>1, <1>4, <1>6 DEF IInv, Owned, WakesItsSleeper
<1>15. QED
  BY <1>9, <1>10, <1>11, <1>13, <1>14 DEF IInv

LEMMA TickIInv ==
  ASSUME IInv, Tick
  PROVE  IInv'
<1>1. /\ age < MaxAge
      /\ due' = [e \in Event |-> IF e \in Listed THEN due[e] - 1 ELSE due[e]]
      /\ left' = IF left > 0 THEN left - 1 ELSE left
      /\ age' = IF age = Idle THEN Idle ELSE age + 1
      /\ moved' = NULL
      /\ platform' = platform /\ queue' = queue /\ interval' = interval
      /\ opaque' = opaque /\ handling' = handling /\ armed' = armed
  BY DEF Tick
<1>2. TypeOK /\ Ordered /\ Mirrored
  BY DEF IInv
<1>3. Listed' = Listed /\ OneShot' = OneShot /\ Listed \subseteq Event
  BY <1>1, <1>2, SetOfSeq DEF Listed, OneShot, TypeOK
<1>4. due' \in [Event -> Int] /\ \A e \in Listed : due'[e] = due[e] - 1 /\ due[e] \in Int
  BY <1>1, <1>2, <1>3 DEF TypeOK
<1>5. \A x, y : Before(queue, x, y) => x \in Listed /\ y \in Listed
  <2>1. Listed = {queue[i] : i \in 1..Len(queue)}
    BY <1>2, SetOfSeq DEF TypeOK, Listed
  <2>2. QED
    BY <2>1 DEF Before
<1>6. Ordered'
  <2>1. ASSUME NEW x, NEW y, Before(queue, x, y)
        PROVE  due'[x] <= due'[y] /\ x # y
    <3>1. x \in Listed /\ y \in Listed /\ due[x] <= due[y] /\ x # y
      BY <1>2, <1>5, <2>1 DEF Ordered
    <3>2. QED
      BY <1>4, <3>1
  <2>2. QED
    BY <1>1, <2>1 DEF Ordered
<1>7. Mirrored'
  <2>1. \A x, y : Before(queue, x, y) /\ due'[x] = due'[y] => due[x] = due[y]
    BY <1>4, <1>5
  <2>2. QED
    BY <1>1, <1>2, <1>3, <2>1 DEF Mirrored
<1>8. left' \in Nat \cup {Off} /\ age' \in 0..MaxAge \cup {Idle}
  BY <1>1, <1>2, EventsAssumption DEF TypeOK, Off, Idle
<1>9. TypeOK'
  BY <1>1, <1>2, <1>4, <1>8 DEF TypeOK
<1>10. PeriodOK'
  <2> SUFFICES ASSUME ~OneShot
               PROVE  /\ left' \in 0..Period
                      /\ age' # Idle /\ left' > 0 => left' = Period - age'
    BY <1>3 DEF PeriodOK
  <2>1. left \in 0..Period /\ Period \in Nat /\ age \in 0..MaxAge \cup {Idle}
        /\ (age # Idle /\ left > 0 => left = Period - age) /\ MaxAge \in Nat
    BY <1>2, EventsAssumption DEF IInv, PeriodOK, TypeOK
  <2>2. QED
    BY <1>1, <2>1 DEF Idle
<1>11. LateByATickAtMost'
  <2> SUFFICES ASSUME ~OneShot, age' = Idle, left' > 0, NEW x \in Listed
               PROVE  due'[x] >= left' - Period
    BY <1>3 DEF LateByATickAtMost
  <2>1. left \in 0..Period /\ Period \in Nat
    BY EventsAssumption DEF IInv, PeriodOK
  <2>2. age = Idle
    BY <1>1, <1>2 DEF TypeOK, Idle
  <2>3. left > 0 /\ left' = left - 1
    BY <1>1, <2>1
  <2>4. due[x] >= left - Period
    BY <2>2, <2>3 DEF IInv, LateByATickAtMost
  <2>5. QED
    BY <1>4, <2>1, <2>3, <2>4
<1>12. TimerArmed'
  <2> SUFFICES ASSUME OneShot, age' = Idle, queue # <<>>
               PROVE  left' # Off
    BY <1>1, <1>3 DEF TimerArmed
  <2>1. age = Idle
    BY <1>1, <1>2 DEF TypeOK, Idle
  <2>2. left # Off
    BY <2>1 DEF IInv, TimerArmed
  <2>3. QED
    BY <1>1, <1>2, <2>2 DEF TypeOK, Off
<1>13. Owned'
  BY <1>1, <1>3 DEF IInv, Owned, WakesItsSleeper
<1>14. QED
  BY <1>6, <1>7, <1>9, <1>10, <1>11, <1>12, <1>13 DEF IInv

----------------------------------------------------------------------------
(* The theorems.                                                           *)

(* The invariant holds of the initial states and is kept by every step.    *)
THEOREM SpecIInv == Spec => []IInv
<1>1. Init => IInv
  BY InitIInv
<1>2. IInv /\ [Next]_vars => IInv'
  <2> SUFFICES ASSUME IInv, [Next]_vars PROVE IInv'
    OBVIOUS
  <2>1. CASE \E e \in Event, t \in Timeout : AddEvent(e, t) \/ Readd(e, t)
    BY <2>1, AddEventIInv, ReaddIInv
  <2>2. CASE TimerFires
    BY <2>2, FiresIInv
  <2>3. CASE Dispatch
    BY <2>3, DispatchIInv
  <2>4. CASE HandlerReturns
    BY <2>4, ReturnsIInv
  <2>5. CASE HandlerEnds
    BY <2>5, EndsIInv
  <2>6. CASE Tick
    BY <2>6, TickIInv
  <2>7. CASE UNCHANGED vars
    <3>1. UNCHANGED evars /\ left' = left /\ age' = age /\ handling' = handling
          /\ moved' = moved
      BY <2>7 DEF vars
    <3>2. Ordered' /\ Mirrored' /\ Listed' = Listed /\ OneShot' = OneShot
      BY <3>1, QueueKept DEF IInv
    <3>3. TypeOK'
      BY <3>1 DEF IInv, TypeOK, evars
    <3>4. PeriodOK' /\ LateByATickAtMost' /\ TimerArmed' /\ Owned'
      BY <3>1, <3>2 DEF IInv, PeriodOK, LateByATickAtMost, TimerArmed, Owned,
                        WakesItsSleeper, evars
    <3>5. QED
      BY <3>2, <3>3, <3>4 DEF IInv
  <2>8. QED
    BY <2>1, <2>2, <2>3, <2>4, <2>5, <2>6, <2>7 DEF Next
<1>3. QED
  BY <1>1, <1>2, PTL DEF Spec

(* Deadlines are relative to the time of now, the timer is in range or     *)
(* stopped, and the list holds events (event.c, timer.c).                  *)
THEOREM SpecTypeOK == Spec => []TypeOK
<1>1. IInv => TypeOK
  BY DEF IInv
<1>2. QED
  BY <1>1, SpecIInv, PTL

(* "The event queue is sorted" (eventTimerHandler), and no event is on it  *)
(* twice: for any number of events and whichever are set again while they  *)
(* are listed.                                                             *)
THEOREM SpecSortedOnce == Spec => []SortedOnce
<1>1. IInv => SortedOnce
  <2> SUFFICES ASSUME IInv, NEW i \in DOMAIN queue, NEW j \in DOMAIN queue, i < j
               PROVE  due[queue[i]] <= due[queue[j]] /\ queue[i] # queue[j]
    BY DEF SortedOnce
  <2>1. queue \in Seq(Event)
    BY DEF IInv, TypeOK
  <2>2. Before(queue, queue[i], queue[j])
    BY <2>1 DEF Before
  <2>3. QED
    BY <2>2 DEF IInv, Ordered
<1>2. QED
  BY <1>1, SpecIInv, PTL

(* On the S5L8900 and the S5L8720 no event is more than one period late    *)
(* while no timer interrupt is pending (eventTimerHandler), whatever the   *)
(* period and however long the handler runs.                               *)
THEOREM SpecLateByATickAtMost == Spec => []LateByATickAtMost
<1>1. IInv => LateByATickAtMost
  BY DEF IInv
<1>2. QED
  BY <1>1, SpecIInv, PTL

(* On the A4 the timer runs, or its interrupt is pending, as long as an    *)
(* event is listed (event_add, eventTimerHandler).                         *)
THEOREM SpecTimerArmed == Spec => []TimerArmed
<1>1. IInv => TimerArmed
  BY DEF IInv
<1>2. QED
  BY <1>1, SpecIInv, PTL

(* Where event_add stores the opaque pointer, which is everywhere but on   *)
(* the S5L8720, a handler is called with the pointer of the event's owner. *)
THEOREM SpecWakesItsSleeper ==
  ASSUME "s5l8720" \notin Platform
  PROVE  Spec => []WakesItsSleeper
<1>1. IInv => WakesItsSleeper
  BY DEF IInv, Owned, TypeOK
<1>2. QED
  BY <1>1, SpecIInv, PTL

----------------------------------------------------------------------------
(* The refinement of Deadlines, step by step.                              *)

LEMMA SameOperators ==
  ASSUME NEW s, NEW e
  PROVE  Promise!RemoveFirst(s, e) = RemoveFirst(s, e) /\ Promise!ToSet(s) = ToSet(s)
  BY DEF Promise!RemoveFirst, Promise!RemoveAt, Promise!SelectInSeq, Promise!Min,
         RemoveFirst, RemoveAt, SelectInSeq, Min, Promise!ToSet, ToSet

LEMMA InitKeeps ==
  Init => Promise!Init
  BY DEF Init, Promise!Init

LEMMA AddKeeps ==
  ASSUME NEW e \in Event, NEW t \in Timeout, NEW o, Add(e, t, o)
  PROVE  Promise!Arm(e, t)
  BY SameOperators DEF Add, Promise!Arm

LEMMA ReaddKeeps ==
  ASSUME IInv, NEW e \in Event, NEW new \in Timeout, Readd(e, new)
  PROVE  \E t \in Timeout : Promise!Arm(e, t)
<1> DEFINE t == IF new = 0 THEN interval[e] ELSE new
<1>1. t > 0 /\ Add(e, t, opaque[e])
  BY DEF Readd
<1>2. t \in Timeout
  BY <1>1 DEF IInv, TypeOK
<1> HIDE DEF t
<1>3. QED
  BY <1>1, <1>2, AddKeeps

LEMMA DispatchKeeps ==
  ASSUME IInv, Dispatch
  PROVE  \E e \in Event : Promise!Expire(e)
<1> DEFINE h == Head(queue)
<1>1. TypeOK /\ Ordered /\ Mirrored
  BY DEF IInv
<1>2. /\ age # Idle /\ queue # <<>> /\ Reached(h)
      /\ due' = [due EXCEPT ![h] = 0] /\ armed' = RemoveFirst(armed, h)
  BY DEF Dispatch
<1>3. queue \in Seq(Event) /\ armed \in Seq(Event) /\ Once(queue) /\ Once(armed)
  BY <1>1, QueueOnce
<1>4. /\ h \in Listed /\ h \in Event
      /\ \A x \in Listed : x = h \/ Before(queue, h, x)
  BY <1>2, <1>3, TailOrder DEF Listed
<1> HIDE DEF h
<1>5. due[h] <= 0
  BY <1>1, <1>2, <1>4 DEF Reached, TypeOK
<1>6. Listed = {armed[j] : j \in 1..Len(armed)}
  BY <1>1, <1>3, SetOfSeq DEF Mirrored
<1>7. PICK i \in 1..Len(armed) : armed[i] = h
  BY <1>4, <1>6
<1>8. ASSUME NEW j \in 1..Len(armed)
      PROVE  due[h] < due[armed[j]] \/ (due[h] = due[armed[j]] /\ i <= j)
  <2> DEFINE x == armed[j]
  <2>1. x \in Listed /\ x \in Event /\ due[h] \in Int /\ due[x] \in Int
    BY <1>1, <1>3, <1>4, <1>6 DEF TypeOK
  <2>2. CASE x = h
    <3>1. i = j
      BY <1>3, <1>7, <2>2 DEF Once
    <3>2. QED
      BY <2>2, <3>1
  <2>3. CASE x # h
    <3>1. Before(queue, h, x)
      BY <1>4, <2>1, <2>3
    <3>2. due[h] <= due[x]
      BY <1>1, <3>1 DEF Ordered
    <3>3. CASE due[h] < due[x]
      BY <3>3
    <3>4. CASE due[h] = due[x]
      <4>1. Before(armed, h, x)
        BY <1>1, <3>1, <3>4 DEF Mirrored
      <4>2. PICK k \in 1..Len(armed), l \in 1..Len(armed) :
              k < l /\ armed[k] = h /\ armed[l] = x
        BY <4>1 DEF Before
      <4>3. k = i /\ l = j
        BY <1>3, <1>7, <4>2 DEF Once
      <4>4. QED
        BY <3>4, <4>2, <4>3
    <3>5. QED
      BY <2>1, <3>2, <3>3, <3>4
  <2>4. QED
    BY <2>2, <2>3
<1>9. Promise!First(h)
  <2>1. DOMAIN armed = 1..Len(armed)
    BY <1>3
  <2>2. QED
    BY <1>7, <1>8, <2>1 DEF Promise!First
<1>10. Promise!Expire(h)
  BY <1>2, <1>5, <1>9, SameOperators DEF Promise!Expire
<1>11. QED
  BY <1>4, <1>10

LEMMA TickKeeps ==
  ASSUME IInv, Tick
  PROVE  Promise!Tick
<1>1. Promise!Pending = Listed
  BY SameOperators DEF IInv, Mirrored, Promise!Pending
<1>2. QED
  BY <1>1 DEF Tick, Promise!Tick

(* The queue does what module Deadlines promises of any step: an event     *)
(* goes off after its deadline, the earliest first, and the one set first  *)
(* among equals (event_add, eventTimerHandler).                            *)
THEOREM SpecImplementsDeadlines == Spec => Promise!Spec
<1>1. Init => Promise!Init
  BY InitKeeps
<1>2. IInv /\ [Next]_vars => [Promise!Next]_<<armed, due>>
  <2> SUFFICES ASSUME IInv, [Next]_vars PROVE [Promise!Next]_<<armed, due>>
    OBVIOUS
  <2>1. CASE \E e \in Event, t \in Timeout : AddEvent(e, t) \/ Readd(e, t)
    <3>1. PICK e \in Event, t \in Timeout : AddEvent(e, t) \/ Readd(e, t)
      BY <2>1
    <3>2. \E u \in Timeout : Promise!Arm(e, u)
      BY <3>1, AddKeeps, ReaddKeeps DEF AddEvent
    <3>3. QED
      BY <3>2 DEF Promise!Next
  <2>2. CASE Dispatch
    BY <2>2, DispatchKeeps DEF Promise!Next
  <2>3. CASE Tick
    BY <2>3, TickKeeps DEF Promise!Next
  <2>4. CASE TimerFires \/ HandlerReturns \/ HandlerEnds \/ UNCHANGED vars
    BY <2>4 DEF TimerFires, HandlerReturns, HandlerEnds, vars, evars
  <2>5. QED
    BY <2>1, <2>2, <2>3, <2>4 DEF Next
<1>3. QED
  BY <1>1, <1>2, SpecIInv, PTL DEF Spec, Promise!Spec

=============================================================================
