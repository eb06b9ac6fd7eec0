---------------------------- MODULE NvramProofs ----------------------------
(***************************************************************************)
(* Theorems about the saving of the variables, for any environment, any    *)
(* layout, any number of saves and any number of faults.                   *)
(***************************************************************************)
EXTENDS Nvram, TLAPS

Other(b) == IF b = 1 THEN 2 ELSE 1

(* The contents of the NOR: whole atoms of epochs up to m, or blanks. *)
AtomAt(a, m) == {Blank} \cup {Bank(e, v)[a] : e \in 1..m, v \in Env}

FlashOK(f, m) ==
  /\ f = [b \in Banks |-> [a \in Atoms |-> f[b][a]]]
  /\ \A b \in Banks, a \in Atoms : f[b][a] \in AtomAt(a, m)

LEMMA BankAtoms ==
  ASSUME NEW e \in Nat, NEW v
  PROVE  /\ Bank(e, v)[1] # Blank /\ Bank(e, v)[2] # Blank /\ Bank(e, v)[3] # Blank
         /\ Bank(e, v)[1].epoch = e /\ Bank(e, v)[1].adler = <<e, v>>
         /\ Bank(e, v)[2].env = v
  BY DEF Bank, Blank

LEMMA LayoutFacts ==
  ASSUME layout \in Layouts
  PROVE  layout[1] = 1 /\ layout[2] \in {1, 2} /\ layout[3] = 2
  BY NvramAssumption

(* The sectors of an atom: its own, and perhaps the one behind it, which   *)
(* is in the other bank only behind the last atom of bank 1.               *)
LEMMA SectorFacts ==
  ASSUME layout \in Layouts, NEW b \in Banks, NEW a \in Atoms
  PROVE  \/ Sectors(b, a) = << <<b, layout[a]>> >>
         \/ /\ a < 3 /\ layout[a] = 1
            /\ Sectors(b, a) = << <<b, 1>>, <<b, 2>> >>
         \/ /\ a = 3 /\ b = 1
            /\ Sectors(b, a) = << <<1, 2>>, <<2, 1>> >>
<1>. USE LayoutFacts DEF Sectors, Banks, Atoms
<1>1. CASE a = 1
  BY <1>1
<1>2. CASE a = 2
  BY <1>2
<1>3. CASE a = 3
  BY <1>3
<1>4. QED
  BY <1>1, <1>2, <1>3

LEMMA WithSectorOK ==
  ASSUME NEW f, NEW g, NEW s, NEW m, FlashOK(f, m), FlashOK(g, m),
         NEW h, h = WithSector(f, s, g)
  PROVE  /\ FlashOK(h, m)
         /\ \A b \in Banks, a \in Atoms :
              h[b][a] = IF <<b, layout[a]>> = s THEN g[b][a] ELSE f[b][a]
<1>1. \A b \in Banks, a \in Atoms :
              h[b][a] = IF <<b, layout[a]>> = s THEN g[b][a] ELSE f[b][a]
  BY DEF WithSector
<1>2. h = [b \in Banks |-> [a \in Atoms |-> h[b][a]]]
  BY DEF WithSector
<1>3. QED
  BY <1>1, <1>2 DEF FlashOK

LEMMA ErasedOK == ASSUME NEW m PROVE FlashOK(Erased, m)
  BY DEF FlashOK, Erased, AtomAt

----------------------------------------------------------------------------
(* The invariant.                                                          *)

T == job.sectorsToChange

HistOK ==
  hist \in [saves : 0..MaxSaves, before : Env, saving : Env, both : BOOLEAN,
            cuts : Nat, fails : Nat, faults : 0..MaxFaults]

(* While no save is in progress, memory knows what nvram_setup would find. *)
RamOK ==
  /\ layout \in Layouts
  /\ ram \in [newest : 0..2, oldest : 0..2, vars : Env \cup {None, "off"}]
  /\ ram.newest # 0 => ram.oldest # 0 /\ ram.vars \in Env
  /\ ram.newest # 0 /\ job = Idle =>
       /\ Readable(flash) # {}
       /\ ram.newest = Newest(flash) /\ ram.oldest = Oldest(flash, ram.newest)

(* A nor_write in progress: every sector it has done holds what it meant   *)
(* to write, every one still to do held it before, but for the atom itself.*)
JobOK ==
  job # Idle =>
    /\ ram.newest # 0
    /\ job = [atom |-> job.atom, to |-> job.to, new |-> job.new, erased |-> job.erased,
              todo |-> job.todo, sectorsToChange |-> T]
    /\ job.atom \in Atoms /\ job.to \in Banks /\ job.erased \in BOOLEAN
    /\ \/ job.todo = Sectors(job.to, job.atom)
       \/ /\ Len(Sectors(job.to, job.atom)) = 2
          /\ job.todo = << Sectors(job.to, job.atom)[2] >>
    /\ \E e \in 1..hist.saves + 2, v \in Env : job.new = Bank(e, v)
    /\ FlashOK(T, hist.saves + 2)
    /\ T[job.to][job.atom] = job.new[job.atom]
    /\ \A b \in Banks, a \in Atoms :
         IF job.erased /\ <<b, layout[a]>> = job.todo[1] THEN flash[b][a] = Blank
         ELSE \/ flash[b][a] = T[b][a]
              \/ b = job.to /\ a = job.atom /\ job.todo = Sectors(job.to, job.atom)

(* The first atom x of the bank that is written over does not make it the  *)
(* newest, unless it is that of the save of s.                             *)
Beaten(x, other, e, s) ==
  \/ x = Blank
  \/ x = Bank(e + 1, s)[1]
  \/ x.epoch \in Nat /\ (x.epoch < e \/ (x.epoch = e /\ other = 1))

(* A save with at most one fault so far: the other bank is whole in what   *)
(* is to be written.                                                       *)
SaveOK ==
  job # Idle /\ hist.both /\ hist.cuts + hist.fails <= 1 =>
    /\ hist.cuts = 0
    /\ \E e \in 1..hist.saves + 2 :
         /\ job.new = Bank(e + 1, hist.saving)
         /\ \A a \in Atoms : T[Other(job.to)][a] = Bank(e, hist.before)[a]
         /\ Beaten(flash[job.to][1], Other(job.to), e, hist.saving)
         /\ Beaten(T[job.to][1], Other(job.to), e, hist.saving)
    /\ hist.fails = 0 => \A a \in Atoms : a <= job.atom => T[job.to][a] = job.new[a]

IInv ==
  /\ HistOK
  /\ RamOK
  /\ FlashOK(flash, hist.saves + 2)
  /\ JobOK
  /\ SaveOK
  /\ SurvivesAFault

----------------------------------------------------------------------------
(* What nvram_setup finds.                                                 *)

Whole(f, b, e, v) == \A a \in Atoms : f[b][a] = Bank(e, v)[a]

LEMMA WholeIsReadable ==
  ASSUME NEW f, NEW b \in Banks, NEW e \in Nat, NEW v, Whole(f, b, e, v)
  PROVE  readAtoms(f[b]) /\ f[b][1].epoch = e /\ f[b][2].env = v
<1>1. /\ f[b][1] = Bank(e, v)[1] /\ f[b][2] = Bank(e, v)[2]
      /\ f[b][3] = Bank(e, v)[3]
  BY DEF Whole, Atoms
<1>2. QED
  BY <1>1, BankAtoms DEF readAtoms, Atoms

LEMMA SetupOfTwo ==
  ASSUME NEW f, readAtoms(f[1]), readAtoms(f[2])
  PROVE  /\ Readable(f) = Banks
         /\ nvram_setup(f).vars =
              IF f[1][1].epoch < f[2][1].epoch THEN f[2][2].env ELSE f[1][2].env
<1>1. Readable(f) = Banks
  BY DEF Readable, Banks
<1>2. Banks # {}
  BY DEF Banks
<1>3. QED
  BY <1>1, <1>2 DEF nvram_setup, Newest

LEMMA SetupOfOne ==
  ASSUME NEW f, NEW b \in Banks, readAtoms(f[b]), ~readAtoms(f[Other(b)])
  PROVE  nvram_setup(f).vars = f[b][2].env
<1>1. Readable(f) = {b}
  BY DEF Readable, Banks, Other
<1>2. {b} # Banks /\ {b} # {}
  BY DEF Banks
<1>3. Newest(f) = b
  BY <1>1, <1>2 DEF Newest
<1>4. QED
  BY <1>1, <1>2, <1>3 DEF nvram_setup

(* Readable banks of a flash the model can be in.                          *)
LEMMA ReadableBank ==
  ASSUME NEW f, NEW m \in Nat, FlashOK(f, m), NEW b \in Banks, readAtoms(f[b])
  PROVE  \E e \in 1..m, v \in Env : Whole(f, b, e, v)
<1>1. /\ f[b][1] # Blank /\ f[b][2] # Blank /\ f[b][3] # Blank
      /\ f[b][1].adler = <<f[b][1].epoch, f[b][2].env>>
  BY DEF readAtoms, Atoms
<1>2. /\ f[b][1] \in AtomAt(1, m) /\ f[b][2] \in AtomAt(2, m)
      /\ f[b][3] \in AtomAt(3, m)
  BY DEF FlashOK, Atoms
<1>3. PICK e \in 1..m, v \in Env : f[b][1] = Bank(e, v)[1]
  BY <1>1, <1>2 DEF AtomAt
<1>4. PICK e2 \in 1..m, w \in Env : f[b][2] = Bank(e2, w)[2]
  BY <1>1, <1>2 DEF AtomAt
<1>5. PICK e3 \in 1..m, u \in Env : f[b][3] = Bank(e3, u)[3]
  BY <1>1, <1>2 DEF AtomAt
<1>6. e \in Nat /\ e2 \in Nat
  OBVIOUS
<1>7. f[b][1].epoch = e /\ f[b][1].adler = <<e, v>> /\ f[b][2].env = w
  BY <1>3, <1>4 DEF Bank
<1>8. v = w
  BY <1>1, <1>7
<1>9. f[b][2] = Bank(e, v)[2] /\ f[b][3] = Bank(e, v)[3]
  BY <1>4, <1>5, <1>8 DEF Bank
<1>10. QED
  BY <1>3, <1>9 DEF Whole, Atoms

(* The other bank is whole, and the first atom of this one does not beat   *)
(* it: what is loaded is of the other bank, or is what is being saved.     *)
LEMMA OtherIsLoaded ==
  ASSUME NEW f, NEW b \in Banks, NEW e \in Nat, NEW v, NEW s,
         Whole(f, Other(b), e, v), Beaten(f[b][1], Other(b), e, s)
  PROVE  nvram_setup(f).vars \in {v, s}
<1> DEFINE o == Other(b)
           x == f[b][1]
<1>1. o \in Banks /\ o # b /\ Other(o) = b
  BY DEF Other, Banks
<1>2. readAtoms(f[o]) /\ f[o][1].epoch = e /\ f[o][2].env = v
  BY <1>1, WholeIsReadable
<1>3. CASE ~readAtoms(f[b])
  BY <1>1, <1>2, <1>3, SetupOfOne
<1>4. CASE readAtoms(f[b])
  <2>1. x # Blank /\ x.adler = <<x.epoch, f[b][2].env>>
    BY <1>4 DEF readAtoms, Atoms
  <2>2. readAtoms(f[1]) /\ readAtoms(f[2])
    BY <1>1, <1>2, <1>4 DEF Banks
  <2>3. nvram_setup(f).vars =
          IF f[1][1].epoch < f[2][1].epoch THEN f[2][2].env ELSE f[1][2].env
    BY <2>2, SetupOfTwo
  <2>4. CASE x = Bank(e + 1, s)[1]
    <3>1. x.adler = <<e + 1, s>>
      BY <2>4 DEF Bank
    <3>2. f[b][2].env = s
      BY <2>1, <3>1
    <3>3. QED
      BY <1>1, <1>2, <2>3, <3>2 DEF Banks
  <2>5. CASE x.epoch \in Nat /\ (x.epoch < e \/ (x.epoch = e /\ o = 1))
    <3>1. CASE b = 1
      BY <1>2, <2>3, <2>5, <3>1 DEF Other
    <3>2. CASE b = 2
      BY <1>2, <2>3, <2>5, <3>2 DEF Other
    <3>3. QED
      BY <3>1, <3>2 DEF Banks
  <2>6. QED
    BY <2>1, <2>4, <2>5 DEF Beaten
<1>5. QED
  BY <1>3, <1>4

(* The bank of the next epoch is whole, and the other one is of its epoch  *)
(* or cannot be read: it is loaded.                                        *)
LEMMA NewIsLoaded ==
  ASSUME NEW f, NEW b \in Banks, NEW e \in Nat, NEW s, Whole(f, b, e + 1, s),
         (\E v : Whole(f, Other(b), e, v)) \/ f[Other(b)][1] = Blank
  PROVE  nvram_setup(f).vars = s
<1> DEFINE o == Other(b)
<1>1. o \in Banks /\ o # b
  BY DEF Other, Banks
<1>2. readAtoms(f[b]) /\ f[b][1].epoch = e + 1 /\ f[b][2].env = s
  BY WholeIsReadable
<1>3. CASE f[o][1] = Blank
  <2>1. ~readAtoms(f[o])
    BY <1>3 DEF readAtoms, Atoms
  <2>2. QED
    BY <1>2, <2>1, SetupOfOne
<1>4. CASE \E v : Whole(f, o, e, v)
  <2>1. readAtoms(f[o]) /\ f[o][1].epoch = e
    BY <1>1, <1>4, WholeIsReadable
  <2>2. readAtoms(f[1]) /\ readAtoms(f[2])
    BY <1>1, <1>2, <2>1 DEF Banks
  <2>3. nvram_setup(f).vars =
          IF f[1][1].epoch < f[2][1].epoch THEN f[2][2].env ELSE f[1][2].env
    BY <2>2, SetupOfTwo
  <2>4. CASE b = 1
    BY <1>2, <2>1, <2>3, <2>4 DEF Other
  <2>5. CASE b = 2
    BY <1>2, <2>1, <2>3, <2>5 DEF Other
  <2>6. QED
    BY <2>4, <2>5 DEF Banks
<1>5. QED
  BY <1>3, <1>4

LEMMA NewestFacts ==
  ASSUME NEW f, Readable(f) # {}
  PROVE  /\ Newest(f) \in Readable(f) /\ Newest(f) \in Banks
         /\ Oldest(f, Newest(f)) \in Banks
         /\ Readable(f) = Banks => Oldest(f, Newest(f)) = Other(Newest(f))
<1>1. Newest(f) \in Readable(f) /\ Readable(f) \subseteq Banks
  BY DEF Newest, Readable, Banks
<1>2. CASE Readable(f) = Banks
  <2>1. Oldest(f, Newest(f)) = CHOOSE b \in Banks : b # Newest(f)
    BY <1>2 DEF Oldest
  <2>2. Other(Newest(f)) \in Banks /\ Other(Newest(f)) # Newest(f)
    BY <1>1 DEF Other, Banks
  <2>3. Oldest(f, Newest(f)) \in Banks /\ Oldest(f, Newest(f)) # Newest(f)
    BY <2>1, <2>2
  <2>4. Oldest(f, Newest(f)) = Other(Newest(f))
    BY <1>1, <2>3 DEF Other, Banks
  <2>5. QED
    BY <1>1, <2>3, <2>4
<1>3. CASE Readable(f) # Banks
  BY <1>1, <1>3 DEF Oldest
<1>4. QED
  BY <1>2, <1>3

LEMMA SetupKnows ==
  ASSUME NEW f, NEW m \in Nat, FlashOK(f, m), NEW r, r = nvram_setup(f)
  PROVE  /\ r \in [newest : 0..2, oldest : 0..2, vars : Env \cup {None, "off"}]
         /\ r.newest # 0 =>
              /\ Readable(f) # {} /\ r.oldest # 0 /\ r.vars \in Env
              /\ r.newest = Newest(f) /\ r.oldest = Oldest(f, r.newest)
<1>1. CASE Readable(f) = {}
  BY <1>1 DEF nvram_setup
<1>2. CASE Readable(f) # {}
  <2> DEFINE b == Newest(f)
             o == Oldest(f, b)
  <2>1. b \in Readable(f) /\ b \in Banks /\ o \in Banks
    BY <1>2, NewestFacts
  <2>2. PICK e \in 1..m, v \in Env : Whole(f, b, e, v)
    BY <2>1, ReadableBank DEF Readable
  <2>3. f[b][2].env \in Env
    BY <2>1, <2>2, WholeIsReadable
  <2>4. r = [newest |-> b, oldest |-> o, vars |-> f[b][2].env]
    BY <1>2 DEF nvram_setup
  <2>5. b \in 0..2 /\ o \in 0..2 /\ o # 0
    BY <2>1 DEF Banks
  <2>6. r.newest = b /\ r.oldest = o /\ r.vars = f[b][2].env
    BY <2>4
  <2> HIDE DEF b, o
  <2>7. r \in [newest : 0..2, oldest : 0..2, vars : Env \cup {None, "off"}]
    BY <2>3, <2>4, <2>5
  <2> USE DEF b, o
  <2>8. QED
    BY <1>2, <2>3, <2>5, <2>6, <2>7
<1>3. QED
  BY <1>1, <1>2

----------------------------------------------------------------------------
(* The actions.                                                            *)

(* nor_write begins with an atom of a bank.                                *)
Begins(j, f, m, b, a, new) ==
  /\ j = [atom |-> a, to |-> b, new |-> new, erased |-> FALSE, todo |-> Sectors(b, a),
          sectorsToChange |-> j.sectorsToChange]
  /\ j # Idle /\ j.atom = a /\ j.to = b /\ j.new = new
  /\ j.erased = FALSE /\ j.todo = Sectors(b, a)
  /\ FlashOK(j.sectorsToChange, m)
  /\ j.sectorsToChange[b][a] = new[a]
  /\ \A c \in Banks, d \in Atoms :
       c # b \/ d # a => j.sectorsToChange[c][d] = f[c][d]

LEMMA NorWriteBegins ==
  ASSUME NEW f, NEW m \in Nat, FlashOK(f, m), NEW b \in Banks, NEW a \in Atoms,
         NEW e \in 1..m, NEW v \in Env, NEW new, new = Bank(e, v),
         NEW j, j = nor_write(f, b, a, new)
  PROVE  Begins(j, f, m, b, a, new)
<1> DEFINE g == j.sectorsToChange
<1>1. /\ j.atom = a /\ j.to = b /\ j.new = new /\ j.erased = FALSE
      /\ j.todo = Sectors(b, a)
      /\ g = [f EXCEPT ![b][a] = new[a]]
      /\ j = [atom |-> a, to |-> b, new |-> new, erased |-> FALSE, todo |-> Sectors(b, a),
              sectorsToChange |-> g]
  BY DEF nor_write
<1>2. j # Idle
  BY <1>1 DEF Idle, Atoms
<1>3. f = [c \in Banks |-> [d \in Atoms |-> f[c][d]]]
  BY DEF FlashOK
<1>4. g = [c \in Banks |-> [d \in Atoms |-> IF c = b /\ d = a THEN new[a] ELSE f[c][d]]]
  <2>1. g = [f EXCEPT ![b][a] = new[a]]
    BY <1>1
  <2> HIDE DEF g
  <2>2. QED
    BY <1>3, <2>1
<1>5. \A c \in Banks, d \in Atoms :
        g[c][d] = IF c = b /\ d = a THEN new[a] ELSE f[c][d]
  BY <1>4
<1>6. new[a] \in AtomAt(a, m)
  BY DEF AtomAt
<1>7. \A c \in Banks, d \in Atoms : g[c][d] \in AtomAt(d, m)
  BY <1>5, <1>6 DEF FlashOK
<1>8. g = [c \in Banks |-> [d \in Atoms |-> g[c][d]]]
  BY <1>4
<1>9. FlashOK(g, m)
  BY <1>7, <1>8 DEF FlashOK
<1>10. QED
  BY <1>1, <1>2, <1>5, <1>9 DEF Begins

LEMMA JobBegins ==
  ASSUME NEW b \in Banks, NEW a \in Atoms, NEW new, NEW m,
         NEW e \in 1..m, NEW v \in Env, new = Bank(e, v),
         Begins(job', flash', m, b, a, new), m = hist'.saves + 2,
         layout' = layout, ram'.newest # 0
  PROVE  JobOK'
<1> DEFINE g == job'.sectorsToChange
<1>1. /\ job'.atom = a /\ job'.to = b /\ job'.new = new /\ job'.erased = FALSE
      /\ job'.todo = Sectors(b, a)
      /\ FlashOK(g, m) /\ g[b][a] = new[a]
      /\ \A c \in Banks, d \in Atoms : c # b \/ d # a => g[c][d] = flash'[c][d]
  BY DEF Begins
<1>9. (job = [atom |-> job.atom, to |-> job.to, new |-> job.new, erased |-> job.erased,
              todo |-> job.todo, sectorsToChange |-> T])'
  BY <1>1 DEF Begins, T
<1>10. job' # Idle
  BY DEF Begins
<1>2. \A c, d : Sectors(c, d)' = Sectors(c, d)
  BY DEF Sectors
<1>3. (job.todo = Sectors(job.to, job.atom))'
  BY <1>1, <1>2
<1>4. (\E i \in 1..hist.saves + 2, w \in Env : job.new = Bank(i, w))'
  BY <1>1
<1>5. FlashOK(T, hist.saves + 2)'
  BY <1>1 DEF T
<1>6. (T[job.to][job.atom] = job.new[job.atom])'
  BY <1>1 DEF T
<1>7. (\A c \in Banks, d \in Atoms :
         IF job.erased /\ <<c, layout[d]>> = job.todo[1] THEN flash[c][d] = Blank
         ELSE \/ flash[c][d] = T[c][d]
              \/ c = job.to /\ d = job.atom /\ job.todo = Sectors(job.to, job.atom))'
  BY <1>1, <1>3 DEF T
<1>8. QED
  BY <1>9, <1>10, <1>1, <1>3, <1>4, <1>5, <1>6, <1>7 DEF JobOK

LEMMA InitIInv ==
  Init => IInv
<1> SUFFICES ASSUME Init PROVE IInv
  OBVIOUS
<1>1. PICK e \in 1..2, f \in 1..2, v \in Env, w \in Env :
        flash = <<Bank(e, v), Bank(f, w)>>
  BY DEF Init
<1>2. e \in Nat /\ f \in Nat /\ 2 \in Nat
  OBVIOUS
<1>3. flash = [b \in Banks |-> [a \in Atoms |-> flash[b][a]]]
  BY <1>1 DEF Bank, Banks, Atoms
<1>4. \A b \in Banks, a \in Atoms : flash[b][a] \in AtomAt(a, 2)
  BY <1>1 DEF AtomAt, Banks
<1>5. FlashOK(flash, 2)
  BY <1>3, <1>4 DEF FlashOK
<1>6. Whole(flash, 1, e, v) /\ Whole(flash, 2, f, w)
  BY <1>1 DEF Whole
<1>7. readAtoms(flash[1]) /\ readAtoms(flash[2])
      /\ flash[1][2].env = v /\ flash[2][2].env = w
  BY <1>2, <1>6, WholeIsReadable DEF Banks
<1>8. Readable(flash) = Banks /\ Readable(flash) # {}
  BY <1>7, SetupOfTwo DEF Banks
<1> DEFINE b == Newest(flash)
<1>9. b \in Banks
  BY <1>8, NewestFacts
<1>10. flash[b][2].env \in Env /\ nvram_setup(flash).vars = flash[b][2].env
  BY <1>7, <1>8, <1>9 DEF nvram_setup, Banks
<1> DEFINE s == flash[b][2].env
<1>11. hist = [saves |-> 0, before |-> s, saving |-> s, both |-> TRUE,
               cuts |-> 0, fails |-> 0, faults |-> 0]
  BY DEF Init
<1>12. s \in Env /\ nvram_setup(flash).vars = s
  BY <1>10
<1> HIDE DEF s
<1>13. /\ hist.saves = 0 /\ hist.before = s /\ hist.saving = s
       /\ hist.cuts = 0 /\ hist.fails = 0
  BY <1>11
<1>14. HistOK
  <2>1. MaxSaves \in Nat /\ MaxFaults \in Nat
    BY NvramAssumption
  <2>2. 0 \in 0..MaxSaves /\ 0 \in 0..MaxFaults /\ 0 \in Nat /\ TRUE \in BOOLEAN
    BY <2>1
  <2>3. QED
    BY <1>11, <1>12, <2>2 DEF HistOK
<1>15. layout \in Layouts /\ ram = Off /\ job = Idle
  BY DEF Init
<1>16. RamOK
  BY <1>15 DEF RamOK, Off
<1>17. FlashOK(flash, hist.saves + 2)
  BY <1>5, <1>13
<1>18. JobOK /\ SaveOK
  BY <1>15 DEF JobOK, SaveOK
<1>19. SurvivesAFault
  BY <1>12, <1>13 DEF SurvivesAFault
<1>20. QED
  BY <1>14, <1>16, <1>17, <1>18, <1>19 DEF IInv

LEMMA SaveIInv ==
  ASSUME IInv, nvram_save
  PROVE  IInv'
<1> DEFINE n == ram.newest
           o == ram.oldest
           m == hist.saves + 3
<1>1. /\ job = Idle /\ n # 0 /\ hist.saves < MaxSaves
      /\ job' = nor_write(flash, o, 1, Saved)
      /\ layout' = layout /\ flash' = flash /\ ram' = ram
  BY DEF nvram_save
<1>2. /\ Readable(flash) # {} /\ n = Newest(flash) /\ o = Oldest(flash, n)
      /\ ram.vars \in Env /\ layout \in Layouts
  BY <1>1 DEF IInv, RamOK
<1>3. n \in Readable(flash) /\ n \in Banks /\ o \in Banks
      /\ (Readable(flash) = Banks => o = Other(n))
  BY <1>2, NewestFacts
<1>4. hist.saves \in Nat /\ hist.saves + 2 \in Nat /\ m \in Nat /\ MaxSaves \in Nat
  BY NvramAssumption DEF IInv, HistOK
<1>5. PICK e \in 1..hist.saves + 2, v \in Env : Whole(flash, n, e, v)
  BY <1>3, <1>4, ReadableBank DEF Readable, IInv
<1>6. e \in Nat /\ e \in 1..m /\ e + 1 \in 1..m
  BY <1>4
<1>7. flash[n][1].epoch = e /\ flash[n][2].env = v
  BY <1>3, <1>5, <1>6, WholeIsReadable
<1>8. Saved = Bank(e + 1, ram.vars)
  BY <1>7 DEF Saved
<1> DEFINE bb == Readable(flash) = Banks
           k == hist.saves + 1
           x == ram.vars
<1>9. hist' = [hist EXCEPT !.saves = k, !.before = v, !.saving = x, !.both = bb,
                           !.cuts = 0, !.fails = 0]
  BY <1>7 DEF nvram_save
<1>10. k \in 0..MaxSaves /\ x \in Env /\ bb \in BOOLEAN
  BY <1>1, <1>2, <1>4
<1> DEFINE z == 0
<1>11. hist' = [hist EXCEPT !.saves = k, !.before = v, !.saving = x, !.both = bb,
                           !.cuts = z, !.fails = z] /\ z \in Nat
  BY <1>9
<1> HIDE DEF z, bb, k, x
<1>12. HistOK'
  BY <1>10, <1>11 DEF HistOK, IInv
<1>13. /\ hist'.saves = k /\ hist'.before = v /\ hist'.saving = x /\ hist'.both = bb
       /\ hist'.cuts = z /\ hist'.fails = z
  BY <1>11 DEF HistOK, IInv
<1> USE DEF z, bb, k, x
<1>14. hist'.saves + 2 = m
  BY <1>4, <1>13
<1>15. FlashOK(flash, m)
  <2>1. \A a \in Atoms : AtomAt(a, hist.saves + 2) \subseteq AtomAt(a, m)
    BY <1>4 DEF AtomAt
  <2>2. QED
    BY <2>1 DEF FlashOK, IInv
<1> DEFINE g == job'.sectorsToChange
<1>16. /\ job' # Idle /\ job'.atom = 1 /\ job'.to = o /\ job'.new = Saved
       /\ job'.erased = FALSE /\ job'.todo = Sectors(o, 1)
       /\ FlashOK(g, m) /\ g[o][1] = Saved[1]
       /\ \A c \in Banks, d \in Atoms : c # o \/ d # 1 => g[c][d] = flash[c][d]
      /\ Begins(job', flash, m, o, 1, Saved)
  <2>1. 1 \in Atoms
    BY DEF Atoms
  <2>2. e + 1 \in 1..m /\ x \in Env /\ Saved = Bank(e + 1, x)
    BY <1>2, <1>6, <1>8
  <2>3. job' = nor_write(flash, o, 1, Saved)
    BY <1>1
  <2>4. o \in Banks /\ m \in Nat
    BY <1>3, <1>4
  <2>5. Begins(job', flash, m, o, 1, Saved)
    BY <1>15, <2>1, <2>2, <2>3, <2>4, NorWriteBegins
  <2>6. QED
    BY <2>5 DEF Begins
<1>18. RamOK'
  BY <1>1, <1>16 DEF IInv, RamOK
<1>19. FlashOK(flash, hist.saves + 2)'
  BY <1>1, <1>14, <1>15
<1>20. JobOK'
  <2>1. Begins(job', flash', m, o, 1, Saved)
    BY <1>1, <1>16
  <2>2. ram'.newest # 0 /\ 1 \in Atoms
    BY <1>1 DEF Atoms
  <2>3. QED
    BY <1>1, <1>2, <1>3, <1>6, <1>8, <1>14, <2>1, <2>2, JobBegins
<1>21. SaveOK'
  <2> SUFFICES ASSUME bb
               PROVE  /\ hist'.cuts = 0
                      /\ \E i \in 1..hist'.saves + 2 :
                           /\ job'.new = Bank(i + 1, hist'.saving)
                           /\ \A a \in Atoms : g[Other(o)][a] = Bank(i, hist'.before)[a]
                           /\ Beaten(flash[o][1], Other(o), i, x)
                           /\ Beaten(g[o][1], Other(o), i, x)
                      /\ \A a \in Atoms : a <= 1 => g[o][a] = Saved[a]
    BY <1>1, <1>13, <1>16, ZenonT(40) DEF SaveOK, T
  <2>1. o = Other(n) /\ Other(o) = n /\ o # n
    BY <1>3 DEF Other, Banks
  <2>2. \A a \in Atoms : g[n][a] = Bank(e, v)[a]
    BY <1>3, <1>5, <1>16, <2>1 DEF Whole
  <2>3. Beaten(flash[o][1], n, e, x)
    <3>1. o \in Readable(flash) /\ readAtoms(flash[1]) /\ readAtoms(flash[2])
      BY <1>3 DEF Readable, Banks
    <3>2. readAtoms(flash[o])
      BY <3>1 DEF Readable
    <3>3. PICK i \in 1..hist.saves + 2, w \in Env : Whole(flash, o, i, w)
      BY <1>3, <1>4, <3>2, ReadableBank DEF IInv
    <3>4. i \in Nat /\ flash[o][1].epoch = i
      BY <1>3, <1>4, <3>3, WholeIsReadable
    <3>5. n = IF flash[1][1].epoch < flash[2][1].epoch THEN 2 ELSE 1
      BY <1>2 DEF Newest
    <3>6. CASE n = 1
      <4>1. o = 2 /\ ~(e < i)
        BY <1>7, <2>1, <3>4, <3>5, <3>6 DEF Other
      <4>2. i < e \/ i = e
        BY <1>6, <3>4, <4>1
      <4>3. QED
        BY <1>1, <3>4, <3>6, <4>2 DEF Beaten
    <3>7. CASE n = 2
      <4>1. o = 1 /\ i < e
        BY <1>7, <2>1, <3>4, <3>5, <3>7 DEF Other
      <4>2. QED
        BY <1>1, <3>4, <4>1 DEF Beaten
    <3>8. QED
      BY <1>3, <3>6, <3>7 DEF Banks
  <2>4. Beaten(g[o][1], n, e, x)
    BY <1>8, <1>13, <1>16 DEF Beaten
  <2>5. \A a \in Atoms : a <= 1 => g[o][a] = Saved[a]
    <3>1. \A a \in Atoms : a <= 1 => a = 1
      BY DEF Atoms
    <3>2. QED
      BY <1>16, <3>1
  <2>6. e \in 1..hist'.saves + 2 /\ job'.new = Bank(e + 1, hist'.saving)
    BY <1>6, <1>8, <1>13, <1>14, <1>16
  <2>7. \A a \in Atoms : g[Other(o)][a] = Bank(e, hist'.before)[a]
    BY <1>13, <2>1, <2>2
  <2>8. hist'.cuts = 0
    BY <1>13
  <2>9. QED
    BY <2>1, <2>3, <2>4, <2>5, <2>6, <2>7, <2>8
<1>22. SurvivesAFault'
  BY <1>16 DEF SurvivesAFault
<1>23. QED
  BY <1>12, <1>18, <1>19, <1>20, <1>21, <1>22 DEF IInv

(* The first fault of a save, anywhere in it.                              *)
LEMMA CutShort ==
  ASSUME IInv, job # Idle, hist.both, hist.cuts + hist.fails = 0
  PROVE  nvram_setup(flash).vars \in {hist.before, hist.saving}
<1> DEFINE b == job.to
           o == Other(b)
           a == job.atom
<1>1. /\ b \in Banks /\ a \in Atoms /\ job.erased \in BOOLEAN
      /\ layout \in Layouts
  BY DEF IInv, JobOK, RamOK
<1>2. o \in Banks /\ o # b
  BY <1>1 DEF Other, Banks
<1>3. hist.saves \in Nat /\ hist.cuts \in Nat /\ hist.fails \in Nat
  BY DEF IInv, HistOK
<1>4. hist.fails = 0 /\ hist.cuts + hist.fails <= 1
  BY <1>3
<1>5. PICK e \in 1..hist.saves + 2 :
        /\ job.new = Bank(e + 1, hist.saving)
        /\ \A d \in Atoms : T[o][d] = Bank(e, hist.before)[d]
        /\ Beaten(flash[b][1], o, e, hist.saving)
  BY <1>4 DEF IInv, SaveOK
<1>6. \A d \in Atoms : d <= a => T[b][d] = job.new[d]
  BY <1>4 DEF IInv, SaveOK
<1>7. e \in Nat
  BY <1>3
<1>8. CASE \A d \in Atoms : flash[o][d] = T[o][d]
  <2>1. Whole(flash, o, e, hist.before)
    BY <1>5, <1>8 DEF Whole
  <2>2. QED
    BY <1>1, <1>5, <1>7, <2>1, OtherIsLoaded
<1>9. CASE ~ \A d \in Atoms : flash[o][d] = T[o][d]
  <2>1. PICK d \in Atoms : flash[o][d] # T[o][d]
    BY <1>9
  <2>2. job.erased /\ <<o, layout[d]>> = job.todo[1]
    BY <1>2, <2>1 DEF IInv, JobOK
  <2>3. \/ job.todo = Sectors(b, a)
        \/ Len(Sectors(b, a)) = 2 /\ job.todo = << Sectors(b, a)[2] >>
    BY DEF IInv, JobOK
  <2>4. /\ a = 3 /\ b = 1 /\ Sectors(b, a) = << <<1, 2>>, <<2, 1>> >>
        /\ job.todo = << <<2, 1>> >>
    <3>1. CASE Sectors(b, a) = << <<b, layout[a]>> >>
      BY <1>2, <2>2, <2>3, <3>1
    <3>2. CASE Sectors(b, a) = << <<b, 1>>, <<b, 2>> >>
      BY <1>2, <2>2, <2>3, <3>2
    <3>3. CASE a = 3 /\ b = 1 /\ Sectors(b, a) = << <<1, 2>>, <<2, 1>> >>
      BY <1>2, <2>2, <2>3, <3>3
    <3>4. QED
      BY <1>1, <3>1, <3>2, <3>3, SectorFacts
  <2>5. job.todo[1] = <<2, 1>> /\ job.todo # Sectors(b, a) /\ o = 2
    BY <2>4 DEF Other
  <2>6. flash[2][1] = Blank
    <3>1. layout[1] = 1 /\ 1 \in Atoms /\ 2 \in Banks
      BY <1>1, LayoutFacts DEF Atoms, Banks
    <3>2. QED
      BY <2>2, <2>5, <3>1 DEF IInv, JobOK
  <2>7. \A c \in Atoms : flash[1][c] = T[1][c]
    <3>1. 1 \in Banks /\ \A c : <<1, layout[c]>> # job.todo[1]
      BY <2>5 DEF Banks
    <3>2. QED
      BY <2>5, <3>1 DEF IInv, JobOK
  <2>8. Whole(flash, 1, e + 1, hist.saving)
    BY <1>5, <1>6, <2>4, <2>7 DEF Whole, Atoms
  <2>9. flash[Other(1)][1] = Blank /\ 1 \in Banks
    BY <2>6 DEF Other, Banks
  <2>10. QED
    BY <1>7, <2>8, <2>9, NewIsLoaded
<1>10. QED
  BY <1>8, <1>9

LEMMA SetvarIInv ==
  ASSUME IInv, NEW v \in Env, nvram_setvar(v)
  PROVE  IInv'
<1>1. /\ job = Idle /\ ram' = [ram EXCEPT !.vars = v]
      /\ layout' = layout /\ flash' = flash /\ job' = job /\ hist' = hist
  BY DEF nvram_setvar
<1>2. RamOK'
  BY <1>1 DEF IInv, RamOK
<1>3. QED
  <2>1. HistOK'
    BY <1>1 DEF IInv, HistOK
  <2>2. FlashOK(flash, hist.saves + 2)'
    BY <1>1 DEF IInv
  <2>3. JobOK' /\ SaveOK'
    BY <1>1 DEF JobOK, SaveOK
  <2>4. SurvivesAFault'
    BY <1>1 DEF IInv, SurvivesAFault
  <2>5. QED
    BY <1>2, <2>1, <2>2, <2>3, <2>4 DEF IInv

LEMMA InitNorIInv ==
  ASSUME IInv, nor_init
  PROVE  IInv'
<1>1. /\ ram = Off /\ ram' = nvram_setup(flash)
      /\ layout' = layout /\ flash' = flash /\ job' = job /\ hist' = hist
  BY DEF nor_init
<1>2. job = Idle
  BY <1>1 DEF IInv, JobOK, Off
<1>3. hist.saves + 2 \in Nat
  BY DEF IInv, HistOK
<1>4. RamOK'
  <2>1. FlashOK(flash, hist.saves + 2)
    BY DEF IInv
  <2>2. /\ ram' \in [newest : 0..2, oldest : 0..2, vars : Env \cup {None, "off"}]
        /\ ram'.newest # 0 =>
              /\ Readable(flash) # {} /\ ram'.oldest # 0 /\ ram'.vars \in Env
              /\ ram'.newest = Newest(flash) /\ ram'.oldest = Oldest(flash, ram'.newest)
    BY <1>1, <1>3, <2>1, SetupKnows
  <2>3. QED
    BY <1>1, <2>2 DEF IInv, RamOK
<1>5. QED
  <2>1. HistOK'
    BY <1>1 DEF IInv, HistOK
  <2>2. FlashOK(flash, hist.saves + 2)'
    BY <1>1 DEF IInv
  <2>3. JobOK' /\ SaveOK'
    BY <1>1, <1>2 DEF JobOK, SaveOK
  <2>4. SurvivesAFault'
    BY <1>1 DEF IInv, SurvivesAFault
  <2>5. QED
    BY <1>4, <2>1, <2>2, <2>3, <2>4 DEF IInv

LEMMA PowerIInv ==
  ASSUME IInv, PowerFails
  PROVE  IInv'
<1>1. /\ hist.faults < MaxFaults /\ ram' = Off /\ job' = Idle
      /\ hist' = [hist EXCEPT !.cuts = @ + 1, !.faults = @ + 1]
      /\ layout' = layout /\ flash' = flash
  BY DEF PowerFails, Faults
<1> DEFINE c == hist.cuts + 1
           k == hist.faults + 1
<1>2. /\ c \in Nat /\ k \in 0..MaxFaults /\ hist' = [hist EXCEPT !.cuts = c, !.faults = k]
      /\ hist.cuts \in Nat /\ hist.fails \in Nat
  BY <1>1, NvramAssumption DEF IInv, HistOK
<1> HIDE DEF c, k
<1>3. HistOK'
  BY <1>2 DEF IInv, HistOK
<1>4. /\ hist'.saves = hist.saves /\ hist'.before = hist.before
      /\ hist'.saving = hist.saving /\ hist'.both = hist.both
      /\ hist'.cuts = c /\ hist'.fails = hist.fails
  BY <1>2 DEF IInv, HistOK
<1>5. RamOK'
  BY <1>1 DEF IInv, RamOK, Off
<1>6. FlashOK(flash, hist.saves + 2)'
  BY <1>1, <1>4 DEF IInv
<1>7. JobOK' /\ SaveOK'
  BY <1>1 DEF JobOK, SaveOK
<1>8. SurvivesAFault'
  <2> SUFFICES ASSUME hist.both, c + hist.fails <= 1
               PROVE  /\ nvram_setup(flash).vars \in {hist.before, hist.saving}
                      /\ c + hist.fails # 0
    BY <1>1, <1>4 DEF SurvivesAFault
  <2>1. hist.cuts + hist.fails = 0 /\ hist.cuts + hist.fails <= 1 /\ c + hist.fails # 0
    BY <1>2 DEF c
  <2>2. CASE job = Idle
    BY <2>1, <2>2 DEF IInv, SurvivesAFault
  <2>3. CASE job # Idle
    BY <2>1, <2>3, CutShort
  <2>4. QED
    BY <2>1, <2>2, <2>3
<1>9. QED
  BY <1>3, <1>5, <1>6, <1>7, <1>8 DEF IInv

(* A job with a change of what is erased and of what is left to do.        *)
LEMMA JobStep ==
  ASSUME NEW x, NEW y,
         job = [atom |-> job.atom, to |-> job.to, new |-> job.new, erased |-> job.erased,
                todo |-> job.todo, sectorsToChange |-> T]
  PROVE  /\ [job EXCEPT !.erased = x] =
              [atom |-> job.atom, to |-> job.to, new |-> job.new, erased |-> x,
               todo |-> job.todo, sectorsToChange |-> T]
         /\ [job EXCEPT !.erased = x, !.todo = y] =
              [atom |-> job.atom, to |-> job.to, new |-> job.new, erased |-> x,
               todo |-> y, sectorsToChange |-> T]
<1> DEFINE a == job.atom
           b == job.to
           n == job.new
           e == job.erased
           d == job.todo
           g == T
<1>1. job = [atom |-> a, to |-> b, new |-> n, erased |-> e, todo |-> d,
             sectorsToChange |-> g]
  OBVIOUS
<1> HIDE DEF a, b, n, e, d, g
<1> DEFINE h == [job EXCEPT !.erased = x]
<1>2. h = [atom |-> a, to |-> b, new |-> n, erased |-> x, todo |-> d,
           sectorsToChange |-> g]
  BY <1>1
<1>3. [job EXCEPT !.erased = x, !.todo = y] = [h EXCEPT !.todo = y]
  OBVIOUS
<1>4. [h EXCEPT !.todo = y] =
        [atom |-> a, to |-> b, new |-> n, erased |-> x, todo |-> y,
         sectorsToChange |-> g]
  <2> HIDE DEF h
  <2>1. QED
    BY <1>2
<1>5. [job EXCEPT !.erased = x, !.todo = y] =
        [atom |-> a, to |-> b, new |-> n, erased |-> x, todo |-> y,
         sectorsToChange |-> g]
  BY <1>3, <1>4
<1> USE DEF a, b, n, e, d, g
<1>6. QED
  BY <1>2, <1>5

LEMMA EraseIInv ==
  ASSUME IInv, nor_erase_sector
  PROVE  IInv'
<1> DEFINE s == job.todo[1]
           m == hist.saves + 2
<1>1. /\ job # Idle /\ ~job.erased
      /\ flash' = WithSector(flash, Head(job.todo), Erased)
      /\ layout' = layout /\ ram' = ram /\ hist' = hist
      /\ job' = [job EXCEPT !.erased = TRUE]
  BY DEF nor_erase_sector
<1>2. /\ job.erased = FALSE
      /\ job = [atom |-> job.atom, to |-> job.to, new |-> job.new, erased |-> job.erased,
                todo |-> job.todo, sectorsToChange |-> T]
      /\ layout \in Layouts /\ job.to \in Banks /\ job.atom \in Atoms
      /\ \/ job.todo = Sectors(job.to, job.atom)
         \/ job.todo = << Sectors(job.to, job.atom)[2] >>
  BY <1>1 DEF IInv, JobOK, RamOK
<1>3. Head(job.todo) = s
  BY <1>2, SectorFacts
<1>4. job' = [atom |-> job.atom, to |-> job.to, new |-> job.new, erased |-> TRUE,
              todo |-> job.todo, sectorsToChange |-> T]
  <2> DEFINE tt == TRUE
  <2>1. job' = [job EXCEPT !.erased = tt]
    BY <1>1
  <2> HIDE DEF tt
  <2>2. job' = [atom |-> job.atom, to |-> job.to, new |-> job.new, erased |-> tt,
                todo |-> job.todo, sectorsToChange |-> T]
    BY <1>2, <2>1, JobStep
  <2> USE DEF tt
  <2>3. QED
    BY <2>2
<1>5. /\ job'.atom = job.atom /\ job'.to = job.to /\ job'.new = job.new
      /\ job'.erased = TRUE /\ job'.todo = job.todo /\ T' = T /\ job' # Idle
  BY <1>4 DEF T, Idle
<1>6. FlashOK(flash, m) /\ FlashOK(Erased, m)
  BY ErasedOK DEF IInv
<1>16. flash' = WithSector(flash, s, Erased)
  BY <1>1, <1>3
<1>7. FlashOK(flash', m) /\
      \A b \in Banks, a \in Atoms :
        flash'[b][a] = IF <<b, layout[a]>> = s THEN Erased[b][a] ELSE flash[b][a]
  <2> HIDE DEF s, m
  <2>1. QED
    BY <1>6, <1>16, WithSectorOK
<1>8. \A b \in Banks, a \in Atoms :
        flash'[b][a] = IF <<b, layout[a]>> = s THEN Blank ELSE flash[b][a]
  BY <1>7 DEF Erased
<1>9. \A b, a : Sectors(b, a)' = Sectors(b, a)
  BY <1>1 DEF Sectors
<1>10. JobOK'
  <2>1. (job = [atom |-> job.atom, to |-> job.to, new |-> job.new, erased |-> job.erased,
                todo |-> job.todo, sectorsToChange |-> T])'
    BY <1>4, <1>5
  <2>2. (\A b \in Banks, a \in Atoms :
           IF job.erased /\ <<b, layout[a]>> = job.todo[1] THEN flash[b][a] = Blank
           ELSE \/ flash[b][a] = T[b][a]
                \/ b = job.to /\ a = job.atom /\ job.todo = Sectors(job.to, job.atom))'
    BY <1>1, <1>2, <1>5, <1>8, <1>9 DEF IInv, JobOK
  <2>3. (\/ job.todo = Sectors(job.to, job.atom)
         \/ /\ Len(Sectors(job.to, job.atom)) = 2
            /\ job.todo = << Sectors(job.to, job.atom)[2] >>)'
    BY <1>1, <1>5, <1>9 DEF IInv, JobOK
  <2>4. (\E e \in 1..hist.saves + 2, v \in Env : job.new = Bank(e, v))'
    BY <1>1, <1>5 DEF IInv, JobOK
  <2>5. (FlashOK(T, hist.saves + 2) /\ T[job.to][job.atom] = job.new[job.atom])'
    BY <1>1, <1>5 DEF IInv, JobOK
  <2>6. ram'.newest # 0
    BY <1>1 DEF IInv, JobOK
  <2>7. QED
    BY <1>2, <1>5, <2>1, <2>2, <2>3, <2>4, <2>5, <2>6 DEF JobOK
<1>11. SaveOK'
  <2> SUFFICES ASSUME hist.both, hist.cuts + hist.fails <= 1
               PROVE  SaveOK'
    BY <1>1 DEF SaveOK
  <2>1. /\ hist.cuts = 0
        /\ hist.fails = 0 => \A a \in Atoms : a <= job.atom => T[job.to][a] = job.new[a]
    BY <1>1 DEF IInv, SaveOK
  <2>2. PICK e \in 1..hist.saves + 2 :
         /\ job.new = Bank(e + 1, hist.saving)
         /\ \A a \in Atoms : T[Other(job.to)][a] = Bank(e, hist.before)[a]
         /\ Beaten(flash[job.to][1], Other(job.to), e, hist.saving)
         /\ Beaten(T[job.to][1], Other(job.to), e, hist.saving)
    BY <1>1 DEF IInv, SaveOK
  <2>3. flash'[job.to][1] = Blank \/ flash'[job.to][1] = flash[job.to][1]
    BY <1>2, <1>8 DEF Atoms
  <2>4. Beaten(flash'[job.to][1], Other(job.to), e, hist.saving)
    BY <2>2, <2>3 DEF Beaten
  <2>5. QED
    BY <1>1, <1>5, <2>1, <2>2, <2>4 DEF SaveOK
<1>12. RamOK'
  BY <1>1, <1>5 DEF IInv, RamOK
<1>13. HistOK' /\ FlashOK(flash, hist.saves + 2)'
  BY <1>1, <1>7 DEF IInv, HistOK
<1>14. SurvivesAFault'
  BY <1>5 DEF SurvivesAFault
<1>15. QED
  BY <1>10, <1>11, <1>12, <1>13, <1>14 DEF IInv

(* A nor_write whose sector has been programmed: the flash holds what was  *)
(* meant in every sector, the ones still to be rewritten included.         *)
LEMMA SectorWritten ==
  ASSUME IInv, block_write_function
  PROVE  /\ FlashOK(flash', hist.saves + 2)
         /\ \A b \in Banks, a \in Atoms : flash'[b][a] = T[b][a]
<1> DEFINE s == job.todo[1]
           m == hist.saves + 2
           b0 == job.to
           a0 == job.atom
<1>1. /\ job # Idle /\ job.erased
      /\ flash' = WithSector(flash, Head(job.todo), T)
  BY DEF block_write_function, T
<1>2. /\ layout \in Layouts /\ b0 \in Banks /\ a0 \in Atoms
      /\ \/ job.todo = Sectors(b0, a0)
         \/ job.todo = << Sectors(b0, a0)[2] >> /\ job.todo # Sectors(b0, a0)
  BY <1>1 DEF IInv, JobOK, RamOK
<1>3. Head(job.todo) = s
  BY <1>2, SectorFacts
<1>4. FlashOK(flash, m) /\ FlashOK(T, m)
  BY <1>1 DEF IInv, JobOK
<1>5. flash' = WithSector(flash, s, T)
  BY <1>1, <1>3
<1>6. FlashOK(flash', m) /\
      \A b \in Banks, a \in Atoms :
        flash'[b][a] = IF <<b, layout[a]>> = s THEN T[b][a] ELSE flash[b][a]
  <2> DEFINE tt == T
  <2>1. FlashOK(tt, m) /\ flash' = WithSector(flash, s, tt)
    BY <1>4, <1>5
  <2> HIDE DEF s, m, tt
  <2>2. FlashOK(flash', m) /\
      \A b \in Banks, a \in Atoms :
        flash'[b][a] = IF <<b, layout[a]>> = s THEN tt[b][a] ELSE flash[b][a]
    BY <1>4, <2>1, WithSectorOK
  <2>3. QED
    BY <2>2 DEF tt
<1>7. ASSUME NEW b \in Banks, NEW a \in Atoms
      PROVE  flash'[b][a] = T[b][a]
  <2>1. CASE <<b, layout[a]>> = s
    BY <1>6, <2>1
  <2>2. CASE <<b, layout[a]>> # s
    <3>1. flash[b][a] = T[b][a] \/ (b = b0 /\ a = a0 /\ job.todo = Sectors(b0, a0))
      BY <1>1, <2>2 DEF IInv, JobOK
    <3>2. job.todo = Sectors(b0, a0) => s = <<b0, layout[a0]>>
      BY <1>2, SectorFacts, LayoutFacts
    <3>3. flash[b][a] = T[b][a]
      BY <2>2, <3>1, <3>2
    <3>4. QED
      BY <1>6, <2>2, <3>3
  <2>3. QED
    BY <2>1, <2>2
<1>8. QED
  BY <1>6, <1>7

(* nvram_save goes on with the next atom.                                  *)
LEMMA NextAtomBegins ==
  ASSUME IInv, job # Idle, job.atom < 3, NextAtom(flash'), layout' = layout,
         FlashOK(flash', hist.saves + 2), hist'.saves = hist.saves
  PROVE  /\ Begins(job', flash', hist.saves + 2, job.to, job.atom + 1, job.new)
         /\ JobOK' /\ RamOK'
<1> DEFINE m == hist.saves + 2
           b == job.to
           a == job.atom + 1
           n == job.new
<1>1. b \in Banks /\ a \in Atoms /\ m \in Nat /\ ram.newest # 0
  BY DEF IInv, JobOK, HistOK, Atoms
<1>2. PICK e \in 1..m, v \in Env : n = Bank(e, v)
  BY DEF IInv, JobOK
<1>3. job' = nor_write(flash', b, a, n) /\ ram' = ram
  BY DEF NextAtom
<1>4. Begins(job', flash', m, b, a, n)
  <2>1. FlashOK(flash', m)
    OBVIOUS
  <2> HIDE DEF m, b, a, n
  <2>2. QED
    BY <1>1, <1>2, <1>3, <2>1, NorWriteBegins
<1>5. JobOK'
  <2>1. m = hist'.saves + 2 /\ ram'.newest # 0
    BY <1>1, <1>3
  <2> HIDE DEF m, b, a, n
  <2>2. QED
    BY <1>1, <1>2, <1>4, <2>1, JobBegins
<1>6. RamOK'
  BY <1>3, <1>4 DEF Begins, IInv, RamOK
<1>7. QED
  BY <1>4, <1>5, <1>6

(* nvram_save is over, and sets up again.                                  *)
LEMMA SaveEnds ==
  ASSUME IInv, job # Idle, ~(job.atom < 3), NextAtom(flash'), layout' = layout,
         FlashOK(flash', hist.saves + 2)
  PROVE  job' = Idle /\ JobOK' /\ SaveOK' /\ RamOK'
<1>1. job' = Idle /\ ram' = nvram_setup(flash')
  BY DEF NextAtom
<1>2. hist.saves + 2 \in Nat
  BY DEF IInv, HistOK
<1>3. /\ ram' \in [newest : 0..2, oldest : 0..2, vars : Env \cup {None, "off"}]
      /\ ram'.newest # 0 =>
            /\ Readable(flash') # {} /\ ram'.oldest # 0 /\ ram'.vars \in Env
            /\ ram'.newest = Newest(flash') /\ ram'.oldest = Oldest(flash', ram'.newest)
  BY <1>1, <1>2, SetupKnows
<1>4. RamOK'
  BY <1>1, <1>3 DEF IInv, RamOK
<1>5. QED
  BY <1>1, <1>4 DEF JobOK, SaveOK

LEMMA BlockIInv ==
  ASSUME IInv, block_write_function
  PROVE  IInv'
<1> DEFINE m == hist.saves + 2
           b == job.to
           o == Other(b)
           a == job.atom
<1>1. job # Idle /\ job.erased /\ layout' = layout /\ hist' = hist
  BY DEF block_write_function
<1>2. FlashOK(flash', m) /\ \A c \in Banks, d \in Atoms : flash'[c][d] = T[c][d]
  BY SectorWritten
<1>3. /\ layout \in Layouts /\ b \in Banks /\ a \in Atoms /\ o \in Banks
      /\ \/ job.todo = Sectors(b, a)
         \/ job.todo = << Sectors(b, a)[2] >>
      /\ job = [atom |-> a, to |-> b, new |-> job.new, erased |-> job.erased,
                todo |-> job.todo, sectorsToChange |-> T]
  BY <1>1 DEF IInv, JobOK, RamOK, Other, Banks
<1>4. HistOK' /\ FlashOK(flash, hist.saves + 2)'
  BY <1>1, <1>2 DEF IInv, HistOK
<1>5. /\ hist.saves \in Nat /\ hist.cuts \in Nat /\ hist.fails \in Nat
  BY DEF IInv, HistOK
(* What SaveOK says of a save that is not to be excused.                   *)
<1>6. ASSUME hist.both, hist.cuts + hist.fails <= 1
      PROVE  /\ hist.cuts = 0
             /\ hist.fails = 0 => \A d \in Atoms : d <= a => T[b][d] = job.new[d]
             /\ \E e \in 1..m :
                  /\ job.new = Bank(e + 1, hist.saving)
                  /\ \A d \in Atoms : T[o][d] = Bank(e, hist.before)[d]
                  /\ Beaten(T[b][1], o, e, hist.saving)
  BY <1>1, <1>6 DEF IInv, SaveOK
<1>7. CASE Len(job.todo) = 1 /\ a < 3
  <2>1. NextAtom(flash')
    BY <1>7 DEF block_write_function
  <2>2. Begins(job', flash', m, b, a + 1, job.new) /\ JobOK' /\ RamOK'
    BY <1>1, <1>2, <1>7, <2>1, NextAtomBegins
  <2>3. /\ job' # Idle /\ job'.to = b /\ job'.atom = a + 1 /\ job'.new = job.new
        /\ T'[b][a + 1] = job.new[a + 1]
        /\ \A c \in Banks, d \in Atoms : c # b \/ d # a + 1 => T'[c][d] = flash'[c][d]
    BY <2>2 DEF Begins, T
  <2>4. SaveOK'
    <3> SUFFICES ASSUME hist.both, hist.cuts + hist.fails <= 1
                 PROVE  SaveOK'
      BY <1>1 DEF SaveOK
    <3>1. PICK e \in 1..m :
           /\ job.new = Bank(e + 1, hist.saving)
           /\ \A d \in Atoms : T[o][d] = Bank(e, hist.before)[d]
           /\ Beaten(T[b][1], o, e, hist.saving)
      BY <1>6
    <3>2. hist.cuts = 0 /\
          (hist.fails = 0 => \A d \in Atoms : d <= a => T[b][d] = job.new[d])
      BY <1>6
    <3>3. o # b
      BY <1>3 DEF Other, Banks
    <3>4. \A d \in Atoms : T'[o][d] = Bank(e, hist.before)[d]
      BY <1>2, <1>3, <2>3, <3>1, <3>3
    <3>5. 1 \in Atoms /\ a + 1 # 1
      BY <1>3 DEF Atoms
    <3>6. Beaten(flash'[b][1], o, e, hist.saving) /\ Beaten(T'[b][1], o, e, hist.saving)
      BY <1>2, <1>3, <2>3, <3>1, <3>5
    <3>7. hist.fails = 0 => \A d \in Atoms : d <= a + 1 => T'[b][d] = job.new[d]
      <4>1. \A d \in Atoms : d <= a + 1 => d <= a \/ d = a + 1
        BY <1>3 DEF Atoms
      <4>2. \A d \in Atoms : d # a + 1 => T'[b][d] = T[b][d]
        BY <1>2, <1>3, <2>3
      <4>3. QED
        BY <2>3, <3>2, <4>1, <4>2
    <3>8. QED
      BY <1>1, <2>3, <3>1, <3>2, <3>4, <3>6, <3>7 DEF SaveOK
  <2>5. SurvivesAFault'
    BY <2>3 DEF SurvivesAFault
  <2>6. QED
    BY <1>4, <2>2, <2>4, <2>5 DEF IInv
<1>8. CASE Len(job.todo) = 1 /\ ~(a < 3)
  <2>1. NextAtom(flash')
    BY <1>8 DEF block_write_function
  <2>2. job' = Idle /\ JobOK' /\ SaveOK' /\ RamOK'
    BY <1>1, <1>2, <1>8, <2>1, SaveEnds
  <2>3. SurvivesAFault'
    <3> SUFFICES ASSUME hist.both, hist.cuts + hist.fails <= 1
                 PROVE  /\ nvram_setup(flash').vars \in {hist.before, hist.saving}
                        /\ hist.cuts + hist.fails = 0 =>
                             nvram_setup(flash').vars = hist.saving
      BY <1>1 DEF SurvivesAFault
    <3>1. PICK e \in 1..m :
           /\ job.new = Bank(e + 1, hist.saving)
           /\ \A d \in Atoms : T[o][d] = Bank(e, hist.before)[d]
           /\ Beaten(T[b][1], o, e, hist.saving)
      BY <1>6
    <3>2. e \in Nat /\ 1 \in Atoms
      BY <1>5 DEF Atoms
    <3>3. Whole(flash', o, e, hist.before) /\ Beaten(flash'[b][1], o, e, hist.saving)
      BY <1>2, <1>3, <3>1, <3>2 DEF Whole
    <3>4. nvram_setup(flash').vars \in {hist.before, hist.saving}
      BY <1>3, <3>2, <3>3, OtherIsLoaded
    <3>5. ASSUME hist.cuts + hist.fails = 0
          PROVE  nvram_setup(flash').vars = hist.saving
      <4>1. hist.fails = 0
        BY <1>5, <3>5
      <4>2. \A d \in Atoms : T[b][d] = job.new[d]
        <5>1. \A d \in Atoms : d <= a
          BY <1>3, <1>8 DEF Atoms
        <5>2. QED
          BY <1>6, <4>1, <5>1
      <4>3. Whole(flash', b, e + 1, hist.saving)
        BY <1>2, <1>3, <3>1, <4>2 DEF Whole
      <4>4. QED
        BY <1>3, <3>2, <3>3, <4>3, NewIsLoaded
    <3>6. QED
      BY <3>4, <3>5
  <2>4. QED
    BY <1>4, <2>2, <2>3 DEF IInv
<1>9. CASE Len(job.todo) # 1
  <2>1. job' = [job EXCEPT !.erased = FALSE, !.todo = Tail(job.todo)] /\ ram' = ram
    BY <1>9 DEF block_write_function
  <2>2. /\ job.todo = Sectors(b, a) /\ Len(Sectors(b, a)) = 2
        /\ Tail(job.todo) = << Sectors(b, a)[2] >>
    <3>1. /\ job.todo = Sectors(b, a) \/ job.todo = << Sectors(b, a)[2] >>
          /\ Len(job.todo) # 1
      BY <1>3, <1>9
    <3>2. PICK x, y : Sectors(b, a) = <<x>> \/ Sectors(b, a) = <<x, y>>
      BY <1>3, SectorFacts
    <3>3. job.todo = Sectors(b, a) /\ Sectors(b, a) = <<x, y>>
      BY <3>1, <3>2
    <3>4. Len(<<x, y>>) = 2 /\ Tail(<<x, y>>) = <<y>> /\ <<x, y>>[2] = y
      OBVIOUS
    <3>5. QED
      BY <3>3, <3>4
  <2>3. job' = [atom |-> a, to |-> b, new |-> job.new, erased |-> FALSE,
                todo |-> Tail(job.todo), sectorsToChange |-> T]
    <3> DEFINE ff == FALSE
               y == Tail(job.todo)
    <3>1. job' = [job EXCEPT !.erased = ff, !.todo = y]
      BY <2>1
    <3> HIDE DEF ff, y
    <3>2. job' = [atom |-> a, to |-> b, new |-> job.new, erased |-> ff,
                  todo |-> y, sectorsToChange |-> T]
      BY <1>3, <3>1, JobStep
    <3> USE DEF ff, y
    <3>3. QED
      BY <3>2
  <2>4. /\ job'.atom = a /\ job'.to = b /\ job'.new = job.new /\ job'.erased = FALSE
        /\ job'.todo = << Sectors(b, a)[2] >> /\ T' = T /\ job' # Idle
    BY <2>2, <2>3 DEF T, Idle
  <2>5. \A c, d : Sectors(c, d)' = Sectors(c, d)
    BY <1>1 DEF Sectors
  <2>6. JobOK'
    <3>1. (job = [atom |-> job.atom, to |-> job.to, new |-> job.new, erased |-> job.erased,
                  todo |-> job.todo, sectorsToChange |-> T])'
      BY <2>2, <2>3, <2>4
    <3>2. (\A c \in Banks, d \in Atoms :
             IF job.erased /\ <<c, layout[d]>> = job.todo[1] THEN flash[c][d] = Blank
             ELSE \/ flash[c][d] = T[c][d]
                  \/ c = job.to /\ d = job.atom /\ job.todo = Sectors(job.to, job.atom))'
      BY <1>2, <2>4
    <3>3. (\/ job.todo = Sectors(job.to, job.atom)
           \/ /\ Len(Sectors(job.to, job.atom)) = 2
              /\ job.todo = << Sectors(job.to, job.atom)[2] >>)'
      BY <2>2, <2>4, <2>5
    <3>4. (\E e \in 1..hist.saves + 2, v \in Env : job.new = Bank(e, v))'
      BY <1>1, <2>4 DEF IInv, JobOK
    <3>5. (FlashOK(T, hist.saves + 2) /\ T[job.to][job.atom] = job.new[job.atom])'
      BY <1>1, <2>4 DEF IInv, JobOK
    <3>6. ram'.newest # 0
      BY <1>1, <2>1 DEF IInv, JobOK
    <3>7. QED
      BY <1>3, <2>4, <3>1, <3>2, <3>3, <3>4, <3>5, <3>6 DEF JobOK
  <2>7. SaveOK'
    <3> SUFFICES ASSUME hist.both, hist.cuts + hist.fails <= 1
                 PROVE  SaveOK'
      BY <1>1 DEF SaveOK
    <3>1. PICK e \in 1..m :
           /\ job.new = Bank(e + 1, hist.saving)
           /\ \A d \in Atoms : T[o][d] = Bank(e, hist.before)[d]
           /\ Beaten(T[b][1], o, e, hist.saving)
      BY <1>6
    <3>2. hist.cuts = 0 /\
          (hist.fails = 0 => \A d \in Atoms : d <= a => T[b][d] = job.new[d])
      BY <1>6
    <3>3. Beaten(flash'[b][1], o, e, hist.saving)
      BY <1>2, <1>3, <3>1 DEF Atoms
    <3>4. QED
      BY <1>1, <2>4, <3>1, <3>2, <3>3 DEF SaveOK
  <2>8. RamOK' /\ SurvivesAFault'
    BY <1>1, <2>1, <2>4 DEF IInv, RamOK, SurvivesAFault
  <2>9. QED
    BY <1>4, <2>6, <2>7, <2>8 DEF IInv
<1>10. QED
  BY <1>7, <1>8, <1>9

LEMMA FailsIInv ==
  ASSUME IInv, WriteFails
  PROVE  IInv'
<1> DEFINE m == hist.saves + 2
           b == job.to
           o == Other(b)
           a == job.atom
           c == hist.fails + 1
           k == hist.faults + 1
<1>1. /\ job # Idle /\ NextAtom(flash) /\ hist.faults < MaxFaults
      /\ layout' = layout /\ flash' = flash
      /\ hist' = [hist EXCEPT !.fails = c, !.faults = k]
  BY DEF WriteFails, Faults
<1>2. /\ c \in Nat /\ k \in 0..MaxFaults /\ hist.saves \in Nat
      /\ hist.cuts \in Nat /\ hist.fails \in Nat
  BY <1>1, NvramAssumption DEF IInv, HistOK
<1>3. HistOK' /\ /\ hist'.saves = hist.saves /\ hist'.before = hist.before
                /\ hist'.saving = hist.saving /\ hist'.both = hist.both
                /\ hist'.cuts = hist.cuts /\ hist'.fails = c
  <2>1. hist' = [hist EXCEPT !.fails = c, !.faults = k]
    BY <1>1
  <2> HIDE DEF c, k
  <2>2. HistOK'
    BY <1>2, <2>1 DEF IInv, HistOK
  <2>3. QED
    BY <1>2, <2>1, <2>2 DEF IInv, HistOK
<1>4. FlashOK(flash', m) /\ NextAtom(flash')
  BY <1>1 DEF IInv
<1>5. FlashOK(flash, hist.saves + 2)'
  BY <1>3, <1>4
<1>6. /\ layout \in Layouts /\ b \in Banks /\ a \in Atoms /\ o \in Banks /\ o # b
  BY <1>1 DEF IInv, JobOK, RamOK, Other, Banks
<1>7. ASSUME hist.cuts + c <= 1
      PROVE  hist.cuts + hist.fails = 0 /\ hist.cuts + hist.fails <= 1 /\ hist.cuts = 0
  BY <1>2, <1>7
<1>8. CASE a < 3
  <2>1. Begins(job', flash', m, b, a + 1, job.new) /\ JobOK' /\ RamOK'
    BY <1>1, <1>3, <1>4, <1>8, NextAtomBegins
  <2>2. /\ job' # Idle /\ job'.to = b /\ job'.atom = a + 1 /\ job'.new = job.new
        /\ \A i \in Banks, d \in Atoms : i # b \/ d # a + 1 => T'[i][d] = flash[i][d]
    BY <1>1, <2>1 DEF Begins, T
  <2>3. SaveOK'
    <3> SUFFICES ASSUME hist.both, hist.cuts + c <= 1
                 PROVE  SaveOK'
      BY <1>3 DEF SaveOK
    <3>1. hist.cuts + hist.fails <= 1 /\ hist.cuts = 0
      BY <1>7
    <3>2. PICK e \in 1..m :
           /\ job.new = Bank(e + 1, hist.saving)
           /\ \A d \in Atoms : T[o][d] = Bank(e, hist.before)[d]
           /\ Beaten(flash[b][1], o, e, hist.saving)
      BY <1>1, <3>1 DEF IInv, SaveOK
    <3>3. \A d \in Atoms : <<o, layout[d]>> # job.todo[1]
      <4>1. \/ job.todo = Sectors(b, a)
            \/ Len(Sectors(b, a)) = 2 /\ job.todo = << Sectors(b, a)[2] >>
        BY <1>1 DEF IInv, JobOK
      <4>2. \/ Sectors(b, a) = << <<b, layout[a]>> >>
            \/ Sectors(b, a) = << <<b, 1>>, <<b, 2>> >>
        BY <1>6, <1>8, SectorFacts
      <4>3. job.todo[1] \in {<<b, layout[a]>>, <<b, 1>>, <<b, 2>>}
        BY <4>1, <4>2
      <4>4. QED
        BY <1>6, <4>3
    <3>4. \A d \in Atoms : flash[o][d] = T[o][d]
      BY <1>1, <1>6, <3>3 DEF IInv, JobOK
    <3>5. \A d \in Atoms : T'[o][d] = Bank(e, hist.before)[d]
      BY <1>6, <2>2, <3>2, <3>4
    <3>6. 1 \in Atoms /\ a + 1 # 1
      BY <1>6 DEF Atoms
    <3>7. Beaten(flash'[b][1], o, e, hist.saving) /\ Beaten(T'[b][1], o, e, hist.saving)
      BY <1>1, <1>6, <2>2, <3>2, <3>6
    <3>8. c # 0
      BY <1>2
    <3>9. QED
      BY <1>3, <2>2, <3>1, <3>2, <3>5, <3>7, <3>8 DEF SaveOK
  <2>4. SurvivesAFault'
    BY <2>2 DEF SurvivesAFault
  <2>5. QED
    BY <1>3, <1>5, <2>1, <2>3, <2>4 DEF IInv
<1>9. CASE ~(a < 3)
  <2>1. job' = Idle /\ JobOK' /\ SaveOK' /\ RamOK'
    BY <1>1, <1>4, <1>9, SaveEnds
  <2>2. SurvivesAFault'
    <3> SUFFICES ASSUME hist.both, hist.cuts + c <= 1
                 PROVE  /\ nvram_setup(flash).vars \in {hist.before, hist.saving}
                        /\ hist.cuts + c # 0
      BY <1>1, <1>3 DEF SurvivesAFault
    <3>1. hist.cuts + hist.fails = 0 /\ hist.cuts + c # 0
      BY <1>2, <1>7
    <3>2. QED
      BY <1>1, <3>1, CutShort
  <2>3. QED
    BY <1>3, <1>5, <2>1, <2>2 DEF IInv
<1>10. QED
  BY <1>8, <1>9

----------------------------------------------------------------------------
(* The theorems.                                                           *)

(* The invariant holds of the initial states and is kept by every step.    *)
THEOREM SpecIInv == Spec => []IInv
<1>1. Init => IInv
  BY InitIInv
<1>2. IInv /\ [Next]_vars => IInv'
  <2> SUFFICES ASSUME IInv, [Next]_vars PROVE IInv'
    OBVIOUS
  <2>1. CASE \E v \in Env : nvram_setvar(v)
    BY <2>1, SetvarIInv
  <2>2. CASE nvram_save
    BY <2>2, SaveIInv
  <2>3. CASE nor_erase_sector
    BY <2>3, EraseIInv
  <2>4. CASE block_write_function
    BY <2>4, BlockIInv
  <2>5. CASE WriteFails
    BY <2>5, FailsIInv
  <2>6. CASE PowerFails
    BY <2>6, PowerIInv
  <2>7. CASE nor_init
    BY <2>7, InitNorIInv
  <2>8. CASE UNCHANGED vars
    <3>1. layout' = layout /\ flash' = flash /\ ram' = ram /\ job' = job /\ hist' = hist
      BY <2>8 DEF vars
    <3>2. HistOK' /\ RamOK' /\ FlashOK(flash, hist.saves + 2)'
      BY <3>1 DEF IInv, HistOK, RamOK
    <3>3. \A c, d : Sectors(c, d)' = Sectors(c, d)
      BY <3>1 DEF Sectors
    <3>4. JobOK'
      BY <3>1, <3>3 DEF IInv, JobOK, T
    <3>5. SaveOK' /\ SurvivesAFault'
      BY <3>1 DEF IInv, SaveOK, T, SurvivesAFault
    <3>6. QED
      BY <3>2, <3>4, <3>5 DEF IInv
  <2>9. QED
    BY <2>1, <2>2, <2>3, <2>4, <2>5, <2>6, <2>7, <2>8 DEF Next
<1>3. QED
  BY <1>1, <1>2, PTL DEF Spec

(* An atom in the NOR is blank or one that some save has made as a whole,  *)
(* whatever faults cut nor_write short.                                    *)
THEOREM SpecTypeOK == Spec => []TypeOK
<1>1. IInv => TypeOK
  <2> SUFFICES ASSUME IInv PROVE TypeOK
    OBVIOUS
  <2>1. layout \in Layouts
        /\ ram \in [newest : 0..2, oldest : 0..2, vars : Env \cup {None, "off"}]
    BY DEF IInv, RamOK
  <2>2. hist.before \in Env /\ hist.saving \in Env /\ hist.saves \in 0..MaxSaves
    BY DEF IInv, HistOK
  <2>3. hist.saves + 2 <= MaxSaves + 2 /\ hist.saves + 2 \in Nat /\ MaxSaves + 2 \in Nat
    BY <2>2, NvramAssumption
  <2>4. \A b \in Banks : \A a \in Atoms : flash[b][a] = Blank \/
          \E e \in 1..MaxSaves + 2 : \E v \in Env : flash[b][a] = Bank(e, v)[a]
    <3> TAKE b \in Banks
    <3> TAKE a \in Atoms
    <3>1. flash[b][a] = Blank \/
          \E e \in 1..hist.saves + 2, v \in Env : flash[b][a] = Bank(e, v)[a]
      BY DEF IInv, FlashOK, AtomAt
    <3>2. \A e \in 1..hist.saves + 2 : e \in 1..MaxSaves + 2
      BY <2>3
    <3>3. QED
      BY <3>1, <3>2
  <2>5. job # Idle => job.atom \in Atoms /\ job.to \in Banks /\ job.todo # <<>>
    <3> SUFFICES ASSUME job # Idle
                 PROVE  job.atom \in Atoms /\ job.to \in Banks /\ job.todo # <<>>
      OBVIOUS
    <3>1. /\ job.atom \in Atoms /\ job.to \in Banks
          /\ \/ job.todo = Sectors(job.to, job.atom)
             \/ job.todo = << Sectors(job.to, job.atom)[2] >>
      BY DEF IInv, JobOK
    <3>2. QED
      <4>1. PICK x, y : Sectors(job.to, job.atom) \in {<<x>>, <<x, y>>}
        BY <2>1, <3>1, SectorFacts
      <4>2. Len(job.todo) \in {1, 2}
        BY <3>1, <4>1
      <4>3. QED
        BY <3>1, <4>2, SMTT(30)
  <2>6. QED
    BY <2>1, <2>2, <2>4, <2>5 DEF TypeOK
<1>2. QED
  BY <1>1, SpecIInv, PTL

(* Whenever no save is in progress, nvram_setup would load the environment *)
(* of before the last save or the saved one after one fault of that save,  *)
(* and the saved one without a fault, if both banks could be read when it  *)
(* began: for every number of saves, every environment and every number of *)
(* faults of other saves.                                                  *)
THEOREM SpecSurvivesAFault == Spec => []SurvivesAFault
<1>1. IInv => SurvivesAFault
  BY DEF IInv
<1>2. QED
  BY <1>1, SpecIInv, PTL

=============================================================================
