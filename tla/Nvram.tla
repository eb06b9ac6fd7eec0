--------------------------------- MODULE Nvram ---------------------------------
(***************************************************************************)
(* The two banks of nvram.c in the NOR, and a save that is cut short.      *)
(*                                                                         *)
(* A bank is a chain of atoms: "nvram" (the epoch and a sum over the       *)
(* bank), "common" (the variables) and the rest.  nvram_save writes the    *)
(* atoms of the newest bank over the oldest, without looking at what       *)
(* mtd_write returns; nor_write rewrites every sector it touches, and      *)
(* counts the sector behind the last byte among them.  The power may fail  *)
(* between any two flash operations, and the SPI flash may not become      *)
(* ready in time, which ends one nor_write.                                *)
(*                                                                         *)
(* Abstracted: the header of an atom and its data are one write, all the   *)
(* variables are one value, and the sum is what it is computed from.       *)
(***************************************************************************)
EXTENDS Naturals, Sequences

CONSTANTS
  Env,        \* what the variables may be
  Layouts,    \* in which sector of its bank each of the three atoms lies
  MaxSaves,   \* bound: calls of nvram_save
  MaxFaults   \* bound: power failures and failed writes

ASSUME NvramAssumption ==
  /\ MaxSaves \in Nat /\ MaxFaults \in Nat
  /\ \A l \in Layouts : l \in Seq(1..2) /\ Len(l) = 3 /\ l[1] = 1 /\ l[3] = 2

VARIABLES
  layout,     \* frozen: one of Layouts
  flash,      \* flash[b][a]: atom a of bank b
  ram,        \* newestBank, oldestBank (0: none) and variables
  job,        \* the save in progress
  hist        \* history: the last save, and what went wrong since it began

vars == <<layout, flash, ram, job, hist>>

Banks == 1..2
Atoms == 1..3       \* "nvram", "common", the rest
None  == "none"
Blank == [kind |-> "blank"]
Bank(e, v) == << [kind |-> "nvram", epoch |-> e, adler |-> <<e, v>>],
                 [kind |-> "common", env |-> v],
                 [kind |-> "rest"] >>
Idle  == [atom |-> 0]

---------------------------------------------------------------------------
(* Reading *)

\* a mutant: the sum is not looked at
ReadAtomsUnsummed(bank) == \A a \in Atoms : bank[a] # Blank

readAtoms(bank) ==
  /\ \A a \in Atoms : bank[a] # Blank
  /\ bank[1].adler = <<bank[1].epoch, bank[2].env>>

Readable(f) == {b \in Banks : readAtoms(f[b])}

\* With one readable bank, that one is the "oldest" as well.
Oldest(f, newest) ==
  IF Readable(f) = Banks THEN CHOOSE b \in Banks : b # newest ELSE newest

Newest(f) ==
  IF Readable(f) = Banks
  THEN IF f[1][1].epoch < f[2][1].epoch THEN 2 ELSE 1
  ELSE CHOOSE b \in Readable(f) : TRUE

\* Neither bank can be read: EIO, and newestBank is NULL or points to
\* what has been freed.
nvram_setup(f) ==
  IF Readable(f) = {} THEN [newest |-> 0, oldest |-> 0, vars |-> None]
  ELSE LET b == Newest(f)
       IN [newest |-> b, oldest |-> Oldest(f, b), vars |-> f[b][2].env]

Off == [newest |-> 0, oldest |-> 0, vars |-> "off"]

---------------------------------------------------------------------------
(* Writing *)

\* The sectors that nor_write erases and programs for atom a of bank b:
\* up to the one of the byte behind it.  There is no bank behind bank 2.
Sectors(b, a) ==
  LET next == IF layout[a] = 1 THEN <<b, 2>> ELSE <<b + 1, 1>>
      full == a = 3 \/ layout[a + 1] # layout[a]
  IN IF full /\ next[1] \in Banks
     THEN << <<b, layout[a]>>, next >> ELSE << <<b, layout[a]>> >>

\* f with the sector s of g
WithSector(f, s, g) ==
  [b \in Banks |-> [a \in Atoms |-> IF <<b, layout[a]>> = s THEN g[b][a] ELSE f[b][a]]]

Erased == [b \in Banks |-> [a \in Atoms |-> Blank]]

\* nor_write of atom a of what is being saved to the bank b: it reads its
\* sectors from the flash f before it erases the first.
nor_write(f, b, a, new) ==
  [atom |-> a, to |-> b, new |-> new, erased |-> FALSE, todo |-> Sectors(b, a),
   sectorsToChange |-> [f EXCEPT ![b][a] = new[a]]]

\* a mutant: the sum is that of the bank before its epoch is counted
SavedSumFirst ==
  [Bank(flash[ram.newest][1].epoch + 1, ram.vars) EXCEPT
    ![1].adler[1] = flash[ram.newest][1].epoch]

\* What nvram_save writes: the next epoch, and the sum over it.
Saved == Bank(flash[ram.newest][1].epoch + 1, ram.vars)

nvram_setvar(v) ==
  /\ job = Idle /\ ram.vars # "off"
  /\ ram' = [ram EXCEPT !.vars = v]
  /\ UNCHANGED <<layout, flash, job, hist>>

\* Without a bank findAtom returns NULL or follows a freed chain: a stop state.
nvram_save ==
  /\ job = Idle /\ ram.newest # 0 /\ hist.saves < MaxSaves
  /\ job' = nor_write(flash, ram.oldest, 1, Saved)
  /\ hist' = [hist EXCEPT !.saves = @ + 1, !.before = flash[ram.newest][2].env,
                          !.saving = ram.vars, !.both = Readable(flash) = Banks,
                          !.cuts = 0, !.fails = 0]
  /\ UNCHANGED <<layout, flash, ram>>

nor_erase_sector ==
  /\ job # Idle /\ ~job.erased
  /\ flash' = WithSector(flash, Head(job.todo), Erased)
  /\ job' = [job EXCEPT !.erased = TRUE]
  /\ UNCHANGED <<layout, ram, hist>>

\* The next atom, or the end of nvram_save, which sets up again from flash f.
NextAtom(f) ==
  IF job.atom < 3
  THEN job' = nor_write(f, job.to, job.atom + 1, job.new) /\ UNCHANGED ram
  ELSE job' = Idle /\ ram' = nvram_setup(f)

block_write_function ==
  /\ job # Idle /\ job.erased
  /\ flash' = WithSector(flash, Head(job.todo), job.sectorsToChange)
  /\ IF Len(job.todo) = 1 THEN NextAtom(flash')
     ELSE /\ job' = [job EXCEPT !.erased = FALSE, !.todo = Tail(@)]
          /\ UNCHANGED ram
  /\ UNCHANGED <<layout, hist>>

Faults == hist.faults < MaxFaults

\* nor_wait_for_ready times out, before the sector is erased or before it is
\* programmed: nor_write gives up, and nvram_save goes on.
WriteFails ==
  /\ job # Idle /\ Faults
  /\ NextAtom(flash)
  /\ hist' = [hist EXCEPT !.fails = @ + 1, !.faults = @ + 1]
  /\ UNCHANGED <<layout, flash>>

PowerFails ==
  /\ ram # Off /\ Faults
  /\ ram' = Off /\ job' = Idle
  /\ hist' = [hist EXCEPT !.cuts = @ + 1, !.faults = @ + 1]
  /\ UNCHANGED <<layout, flash>>

nor_init ==
  /\ ram = Off
  /\ ram' = nvram_setup(flash)
  /\ UNCHANGED <<layout, flash, job, hist>>

Init ==
  /\ layout \in Layouts
  /\ \E e, f \in 1..2, v, w \in Env : flash = <<Bank(e, v), Bank(f, w)>>
  /\ ram = Off /\ job = Idle
  /\ LET e == flash[Newest(flash)][2].env
     IN hist = [saves |-> 0, before |-> e, saving |-> e, both |-> TRUE,
                cuts |-> 0, fails |-> 0, faults |-> 0]

Next ==
  \/ \E v \in Env : nvram_setvar(v)
  \/ nvram_save
  \/ nor_erase_sector
  \/ block_write_function
  \/ WriteFails
  \/ PowerFails
  \/ nor_init

Spec == Init /\ [][Next]_vars

---------------------------------------------------------------------------
(* Properties *)

\* Types and ranges; an atom in the flash is blank or one of a bank that some
\* save has made as a whole, its sum included (nvram_save).
TypeOK ==
  /\ layout \in Layouts
  /\ \A b \in Banks : \A a \in Atoms : flash[b][a] = Blank \/
       \E e \in 1..MaxSaves + 2 : \E v \in Env : flash[b][a] = Bank(e, v)[a]
  /\ ram \in [newest : 0..2, oldest : 0..2, vars : Env \cup {None, "off"}]
  /\ job # Idle => job.atom \in Atoms /\ job.to \in Banks /\ job.todo # <<>>
  /\ hist.before \in Env /\ hist.saving \in Env

\* Whenever no save is in progress, nvram_setup would load the environment before
\* the last save or the one it saved, after one power failure or one failed write
\* anywhere in it, the sector of the other bank that nor_write rewrites included,
\* provided both banks could be read when it began; without a fault it is the
\* saved one.  Two failed writes can lose both banks.
SurvivesAFault ==
  LET loaded == nvram_setup(flash).vars
      faults == hist.cuts + hist.fails
  IN (job = Idle /\ hist.both /\ faults <= 1) =>
       /\ loaded \in {hist.before, hist.saving}
       /\ faults = 0 => loaded = hist.saving
=============================================================================
