# openiBoot: a TLA+ development

openiBoot is a boot loader for Apple's S5L8900, S5L8720, S5L8920 and A4 devices.
It runs on one CPU without an operating system: a small cooperative scheduler,
interrupt handlers, a stack of storage layers from the raw NAND up to HFS, a USB
console, and many drivers. These modules model the parts where the order of
events decides whether the program is right: the scheduler, the timed events, the
transfers of the NAND controller, how two flash translation layers find, move and
collect pages, and how the storage layers keep their state across power failures.

Paths below are relative to `src/`.

## 1. Inventory

### Scheduler: `tasks.c`, `arch-arm/asmhelpers.sx`, `arch-arm/entry.sx`

* State: `CurrentRunning`, `IRQTask`, `IRQBackupTask`; per task descriptor the
  two ring links, `state`, `criticalSectionNestCount`, `sleepEvent`, `wasWoken`;
  the CPU's interrupt mask.
* Operations: `task_start/stop/yield/sleep/suspend/wait/wait_timeout/wake`,
  `tasks_run`, `EnterCriticalSection`, `LeaveCriticalSection`, `SwapTask`,
  `StartTask`, the IRQ entry and exit.
* Interaction: interrupt handlers run on behalf of `irqTask` and call into the
  scheduler (`task_start` from USB, `task_wake_event` from the timer,
  `task_wake` from DMA). Every part that waits calls `task_yield` or `task_sleep`.
* Hard: every scheduler call swaps inside a critical section, so the section
  that one task enters is left by another; insertion from an interrupt beside
  the interrupted task; tasks that come to an end; WFI against interrupts.
* Correct when: the ring holds exactly the runnable tasks and its links agree,
  interrupts are masked exactly while the running task is in a critical
  section, each task gets back the depth it had, an interrupt returns to where
  it came from, no runnable task starves.

### Timed events: `plat-*/event.c`, `plat-*/timer.c`, `plat-*/wdt.c`

* State: the sorted `EventList`, each event's deadline, interval, handler and
  opaque pointer; the timer hardware.
* Operations: `event_add`, `event_readd`, `eventTimerHandler`, the handlers.
* Interaction: `task_sleep` adds the sleeper's event; the watchdog re-adds its
  own from its handler; the handler wakes tasks.
* Hard: time goes on while the handler runs; events are moved while they are
  listed; on the A4 the timer has to be set on every path.
* Correct when: no event goes off early or out of order, each goes off with the
  pointer of its owner, none is forgotten or needlessly late.

### VSVFL: `vfl-vsvfl/vsvfl.c`

* State: per CE (chip enable) a context, kept in a ring of four NAND blocks:
  counters `usn_inc`, `usn_dec`, block and page; the FTL's control blocks; maps
  of replaced blocks; scrub list; bad-block table.
* Operations: open, read, write, erase with remapping, `write_context`,
  `store_vfl_cxt`, scrub, replacement of bad blocks, address conversion.
* Hard: power failures between the operations on the NAND, failing writes and
  erases, several CEs whose contexts must agree on which is newest.
* Correct when: open finds the newest acknowledged context; there always is one;
  virtual and physical addresses are inverse to each other and two virtual
  blocks never share a physical one.

### FTL YAFTL: `ftl-yaftl/`

* State: tables from logical to physical pages (TOC and its caches), block
  statistics, two open blocks, garbage collection state, and three control
  blocks on the NAND with contexts and marks.
* Operations: open, restore, read, write, flush, garbage collection.
* Interaction: writes through the VFL; asks it for its control blocks.
* Hard: tables on the NAND must never be trusted when the data has changed
  since, wherever the power fails; failing writes; collection during writes.
* Correct when: what was written is read; a flush makes the state findable;
  a device left clean opens again.

### FTL of the S5L8900: `plat-s5l8900/ftl.c`

* State: `pstFTLCxt` (a map block for every logical block, seventeen logs with the
  place of every page, a ring of twenty free blocks, sequence numbers), three
  control blocks on the NAND, and the spares of all pages.
* Operations: open, restore, read, write, sync; inside them three kinds of
  merge (`ftl_simple_merge`, `ftl_copy_merge`, `ftl_compact_scattered`), wear levelling.
* Interaction: writes and erases through the VFL in the same file, which also
  remembers the control blocks.
* Hard: a merge is a dozen operations on the NAND and the power may fail between
  any two; a failed write starts the merge again; the restore has to tell map
  blocks from logs by what the pages say.
* Correct when: what was written is read, also after a restart; every block has
  one owner; logs agree with their pages; a page is programmed once per erase.

### H2FMI NAND controller and DMA: `plat-a4/h2fmi.c`, `plat-a4/cdma.c`

* State: the state machine's fields in `h2fmi_struct_t`, for each of two DMA
  channels `signalled` and the list of waiting tasks, the hardware.
* Operations: read, program and erase a page; `h2fmi_dma_execute_async`,
  `h2fmi_dma_wait`, `h2fmi_dma_cancel`, the completion handler.
* Interaction: the machine is polled between two `task_yield`s; the wait is a
  `task_wait_timeout`; the handler calls `task_wake` in the interrupt.
* Hard: a completion between the test and the wait; timeouts at every stage;
  what a call that was given up leaves behind.
* Correct when: a read that reports success has the page; every call returns.

### NVRAM: `nvram.c`, on `nor-spi/nor.c`

* State: two banks in the NOR, each a chain of atoms with an epoch and a checksum;
  in memory the newest bank, the address of the oldest, the variables.
* Operations: set up, set a variable, save.
* Hard: a save is a series of sector erases and programs, some of them in the
  other bank; the power may fail, writes may fail and nobody looks.
* Correct when: after a fault in a save the old or the new environment is loaded.

### Not modelled

| part | state and operations | correct when | reason |
|------|----------------------|--------------|--------|
| `vfl-vfl/vfl.c`, address maps of `vsvfl.c` | remapped blocks, scrub list | conversion and its inverse agree | planned (`VflMap`) |
| USB `usb-synopsys/usb.c`, `acm/acm.c` | endpoint queues, buffers | messages in order, none lost | planned (`UsbQueues`) |
| `nand.c`, `ftl.c`, `vfl.c`, `mtd.c`, `bdev.c`, `device.c` | device lists, open counts | open and close pair up | planned (`Devices`), small |
| `plat-*/nand.c`, `dma.c` | registers, polling | | hardware; external here |
| `plat-a4/mcu.c` | one DMA transfer at start-up | | a single caller of `task_wait` before there are tasks |
| `images.c`, `syscfg.c`, rest of the NOR drivers | NOR images | | formats, command sequences |
| `hfs/` | B-trees on disk, read only | | taken over from another project |
| `commands.c`, `scripting.c`, `actions.c`, `util.c` | command line, booting a kernel | | no state that outlives a call |
| menu, framebuffer, LCDs, touch, audio, radio, SDIO, WLAN, PMU, SPI, I2C, GPIO, UART | registers | | hardware protocols |
| `init.c`, `openiboot.c`, platform, clocks, MMU, AES | | | straight-line start-up |
| `malloc.c`, `stb_image.c`, `printf.c`, `sha1.c`, `aes_wrap.c` | | | third-party |
| `installer/`, `mk8900image/`, `images/`, `scons/` | | | host tools |

`PROJECT.json` lists the same parts with their files, and the hazards line by line.

## 2. Modules

| module | models | role |
|--------|--------|------|
| `Tasks` | scheduler, critical sections, interrupts | detailed |
| `TasksProofs` | | theorems about `Tasks` |
| `Deadlines` | what the event queue promises | abstract |
| `Events` | event queue and timer, three platforms | implements `Deadlines` |
| `EventsProofs` | | theorems about `Events` |
| `VflContext` | context store of the VSVFL | detailed |
| `VflContextProofs` | | theorems about `VflContext` |
| `CleanMount` | what a saved FTL context promises | abstract |
| `YaftlContext` | control blocks and marks of the YAFTL | implements `CleanMount` |
| `YaftlContextProofs` | | theorems about `YaftlContext` |
| `YaftlWrite` | reads, writes, caches and garbage collection of the YAFTL | detailed |
| `FtlLog` | the log-block FTL of the S5L8900, with restore | detailed |
| `H2fmi` | page transfers of the A4's NAND controller | detailed |
| `H2fmiProofs` | | theorems about `H2fmi` |
| `Nvram` | the two banks and the NOR sectors under them | detailed |
| `NvramProofs` | | theorems about `Nvram` |
| `FtlLogProofs` | | theorems about `FtlLog` |
| `MC*` | | constants for TLC |

A definition commented `faulty` is no part of the model: it is a variant of the
definition below it with a plausible bug, there to see that a property notices it;
so is one commented `mutant`.

### Tasks

`next` and `prev` are the links of all descriptors, `nest` their critical section
counts, `irqOn` the CPU's mask, `backup` is `IRQBackupTask`, `timers` the tasks
with a listed `sleepEvent`. A descriptor that is in no list points to itself, as
`task_init` and `task_remove` leave it.

The grain is one action for one scheduler call, because every call holds a
critical section. Since a call ends in another task than it began in, an action
is the first half of the caller's call, `SwapTask`, and the second half of the
call the next task was in (`Swap`): the caller's count goes up, the next task's
goes down, and the mask is what `LeaveCriticalSection` makes of that. `pc` is only
as fine as needed to see the window between `task_yield` and `WaitForInterrupt`
and the end of `StartTask`. `held` is a history variable: what the task's own
code has entered. Calls that return at once without a change (starting a task
that runs, `task_stop` of the last one) are no steps, except where the caller
goes on differently (`ReturnAlone`, `YieldFoundNobody`). `Boot` stands for the
main thread, which `tasks_run` keeps for ever, and which may also be in a command
that sleeps or enters critical sections.

### Events

`due[e]` is deadline minus now, which keeps the time finite. The handler samples
`curTime` once; `age` is the time since. `left` is the count of the timer; the
periodic timer reloads, the one-shot one of the A4 is stopped by the handler and
set by `HandlerEnds` and by `Add` for the first event of an empty list. `platform`
is chosen at the start and kept, so that one run covers both timers. `event_add`
of the S5L8720 does not store `opaque`, which is what the faulty `AddNoOpaque`
does. `armed` keeps the order in which events
were added, for `Deadlines`: events with equal deadlines go off in that order.

### VflContext

`flash[ce][block]` is the sequence of contexts in one block of a CE's ring of
four; an entry carries the counters, the control blocks (a serial number) and
whether its first copy can be read. A store is a `job` with a step for every
operation on the NAND: write (eight copies at once), erase of the next block,
failure of either with the move to the block after it. The power may fail
between any two, and within the first of the eight copies or behind it (`WriteCut`).
A store counts as a success with up to three bad copies, as in the code, and the first,
the only one that open reads, may be among them (`WriteSucceeds(FALSE)`); pages
that were written before and not erased are `Torn` by a second write, which may
all the same be a success. Counters advance on a failed write too, as in the code.

Of the lists that the FTL handed over, `acked` is the last whose store was a success, and
`found` the last of those that were written where open gets to them: readable, behind
readable entries only. The difference is what the code loses. `faults` counts the operations that
failed with the power on. With the third of them a store may have gone round the ring: it
has erased the other three blocks and counts on from the one it began with, so the
next store erases the newest context. Most properties speak of the states before that.

### YaftlContext

`flash` is a map of pages. `pc` names the operation on the NAND that comes next,
so that the power may fail between any two. Writing the data itself, whatever
the path (`YAFTL_Write`, collection, allocation), is one action `WriteData`,
because all these paths begin with the same test of `field_78`; the data and the
tables are a version number. Left out is the replacement of the control blocks
in `YAFTL_Flush`: it needs more than 1000 flushes in `numFlushes`, which nothing
ever increments.

### YaftlWrite

Nothing runs concurrently here, so a call of the public interface is one action,
and the functions it goes through are operators from the state (`sInfo`) to the
state they leave, under their names in the code; `ok` and `ret` are what they
return. One of the first `MaxFail` writes to the NAND of a call may fail. `data` is the
value last written to each page, `context` what the last flush saved. The tables
of closed blocks, the caches with their dirty and clean states, the lists of the
collector, its states 0 to 4 and all counters are there; erase, use and read
counters are a choice between the lowest and the highest candidate.

Two things are left out. `YAFTL_Write` and `YAFTL_Read` flush by themselves after half of all
pages were written or half of the blocks allocated (`yaftl.c:2354`, `2065`): here `Flush` is
a call of its own that may follow any other. And the collector looks for the table of
a block among those kept in memory (`yaftl_gc.c:16`) before it reads the one on the NAND,
which holds the same: both are copies of what the open block had.

The model stops where the code does: `panic` (`system_panic`), `hung` (a loop that
changes nothing), and where the NAND would no longer behave: `overwritten`
(`allocateNewBlock` erases blocks freed for one kind of pages only when it looks for
that kind, so that a page can be programmed twice) and `duplicated`
(`YAFTL_writeMultiPages` writes its first page several times). The properties
speak of the states before that.

### FtlLog

One action for each call of `ftl_write`, `ftl_sync`, `ftl_setup`. Inside a call every
operation of the NAND counts, and the power may go at any of them (leaving the
page or block whole, old or unreadable) or one may fail. `data` is the number of
the last call that wrote a page, `doubt` the pages of a call that was cut, of
which either value is right. What `FTL_Restore` finds becomes `data`, because
what later calls must preserve is what the restore has found; whether it found
the right pages is the question of its own run.
Erase counts are not modelled: which blocks wear levelling exchanges is a choice
of the first or the last, and whether their counts are far enough apart for it to do
anything (`ftl.c:2788`) is chosen once for a device (`even`).

Stop states: `zeroed` (`ftl_prepare_log` clears the log table when `nextblockusn`
is 1), `overwritten` (after a restore `ftl_mark_unclean` returns at once and the
dirty free blocks are not erased), `closed` (`FTL_Open` fails). `Junk` is what the spare
of a mark holds in the sequence number that `ftl_mark_unclean` does not set; the
runs assume that it does no harm.

### H2fmi

One call of the state machine is one action (it holds a critical section), and a
poll finds the controller ready, busy, or busy past the time limit. `chan` is a
DMA channel: what the code knows of it (`signalled`, tasks in the list) and what
the hardware does. `pc` separates the test of `signalled` from the wait. `spin` is
the wait of the last task of the ring, which `task_sleep` makes with interrupts off.
When `task_wake` is called by the completion handler it switches the handler
itself out (`tasks.c:341`); what happens then is not followed (`isr` is "suspended").
`gaveUp` is a history variable: a wait has timed out before.

### Nvram

A bank has three atoms, an atom lies in one of two sectors of its bank
(`Layouts`), and a save is, for each atom, a `nor_write` of all the sectors it
touches: erase, program, next. `nor_write` counts the sector behind its last byte
among them, so that a save of one bank may erase a sector of the other. The
results of the writes are not looked at. With neither bank readable
`nvram_setup` returns EIO and a save would follow a null pointer: no save then.

## 3. Runs

| run | question | bounds | states |
|-----|----------|--------|--------|
| `tasks_fair` | do interrupts at any point keep ring, mask and depths right, and does everybody get the CPU? | three tasks, depth 1 | 1 024 |
| `events` | order, lateness, owner, `Deadlines`, with either timer; is the one-shot timer ever left stopped? | three events, timeouts 0, 1, 3, period 2, largest count 2 | 188 025 |
| `vfl_one_ce` | is the device always openable, does what open finds ever go back? | two entries a block, ten writes, three failures | 1 121 020 |
| `yaftl_flush` | is a stale context ever trusted, does a clean device reopen, does a flush end? | 4 blocks of 7 pages, contexts of two pages, six changes, two failures | 56 737 |
| `yaftl_write` | is the last written value read, through evictions, collection and a failed write; are tables, caches and counters true? | 7 blocks of 3 pages, 4 logical pages in 2 tables, 1 cache, 5 calls, one failure | 92 212 |
| `ftl_log` | the same through logs, merges, syncs, power failures and restarts | 2 logical blocks of 4 pages, 1 log, 5 calls, one mishap at any of 20 operations | 304 335 |
| `h2fmi` | does a read tell the truth, does every call return? | two channels, four calls | 60 260 |
| `nvram` | does one fault in a save leave the old or the new environment? | three values, two layouts, three saves, two faults | 414 831 |
| `vfl_lists` (violation) | is an acknowledged list found again, is it the newest of all CEs? | two CEs, two entries a block, power failures only | |
| `yaftl_collection` (violation) | does collection come to an end? | three logical pages, two caches, no failure | |
| `ftl_restore` (violation) | does the restore find every acknowledged page? | the power fails between two calls | |
| `h2fmi_read` (violation) | does a read tell the truth after a wait was given up? | as `h2fmi` | |

Why the bounds are enough for what the runs ask:

* Tasks: three tasks are the fewest for which the two directions of the ring
  differ and an insertion can land on the wrong side. `acm` is started by
  interrupts, `menu` by tasks, `Boot` never ends. One section around a call is
  what `acm_parse` does; a deeper nesting repeats the same arithmetic. The theorems
  hold for any number of both.
* Events: three events give a first, a middle and a last place and room for two
  equal deadlines; a timeout below, equal to and above the period; `MaxCount`
  below the largest timeout, so that the one-shot timer has to be set again.
  `MaxLate` (5) bounds how late the timer interrupt can be taken, `MaxAge` (1)
  how long a handler takes. Both bound the environment, not the code.
* VSVFL: with `usn_dec` starting at ten there are six stores, more writes with
  their retries: two entries fill a block, and the ring of four wraps to the
  first block when failures skip entries. Three failures are the fewest with
  which a search goes round the ring; power failures are not counted. One CE: with two the newest
  list may lose (`vfl_lists`), and the other properties are about each CE by itself. The theorems
  hold for any number of CEs, entries, stores and failures.
* YaftlContext: seven pages hold two contexts of two pages with marks, and one page
  over, which the test for room looks at; six changes fill two blocks and go
  round all three. Two failures exercise a retry that fails again.
* YaftlWrite: the last logical page is never used (`yaftl.c` refuses it), which leaves two pages in
  one table and one in the other. With one cache every change of table evicts the
  other; user blocks of two pages are full after two writes, so that five calls
  close blocks of both kinds, collect and flush in between. Two entries a table, so that a
  write does and does not reach the end of its table, where `YAFTL_Write` looks for a cache for the
  next one. Five calls do not reach the zone over two index blocks of which section 4 speaks (`FreeBlocksUnused`), which
  needs a third table. `Reserve`
  and `Ahead` (5 and 10 in the code) are 1 and 2 for seven blocks. `MaxFail` 2: the
  first or the second write of a call fails. `MaxRounds` (20) is the number of rounds
  after which a loop counts as hung, more than there are blocks to collect.
* FtlLog: one log, so that a write to the other logical block merges; four pages
  hold a context of two and a mark; the requests are single pages of both blocks,
  two pages out of order, and a whole block. Twenty operations are more than any call needs, so
  every operation of every call can be the one that is cut. Wear levelling comes
  after two and three merges instead of 20 and 300; the control block changes place
  every second time instead of 3 in 30.
* H2fmi: a call can only spoil a later one through the channels and the few fields
  that last; four calls see every pair and most triples of outcomes in a row.
* Nvram: epochs of the banks start equal, or with either ahead; a third save writes over the
  bank that a fault in the first one may have spoilt.

Deadlock is checked in the runs of `Tasks`, `Events` and `YaftlContext`. In the others
the number of calls and faults is bounded, and when they are used up, or
in a stop state (`VflContext`: a device that cannot be opened any more after three
failures), nothing is left to do: CHECK_DEADLOCK FALSE.

### Fairness

* `Tasks!Fairness`: strong for `Yield` and `LeaveCritical`, because interrupts come
  between them; tasks of openiBoot are written to yield in every loop. Weak for
  the exit of handlers, strong for interrupts: the timer of the S5L8900 and
  S5L8720 is periodic, so they keep coming. Strong for `SleepEnds`: a deadline is
  reached at some tick, and from then on every tick may end the sleep (that
  events do go off is `Events!EventGoesOff`).
* `Events!FairSpec`: time passes, the interrupt is taken, the handler's own code
  runs on. No fairness for `event_add`, nobody has to call it.
* `YaftlContext!FairSpec`: weak for the steps of a flush, which one task makes
  without waiting for anybody. Nothing makes the power fail.
* `H2fmi!Fairness`: the task runs, and a sleep ends; an interrupt that has come is
  taken. The controller need never be ready: weak fairness is for the polls that
  find it busy or late, so that it is the timeouts that end a call.
* `VflContext`, `YaftlWrite`, `FtlLog` and `Nvram` have no liveness: their calls are single
  actions, or may be cut by the power at any time.

## 4. What the runs show

The scheduler's data structures hold up: the ring is exact, interrupts are
masked exactly when they should be, and nobody starves. Two comments are wrong
about it. `tasks_run` may halt the CPU with a task in the ring (`tasks.c:241-244`);
with the periodic timer the task is late by at most a period, so liveness still
holds. And a task that ends while the main thread sleeps reboots the machine
(`arch-arm/asmhelpers.sx:443`).

The event queue keeps its promise with both kinds of timer. With the one-shot
timer an event that is added in front of a listed one goes off only when the
timer set for the later one expires: late, never lost. On the S5L8720 the sleeper's
pointer is not stored (`plat-s5l8720/event.c:81`), so that a sleep there cannot end well.

The VSVFL always has a context to open, on any number of CEs and wherever the power fails, until a
third operation of the NAND has failed. What open finds on a CE never goes back, and the first pages of the
blocks always tell which one was begun last. But what open finds is not always what was acknowledged. A
context whose first copy is torn by a power failure, or counted among the three bad copies of
a success, hides all that is stored behind it in that block: after one torn copy the next
list is written over it, acknowledged and lost (`vsvfl.c:428`, `910`). The contexts of the block are then
not ordered as a comment says (875), though open needs only the first pages of
that order. And with several CEs the version starts again from a number that is in use: contexts tie, and
the older list may win (`vsvfl.c:928`).

The YAFTL never trusts a stale context. Its path for failed context writes
is wrong in two ways: it erases blocks by their index in the list (`yaftl.c:601`), and
it reports success when the first write into an empty block failed (`yaftl.c:552`).

The YAFTL's mapping is right as long as the collector moves one page at a time: what is read is
what was written, counters, caches and tables agree, and a context that counts
as clean leads to the data. The collector has three errors. When it moves two index
pages to two blocks it enters the second under the number of the first, and frees the
block that holds the real one (`yaftl_gc.c:730`). Two stop the model: it
takes the entry of an unmapped page for "out of caches" and loops
(`yaftl_gc.c:566`), and it writes the first page of a zone several times
(`yaftl_common.c:192`).

The FTL of the S5L8900 keeps its pages, its pool of blocks and its logs through merges,
failing writes and restarts from a synced state. After a power failure the
restore can take a log that starts with its first page for the map block
(`ftl.c:1161`). Left out of the run, because they end in a state nothing follows:
an erase that fails after the block was counted as free (`ftl.c:811`), wear
levelling that is tried again after it failed. `FTL_Write` returns 0 after four failed tries,
the last page of the device is refused, and `ftl_read_mtd` and `ftl_write_mtd` report
the FALSE of a failure as success.

The H2FMI's timeouts end every call, and until a wait is given up, a read
tells the truth. A wait that is given up leaves its channel signalled, and the
next read believes the old signal (`h2fmi.c:1078`, `1056`). A transfer that completes while
its task sleeps makes the interrupt handler call `task_wake`, which swaps the handler out
(`tasks.c:341`), what `task_yield` refuses to do. A write that failed
returns 0 (`h2fmi.c:2430`), the list element is allocated with the size of a
pointer (`1083`), the handler's loop over the list never advances (`1023`).
`plat-s5l8920/h2fmi.c` is the same code.

A save of the NVRAM survives one fault, if both banks were readable: with one
readable bank, that bank is written over (`nvram.c:322`), and two failed writes in
one save can lose both. The branch where the epochs are equal takes bank 1.

The violation runs show one error each. Further properties that the code contradicts are in no
run of `PROJECT.json`; their modules state them, and a .cfg shows the counterexample:

| property | says | .cfg | the code |
|----------|------|------|----------|
| `FoundListDurable` | holds on one CE (`vfl_one_ce`) | `MCVflContext_FoundListDurable` | with two CEs contexts tie after a reboot (`vsvfl.c:928`) |
| `RingOrdered` | all of a block is newer than all of another | `MCVflContext_RingOrdered` | not behind a torn copy (`vsvfl.c:875`) |
| `DataKept` | a flush erases nothing but control blocks | `MCYaftlContext_data` | erases by the index in the list (`yaftl.c:601`) |
| `FreeBlocksUnused` | a free block holds no index page in use | `MCYaftlWrite_FreeBlocksUnused` | number of the wrong page (`yaftl_gc.c:730`) |
| `WakesItsSleeper` | holds on the other platforms (`events`) | `MCEvents_WakesItsSleeper` | the S5L8720 drops the pointer (`plat-s5l8720/event.c:81`) |
| `HandlerReturns` | no swap in an interrupt handler | `MCH2fmi_HandlerReturns` | `task_wake` in `h2fmi_handle_dma` (`tasks.c:341`) |

## 5. Theorems

`TasksProofs`, for every set of tasks, every `IrqTask` and every bound `MaxHeld`:

* `SpecTypeOK`: in particular no nest count falls below zero.
* `SpecRingMirrored`, `SpecRunQueueExact`, `SpecMaskingSound`, `SpecCriticalDepthKept`: the
  safety invariants.
* `SpecInterruptTransparent`, `SpecNoOvertaking`: the action properties. For the second, the tasks
  ahead of a waiting one (`Ahead`) are the least set that holds it and is closed
  under `prev` back to the running task; for each insertion, removal and swap the proof
  gives a set that is closed after the step and has nothing new in it but a task just started.

None of these invariants is inductive. That a swap leaves the mask right needs
to know that the next task has exactly one section to leave; that a removal or
insertion keeps the links mirrored needs to know that a descriptor outside the
ring points to itself, and that the task with the CPU is not one of those being
inserted. `IInv` adds three conjuncts to the properties:

* `OutsideLoops`: stopped and sleeping descriptors and `irqTask` point to themselves.
* `WaitersSwapped`: every task that waits, in the ring or asleep, is inside
  `SwapTask`, with one `LeaveCriticalSection` to do.
* `AnchorRuns`: the task that has the CPU (or had it before the interrupt) is a
  running one, in its own code, and only the main thread idles.

`InsertKeepsRing` and `RemoveKeepsRing` say what the two pointer updates do to any
mirrored ring; one lemma for each group of actions shows that `IInv` is kept;
`NextIInv` puts them together and temporal logic does the rest. `RunQueueExact` needs
one more invariant, since mirrored links may also form two rings: `RingConnected` says that any
set of descriptors that holds one runnable task and is closed under `next` holds
them all. It names no starting point, so a swap does not disturb it; a removal and an insertion keep
it (`RemoveKeepsConnected`, `InsertKeepsConnected`). The walk of `RunQueueExact` makes more steps
than there are tasks, so by the pigeonhole principle it repeats one; what it has met by
then is closed, hence everything (`WalkMeetsAll`). The assumption
is `TasksAssumption`: the tasks are finitely many, the main thread is one, `irqTask` is not one of
the ordinary tasks, interrupts do not start the main thread.

`EventsProofs`, for every set of events, timeouts and platforms, every period, largest
count and bounds on the handler's and the interrupt's delay:

* `SpecTypeOK`, `SpecSortedOnce`, `SpecLateByATickAtMost`, `SpecTimerArmed`.
* `SpecWakesItsSleeper`, assuming that the platform is not the S5L8720, whose
  `event_add` does not store the pointer.
* `SpecImplementsDeadlines`: every step of the queue is a step of `Deadlines` or a stutter,
  that is, `KeepsPromise` without its fairness.

The invariant relates the list of the code to the order of arming that
`Deadlines` keeps (`Mirrored`: the same events, and of two with equal deadlines the
one armed first is listed first), and bounds the age of a handler and the
lateness of an event by what is left on the timer (`PeriodOK`). The lemmas on
`RemoveFirst`, `InsertAt`, `Append` and `Tail` state what these do to the order
of two elements (`Before`), which is all that the proofs need to know of sequences.
Assumption: `EventsAssumption` (the period is not 0, timeouts are natural numbers).

`VflContextProofs`, for any number of CEs, any size of blocks, any number of stores, failures, power
failures and lists, and with no assumption but `VflAssumption`:

* `SpecTypeOK`. `TInv` adds that a store has the `usn_dec` left
  for all the blocks it may still try (`JobOK`), and that it never writes past a block.
* `SpecAlwaysOpenable`, `SpecFirstPagesOrdered`, `SpecNothingFoundIsLost`. Torn copies break every order
  within a block, so the invariant says of a block only what survives them (`Sound`): a readable
  entry says where it is, none is older than the first of its block, and no two
  blocks begin with the same `usn_dec`. `Current` relates that to the context in memory: it is
  at least as new as any first entry, it stands at most one entry behind its block, and the
  write that comes next leaves alone what open reads of the block. `Near` counts: a store is at most
  as many blocks away from the newest one as operations have failed, so that
  with fewer than three it does not come back to it. All of this is said of each CE
  by itself (`RingOf`), and a step concerns one.

`FoundListDurable` is checked on one CE only by TLC; with several it is false, and `ControlBlockDurable`
and `RingOrdered` are false anyway (section 4). `FirstPagesOrdered` is in no run, the theorem
covers every instance.

`YaftlContextProofs`, for every size of blocks and contexts, any control blocks, any number of
changes and failures:

* `SpecTypeOK`.
* `SpecCleanReopens`, and `SpecKeepsPromise`: `YaftlContext` implements `CleanMount`.

The last two assume `ErasesOwnBlocks`: the control blocks are blocks 0 to 2, or no write
fails. It is needed: `flushQuick` erases the block whose number is the index of a control
block (`yaftl.c:601`), and with other control blocks TLC finds two failures after which
a context that counts as clean is not found. `CInv` says of a block that nothing
in it can be trusted (`Dead`: each slot has its mark or is not whole), and of the one that
open selects which slot a walk ends at and that all behind it is empty (`Current`
while the context is clean, `Marked` when the next one may be written, `Writing` while it
is). With the power off, all control blocks are dead or one has a current context
that describes the data (`Down`). The lemmas on `Slots` and `BlockOf` do the arithmetic of pages.

`H2fmiProofs`, for any number of calls: `SpecTypeOK` and `SpecReadTold`. The invariant
says what each stage of the two machines means for the fields of the transfer
(`Fields`), that each call puts at most one wait on the list of a channel (`OneWait`), and that
a call begins with quiet channels, so that a signal that is up means that this call has moved
its data (`SignalsOfThisCall`), as long as no wait was given up. `H2fmiAssumption`: there are two channels.

`NvramProofs`, for any environments, layouts of atoms over sectors, and any number of
saves and faults: `SpecTypeOK` and `SpecSurvivesAFault`. The invariant says what every sector
holds during a save (`JobOK`: each one that is done holds what was meant, each one to do what it
held), that until the first fault the other bank holds the old environment and the one being
written cannot beat it until it is whole (`SaveOK`), and that between the calls memory agrees
with what `nvram_setup` would find (`RamOK`).

`FtlLogProofs`, for every size of the device, any requests, power failures and failing
writes, and both ways to choose a block: `BlocksInPlace` and `PoolStaysWhole`, which states
`PoolPartition`. They assume `~EraseFails`, as the runs do: when an erase fails,
`ftl_set_free_vb` has counted a block that is not in the ring (`ftl.c:811`), and the property is false.

That two uses share no block is not inductive, and a function of the FTL has a block in hand for
most of the time. `Held(f, H, n)` therefore says only that the uses of `f` and the blocks in hand `H`
*cover* all blocks, and that the free blocks, the logs in use and the `n` blocks that the pool
is short of are as many as the pool. Taking a block (`GetFree`), giving one back (`SetFree`), and changing the map, a log, a
control block or a slot of the ring (`HeldMap`, `HeldDropLog`, `HeldAddLog`, `HeldMoveLog`, `HeldCtrl`,
`HeldSwap`) change `H` and `n` in an evident way. With nothing in
hand the cover is exact, because there are as many blocks as uses: `FourParts`
counts, and `HeldPartition` draws the conclusion. What needed thought is that a function leaves no block in hand on
any path, early returns included: an operation that fails gives its block back, a compaction that is undone takes the old
row of the log again, and a log is there for the block that `ftl_prepare_log` took (`UnusedLog`,
`MergeChoice`). Every context in the NAND has been saved
in such a state (`Whole` is part of the type of a page), so that `FTL_Open` finds whole tables
(`OpenPowered`). What `FTL_Restore` finds is excluded, as in `PoolPartition`.

The functions of `FtlLog` are loops and tries, written with `Loop` and `Tries`. The invariant of
a loop is a set of states for each round (`LoopRuns` gives the run, `LoopStays` the induction).

Only model-checked: liveness (out of the prover's reach), the invariants of `FtlLog`
that depend on what the pages hold, and all of `YaftlWrite`, which uses RECURSIVE operators
for the loops and recursions of the code.

## 6. Plan

Done: `Tasks`, `Events`, `VflContext`, `YaftlContext`, `H2fmi`, `Nvram` and `FtlLog` with their proofs,
`YaftlWrite`.

Modules that are left: `VflMap`, address conversion and bad block replacement
(`vsvfl.c:62-215`, `497-643`) as functions, with the inverse laws and no two virtual
blocks on one physical block; `UsbQueues`, the endpoint queues of `usb.c` filled by
tasks and emptied by interrupts, with the ACM's receive buffer; `Devices`, the open
counts of `bdev.c` and `mtd.c`.

Theorems that are left: the other invariants of `FtlLog`, which need to know what the pages
of logs and free blocks hold (`LogsMatchPages` and `ProgramsErasedPages` first, then
`ReadsLastWritten`), and those of `YaftlWrite`, whose loops have to become recursive functions
first, as those of `FtlLog` did.
