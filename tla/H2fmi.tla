------------------------------- MODULE H2fmi -------------------------------
(***************************************************************************)
(* The NAND controller of the A4 (plat-a4/h2fmi.c) transferring a page:    *)
(* the state machines that a task polls between two task_yields, the two   *)
(* DMA channels that move the data and the spare, and the wait for their   *)
(* completion, which an interrupt reports (plat-a4/cdma.c).                *)
(*                                                                         *)
(* One call of the state machine is one action, whatever handlers it goes  *)
(* through, since it holds a critical section.  A poll of the controller   *)
(* finds it ready or not, or late: not ready although the interval since   *)
(* last_action_time has passed, which cannot be so at once.                *)
(*                                                                         *)
(* Abstracted: registers, ECC bytes, AES, data whitening; every caller     *)
(* passes one page (h2fmi_read_single, h2fmi_write_single_page), so the    *)
(* branches for the second page of a call are left out.  The status        *)
(* register always has bit 7 (else the code panics).  What happens after   *)
(* the interrupt handler has been switched out is not followed.            *)
(***************************************************************************)
EXTENDS Naturals

CONSTANTS
  Channel,   \* dma0 and dma1,
  dma0,      \*   of which this is the first
  MaxCalls   \* bound: calls of the device

ASSUME H2fmiAssumption ==
  /\ MaxCalls \in Nat
  /\ \E c \in Channel : c # dma0 /\ Channel = {dma0, c}

VARIABLES
  fmi,     \* the fields of h2fmi_struct_t that control a transfer
  chan,    \* h2fmi_dma_state and the hardware channel
  pc,      \* where the calling task is
  waitOn,  \* the channel it waits for
  ret,     \* what the last call returned to the NAND layer
  isr,     \* "suspended" when task_wake has switched the handler out
  call,    \* history: the last call, and what the NAND did with the page
  gaveUp,  \* history: a wait for the DMA has timed out
  calls    \* history: number of calls

vars == <<fmi, chan, pc, waitOn, ret, isr, call, gaveUp, calls>>

Poll    == {"ready", "busy", "late"}
Verdict == {"good", "ecc", "failed", "empty"}  \* of a page read or programmed
Done    == 6    \* H2FMI_READ_DONE, H2FMI_WRITE_DONE
Late2   == 29   \* 0x8000001D
Last    == CHOOSE c \in Channel : c # dma0

Fmi ==
  [state : {"IDLE", "READ", "WRITE"}, stage : 0..Done,
   current_page_index : 0..3, current_status : {0, 1, Late2},
   overall_status : {"0", "0x8000001D", "0x8000001F", "ETIMEDOUT"},
   pages : Verdict \cup {"none"}, chips_done_mask : BOOLEAN,
   field_98 : 0..1, current_mode : {0, 2}]

Chan ==
  [signalled : BOOLEAN, list : 0..MaxCalls, hw : {"idle", "run", "done"}, moved : BOOLEAN]

(* Types and ranges of the fields and of the channels.                     *)
TypeOK ==
  /\ fmi \in Fmi
  /\ chan \in [Channel -> Chan]
  /\ pc \in {"user", "machine", "test", "enqueue", "sleep", "spin", "panic"}
  /\ waitOn \in Channel
  /\ ret \in {"SUCCESS", "ENOENT", "EIO"}
  /\ isr \in {"ends", "suspended"}
  /\ call \in [kind : {"none", "READ", "WRITE", "ERASE"}, nand : Verdict]
  /\ gaveUp \in BOOLEAN
  /\ calls \in 0..MaxCalls

Idle == [signalled |-> FALSE, list |-> 0, hw |-> "idle", moved |-> FALSE]

Init ==
  /\ fmi = [state |-> "IDLE", stage |-> 0, current_page_index |-> 0, current_status |-> 0,
            overall_status |-> "0", pages |-> "none", chips_done_mask |-> FALSE,
            field_98 |-> 0, current_mode |-> 0]
  /\ chan = [c \in Channel |-> Idle]
  /\ pc = "user" /\ waitOn = dma0 /\ ret = "SUCCESS" /\ isr = "ends"
  /\ call = [kind |-> "none", nand |-> "good"] /\ gaveUp = FALSE /\ calls = 0

----------------------------------------------------------------------------
(* DMA: a channel that is signalled is taken for a busy one. *)

h2fmi_dma_execute_async(c) == IF c.signalled THEN c ELSE [c EXCEPT !.hw = "run"]

h2fmi_rw_large_page == chan' = [c \in Channel |-> h2fmi_dma_execute_async(chan[c])]

CancelKeepsSignal(c) ==  \* faulty: h2fmi_init_dma_event left out
  [c EXCEPT !.hw = "idle"]

(* dma_cancel stops the channel, h2fmi_init_dma_event forgets the rest. *)
h2fmi_dma_cancel(c) == [Idle EXCEPT !.moved = c.moved]

----------------------------------------------------------------------------
(* Reading.  Each handler takes the fields and what its polls find, and    *)
(* gives the fields.                                                       *)

ReadDone(f) == [f EXCEPT !.stage = Done]

h2fmi_read_state_2(f, p) ==
  CASE p = "ready" -> [f EXCEPT !.stage = 3]
    [] p = "busy"  -> [f EXCEPT !.stage = 2]
    [] p = "late"  -> ReadDone([f EXCEPT !.current_status = Late2,
                                         !.overall_status = "0x8000001D"])

h2fmi_read_state_4(f, p, p2) ==
  CASE p = "busy" -> [f EXCEPT !.stage = 4]
    [] p = "late" -> ReadDone([f EXCEPT !.current_status = 0,
                                        !.overall_status = "0x8000001F"])
    [] p = "ready" /\ f.current_page_index = 1 -> ReadDone([f EXCEPT !.pages = call.nand])
    [] p = "ready" /\ f.current_page_index = 0 -> h2fmi_read_state_2(f, p2)

State3NoTimeout(f, p, p4) ==  \* faulty: the clock is not looked at
  IF p # "ready" THEN f
  ELSE h2fmi_read_state_4([f EXCEPT !.current_page_index = 1], p4, p4)

h2fmi_read_state_3(f, p, p4) ==
  CASE p = "ready" -> h2fmi_read_state_4([f EXCEPT !.current_page_index = 1], p4, p4)
    [] p = "busy"  -> f
    [] p = "late"  -> ReadDone([f EXCEPT !.current_status = 0,
                                         !.overall_status = "ETIMEDOUT"])

h2fmi_read_idle(f) ==
  [f EXCEPT !.current_page_index = 0, !.current_status = 1, !.overall_status = "0"]

(* p is the first poll; q and r come just after last_action_time was set. *)
ReadMachine(found) ==
  /\ pc = "machine" /\ fmi.state = "READ" /\ fmi.stage # Done
  /\ \E p \in found, q, r \in found \ {"late"} :
       fmi' = CASE fmi.stage = 0 -> h2fmi_read_state_4(h2fmi_read_idle(fmi), q, r)
                [] fmi.stage = 2 -> h2fmi_read_state_2(fmi, p)
                [] fmi.stage = 3 -> h2fmi_read_state_3(fmi, p, q)
                [] fmi.stage = 4 -> h2fmi_read_state_4(fmi, p, q)
  /\ IF fmi'.stage = 3 /\ fmi.stage # 3 THEN h2fmi_rw_large_page ELSE UNCHANGED chan
  /\ UNCHANGED <<pc, waitOn, ret, isr, call, gaveUp, calls>>

----------------------------------------------------------------------------
(* Writing.  The status of the chip is read twice (field_98); bit 0 of it  *)
(* is set when the program has failed.                                     *)

h2fmi_write_state_4(f) ==
  [f EXCEPT !.stage = IF f.chips_done_mask THEN 5 ELSE Done]

State5KeepsChip(f, p) ==  \* faulty: a chip that is ready stays in the mask
  IF p # "ready" THEN f
  ELSE h2fmi_write_state_4([f EXCEPT !.field_98 = 1, !.current_page_index = @ + 1])

h2fmi_write_state_5(f, p) ==
  CASE p = "busy"  -> f
    [] p = "late"  -> h2fmi_write_state_4([f EXCEPT !.chips_done_mask = FALSE,
                                                    !.current_status = 0])
    [] p = "ready" -> h2fmi_write_state_4(
         [f EXCEPT !.current_status = IF call.nand = "good" THEN 0 ELSE @,
                   !.field_98 = 1, !.current_page_index = @ + 1,
                   !.chips_done_mask = (f.field_98 = 0)])

h2fmi_write_state_3(f, p) ==
  CASE p = "ready" -> h2fmi_write_state_4([f EXCEPT !.current_page_index = 1])
    [] p = "busy"  -> [f EXCEPT !.stage = 3]
    [] p = "late"  -> h2fmi_write_state_4([f EXCEPT !.current_status = 0])

(* h2fmi_write_state_1 and h2fmi_write_set_page for the first page *)
h2fmi_write_idle(f) ==
  [f EXCEPT !.current_page_index = 0, !.current_status = 1, !.overall_status = "0",
            !.field_98 = 0, !.chips_done_mask = TRUE]

Fed == \A c \in Channel : chan[c].moved

(* The controller has nothing to program before both channels are done. *)
WriteMachine(found) ==
  /\ pc = "machine" /\ fmi.state = "WRITE" /\ fmi.stage # Done
  /\ \E p \in found :
       /\ p = "ready" => fmi.stage = 5 \/ (fmi.stage = 3 /\ Fed)
       /\ p = "late" => fmi.stage # 0
       /\ fmi' = CASE fmi.stage = 0 -> h2fmi_write_state_3(h2fmi_write_idle(fmi), p)
                   [] fmi.stage = 3 -> h2fmi_write_state_3(fmi, p)
                   [] fmi.stage = 5 -> h2fmi_write_state_5(fmi, p)
  /\ IF fmi.stage = 0 THEN h2fmi_rw_large_page ELSE UNCHANGED chan
  /\ UNCHANGED <<pc, waitOn, ret, isr, call, gaveUp, calls>>

----------------------------------------------------------------------------
(* h2fmi_read_multi and h2fmi_write_multi before and after the machine.    *)

Call(kind) ==
  /\ pc = "user" /\ calls < MaxCalls
  /\ calls' = calls + 1
  /\ call' \in [kind : {kind}, nand : IF kind = "READ" THEN Verdict ELSE {"good", "failed"}]
  /\ UNCHANGED <<waitOn, isr, gaveUp>>

h2fmi_read_multi ==
  /\ Call("READ")
  /\ fmi' = [fmi EXCEPT !.state = "READ", !.stage = 0, !.pages = "none"]
  /\ chan' = [c \in Channel |-> [chan[c] EXCEPT !.moved = FALSE]]
  /\ pc' = "machine" /\ ret' = ret

h2fmi_write_multi ==
  /\ Call("WRITE") /\ ret' = ret
  /\ IF fmi.current_mode # 0
     THEN pc' = "panic" /\ UNCHANGED <<fmi, chan>>
     ELSE /\ fmi' = [fmi EXCEPT !.state = "WRITE", !.stage = 0, !.current_mode = 2]
          /\ chan' = [c \in Channel |-> [chan[c] EXCEPT !.moved = FALSE]]
          /\ pc' = "machine"

(* h2fmi_erase_blocks uses no DMA; its 0 for a failure is no error either. *)
h2fmi_erase_single_block ==
  /\ Call("ERASE")
  /\ ret' = "SUCCESS"
  /\ fmi' = [fmi EXCEPT !.overall_status = "0"]
  /\ UNCHANGED <<chan, pc>>

----------------------------------------------------------------------------
(* The wait for the channels, when the machine has found no failure.       *)

ReadResult(f) ==
  CASE f.overall_status # "0" \/ f.pages = "failed" -> "EIO"
    [] f.overall_status = "0" /\ f.pages \in {"empty", "ecc"} -> "ENOENT"
    [] OTHER -> "SUCCESS"

(* h2fmi_write_single_page returns 0 whatever h2fmi_write_multi returns. *)
Finish(f) ==
  /\ chan' = [c \in Channel |-> h2fmi_dma_cancel(chan[c])]
  /\ fmi' = [f EXCEPT !.state = "IDLE",
                      !.current_mode = IF f.state = "WRITE" THEN 0 ELSE @]
  /\ ret' = IF f.state = "READ" THEN ReadResult(f) ELSE "SUCCESS"
  /\ pc' = "user"
  /\ UNCHANGED waitOn

MachineDone ==
  /\ pc = "machine" /\ fmi.stage = Done
  /\ IF fmi.current_status = 0 THEN Finish(fmi)
     ELSE pc' = "test" /\ waitOn' = dma0 /\ UNCHANGED <<fmi, chan, ret>>
  /\ UNCHANGED <<isr, call, gaveUp, calls>>

(* h2fmi_dma_wait looks at signalled before its critical section ...       *)
h2fmi_dma_test ==
  /\ pc = "test"
  /\ CASE ~chan[waitOn].signalled ->
            pc' = "enqueue" /\ UNCHANGED <<fmi, chan, waitOn, ret>>
       [] chan[waitOn].signalled /\ waitOn = dma0 ->
            waitOn' = Last /\ UNCHANGED <<fmi, chan, pc, ret>>
       [] chan[waitOn].signalled /\ waitOn # dma0 ->
            Finish([fmi EXCEPT !.overall_status = "0"])
  /\ UNCHANGED <<isr, call, gaveUp, calls>>

(* ... and then goes to sleep, or, as the last task, waits with interrupts *)
(* off (task_sleep).                                                       *)
h2fmi_dma_wait ==
  /\ pc = "enqueue"
  /\ chan' = [chan EXCEPT ![waitOn].list = @ + 1]
  /\ pc' \in {"sleep", "spin"}
  /\ UNCHANGED <<fmi, waitOn, ret, isr, call, gaveUp, calls>>

(* task_wait_timeout returns 0, the call ERROR(1) and 1. *)
WaitTimesOut ==
  /\ pc \in {"sleep", "spin"}
  /\ ret' = IF fmi.state = "READ" THEN "EIO" ELSE "SUCCESS"
  /\ pc' = "user" /\ gaveUp' = TRUE
  /\ UNCHANGED <<fmi, chan, waitOn, isr, call, calls>>

----------------------------------------------------------------------------
(* A channel has moved the page; its interrupt comes when they are on.  A  *)
(* waiter is woken with task_wake, which swaps to it.                      *)

HardwareDone(c) ==
  /\ isr = "ends" /\ chan[c].hw = "run"
  /\ chan' = [chan EXCEPT ![c].hw = "done", ![c].moved = TRUE]
  /\ UNCHANGED <<fmi, pc, waitOn, ret, isr, call, gaveUp, calls>>

h2fmi_handle_dma(c) ==
  /\ isr = "ends" /\ chan[c].hw = "done" /\ pc # "spin"
  /\ chan' = [chan EXCEPT ![c].signalled = TRUE, ![c].hw = "idle"]
  /\ isr' = IF chan[c].list = 0 THEN "ends" ELSE "suspended"
  /\ UNCHANGED <<fmi, pc, waitOn, ret, call, gaveUp, calls>>

(* An interrupt that has come goes before the next step of the task. *)
TaskRuns == isr = "ends" /\ (pc = "spin" \/ \A c \in Channel : chan[c].hw # "done")

Machine(found) == TaskRuns /\ (ReadMachine(found) \/ WriteMachine(found))

Go    == TaskRuns /\ (MachineDone \/ h2fmi_dma_test \/ h2fmi_dma_wait \/ WaitTimesOut)
Begin == TaskRuns /\ (h2fmi_read_multi \/ h2fmi_write_multi \/ h2fmi_erase_single_block)
Dma   == \E c \in Channel : HardwareDone(c) \/ h2fmi_handle_dma(c)

Next == Machine(Poll) \/ Go \/ Begin \/ Dma

(* The task runs, a sleep ends, an interrupt that has come is taken; the   *)
(* controller need never be ready, then the clock makes it late.           *)
Fairness ==
  /\ WF_vars(Machine({"busy", "late"})) /\ WF_vars(Go)
  /\ \A c \in Channel : WF_vars(h2fmi_handle_dma(c))

Spec == Init /\ [][Next]_vars /\ Fairness

----------------------------------------------------------------------------
(* What a read that ends has told.  0: the page is good and both channels  *)
(* have moved it in this very call.  ENOENT: it was read and is empty or   *)
(* beyond correction (h2fmi_read_multi, h2fmi_read_single_page).           *)
Told ==
  pc = "user" /\ call.kind = "READ" =>
    /\ ret = "SUCCESS" => call.nand = "good" /\ Fed
    /\ ret = "ENOENT" => call.nand \in {"empty", "ecc"} /\ Fed

(* So it is until a wait for the DMA has given up: not one of the other    *)
(* timeouts leaves a channel in a state that spoils a later read.          *)
ReadTold == ~gaveUp => Told

(* includes/vfl.h: "the physical location of the page is calculated and    *)
(* the page is read", with or without a wait given up before.              *)
PageIsRead == Told

(* Not so in the code: no swap is made while an interrupt is being        *)
(* handled, "Can't swap during ISR!" (tasks.c:216).  The completion        *)
(* handler calls task_wake, which swaps without looking (tasks.c:341).     *)
HandlerReturns == isr # "suspended"

(* Every call returns: each state of the machines and the wait have their  *)
(* timeouts.  The exception is the handler that was switched out.          *)
CallReturns == pc # "user" ~> (pc \in {"user", "panic"} \/ isr = "suspended")

=============================================================================
