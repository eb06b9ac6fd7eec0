---------------------------- MODULE H2fmiProofs ----------------------------
(***************************************************************************)
(* Theorems about the transfer of a page, for any number of calls.         *)
(***************************************************************************)
EXTENDS H2fmi, TLAPS

TwoChannels == Channel = {dma0, Last} /\ Last # dma0

LEMMA ChannelsAreTwo == TwoChannels
  BY H2fmiAssumption DEF TwoChannels, Last

----------------------------------------------------------------------------
(* The fields of a transfer.                                               *)

(* A read is over in one of three ways: the page has gone through, a       *)
(* timeout before the channels were started, a timeout that needs no wait. *)
ReadOutcome(f) ==
  \/ f.current_status = 1 /\ f.overall_status = "0" /\ f.pages = call.nand
  \/ f.current_status = Late2 /\ f.overall_status = "0x8000001D"
  \/ f.current_status = 0 /\ f.overall_status \in {"0x8000001F", "ETIMEDOUT"}

ReadFields(f) ==
  /\ f.stage \in {0, 2, 3, 4, Done}
  /\ f.stage \in {2, 3, 4} => f.current_status = 1 /\ f.overall_status = "0"
  /\ f.stage \in {2, 3} => f.current_page_index = 0
  /\ f.stage = 4 => f.current_page_index \in {0, 1}
  /\ f.stage = Done => ReadOutcome(f)

(* The channels are started when stage 3 is entered. *)
NotStarted(f) ==
  \/ f.stage \in {0, 2}
  \/ f.stage = 4 /\ f.current_page_index = 0
  \/ f.stage = Done /\ f.current_status = Late2

WriteFields(f) ==
  /\ f.stage \in {0, 3, 5, Done}
  /\ f.stage = 3 => f.current_page_index = 0 /\ f.field_98 = 0 /\ f.chips_done_mask
  /\ f.stage = 5 => f.current_page_index <= 1 + f.field_98

Working == pc \in {"machine", "test", "enqueue", "sleep", "spin"}

Fields ==
  /\ Working => fmi.state \in {"READ", "WRITE"}
  /\ Working /\ fmi.state = "READ" => ReadFields(fmi)
  /\ Working /\ fmi.state = "WRITE" => WriteFields(fmi)
  /\ Working /\ pc # "machine" => fmi.stage = Done /\ fmi.current_status # 0

(* One wait for each call at most. *)
OneWait ==
  \A c \in Channel :
    /\ chan[c].list <= calls
    /\ pc \in {"machine", "test", "enqueue"} => chan[c].list < calls

Quiet(c) == ~c.signalled /\ c.hw = "idle"

(* As long as no wait was given up, a call begins with quiet channels, a   *)
(* signal is one of this call, and it means that the page was moved.       *)
SignalsOfThisCall ==
  ~gaveUp =>
    /\ pc = "user" => \A c \in Channel : Quiet(chan[c])
    /\ Working /\ fmi.state = "READ" /\ NotStarted(fmi) => \A c \in Channel : Quiet(chan[c])
    /\ Working => \A c \in Channel : chan[c].signalled \/ chan[c].hw = "done" => chan[c].moved
    /\ Working /\ pc # "machine" /\ waitOn # dma0 => chan[dma0].signalled
    /\ Working => call.kind = fmi.state

IInv == TypeOK /\ Fields /\ OneWait /\ SignalsOfThisCall /\ ReadTold

----------------------------------------------------------------------------
(* What the handlers of the read machine make of the fields.               *)

(* All fields but those that a handler may set. *)
SameCall(f, g) == g.state = f.state /\ g.current_mode = f.current_mode

LEMMA ReadDoneFields ==
  ASSUME NEW f \in Fmi, NEW g, g = ReadDone(f)
  PROVE  g \in Fmi /\ g = [f EXCEPT !.stage = Done]
  BY DEF Fmi, Done, ReadDone

LEMMA ReadState2 ==
  ASSUME NEW f \in Fmi, NEW p \in Poll, NEW g, g = h2fmi_read_state_2(f, p),
         f.current_page_index = 0, f.current_status = 1, f.overall_status = "0"
  PROVE  /\ g \in Fmi /\ SameCall(f, g) /\ ReadFields(g)
         /\ g.stage # 3 => NotStarted(g)
<1>. USE DEF Fmi, SameCall, ReadFields, ReadOutcome, NotStarted, Done, Late2
<1>1. CASE p = "ready"
  BY <1>1 DEF h2fmi_read_state_2
<1>2. CASE p = "busy"
  BY <1>2 DEF h2fmi_read_state_2
<1>3. CASE p = "late"
  <2>. DEFINE h == [f EXCEPT !.current_status = Late2, !.overall_status = "0x8000001D"]
  <2>1. h \in Fmi /\ h.state = f.state /\ h.current_mode = f.current_mode
        /\ h.current_status = Late2 /\ h.overall_status = "0x8000001D"
    BY ZenonT(30)
  <2>2. g = ReadDone(h)
    BY <1>3 DEF h2fmi_read_state_2
  <2>. HIDE DEF h
  <2>3. QED
    BY <2>1, <2>2, ReadDoneFields
<1>4. QED
  BY <1>1, <1>2, <1>3 DEF Poll

LEMMA ReadState4 ==
  ASSUME NEW f \in Fmi, NEW p \in Poll, NEW q \in Poll, NEW g, g = h2fmi_read_state_4(f, p, q),
         call.nand \in Verdict,
         f.current_page_index \in {0, 1}, f.current_status = 1, f.overall_status = "0"
  PROVE  /\ g \in Fmi /\ SameCall(f, g) /\ ReadFields(g)
         /\ f.current_page_index = 0 /\ g.stage # 3 /\ p # "late" => NotStarted(g)
         /\ f.current_page_index = 1 => ~NotStarted(g) /\ g.stage # 3
<1>. USE DEF Fmi, SameCall, ReadFields, ReadOutcome, NotStarted, Done, Late2
<1>1. CASE p = "ready" /\ f.current_page_index = 0
  <2>1. g = h2fmi_read_state_2(f, q)
    BY <1>1 DEF h2fmi_read_state_4
  <2>2. QED
    BY <1>1, <2>1, ReadState2
<1>2. CASE p = "ready" /\ f.current_page_index = 1
  <2>. DEFINE h == [f EXCEPT !.pages = call.nand]
  <2>1. h \in Fmi /\ h.state = f.state /\ h.current_mode = f.current_mode
        /\ h.current_status = 1 /\ h.overall_status = "0" /\ h.pages = call.nand
    OBVIOUS
  <2>2. g = ReadDone(h)
    BY <1>2 DEF h2fmi_read_state_4
  <2>. HIDE DEF h
  <2>3. QED
    BY <1>2, <2>1, <2>2, ReadDoneFields
<1>3. CASE p = "busy"
  BY <1>3 DEF h2fmi_read_state_4
<1>4. CASE p = "late"
  <2>. DEFINE h == [f EXCEPT !.current_status = 0, !.overall_status = "0x8000001F"]
  <2>1. h \in Fmi /\ h.state = f.state /\ h.current_mode = f.current_mode
        /\ h.current_status = 0 /\ h.overall_status = "0x8000001F"
    OBVIOUS
  <2>2. g = ReadDone(h)
    BY <1>4 DEF h2fmi_read_state_4
  <2>. HIDE DEF h
  <2>3. QED
    BY <1>4, <2>1, <2>2, ReadDoneFields
<1>5. QED
  BY <1>1, <1>2, <1>3, <1>4 DEF Poll

LEMMA ReadState3 ==
  ASSUME NEW f \in Fmi, NEW p \in Poll, NEW q \in Poll, NEW g, g = h2fmi_read_state_3(f, p, q),
         call.nand \in Verdict,
         f.stage = 3, f.current_page_index = 0, f.current_status = 1, f.overall_status = "0"
  PROVE  g \in Fmi /\ SameCall(f, g) /\ ReadFields(g) /\ ~NotStarted(g)
<1>. USE DEF Fmi, SameCall, ReadFields, ReadOutcome, NotStarted, Done, Late2
<1>1. CASE p = "ready"
  <2>. DEFINE h == [f EXCEPT !.current_page_index = 1]
  <2>1. h \in Fmi /\ SameCall(f, h) /\ h.current_page_index = 1
        /\ h.current_status = 1 /\ h.overall_status = "0"
    OBVIOUS
  <2>2. g = h2fmi_read_state_4(h, q, q)
    BY <1>1 DEF h2fmi_read_state_3
  <2>. HIDE DEF h
  <2>3. QED
    BY <2>1, <2>2, ReadState4
<1>2. CASE p = "busy"
  BY <1>2 DEF h2fmi_read_state_3
<1>3. CASE p = "late"
  <2>. DEFINE h == [f EXCEPT !.current_status = 0, !.overall_status = "ETIMEDOUT"]
  <2>1. h \in Fmi /\ h.state = f.state /\ h.current_mode = f.current_mode
        /\ h.current_status = 0 /\ h.overall_status = "ETIMEDOUT"
    BY ZenonT(30)
  <2>2. g = ReadDone(h)
    BY <1>3 DEF h2fmi_read_state_3
  <2>. HIDE DEF h
  <2>3. QED
    BY <2>1, <2>2, ReadDoneFields
<1>4. QED
  BY <1>1, <1>2, <1>3 DEF Poll

LEMMA ReadIdle ==
  ASSUME NEW f \in Fmi, NEW g, g = h2fmi_read_idle(f)
  PROVE  /\ g \in Fmi /\ SameCall(f, g)
         /\ g.current_page_index = 0 /\ g.current_status = 1 /\ g.overall_status = "0"
<1>. DEFINE i == 0  s == 1  o == "0"
<1>1. /\ i \in 0..3 /\ s \in {0, 1, Late2}
      /\ o \in {"0", "0x8000001D", "0x8000001F", "ETIMEDOUT"}
      /\ i = 0 /\ s = 1 /\ o = "0"
  OBVIOUS
<1>2. g = [f EXCEPT !.current_page_index = i, !.current_status = s, !.overall_status = o]
  BY DEF h2fmi_read_idle
<1>. HIDE DEF i, s, o
<1>3. g \in Fmi
  BY <1>1, <1>2 DEF Fmi
<1>4. SameCall(f, g)
  BY <1>2 DEF Fmi, SameCall
<1>5. g.current_page_index = i /\ g.current_status = s /\ g.overall_status = o
  BY <1>2 DEF Fmi
<1>6. QED
  BY <1>1, <1>3, <1>4, <1>5

----------------------------------------------------------------------------
(* And those of the write machine.                                         *)

LEMMA WriteState4 ==
  ASSUME NEW f \in Fmi, NEW g, g = h2fmi_write_state_4(f),
         f.chips_done_mask => f.current_page_index <= 1 + f.field_98
  PROVE  g \in Fmi /\ SameCall(f, g) /\ WriteFields(g)
<1>1. CASE f.chips_done_mask
  <2>1. g = [f EXCEPT !.stage = 5]
    BY <1>1 DEF h2fmi_write_state_4
  <2>2. g \in Fmi
    BY <2>1 DEF Fmi, Done
  <2>3. SameCall(f, g)
    BY <2>1 DEF Fmi, SameCall
  <2>4. WriteFields(g)
    BY <1>1, <2>1 DEF Fmi, WriteFields
  <2>5. QED
    BY <2>2, <2>3, <2>4
<1>2. CASE ~f.chips_done_mask
  <2>1. g = [f EXCEPT !.stage = Done]
    BY <1>2 DEF h2fmi_write_state_4
  <2>2. QED
    BY <2>1 DEF Fmi, Done, SameCall, WriteFields
<1>3. QED
  BY <1>1, <1>2

LEMMA WriteState5 ==
  ASSUME NEW f \in Fmi, NEW p \in Poll, NEW g, g = h2fmi_write_state_5(f, p),
         f.stage = 5, WriteFields(f)
  PROVE  g \in Fmi /\ SameCall(f, g) /\ WriteFields(g)
<1>. USE DEF Fmi, SameCall, WriteFields, Done
<1>1. CASE p = "ready"
  <2>. DEFINE i == f.current_page_index + 1
              s == IF call.nand = "good" THEN 0 ELSE f.current_status
              n == 1
              b == f.field_98 = 0
              h == [f EXCEPT !.current_status = s, !.field_98 = n,
                             !.current_page_index = i, !.chips_done_mask = b]
  <2>1. i \in 0..3 /\ s \in {0, 1, Late2} /\ n \in 0..1 /\ b \in BOOLEAN /\ (b => i <= 1 + n)
    OBVIOUS
  <2>2. /\ h \in Fmi /\ SameCall(f, h)
        /\ h.chips_done_mask => h.current_page_index <= 1 + h.field_98
    <3>. HIDE DEF i, s, n, b
    <3>1. h \in Fmi
      BY <2>1
    <3>2. SameCall(f, h)
      OBVIOUS
    <3>3. h.current_page_index = i /\ h.field_98 = n /\ h.chips_done_mask = b
      OBVIOUS
    <3>4. QED
      BY <2>1, <3>1, <3>2, <3>3
  <2>3. g = h2fmi_write_state_4(h)
    BY <1>1 DEF h2fmi_write_state_5
  <2>. HIDE DEF h
  <2>4. QED
    BY <2>2, <2>3, WriteState4
<1>2. CASE p = "busy"
  BY <1>2 DEF h2fmi_write_state_5
<1>3. CASE p = "late"
  <2>. DEFINE h == [f EXCEPT !.chips_done_mask = FALSE, !.current_status = 0]
  <2>1. h \in Fmi /\ SameCall(f, h) /\ ~h.chips_done_mask
    OBVIOUS
  <2>2. g = h2fmi_write_state_4(h)
    BY <1>3 DEF h2fmi_write_state_5
  <2>. HIDE DEF h
  <2>3. QED
    BY <2>1, <2>2, WriteState4
<1>4. QED
  BY <1>1, <1>2, <1>3 DEF Poll

LEMMA WriteState3 ==
  ASSUME NEW f \in Fmi, NEW p \in Poll, NEW g, g = h2fmi_write_state_3(f, p),
         f.current_page_index = 0, f.field_98 = 0, f.chips_done_mask
  PROVE  g \in Fmi /\ SameCall(f, g) /\ WriteFields(g)
<1>. USE DEF Fmi, SameCall, WriteFields, Done
<1>1. CASE p = "ready"
  <2>. DEFINE h == [f EXCEPT !.current_page_index = 1]
  <2>1. h \in Fmi /\ SameCall(f, h) /\ h.current_page_index = 1 /\ h.field_98 = 0
    OBVIOUS
  <2>2. g = h2fmi_write_state_4(h)
    BY <1>1 DEF h2fmi_write_state_3
  <2>. HIDE DEF h
  <2>3. QED
    BY <2>1, <2>2, WriteState4
<1>2. CASE p = "busy"
  BY <1>2 DEF h2fmi_write_state_3
<1>3. CASE p = "late"
  <2>. DEFINE h == [f EXCEPT !.current_status = 0]
  <2>1. h \in Fmi /\ SameCall(f, h) /\ h.current_page_index = 0 /\ h.field_98 = 0
    OBVIOUS
  <2>2. g = h2fmi_write_state_4(h)
    BY <1>3 DEF h2fmi_write_state_3
  <2>. HIDE DEF h
  <2>3. QED
    BY <2>1, <2>2, WriteState4
<1>4. QED
  BY <1>1, <1>2, <1>3 DEF Poll

LEMMA WriteIdle ==
  ASSUME NEW f \in Fmi, NEW g, g = h2fmi_write_idle(f)
  PROVE  /\ g \in Fmi /\ SameCall(f, g)
         /\ g.current_page_index = 0 /\ g.field_98 = 0 /\ g.chips_done_mask
<1>. DEFINE i == 0  s == 1  n == 0  o == "0"  b == TRUE
<1>1. /\ i \in 0..3 /\ s \in {0, 1, Late2} /\ n \in 0..1
      /\ o \in {"0", "0x8000001D", "0x8000001F", "ETIMEDOUT"} /\ b \in BOOLEAN /\ b
      /\ i = 0 /\ n = 0
  OBVIOUS
<1>2. g = [f EXCEPT !.current_page_index = i, !.current_status = s, !.overall_status = o,
                    !.field_98 = n, !.chips_done_mask = b]
  BY DEF h2fmi_write_idle
<1>. HIDE DEF i, s, n, o, b
<1>3. g \in Fmi
  BY <1>1, <1>2 DEF Fmi
<1>4. SameCall(f, g)
  BY <1>2 DEF Fmi, SameCall
<1>5. g.current_page_index = i /\ g.field_98 = n /\ g.chips_done_mask = b
  BY <1>2 DEF Fmi
<1>6. QED
  BY <1>1, <1>3, <1>4, <1>5

----------------------------------------------------------------------------
(* The channels.                                                           *)

LEMMA Started ==
  ASSUME chan \in [Channel -> Chan], h2fmi_rw_large_page
  PROVE  /\ chan' \in [Channel -> Chan]
         /\ \A c \in Channel :
              /\ chan'[c].signalled = chan[c].signalled
              /\ chan'[c].list = chan[c].list /\ chan'[c].moved = chan[c].moved
              /\ chan'[c].hw = "done" => chan[c].hw = "done"
  BY DEF Chan, h2fmi_rw_large_page, h2fmi_dma_execute_async

LEMMA Cancelled ==
  ASSUME chan \in [Channel -> Chan],
         chan' = [c \in Channel |-> h2fmi_dma_cancel(chan[c])]
  PROVE  /\ chan' \in [Channel -> Chan]
         /\ \A c \in Channel : /\ Quiet(chan'[c]) /\ chan'[c].list = 0
                               /\ chan'[c].moved = chan[c].moved
<1>1. ASSUME NEW c \in Channel
      PROVE  /\ chan'[c] = [signalled |-> FALSE, list |-> 0, hw |-> "idle",
                            moved |-> chan[c].moved]
             /\ chan'[c] \in Chan
  <2>1. chan'[c] = [signalled |-> FALSE, list |-> 0, hw |-> "idle", moved |-> chan[c].moved]
    BY DEF h2fmi_dma_cancel, Idle
  <2>. DEFINE s == FALSE  l == 0  h == "idle"
  <2>2. /\ chan[c].moved \in BOOLEAN /\ s \in BOOLEAN
        /\ l \in 0..MaxCalls /\ h \in {"idle", "run", "done"}
    BY H2fmiAssumption DEF Chan
  <2>3. chan'[c] = [signalled |-> s, list |-> l, hw |-> h, moved |-> chan[c].moved]
    BY <2>1
  <2>4. chan'[c] \in Chan
    <3>. HIDE DEF s, l, h
    <3>. QED
      BY <2>2, <2>3 DEF Chan
  <2>5. QED
    BY <2>1, <2>4
<1>2. QED
  BY <1>1 DEF Quiet

----------------------------------------------------------------------------
(* One lemma for each action.                                              *)

LEMMA InitIInv == Init => IInv
<1>. SUFFICES ASSUME Init PROVE IInv
  OBVIOUS
<1>. USE H2fmiAssumption DEF Init
<1>1. fmi \in Fmi
  BY DEF Fmi, Done, Verdict
<1>2. chan \in [Channel -> Chan] /\ \A c \in Channel : Quiet(chan[c]) /\ chan[c].list = 0
  BY DEF Chan, Idle, Quiet
<1>3. TypeOK
  <2>1. call \in [kind : {"none", "READ", "WRITE", "ERASE"}, nand : Verdict]
    BY DEF Verdict
  <2>2. waitOn \in Channel /\ calls \in 0..MaxCalls
    OBVIOUS
  <2>3. pc = "user" /\ ret = "SUCCESS" /\ isr = "ends" /\ gaveUp \in BOOLEAN
    OBVIOUS
  <2>4. QED
    BY <1>1, <1>2, <2>1, <2>2, <2>3, Zenon DEF TypeOK
<1>4. Fields /\ OneWait /\ SignalsOfThisCall /\ ReadTold
  BY <1>2 DEF Fields, OneWait, SignalsOfThisCall, ReadTold, Told, Working
<1>5. QED
  BY <1>3, <1>4 DEF IInv

LEMMA ReadMachineIInv == ASSUME IInv, ReadMachine(Poll) PROVE IInv'
<1>1. /\ pc = "machine" /\ fmi.state = "READ" /\ fmi \in Fmi /\ ReadFields(fmi)
      /\ fmi.stage \in {0, 2, 3, 4} /\ call.nand \in Verdict
      /\ UNCHANGED <<pc, waitOn, ret, isr, call, gaveUp, calls>>
  BY DEF IInv, TypeOK, Fields, ReadFields, Working, ReadMachine
<1>2. PICK p \in Poll, q \in Poll \ {"late"}, r \in Poll \ {"late"} :
       fmi' = CASE fmi.stage = 0 -> h2fmi_read_state_4(h2fmi_read_idle(fmi), q, r)
                [] fmi.stage = 2 -> h2fmi_read_state_2(fmi, p)
                [] fmi.stage = 3 -> h2fmi_read_state_3(fmi, p, q)
                [] fmi.stage = 4 -> h2fmi_read_state_4(fmi, p, q)
  BY DEF ReadMachine
<1>3. /\ fmi' \in Fmi /\ SameCall(fmi, fmi') /\ ReadFields(fmi')
      /\ NotStarted(fmi') => NotStarted(fmi)
  <2>1. CASE fmi.stage = 0
    <3>. DEFINE f == h2fmi_read_idle(fmi)
    <3>1. f \in Fmi /\ SameCall(fmi, f)
          /\ f.current_page_index = 0 /\ f.current_status = 1 /\ f.overall_status = "0"
      BY <1>1, ReadIdle
    <3>2. fmi' = h2fmi_read_state_4(f, q, r)
      BY <1>2, <2>1
    <3>3. NotStarted(fmi)
      BY <2>1 DEF NotStarted
    <3>. HIDE DEF f
    <3>4. fmi' \in Fmi /\ SameCall(f, fmi') /\ ReadFields(fmi')
      BY <1>1, <3>1, <3>2, ReadState4
    <3>5. QED
      BY <3>1, <3>3, <3>4 DEF SameCall
  <2>2. CASE fmi.stage = 2
    <3>1. fmi' = h2fmi_read_state_2(fmi, p) /\ NotStarted(fmi)
      BY <1>2, <2>2 DEF NotStarted
    <3>2. QED
      BY <1>1, <2>2, <3>1, ReadState2 DEF ReadFields
  <2>3. CASE fmi.stage = 3
    <3>1. fmi' = h2fmi_read_state_3(fmi, p, q)
      BY <1>2, <2>3
    <3>2. QED
      BY <1>1, <2>3, <3>1, ReadState3 DEF ReadFields
  <2>4. CASE fmi.stage = 4
    <3>1. fmi' = h2fmi_read_state_4(fmi, p, q)
      BY <1>2, <2>4
    <3>2. /\ fmi.current_page_index \in {0, 1}
          /\ fmi.current_status = 1 /\ fmi.overall_status = "0"
      BY <1>1, <2>4 DEF ReadFields
    <3>3. fmi.current_page_index = 0 => NotStarted(fmi)
      BY <2>4 DEF NotStarted
    <3>4. QED
      BY <1>1, <3>1, <3>2, <3>3, ReadState4
  <2>5. QED
    BY <1>1, <2>1, <2>2, <2>3, <2>4
<1>4. /\ chan' \in [Channel -> Chan]
      /\ \A c \in Channel :
           /\ chan'[c].signalled = chan[c].signalled
           /\ chan'[c].list = chan[c].list /\ chan'[c].moved = chan[c].moved
           /\ chan'[c].hw = "done" => chan[c].hw = "done"
      /\ NotStarted(fmi') => chan' = chan
  <2>1. CASE fmi'.stage = 3 /\ fmi.stage # 3
    <3>1. h2fmi_rw_large_page /\ chan \in [Channel -> Chan]
      BY <2>1 DEF ReadMachine, IInv, TypeOK
    <3>2. ~NotStarted(fmi')
      BY <2>1 DEF NotStarted, Done
    <3>3. QED
      BY <3>1, <3>2, Started
  <2>2. CASE ~(fmi'.stage = 3 /\ fmi.stage # 3)
    BY <2>2 DEF ReadMachine, IInv, TypeOK
  <2>3. QED
    BY <2>1, <2>2
<1>5. TypeOK'
  BY <1>1, <1>3, <1>4 DEF IInv, TypeOK
<1>6. Fields'
  BY <1>1, <1>3 DEF Fields, SameCall, Working, ReadFields, ReadOutcome
<1>7. OneWait'
  BY <1>1, <1>4 DEF IInv, OneWait
<1>8. SignalsOfThisCall'
  BY <1>1, <1>3, <1>4 DEF IInv, SignalsOfThisCall, Working, Quiet, NotStarted, SameCall
<1>9. ReadTold'
  BY <1>1 DEF ReadTold, Told
<1>10. QED
  BY <1>5, <1>6, <1>7, <1>8, <1>9 DEF IInv

LEMMA WriteMachineIInv == ASSUME IInv, WriteMachine(Poll) PROVE IInv'
<1>1. /\ pc = "machine" /\ fmi.state = "WRITE" /\ fmi \in Fmi /\ WriteFields(fmi)
      /\ fmi.stage \in {0, 3, 5}
      /\ UNCHANGED <<pc, waitOn, ret, isr, call, gaveUp, calls>>
  BY DEF IInv, TypeOK, Fields, WriteFields, Working, WriteMachine
<1>2. PICK p \in Poll :
       fmi' = CASE fmi.stage = 0 -> h2fmi_write_state_3(h2fmi_write_idle(fmi), p)
                [] fmi.stage = 3 -> h2fmi_write_state_3(fmi, p)
                [] fmi.stage = 5 -> h2fmi_write_state_5(fmi, p)
  BY DEF WriteMachine
<1>3. fmi' \in Fmi /\ SameCall(fmi, fmi') /\ WriteFields(fmi')
  <2>1. CASE fmi.stage = 0
    <3>. DEFINE f == h2fmi_write_idle(fmi)
    <3>1. f \in Fmi /\ SameCall(fmi, f)
          /\ f.current_page_index = 0 /\ f.field_98 = 0 /\ f.chips_done_mask
      BY <1>1, WriteIdle
    <3>2. fmi' = h2fmi_write_state_3(f, p)
      BY <1>2, <2>1
    <3>. HIDE DEF f
    <3>3. fmi' \in Fmi /\ SameCall(f, fmi') /\ WriteFields(fmi')
      BY <3>1, <3>2, WriteState3
    <3>4. QED
      BY <3>1, <3>3 DEF SameCall
  <2>2. CASE fmi.stage = 3
    <3>1. fmi' = h2fmi_write_state_3(fmi, p)
      BY <1>2, <2>2
    <3>2. QED
      BY <1>1, <2>2, <3>1, WriteState3 DEF WriteFields
  <2>3. CASE fmi.stage = 5
    <3>1. fmi' = h2fmi_write_state_5(fmi, p)
      BY <1>2, <2>3
    <3>2. QED
      BY <1>1, <2>3, <3>1, WriteState5
  <2>4. QED
    BY <1>1, <2>1, <2>2, <2>3
<1>4. /\ chan' \in [Channel -> Chan]
      /\ \A c \in Channel :
           /\ chan'[c].signalled = chan[c].signalled
           /\ chan'[c].list = chan[c].list /\ chan'[c].moved = chan[c].moved
           /\ chan'[c].hw = "done" => chan[c].hw = "done"
  BY Started DEF WriteMachine, IInv, TypeOK
<1>5. TypeOK'
  BY <1>1, <1>3, <1>4 DEF IInv, TypeOK
<1>6. Fields'
  BY <1>1, <1>3 DEF Fields, SameCall, Working
<1>7. OneWait'
  BY <1>1, <1>4 DEF IInv, OneWait
<1>8. SignalsOfThisCall'
  BY <1>1, <1>3, <1>4 DEF IInv, SignalsOfThisCall, Working, SameCall
<1>9. ReadTold'
  BY <1>1 DEF ReadTold, Told
<1>10. QED
  BY <1>5, <1>6, <1>7, <1>8, <1>9 DEF IInv

(* h2fmi_read_multi, h2fmi_write_multi and the erase. *)
LEMMA BeginIInv ==
  ASSUME IInv, h2fmi_read_multi \/ h2fmi_write_multi \/ h2fmi_erase_single_block
  PROVE  IInv'
<1>1. /\ pc = "user" /\ calls < MaxCalls /\ calls' = calls + 1
      /\ call'.nand \in Verdict
      /\ call' \in [kind : {"none", "READ", "WRITE", "ERASE"}, nand : Verdict]
      /\ UNCHANGED <<waitOn, isr, gaveUp>>
  BY DEF h2fmi_read_multi, h2fmi_write_multi, h2fmi_erase_single_block, Call, Verdict
<1>2. ASSUME chan' = [c \in Channel |-> [chan[c] EXCEPT !.moved = FALSE]]
      PROVE  /\ chan' \in [Channel -> Chan]
             /\ \A c \in Channel :
                  /\ chan'[c].list = chan[c].list
                  /\ Quiet(chan[c]) => Quiet(chan'[c])
  BY <1>2 DEF IInv, TypeOK, Chan, Quiet
<1>3. CASE h2fmi_read_multi
  <2>1. call'.kind = "READ" /\ pc' = "machine" /\ ret' = ret
        /\ fmi' = [fmi EXCEPT !.state = "READ", !.stage = 0, !.pages = "none"]
        /\ chan' = [c \in Channel |-> [chan[c] EXCEPT !.moved = FALSE]]
    BY <1>3 DEF h2fmi_read_multi, Call
  <2>2. fmi' \in Fmi /\ fmi'.stage = 0 /\ fmi'.state = "READ"
    <3>. DEFINE s == "READ"  n == 0  p == "none"
    <3>1. /\ fmi \in Fmi /\ s \in {"IDLE", "READ", "WRITE"} /\ n \in 0..Done
          /\ p \in Verdict \cup {"none"}
      BY DEF IInv, TypeOK, Done
    <3>2. fmi' = [fmi EXCEPT !.state = s, !.stage = n, !.pages = p]
      BY <2>1
    <3>. HIDE DEF s, n, p
    <3>3. fmi' \in Fmi
      BY <3>1, <3>2 DEF Fmi
    <3>4. fmi'.stage = n /\ fmi'.state = s
      BY <3>1, <3>2 DEF Fmi
    <3>5. QED
      BY <3>3, <3>4 DEF n, s
  <2>3. TypeOK'
    <3>1. chan' \in [Channel -> Chan]
      BY <1>2, <2>1
    <3>2. calls' \in 0..MaxCalls
      BY <1>1, H2fmiAssumption DEF IInv, TypeOK
    <3>3. QED
      BY <1>1, <2>1, <2>2, <3>1, <3>2 DEF IInv, TypeOK
  <2>4. Fields'
    BY <2>1, <2>2 DEF Fields, ReadFields, Done
  <2>5. OneWait'
    BY <1>1, <1>2, <2>1 DEF IInv, OneWait, TypeOK, Chan
  <2>6. SignalsOfThisCall'
    BY <1>1, <1>2, <2>1, <2>2 DEF IInv, SignalsOfThisCall, Quiet
  <2>7. ReadTold'
    BY <2>1 DEF ReadTold, Told
  <2>8. QED
    BY <2>3, <2>4, <2>5, <2>6, <2>7 DEF IInv
<1>4. CASE h2fmi_write_multi /\ fmi.current_mode = 0
  <2>1. call'.kind = "WRITE" /\ pc' = "machine" /\ ret' = ret
        /\ fmi' = [fmi EXCEPT !.state = "WRITE", !.stage = 0, !.current_mode = 2]
        /\ chan' = [c \in Channel |-> [chan[c] EXCEPT !.moved = FALSE]]
    BY <1>4 DEF h2fmi_write_multi, Call
  <2>2. fmi' \in Fmi /\ fmi'.stage = 0 /\ fmi'.state = "WRITE"
    <3>. DEFINE s == "WRITE"  n == 0  p == 2
    <3>1. /\ fmi \in Fmi /\ s \in {"IDLE", "READ", "WRITE"} /\ n \in 0..Done
          /\ p \in {0, 2}
      BY DEF IInv, TypeOK, Done
    <3>2. fmi' = [fmi EXCEPT !.state = s, !.stage = n, !.current_mode = p]
      BY <2>1
    <3>. HIDE DEF s, n, p
    <3>3. fmi' \in Fmi
      BY <3>1, <3>2 DEF Fmi
    <3>4. fmi'.stage = n /\ fmi'.state = s
      BY <3>1, <3>2 DEF Fmi
    <3>5. QED
      BY <3>3, <3>4 DEF n, s
  <2>3. TypeOK'
    <3>1. chan' \in [Channel -> Chan]
      BY <1>2, <2>1
    <3>2. calls' \in 0..MaxCalls
      BY <1>1, H2fmiAssumption DEF IInv, TypeOK
    <3>3. QED
      BY <1>1, <2>1, <2>2, <3>1, <3>2 DEF IInv, TypeOK
  <2>4. Fields'
    BY <2>1, <2>2 DEF Fields, WriteFields, Done
  <2>5. OneWait'
    BY <1>1, <1>2, <2>1 DEF IInv, OneWait, TypeOK, Chan
  <2>6. SignalsOfThisCall'
    BY <1>1, <1>2, <2>1, <2>2 DEF IInv, SignalsOfThisCall, Quiet
  <2>7. ReadTold'
    BY <2>1 DEF ReadTold, Told
  <2>8. QED
    BY <2>3, <2>4, <2>5, <2>6, <2>7 DEF IInv
<1>5. CASE h2fmi_write_multi /\ fmi.current_mode # 0
  <2>1. pc' = "panic" /\ UNCHANGED <<fmi, chan, ret>>
    BY <1>5 DEF h2fmi_write_multi
  <2>2. TypeOK'
    BY <1>1, <2>1, H2fmiAssumption DEF IInv, TypeOK
  <2>3. Fields' /\ SignalsOfThisCall' /\ ReadTold'
    BY <2>1 DEF Fields, SignalsOfThisCall, ReadTold, Told, Working
  <2>4. OneWait'
    BY <1>1, <2>1 DEF IInv, OneWait, TypeOK, Chan
  <2>5. QED
    BY <2>2, <2>3, <2>4 DEF IInv
<1>6. CASE h2fmi_erase_single_block
  <2>1. call'.kind = "ERASE" /\ ret' = "SUCCESS" /\ UNCHANGED <<chan, pc>>
        /\ fmi' = [fmi EXCEPT !.overall_status = "0"]
    BY <1>6 DEF h2fmi_erase_single_block, Call
  <2>2. fmi' \in Fmi
    BY <2>1 DEF IInv, TypeOK, Fmi
  <2>3. TypeOK'
    BY <1>1, <2>1, <2>2, H2fmiAssumption DEF IInv, TypeOK
  <2>4. Fields' /\ SignalsOfThisCall' /\ ReadTold'
    BY <1>1, <2>1 DEF IInv, Fields, SignalsOfThisCall, ReadTold, Told, Working
  <2>5. OneWait'
    BY <1>1, <2>1 DEF IInv, OneWait, TypeOK, Chan
  <2>6. QED
    BY <2>3, <2>4, <2>5 DEF IInv
<1>7. QED
  BY <1>3, <1>4, <1>5, <1>6

(* The end of a call: a read of this call with both signals, or one that   *)
(* ended by a timeout that needs no wait.                                  *)
LEMMA FinishIInv ==
  ASSUME IInv, Working, NEW f \in Fmi, Finish(f), f.state = fmi.state,
         UNCHANGED <<isr, call, gaveUp, calls>>,
         ~gaveUp /\ fmi.state = "READ" =>
           \/ f.overall_status \in {"0x8000001F", "ETIMEDOUT"}
           \/ f.overall_status = "0" /\ f.pages = call.nand /\ Fed
  PROVE  IInv'
<1>1. pc' = "user" /\ waitOn' = waitOn
      /\ fmi' = [f EXCEPT !.state = "IDLE", !.current_mode = IF f.state = "WRITE" THEN 0 ELSE @]
      /\ chan' = [c \in Channel |-> h2fmi_dma_cancel(chan[c])]
      /\ ret' = IF f.state = "READ" THEN ReadResult(f) ELSE "SUCCESS"
  BY DEF Finish
<1>2. fmi' \in Fmi
  BY <1>1 DEF Fmi
<1>3. /\ chan' \in [Channel -> Chan]
      /\ \A c \in Channel : /\ Quiet(chan'[c]) /\ chan'[c].list = 0
                            /\ chan'[c].moved = chan[c].moved
  BY <1>1, Cancelled DEF IInv, TypeOK
<1>4. TypeOK'
  BY <1>1, <1>2, <1>3 DEF IInv, TypeOK, ReadResult
<1>5. Fields' /\ OneWait'
  BY <1>1, <1>3 DEF IInv, TypeOK, Fields, OneWait, Working
<1>6. SignalsOfThisCall'
  BY <1>1, <1>3 DEF SignalsOfThisCall, Working
<1>7. ReadTold'
  <2>. SUFFICES ASSUME ~gaveUp, call.kind = "READ"
                PROVE  /\ ret' = "SUCCESS" => call.nand = "good" /\ Fed'
                       /\ ret' = "ENOENT" => call.nand \in {"empty", "ecc"} /\ Fed'
    BY DEF ReadTold, Told
  <2>1. f.state = "READ" /\ ret' = ReadResult(f)
    BY <1>1 DEF IInv, SignalsOfThisCall
  <2>2. Fed => Fed'
    BY <1>3 DEF Fed
  <2>3. QED
    BY <2>1, <2>2 DEF ReadResult, IInv, TypeOK, Verdict
<1>8. QED
  BY <1>4, <1>5, <1>6, <1>7 DEF IInv

LEMMA MachineDoneIInv == ASSUME IInv, MachineDone PROVE IInv'
<1>1. pc = "machine" /\ fmi.stage = Done /\ UNCHANGED <<isr, call, gaveUp, calls>>
  BY DEF MachineDone
<1>2. CASE fmi.current_status = 0
  <2>1. Finish(fmi)
    BY <1>2 DEF MachineDone
  <2>2. fmi.state = "READ" => fmi.overall_status \in {"0x8000001F", "ETIMEDOUT"}
    BY <1>1, <1>2 DEF IInv, Fields, Working, ReadFields, ReadOutcome, Late2
  <2>3. QED
    BY <1>1, <2>1, <2>2, FinishIInv DEF IInv, TypeOK, Working
<1>3. CASE fmi.current_status # 0
  <2>1. pc' = "test" /\ waitOn' = dma0 /\ UNCHANGED <<fmi, chan, ret>>
    BY <1>3 DEF MachineDone
  <2>2. TypeOK'
    BY <1>1, <1>3, <2>1, H2fmiAssumption DEF IInv, TypeOK
  <2>3. Fields'
    BY <1>1, <1>3, <2>1, H2fmiAssumption
     DEF IInv, Fields, Working, ReadFields, ReadOutcome, WriteFields
  <2>4. OneWait' /\ ReadTold'
    BY <1>1, <1>3, <2>1, H2fmiAssumption DEF IInv, OneWait, ReadTold, Told
  <2>5. SignalsOfThisCall'
    BY <1>1, <1>3, <2>1, H2fmiAssumption DEF IInv, SignalsOfThisCall, Working, NotStarted
  <2>6. QED
    BY <2>2, <2>3, <2>4, <2>5 DEF IInv
<1>4. QED
  BY <1>2, <1>3

LEMMA TestIInv == ASSUME IInv, h2fmi_dma_test PROVE IInv'
<1>1. pc = "test" /\ fmi.stage = Done /\ fmi.current_status # 0
      /\ UNCHANGED <<isr, call, gaveUp, calls>>
  BY DEF IInv, Fields, Working, h2fmi_dma_test
<1>2. CASE ~chan[waitOn].signalled
  <2>1. pc' = "enqueue" /\ UNCHANGED <<fmi, chan, waitOn, ret>>
    BY <1>2 DEF h2fmi_dma_test
  <2>2. TypeOK'
    BY <1>1, <2>1 DEF IInv, TypeOK
  <2>3. Fields'
    BY <1>1, <2>1
     DEF IInv, Fields, Working, ReadFields, ReadOutcome, WriteFields
  <2>4. OneWait' /\ ReadTold'
    BY <1>1, <2>1 DEF IInv, OneWait, ReadTold, Told
  <2>5. SignalsOfThisCall'
    BY <1>1, <2>1 DEF IInv, SignalsOfThisCall, Working, NotStarted
  <2>6. QED
    BY <2>2, <2>3, <2>4, <2>5 DEF IInv
<1>3. CASE chan[waitOn].signalled /\ waitOn = dma0
  <2>1. waitOn' = Last /\ UNCHANGED <<fmi, chan, pc, ret>>
    BY <1>3 DEF h2fmi_dma_test
  <2>2. TypeOK'
    BY <1>1, <1>3, <2>1, ChannelsAreTwo DEF IInv, TypeOK, TwoChannels
  <2>3. Fields'
    BY <1>1, <1>3, <2>1, ChannelsAreTwo
     DEF IInv, Fields, Working, ReadFields, ReadOutcome, WriteFields
  <2>4. OneWait' /\ ReadTold'
    BY <1>1, <1>3, <2>1, ChannelsAreTwo DEF IInv, OneWait, ReadTold, Told
  <2>5. SignalsOfThisCall'
    BY <1>1, <1>3, <2>1, ChannelsAreTwo DEF IInv, SignalsOfThisCall, Working, NotStarted
  <2>6. QED
    BY <2>2, <2>3, <2>4, <2>5 DEF IInv
<1>4. CASE chan[waitOn].signalled /\ waitOn # dma0
  <2>. DEFINE f == [fmi EXCEPT !.overall_status = "0"]
  <2>1. Finish(f)
    BY <1>4 DEF h2fmi_dma_test
  <2>2. f \in Fmi /\ f.state = fmi.state /\ f.overall_status = "0" /\ f.pages = fmi.pages
    BY DEF IInv, TypeOK, Fmi
  <2>3. ASSUME ~gaveUp, fmi.state = "READ" PROVE fmi.pages = call.nand /\ Fed
    <3>1. \A c \in Channel : chan[c].signalled
      BY <1>1, <1>4, <2>3, ChannelsAreTwo
      DEF IInv, TypeOK, SignalsOfThisCall, Working, TwoChannels
    <3>2. Fed
      BY <1>1, <2>3, <3>1 DEF IInv, SignalsOfThisCall, Working, Fed
    <3>3. ~NotStarted(fmi)
      BY <1>1, <2>3, <3>1, ChannelsAreTwo
      DEF IInv, SignalsOfThisCall, Working, Quiet, TwoChannels
    <3>4. QED
      BY <1>1, <2>3, <3>2, <3>3
      DEF IInv, Fields, Working, ReadFields, ReadOutcome, NotStarted, Done
  <2>. HIDE DEF f
  <2>4. QED
    BY <1>1, <2>1, <2>2, <2>3, FinishIInv DEF Working
<1>5. QED
  BY <1>2, <1>3, <1>4

LEMMA WaitIInv == ASSUME IInv, h2fmi_dma_wait PROVE IInv'
<1>1. /\ pc = "enqueue" /\ pc' \in {"sleep", "spin"}
      /\ chan' = [chan EXCEPT ![waitOn].list = @ + 1]
      /\ waitOn \in Channel /\ chan \in [Channel -> Chan]
      /\ UNCHANGED <<fmi, waitOn, ret, isr, call, gaveUp, calls>>
  BY DEF IInv, TypeOK, h2fmi_dma_wait
<1>2. chan[waitOn].list + 1 \in 0..MaxCalls /\ chan[waitOn].list + 1 <= calls
  BY <1>1, H2fmiAssumption DEF IInv, OneWait, TypeOK, Chan
<1>3. /\ chan' \in [Channel -> Chan]
      /\ \A c \in Channel :
           /\ chan'[c].signalled = chan[c].signalled
           /\ chan'[c].moved = chan[c].moved /\ chan'[c].hw = chan[c].hw
           /\ chan'[c].list <= calls
  BY <1>1, <1>2 DEF Chan, IInv, OneWait
<1>4. TypeOK'
  BY <1>1, <1>3 DEF IInv, TypeOK
<1>5. Fields' /\ OneWait'
  BY <1>1, <1>3 DEF IInv, Fields, OneWait, Working, ReadFields, ReadOutcome, WriteFields
<1>6. SignalsOfThisCall' /\ ReadTold'
  BY <1>1, <1>3 DEF IInv, SignalsOfThisCall, ReadTold, Told, Working, Quiet, NotStarted
<1>7. QED
  BY <1>4, <1>5, <1>6 DEF IInv

LEMMA WaitTimesOutIInv == ASSUME IInv, WaitTimesOut PROVE IInv'
  BY DEF WaitTimesOut, IInv, TypeOK, Fields, OneWait, SignalsOfThisCall, ReadTold,
         Told, Working

LEMMA HardwareDoneIInv == ASSUME IInv, NEW c \in Channel, HardwareDone(c) PROVE IInv'
<1>1. /\ chan \in [Channel -> Chan] /\ chan[c].hw = "run"
      /\ chan' = [chan EXCEPT ![c].hw = "done", ![c].moved = TRUE]
      /\ UNCHANGED <<fmi, pc, waitOn, ret, isr, call, gaveUp, calls>>
  BY DEF IInv, TypeOK, HardwareDone
<1>2. /\ chan' \in [Channel -> Chan]
      /\ \A d \in Channel :
           /\ chan'[d].signalled = chan[d].signalled /\ chan'[d].list = chan[d].list
           /\ d # c => chan'[d] = chan[d]
      /\ chan'[c].moved
  BY <1>1 DEF Chan
<1>3. TypeOK'
  BY <1>1, <1>2 DEF IInv, TypeOK
<1>4. Fields' /\ OneWait'
  BY <1>1, <1>2 DEF IInv, Fields, OneWait, Working, ReadFields, ReadOutcome, WriteFields
<1>5. SignalsOfThisCall' /\ ReadTold'
  <2>1. ~gaveUp => pc # "user" /\ ~(Working /\ fmi.state = "READ" /\ NotStarted(fmi))
    BY <1>1 DEF IInv, SignalsOfThisCall, Quiet
  <2>2. SignalsOfThisCall'
    <3>. SUFFICES ASSUME ~gaveUp, Working
                  PROVE  /\ \A d \in Channel :
                              chan'[d].signalled \/ chan'[d].hw = "done" => chan'[d].moved
                         /\ pc # "machine" /\ waitOn # dma0 => chan'[dma0].signalled
                         /\ call.kind = fmi.state
      BY <1>1, <2>1 DEF SignalsOfThisCall, Working, NotStarted
    <3>1. /\ \A d \in Channel : chan[d].signalled \/ chan[d].hw = "done" => chan[d].moved
          /\ pc # "machine" /\ waitOn # dma0 => chan[dma0].signalled
          /\ call.kind = fmi.state
      BY DEF IInv, SignalsOfThisCall
    <3>2. QED
      BY <1>1, <1>2, <3>1, H2fmiAssumption
  <2>3. ReadTold'
    BY <1>1, <2>1 DEF ReadTold, Told
  <2>4. QED
    BY <2>2, <2>3
<1>6. QED
  BY <1>3, <1>4, <1>5 DEF IInv

LEMMA HandlerIInv == ASSUME IInv, NEW c \in Channel, h2fmi_handle_dma(c) PROVE IInv'
<1>1. /\ chan \in [Channel -> Chan] /\ chan[c].hw = "done"
      /\ chan' = [chan EXCEPT ![c].signalled = TRUE, ![c].hw = "idle"]
      /\ UNCHANGED <<fmi, pc, waitOn, ret, call, gaveUp, calls>>
      /\ isr' \in {"ends", "suspended"}
  BY DEF IInv, TypeOK, h2fmi_handle_dma
<1>2. /\ chan' \in [Channel -> Chan]
      /\ \A d \in Channel :
           /\ chan'[d].moved = chan[d].moved /\ chan'[d].list = chan[d].list
           /\ d # c => chan'[d] = chan[d]
      /\ chan'[c].signalled
  BY <1>1 DEF Chan
<1>3. TypeOK'
  BY <1>1, <1>2 DEF IInv, TypeOK
<1>4. Fields' /\ OneWait'
  BY <1>1, <1>2 DEF IInv, Fields, OneWait, Working, ReadFields, ReadOutcome, WriteFields
<1>5. SignalsOfThisCall' /\ ReadTold'
  <2>1. ~gaveUp => pc # "user" /\ ~(Working /\ fmi.state = "READ" /\ NotStarted(fmi))
    BY <1>1 DEF IInv, SignalsOfThisCall, Quiet
  <2>2. SignalsOfThisCall'
    <3>. SUFFICES ASSUME ~gaveUp, Working
                  PROVE  /\ \A d \in Channel :
                              chan'[d].signalled \/ chan'[d].hw = "done" => chan'[d].moved
                         /\ pc # "machine" /\ waitOn # dma0 => chan'[dma0].signalled
                         /\ call.kind = fmi.state
      BY <1>1, <2>1 DEF SignalsOfThisCall, Working, NotStarted
    <3>1. /\ \A d \in Channel : chan[d].signalled \/ chan[d].hw = "done" => chan[d].moved
          /\ pc # "machine" /\ waitOn # dma0 => chan[dma0].signalled
          /\ call.kind = fmi.state
      BY DEF IInv, SignalsOfThisCall
    <3>2. QED
      BY <1>1, <1>2, <3>1, H2fmiAssumption
  <2>3. ReadTold'
    BY <1>1, <2>1 DEF ReadTold, Told
  <2>4. QED
    BY <2>2, <2>3
<1>6. QED
  BY <1>3, <1>4, <1>5 DEF IInv

LEMMA NextIInv == IInv /\ [Next]_vars => IInv'
<1>. SUFFICES ASSUME IInv, [Next]_vars PROVE IInv'
  OBVIOUS
<1>1. CASE UNCHANGED vars
  BY <1>1 DEF vars, IInv, TypeOK, Fields, ReadFields, ReadOutcome, WriteFields, OneWait,
              SignalsOfThisCall, NotStarted, Quiet, ReadTold, Told, Fed, Working
<1>2. CASE Machine(Poll)
  BY <1>2, ReadMachineIInv, WriteMachineIInv DEF Machine
<1>3. CASE Go
  BY <1>3, MachineDoneIInv, TestIInv, WaitIInv, WaitTimesOutIInv DEF Go
<1>4. CASE Begin
  BY <1>4, BeginIInv DEF Begin
<1>5. CASE Dma
  BY <1>5, HardwareDoneIInv, HandlerIInv DEF Dma
<1>6. QED
  BY <1>1, <1>2, <1>3, <1>4, <1>5 DEF Next

(* The invariant holds of the initial states and is kept by every step.    *)
THEOREM SpecIInv == Spec => []IInv
  BY InitIInv, NextIInv, PTL DEF Spec

----------------------------------------------------------------------------
(* The machines of both directions stay in their ranges, the page index    *)
(* and the waiting lists with them (h2fmi.c:1010-1120, 1560-2430).         *)
THEOREM SpecTypeOK == Spec => []TypeOK
<1>1. IInv => TypeOK
  BY DEF IInv
<1>2. QED
  BY <1>1, SpecIInv, PTL

(* No timeout but that of the wait for the DMA lets a later read report a  *)
(* page that was not moved in that very call (h2fmi_read_multi).           *)
THEOREM SpecReadTold == Spec => []ReadTold
<1>1. IInv => ReadTold
  BY DEF IInv
<1>2. QED
  BY <1>1, SpecIInv, PTL
=============================================================================
