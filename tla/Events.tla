------------------------------- MODULE Events -------------------------------
(***************************************************************************)
(* The timed events of openiBoot: event.c of each platform and the timer   *)
(* that drives it.  On the S5L8900 and S5L8720 the timer interrupt is      *)
(* periodic; on the A4 (and S5L8920) event.c programs the timer for the    *)
(* next deadline.                                                          *)
(*                                                                         *)
(* event_add and event_readd hold a critical section and are one step, the *)
(* timer handler runs with interrupts off, so tasks make no step while it  *)
(* does, but time goes on.  Times are relative to now, which keeps the     *)
(* model finite: due[e] is deadline minus current time.                    *)
(***************************************************************************)
EXTENDS Integers, SequencesExt

CONSTANTS
  Event,      \* the events: sleepEvent of the tasks, WDTEvent
  NULL,
  Platform,   \* which of "s5l8900", "s5l8720" and "a4" are looked at
  Timeout,    \* timeouts the callers ask for
  Period,     \* of the periodic timer
  MaxCount,   \* largest count of the one-shot timer (2^32 - 1)
  MaxAge,     \* bound: how long one run of the timer handler takes
  MaxLate     \* bound: how long interrupts can hold up a due event

ASSUME EventsAssumption ==
  /\ NULL \notin Event
  /\ Timeout \subseteq Nat /\ Period \in Nat \ {0} /\ MaxCount \in Nat
  /\ MaxAge \in Nat /\ MaxLate \in Nat

VARIABLES
  platform,  \* whose event.c and timer this is
  queue,     \* EventList, from its head
  due,       \* Event.deadline, from now; 0 when not listed
  interval,  \* Event.interval
  opaque,    \* Event.opaque: an event stands for its owner too
  left,      \* time until the timer interrupt, 0 when it is pending
  age,       \* time since the handler sampled curTime, or Idle
  handling,  \* event whose handler is being called
  armed,     \* history: the listed events in the order they were added
  moved      \* history: the event that the last step added

evars == <<platform, queue, due, interval, opaque, armed>>
vars  == <<evars, left, age, handling, moved>>

OneShot == platform = "a4"
Off     == -1   \* the one-shot timer is stopped
Idle    == -1   \* the timer handler is not running

Listed == ToSet(queue)

TypeOK ==
  /\ platform \in Platform
  /\ queue \in Seq(Event)
  /\ due \in [Event -> Int]
  /\ interval \in [Event -> Timeout \cup {0}]
  /\ opaque \in [Event -> Event \cup {NULL}]
  /\ left \in Nat \cup {Off}
  /\ age \in 0..MaxAge \cup {Idle}
  /\ handling \in Event \cup {NULL}
  /\ armed \in Seq(Event)
  /\ moved \in Event \cup {NULL}

(* event_setup *)
Init ==
  /\ platform \in Platform
  /\ queue = <<>>
  /\ due = [e \in Event |-> 0]
  /\ interval = [e \in Event |-> 0]
  /\ opaque = [e \in Event |-> NULL]
  /\ left = IF OneShot THEN Off ELSE Period
  /\ age = Idle
  /\ handling = NULL
  /\ armed = <<>>
  /\ moved = NULL

PositionBeforeEqual(q, t) ==  \* faulty: >= for >
  LET later == SelectInSeq(q, LAMBDA e : due[e] >= t)
  IN  IF later = 0 THEN Len(q) + 1 ELSE later

(* Where event_add inserts: before the first event with a later deadline. *)
(* (The list head's own deadline, 0, is never later.)                     *)
Position(q, t) ==
  LET later == SelectInSeq(q, LAMBDA e : due[e] > t)
  IN  IF later = 0 THEN Len(q) + 1 ELSE later

Count(t) == IF t > MaxCount THEN MaxCount ELSE t

AddTwice(e, t, o) ==  \* faulty: a listed event is not taken off first
  /\ queue' = InsertAt(queue, Position(queue, t), e)
  /\ due' = [due EXCEPT ![e] = t]
  /\ interval' = [interval EXCEPT ![e] = t]
  /\ opaque' = IF platform = "s5l8720" THEN opaque ELSE [opaque EXCEPT ![e] = o]
  /\ left' = IF OneShot /\ queue = <<>> THEN Count(t) ELSE left
  /\ armed' = Append(RemoveFirst(armed, e), e)
  /\ moved' = e
  /\ UNCHANGED platform

AddNoOpaque(e, t, o) ==  \* faulty: the opaque pointer is not stored
  LET rest == RemoveFirst(queue, e)
  IN  /\ queue' = InsertAt(rest, Position(rest, t), e)
      /\ due' = [due EXCEPT ![e] = t]
      /\ interval' = [interval EXCEPT ![e] = t]
      /\ left' = IF OneShot /\ rest = <<>> THEN Count(t) ELSE left
      /\ armed' = Append(RemoveFirst(armed, e), e)
      /\ moved' = e
      /\ UNCHANGED <<platform, opaque>>

(* event_add(e, t, _, o).  The one-shot timer is set only for the first   *)
(* event of an empty list.                                                *)
Add(e, t, o) ==
  LET rest == RemoveFirst(queue, e)
  IN  /\ queue' = InsertAt(rest, Position(rest, t), e)
      /\ due' = [due EXCEPT ![e] = t]
      /\ interval' = [interval EXCEPT ![e] = t]
      /\ opaque' = IF platform = "s5l8720" THEN opaque ELSE [opaque EXCEPT ![e] = o]
      /\ left' = IF OneShot /\ rest = <<>> THEN Count(t) ELSE left
      /\ armed' = Append(RemoveFirst(armed, e), e)
      /\ moved' = e
      /\ UNCHANGED platform

(* A task goes to sleep: task_sleep hands itself over as the opaque       *)
(* pointer.  Its event may still be listed, from a sleep that task_wake   *)
(* cut short.                                                             *)
AddEvent(e, t) ==
  /\ age = Idle
  /\ Add(e, t, e)
  /\ UNCHANGED <<age, handling>>

(* event_readd(e, new) from e's own handler, as in wdt_handler.  Without  *)
(* a new interval the old one counts; with neither the event is dropped.  *)
Readd(e, new) ==
  LET t == IF new = 0 THEN interval[e] ELSE new
  IN  /\ handling = e
      /\ t > 0
      /\ Add(e, t, opaque[e])
      /\ UNCHANGED <<age, handling>>

HandlerReturns ==
  /\ handling # NULL
  /\ handling' = NULL
  /\ moved' = NULL
  /\ UNCHANGED <<evars, left, age>>

----------------------------------------------------------------------------
(* eventTimerHandler *)

(* The interrupt: the handler samples curTime once.  The periodic timer   *)
(* has reloaded itself, the one-shot timer is stopped.                    *)
TimerFires ==
  /\ age = Idle /\ left = 0
  /\ age' = 0
  /\ left' = IF OneShot THEN Off ELSE Period
  /\ moved' = NULL
  /\ UNCHANGED <<evars, handling>>

Reached(e) == due[e] <= -age  \* curTime >= deadline

Dispatch ==
  /\ age # Idle /\ handling = NULL
  /\ queue # <<>> /\ Reached(Head(queue))
  /\ handling' = Head(queue)
  /\ queue' = Tail(queue)
  /\ due' = [due EXCEPT ![Head(queue)] = 0]
  /\ armed' = RemoveFirst(armed, Head(queue))
  /\ moved' = NULL
  /\ UNCHANGED <<platform, interval, opaque, left, age>>

HandlerEndsAtOnce ==  \* faulty: one dispatch for each interrupt
  /\ age # Idle /\ handling = NULL
  /\ age' = Idle
  /\ left' = IF OneShot /\ queue # <<>> THEN Count(due[Head(queue)] + age) ELSE left
  /\ moved' = NULL
  /\ UNCHANGED <<evars, handling>>

HandlerEndsUnset ==  \* faulty: the next deadline is not programmed
  /\ age # Idle /\ handling = NULL
  /\ queue # <<>> => ~Reached(Head(queue))
  /\ age' = Idle
  /\ moved' = NULL
  /\ UNCHANGED <<evars, left, handling>>

(* Nothing more is due: the one-shot timer is set for the time that was   *)
(* left until the first deadline when curTime was sampled.                *)
HandlerEnds ==
  /\ age # Idle /\ handling = NULL
  /\ queue # <<>> => ~Reached(Head(queue))
  /\ age' = Idle
  /\ left' = IF OneShot /\ queue # <<>> THEN Count(due[Head(queue)] + age) ELSE left
  /\ moved' = NULL
  /\ UNCHANGED <<evars, handling>>

TickPastZero ==  \* faulty: the timer counts on after it has expired
  /\ age < MaxAge
  /\ \A e \in Listed : due[e] > -MaxLate
  /\ due' = [e \in Event |-> IF e \in Listed THEN due[e] - 1 ELSE due[e]]
  /\ left' = left - 1
  /\ age' = IF age = Idle THEN Idle ELSE age + 1
  /\ moved' = NULL
  /\ UNCHANGED <<platform, queue, interval, opaque, handling, armed>>

Tick ==
  /\ age < MaxAge
  /\ \A e \in Listed : due[e] > -MaxLate
  /\ due' = [e \in Event |-> IF e \in Listed THEN due[e] - 1 ELSE due[e]]
  /\ left' = IF left > 0 THEN left - 1 ELSE left
  /\ age' = IF age = Idle THEN Idle ELSE age + 1
  /\ moved' = NULL
  /\ UNCHANGED <<platform, queue, interval, opaque, handling, armed>>

Next ==
  \/ \E e \in Event, t \in Timeout : AddEvent(e, t) \/ Readd(e, t)
  \/ TimerFires \/ Dispatch \/ HandlerReturns \/ HandlerEnds
  \/ Tick

Spec == Init /\ [][Next]_vars

(* Time passes, the timer interrupt is taken and its handler runs on.     *)
FairSpec ==
  /\ Spec
  /\ WF_vars(Tick) /\ WF_vars(TimerFires)
  /\ WF_vars(Dispatch) /\ WF_vars(HandlerReturns) /\ WF_vars(HandlerEnds)

----------------------------------------------------------------------------
(* "The event queue is sorted" (eventTimerHandler), and no event is on it *)
(* twice, although event_add moves events that are listed and compares    *)
(* with deadlines computed at different times.                            *)
SortedOnce ==
  \A i, j \in DOMAIN queue :
    i < j => due[queue[i]] <= due[queue[j]] /\ queue[i] # queue[j]

(* With the periodic timer no event is more than one period late while no *)
(* timer interrupt is pending: one run of the handler leaves nothing that *)
(* was due when it began, however many events had the same deadline.      *)
LateByATickAtMost ==
  ~OneShot /\ age = Idle /\ left > 0 =>
    \A e \in Listed : due[e] >= left - Period

(* With the one-shot timer, the timer runs or its interrupt is pending as *)
(* long as an event is listed, although event_add sets it only for the    *)
(* first event and the handler stops it.                                  *)
TimerArmed == OneShot /\ age = Idle /\ queue # <<>> => left # Off

(* A handler is called with the pointer its owner passed to event_add: it *)
(* is the sleeping task that task_wake_event adds "back to the queue"     *)
(* (tasks.c:257).                                                         *)
WakesItsSleeper == handling # NULL => opaque[handling] = handling

(* The queue keeps the promise of module Deadlines.                       *)
Promise == INSTANCE Deadlines
KeepsPromise == Promise!FairSpec

(* An event that is set goes off, unless it is set again.                 *)
EventGoesOff == \A e \in Event : []<>(e \notin Listed \/ moved = e)
=============================================================================
