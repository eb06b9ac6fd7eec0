----------------------------- MODULE Deadlines -----------------------------
(***************************************************************************)
(* What the event queue promises (event_add, event_readd, EventHandler):   *)
(* an event that is set goes off after its deadline, never before it; of   *)
(* the events set the one with the earliest deadline goes first, the one   *)
(* set first among equals; and every event that is set goes off, unless it *)
(* is set again.                                                           *)
(***************************************************************************)
EXTENDS Integers, SequencesExt

CONSTANTS Event, Timeout, MaxLate

VARIABLES
  armed,  \* the events that are set, in the order in which they were set
  due     \* time left until an event's deadline, negative when it is late

Pending == ToSet(armed)

Init == armed = <<>> /\ due = [e \in Event |-> 0]

Arm(e, t) ==
  /\ armed' = Append(RemoveFirst(armed, e), e)
  /\ due' = [due EXCEPT ![e] = t]

First(e) ==
  \E i \in DOMAIN armed :
    /\ armed[i] = e
    /\ \A j \in DOMAIN armed :
         due[e] < due[armed[j]] \/ (due[e] = due[armed[j]] /\ i <= j)

Expire(e) ==
  /\ First(e) /\ due[e] <= 0
  /\ armed' = RemoveFirst(armed, e)
  /\ due' = [due EXCEPT ![e] = 0]

Tick ==
  /\ \A e \in Pending : due[e] > -MaxLate
  /\ due' = [e \in Event |-> IF e \in Pending THEN due[e] - 1 ELSE due[e]]
  /\ UNCHANGED armed

Next == (\E e \in Event : Expire(e) \/ \E t \in Timeout : Arm(e, t)) \/ Tick

Spec == Init /\ [][Next]_<<armed, due>>

FairSpec == Spec /\ \A e \in Event : WF_<<armed, due>>(Expire(e))
=============================================================================
