---------------------------- MODULE TasksProofs ----------------------------
(***************************************************************************)
(* Theorems about the scheduler, for any number of tasks and any nesting   *)
(* of critical sections.                                                   *)
(***************************************************************************)
EXTENDS Tasks, FiniteSetTheorems, WellFoundedInduction, TLAPS

(* Descriptors outside the run ring point to themselves, so that a later   *)
(* insertion breaks no other link.                                         *)
Outside(n) == next[n] = n /\ prev[n] = n

OutsideLoops ==
  /\ Outside(IRQ)
  /\ \A t \in Task : state[t] = "STOPPED" \/ t \in timers => Outside(t) /\ t # Anchor

(* Every task of the ring but the one that has the CPU is inside SwapTask, *)
(* with one LeaveCriticalSection to do.                                    *)
WaitersSwapped ==
  \A t \in Task :
    /\ t \in timers \/ (t # Anchor /\ next[t] # t) =>
         state[t] = "RUNNING" /\ pc[t] = "swap"

AnchorRuns ==
  /\ Anchor \in Task
  /\ state[Anchor] = "RUNNING"
  /\ pc[Anchor] \in {"user", "idle", "wfi", "reboot"}
  /\ pc[Anchor] \in {"idle", "wfi"} => Anchor = Boot /\ held[Anchor] = 0
  /\ current = IRQ => pc[Anchor] # "reboot" /\ held[Anchor] = 0

IInv ==
  /\ TypeOK
  /\ RingMirrored
  /\ OutsideLoops
  /\ WaitersSwapped
  /\ AnchorRuns
  /\ MaskingSound
  /\ CriticalDepthKept

----------------------------------------------------------------------------
(* What the two pointer updates do to a mirrored ring.                     *)

(* Inserting a self-looped a between b and its successor keeps the links   *)
(* mirrored, changes only the links of a, b and c, and leaves every        *)
(* self-looped descriptor but b and a a self-loop.                         *)
LEMMA InsertKeepsRing ==
  ASSUME TypeOK, RingMirrored,
         NEW a \in Node, NEW b \in Node, Outside(a), a # b,
         NEW r, r = Linked(Ring, a, b, next[b])
  PROVE  /\ r.next \in [Node -> Node] /\ r.prev \in [Node -> Node]
         /\ \A n \in Node : r.prev[r.next[n]] = n /\ r.next[r.prev[n]] = n
         /\ \A n \in Node \ {a, b} : Outside(n) => r.next[n] = n /\ r.prev[n] = n
         /\ \A n \in Node \ {a, b} : r.next[n] = n <=> next[n] = n
         /\ r.next[a] # a
<1>. DEFINE c == next[b]
<1>1. c \in Node /\ c # a
  BY DEF TypeOK, RingMirrored, Outside
<1>2. /\ r.next = [next EXCEPT ![b] = a, ![a] = c]
      /\ r.prev = [prev EXCEPT ![a] = b, ![c] = a]
  BY DEF Linked, Ring
<1>3. QED
  BY <1>1, <1>2 DEF TypeOK, RingMirrored, Outside

(* Taking t out keeps the links mirrored and makes t a self-loop. *)
LEMMA RemoveKeepsRing ==
  ASSUME TypeOK, RingMirrored,
         NEW t \in Node, next[t] # t,
         NEW r, r = Removed(t)
  PROVE  /\ r.next \in [Node -> Node] /\ r.prev \in [Node -> Node]
         /\ \A n \in Node : r.prev[r.next[n]] = n /\ r.next[r.prev[n]] = n
         /\ \A n \in Node : Outside(n) => r.next[n] = n /\ r.prev[n] = n
         /\ r.next[t] = t /\ r.prev[t] = t
<1>1. /\ r.next = [next EXCEPT ![prev[t]] = next[t], ![t] = t]
      /\ r.prev = [prev EXCEPT ![next[t]] = prev[t], ![t] = t]
  BY DEF Removed
<1>2. prev[t] \in Node \ {t} /\ next[t] \in Node \ {t}
  BY DEF TypeOK, RingMirrored
<1>3. QED
  BY <1>1, <1>2 DEF TypeOK, RingMirrored, Outside

----------------------------------------------------------------------------
(* The task behind the one that has the CPU.                               *)
LEMMA BehindCurrent ==
  ASSUME IInv, current \in Task, next[current] # current
  PROVE  /\ next[current] \in Task \ {current}
         /\ next[next[current]] # next[current]
         /\ next[current] \notin timers
         /\ state[next[current]] = "RUNNING"
         /\ pc[next[current]] = "swap"
<1>1. next[current] \in Task \ {current} /\ next[next[current]] # next[current]
  BY TasksAssumption DEF IInv, TypeOK, RingMirrored, OutsideLoops, Outside, Node
<1>2. next[current] \notin timers
  BY <1>1 DEF IInv, OutsideLoops, Outside
<1>3. QED
  BY <1>1, <1>2, TasksAssumption DEF IInv, WaitersSwapped, Anchor, OutsideLoops, Outside

THEOREM InitIInv == Init => IInv
<1>. SUFFICES ASSUME Init PROVE IInv
  OBVIOUS
<1>. USE TasksAssumption DEF Init, Node
<1>1. TypeOK
  BY DEF TypeOK, Place
<1>2. RingMirrored /\ OutsideLoops /\ WaitersSwapped
  BY DEF RingMirrored, OutsideLoops, WaitersSwapped, Outside, Anchor
<1>3. AnchorRuns /\ MaskingSound /\ CriticalDepthKept
  BY DEF AnchorRuns, MaskingSound, CriticalDepthKept, Anchor
<1>4. QED
  BY <1>1, <1>2, <1>3 DEF IInv

LEMMA YieldIInv == ASSUME IInv, NEW t \in Task, Yield(t) PROVE IInv'
<1>. DEFINE n == next[t]
<1>1. /\ t = current /\ pc[t] = "user" /\ current' = n
      /\ nest' = [nest EXCEPT ![t] = @ + 1, ![n] = @ - 1]
      /\ irqOn' = (nest[n] = 1)
      /\ pc' = [pc EXCEPT ![t] = "swap", ![n] = "user"]
      /\ UNCHANGED <<next, prev, state, backup, timers, held>>
  BY DEF Yield, Swap, Running, ring
<1>2. /\ n \in Task \ {t} /\ next[n] # n
      /\ n \notin timers /\ state[n] = "RUNNING" /\ pc[n] = "swap"
  BY <1>1, BehindCurrent DEF Yield, Running, Alone
<1>3. nest[n] = held[n] + 1
  BY <1>1, <1>2, TasksAssumption DEF IInv, CriticalDepthKept, TypeOK
<1>4. TypeOK'
  BY <1>1, <1>2, <1>3 DEF IInv, TypeOK, Node, Place
<1>5. RingMirrored' /\ OutsideLoops'
  BY <1>1, <1>2, TasksAssumption DEF IInv, RingMirrored, OutsideLoops, Outside, Anchor
<1>6. WaitersSwapped'
  BY <1>1, <1>2, TasksAssumption
     DEF IInv, TypeOK, WaitersSwapped, OutsideLoops, AnchorRuns, Anchor, Outside
<1>7. AnchorRuns'
  BY <1>1, <1>2, TasksAssumption DEF IInv, TypeOK, AnchorRuns, Anchor
<1>8. MaskingSound'
  <2>1. current' \in Task /\ (nest'[current'] = 0 <=> nest[n] = 1)
    BY <1>1, <1>2 DEF IInv, TypeOK, Node
  <2>2. QED
    BY <1>1, <2>1 DEF MaskingSound
<1>9. CriticalDepthKept'
  BY <1>1, <1>2, <1>3, TasksAssumption DEF IInv, TypeOK, CriticalDepthKept, Node
<1>10. QED
  BY <1>4, <1>5, <1>6, <1>7, <1>8, <1>9 DEF IInv

(* The swap of task_sleep and task_stop: t leaves the ring, the task behind *)
(* it gets the CPU.                                                         *)
LEMMA LeaveRing ==
  ASSUME IInv, NEW t \in Task, Running(t), ~Alone(t), SetRing(Removed(t)),
         NEW n, n = next[t]
  PROVE  /\ n \in Task \ {t} /\ n \notin timers /\ state[n] = "RUNNING" /\ pc[n] = "swap"
         /\ nest[n] = held[n] + 1
         /\ next' \in [Node -> Node] /\ prev' \in [Node -> Node]
         /\ RingMirrored'
         /\ \A m \in Node : Outside(m) => Outside(m)'
         /\ Outside(t)'
<1>1. t = current /\ next[t] # t /\ t \in Node
  BY DEF Running, Alone, Node
<1>2. n \in Task \ {t} /\ n \notin timers /\ state[n] = "RUNNING" /\ pc[n] = "swap"
  BY <1>1, BehindCurrent
<1>3. nest[n] = held[n] + 1
  BY <1>1, <1>2, TasksAssumption DEF IInv, CriticalDepthKept, TypeOK
<1>4. TypeOK /\ RingMirrored
  BY DEF IInv
<1>5. next' = Removed(t).next /\ prev' = Removed(t).prev
  BY DEF SetRing
<1>6. QED
  BY <1>1, <1>2, <1>3, <1>4, <1>5, RemoveKeepsRing DEF RingMirrored, Outside

LEMMA SleepIInv == ASSUME IInv, NEW t \in Task, Sleep(t) PROVE IInv'
<1>. DEFINE n == next[t]
<1>1. /\ t = current /\ pc[t] = "user" /\ current' = n
      /\ nest' = [nest EXCEPT ![t] = @ + 1, ![n] = @ - 1]
      /\ irqOn' = (nest[n] = 1)
      /\ pc' = [pc EXCEPT ![t] = "swap", ![n] = "user"]
      /\ timers' = timers \cup {t}
      /\ UNCHANGED <<state, backup, held>>
  BY DEF Sleep, Swap, Running
<1>2. /\ n \in Task \ {t} /\ n \notin timers /\ state[n] = "RUNNING" /\ pc[n] = "swap"
      /\ nest[n] = held[n] + 1
      /\ next' \in [Node -> Node] /\ prev' \in [Node -> Node]
      /\ RingMirrored'
      /\ \A m \in Node : Outside(m) => Outside(m)'
      /\ Outside(t)'
  BY LeaveRing DEF Sleep
<1>3. next[n] # n /\ state[t] = "RUNNING"
  BY <1>1, BehindCurrent, TasksAssumption DEF Sleep, Alone, IInv, AnchorRuns, Anchor
<1>4. TypeOK'
  <2>1. n \in Node /\ nest[n] - 1 \in Nat /\ TypeOK
    BY <1>2 DEF IInv, TypeOK, Node
  <2>2. next' \in [Node -> Node] /\ prev' \in [Node -> Node]
    BY <1>2
  <2>3. /\ state' \in [Node -> {"STOPPED", "RUNNING"}] /\ nest' \in [Node -> Nat]
        /\ current' \in Node /\ backup' \in Task \cup {NULL}
    BY <1>1, <2>1 DEF TypeOK, Node
  <2>4. irqOn' \in BOOLEAN /\ timers' \subseteq Task
    BY <1>1, <2>1 DEF TypeOK
  <2>5. pc' \in [Task -> Place] /\ held' \in [Task -> Nat]
    BY <1>1, <2>1 DEF TypeOK, Place
  <2>6. QED
    BY <2>2, <2>3, <2>4, <2>5 DEF TypeOK
<1>5. OutsideLoops'
  BY <1>1, <1>2, <1>3, TasksAssumption DEF IInv, OutsideLoops, Anchor, Node
<1>6. WaitersSwapped'
  <2>. SUFFICES ASSUME NEW m \in Task, (m \in timers \/ (m # Anchor /\ next[m] # m))'
                PROVE  (state[m] = "RUNNING" /\ pc[m] = "swap")'
    BY DEF WaitersSwapped
  <2>1. CASE m = t
    BY <1>1, <1>2, <1>3, <2>1, TasksAssumption DEF IInv, TypeOK, Anchor, Outside, OutsideLoops
  <2>2. CASE m # t
    <3>1. m \in timers \/ next[m] # m
      BY <1>1, <1>2, <2>2 DEF IInv, TypeOK, RingMirrored, Outside, Node
    <3>2. m # n
      BY <1>1, <1>2, <2>2, TasksAssumption DEF Anchor
    <3>3. QED
      BY <1>1, <2>2, <3>1, <3>2, TasksAssumption DEF IInv, TypeOK, WaitersSwapped, Anchor
  <2>3. QED
    BY <2>1, <2>2
<1>7. AnchorRuns'
  BY <1>1, <1>2, TasksAssumption DEF IInv, TypeOK, AnchorRuns, Anchor
<1>8. MaskingSound'
  <2>1. current' \in Task /\ (nest'[current'] = 0 <=> nest[n] = 1)
    BY <1>1, <1>2 DEF IInv, TypeOK, Node
  <2>2. QED
    BY <1>1, <2>1 DEF MaskingSound
<1>9. CriticalDepthKept'
  BY <1>1, <1>2, TasksAssumption DEF IInv, TypeOK, CriticalDepthKept, Node
<1>10. QED
  BY <1>2, <1>4, <1>5, <1>6, <1>7, <1>8, <1>9 DEF IInv

LEMMA StopIInv == ASSUME IInv, NEW t \in Task, Stop(t) PROVE IInv'
<1>. DEFINE n == next[t]
<1>1. /\ t = current /\ pc[t] = "user" /\ current' = n
      /\ nest' = [nest EXCEPT ![t] = @ + 1, ![n] = @ - 1]
      /\ irqOn' = (nest[n] = 1)
      /\ pc' = [pc EXCEPT ![t] = "gone", ![n] = "user"]
      /\ state' = [state EXCEPT ![t] = "STOPPED"]
      /\ UNCHANGED <<timers, backup, held>>
  BY DEF Stop, Swap, Running
<1>2. /\ n \in Task \ {t} /\ n \notin timers /\ state[n] = "RUNNING" /\ pc[n] = "swap"
      /\ nest[n] = held[n] + 1
      /\ next' \in [Node -> Node] /\ prev' \in [Node -> Node]
      /\ RingMirrored'
      /\ \A m \in Node : Outside(m) => Outside(m)'
      /\ Outside(t)'
  BY LeaveRing DEF Stop
<1>3. next[n] # n /\ t \notin timers
  BY <1>1, BehindCurrent, TasksAssumption DEF Stop, Alone, IInv, OutsideLoops, Outside
<1>4. TypeOK'
  <2>1. n \in Node /\ nest[n] - 1 \in Nat /\ TypeOK
    BY <1>2 DEF IInv, TypeOK, Node
  <2>2. next' \in [Node -> Node] /\ prev' \in [Node -> Node]
    BY <1>2
  <2>3. /\ state' \in [Node -> {"STOPPED", "RUNNING"}] /\ nest' \in [Node -> Nat]
        /\ current' \in Node /\ backup' \in Task \cup {NULL}
    BY <1>1, <2>1 DEF TypeOK, Node
  <2>4. irqOn' \in BOOLEAN /\ timers' \subseteq Task
    BY <1>1, <2>1 DEF TypeOK
  <2>5. pc' \in [Task -> Place] /\ held' \in [Task -> Nat]
    BY <1>1, <2>1 DEF TypeOK, Place
  <2>6. QED
    BY <2>2, <2>3, <2>4, <2>5 DEF TypeOK
<1>5. OutsideLoops'
  BY <1>1, <1>2, <1>3, TasksAssumption DEF IInv, TypeOK, OutsideLoops, Anchor, Node
<1>6. WaitersSwapped'
  <2>. SUFFICES ASSUME NEW m \in Task, (m \in timers \/ (m # Anchor /\ next[m] # m))'
                PROVE  (state[m] = "RUNNING" /\ pc[m] = "swap")'
    BY DEF WaitersSwapped
  <2>1. CASE m = t
    BY <1>1, <1>2, <1>3, <2>1, TasksAssumption DEF IInv, TypeOK, Anchor, Outside, OutsideLoops
  <2>2. CASE m # t
    <3>1. m \in timers \/ next[m] # m
      BY <1>1, <1>2, <2>2 DEF IInv, TypeOK, RingMirrored, Outside, Node
    <3>2. m # n
      BY <1>1, <1>2, <2>2, TasksAssumption DEF Anchor
    <3>3. QED
      BY <1>1, <2>2, <3>1, <3>2, TasksAssumption DEF IInv, TypeOK, WaitersSwapped, Anchor
  <2>3. QED
    BY <2>1, <2>2
<1>7. AnchorRuns'
  BY <1>1, <1>2, TasksAssumption DEF IInv, TypeOK, AnchorRuns, Anchor, Node
<1>8. MaskingSound'
  <2>1. current' \in Task /\ (nest'[current'] = 0 <=> nest[n] = 1)
    BY <1>1, <1>2 DEF IInv, TypeOK, Node
  <2>2. QED
    BY <1>1, <2>1 DEF MaskingSound
<1>9. CriticalDepthKept'
  BY <1>1, <1>2, TasksAssumption DEF IInv, TypeOK, CriticalDepthKept, Node
<1>10. QED
  BY <1>2, <1>4, <1>5, <1>6, <1>7, <1>8, <1>9 DEF IInv

LEMMA StartIInv ==
  ASSUME IInv, NEW t \in Task, NEW n \in Task \ IrqTask, Start(t, n) PROVE IInv'
<1>1. /\ t = current /\ pc[t] = "user" /\ current' = n /\ n # t /\ state[n] = "STOPPED"
      /\ nest' = [nest EXCEPT ![t] = @ + 1, ![n] = 0]
      /\ irqOn' = TRUE
      /\ pc' = [pc EXCEPT ![t] = "swap", ![n] = "user"]
      /\ state' = [state EXCEPT ![n] = "RUNNING"]
      /\ held' = [held EXCEPT ![n] = 0]
      /\ UNCHANGED <<timers, backup>>
  BY DEF Start, Swap, Running, IInv, TypeOK, Node
<1>2. Outside(n) /\ n \notin timers /\ state[t] = "RUNNING" /\ Anchor = t
  BY <1>1, TasksAssumption DEF IInv, OutsideLoops, WaitersSwapped, AnchorRuns, Anchor
<1>3. TypeOK /\ RingMirrored /\ prev[t] \in Node /\ prev[t] # n /\ next[prev[t]] = t
  BY <1>1, <1>2 DEF IInv, TypeOK, RingMirrored, Outside, Node
<1>4. /\ next' = Linked(Ring, n, prev[t], next[prev[t]]).next
      /\ prev' = Linked(Ring, n, prev[t], next[prev[t]]).prev
  BY <1>3 DEF Start, SetRing, AddBefore
<1>5. TypeOK /\ RingMirrored /\ n \in Node /\ prev[t] \in Node /\ Outside(n) /\ n # prev[t]
  BY <1>2, <1>3 DEF Node
<1>links. /\ next' \in [Node -> Node] /\ prev' \in [Node -> Node]
          /\ RingMirrored'
          /\ \A m \in Node \ {n, prev[t]} : Outside(m) => Outside(m)'
          /\ \A m \in Node \ {n, prev[t]} : next'[m] = m <=> next[m] = m
          /\ next'[n] # n
  <2>. DEFINE b == prev[t]
               r == Linked(Ring, n, b, next[b])
  <2>1. /\ r.next \in [Node -> Node] /\ r.prev \in [Node -> Node]
        /\ \A m \in Node : r.prev[r.next[m]] = m /\ r.next[r.prev[m]] = m
        /\ \A m \in Node \ {n, b} : Outside(m) => r.next[m] = m /\ r.prev[m] = m
        /\ \A m \in Node \ {n, b} : r.next[m] = m <=> next[m] = m
        /\ r.next[n] # n
    BY <1>5, InsertKeepsRing, ZenonT(30)
  <2>2. next' = r.next /\ prev' = r.prev
    BY <1>4
  <2>3. QED
    BY <2>1, <2>2 DEF RingMirrored, Outside
<1>6. \A m \in Node : Outside(m) /\ m # n /\ m # t => m # prev[t]
  BY <1>3 DEF Outside, TypeOK
<1>7. TypeOK'
  <2>1. n \in Node /\ TypeOK
    BY DEF IInv, Node
  <2>2. next' \in [Node -> Node] /\ prev' \in [Node -> Node]
    BY <1>links
  <2>3. /\ state' \in [Node -> {"STOPPED", "RUNNING"}] /\ nest' \in [Node -> Nat]
        /\ current' \in Node /\ backup' \in Task \cup {NULL}
    BY <1>1, <2>1 DEF TypeOK, Node
  <2>4. irqOn' \in BOOLEAN /\ timers' \subseteq Task
    BY <1>1, <2>1 DEF TypeOK
  <2>5. pc' \in [Task -> Place] /\ held' \in [Task -> Nat]
    BY <1>1, <2>1 DEF TypeOK, Place
  <2>6. QED
    BY <2>2, <2>3, <2>4, <2>5 DEF TypeOK
<1>8. OutsideLoops'
  BY <1>1, <1>2, <1>links, <1>6, TasksAssumption DEF IInv, TypeOK, OutsideLoops, Anchor, Node
<1>9. WaitersSwapped'
  BY <1>1, <1>2, <1>3, <1>links, <1>6, TasksAssumption
     DEF IInv, TypeOK, WaitersSwapped, OutsideLoops, Anchor, Outside, Node
<1>10. AnchorRuns'
  BY <1>1, <1>2, TasksAssumption DEF IInv, TypeOK, AnchorRuns, Anchor, Node
<1>11. MaskingSound'
  <2>1. current' \in Task /\ nest'[current'] = 0
    BY <1>1 DEF IInv, TypeOK, Node
  <2>2. QED
    BY <1>1, <2>1 DEF MaskingSound
<1>12. CriticalDepthKept'
  BY <1>1, <1>2, TasksAssumption DEF IInv, TypeOK, CriticalDepthKept, Node
<1>13. QED
  BY <1>links, <1>7, <1>8, <1>9, <1>10, <1>11, <1>12 DEF IInv

(* Steps that leave the ring alone. *)
LEMMA LocalIInv ==
  ASSUME IInv, NEW t \in Task,
         EnterCritical(t) \/ LeaveCritical(t) \/ ReturnAlone(t)
  PROVE  IInv'
<1>1. /\ t = current /\ pc[t] = "user" /\ Anchor = t /\ Anchor' = t
      /\ UNCHANGED <<next, prev, state, current, backup, timers>>
  BY TasksAssumption DEF EnterCritical, LeaveCritical, ReturnAlone, Running, ring, Anchor
<1>2. /\ nest[t] = held[t] /\ nest[t] \in Nat /\ held[t] \in Nat
      /\ state[t] = "RUNNING" /\ t \in Node
  BY <1>1, TasksAssumption DEF IInv, CriticalDepthKept, TypeOK, AnchorRuns, Anchor, Node
<1>3. /\ \A m \in Node \ {t} : nest'[m] = nest[m]
      /\ \A m \in Task \ {t} : pc'[m] = pc[m] /\ held'[m] = held[m]
      /\ nest' \in [Node -> Nat] /\ pc' \in [Task -> Place] /\ held' \in [Task -> Nat]
      /\ irqOn' \in BOOLEAN
  <2>1. TypeOK
    BY DEF IInv
  <2>2. nest' \in [Node -> Nat] /\ \A m \in Node \ {t} : nest'[m] = nest[m]
    BY <1>2, <2>1 DEF EnterCritical, LeaveCritical, ReturnAlone, TypeOK
  <2>3. held' \in [Task -> Nat] /\ \A m \in Task \ {t} : held'[m] = held[m]
    BY <1>2, <2>1 DEF EnterCritical, LeaveCritical, ReturnAlone, TypeOK
  <2>4. pc' \in [Task -> Place] /\ \A m \in Task \ {t} : pc'[m] = pc[m]
    BY <2>1 DEF EnterCritical, LeaveCritical, ReturnAlone, TypeOK, Place
  <2>5. irqOn' \in BOOLEAN
    BY DEF EnterCritical, LeaveCritical, ReturnAlone
  <2>6. QED
    BY <2>2, <2>3, <2>4, <2>5
<1>4. /\ nest'[t] = held'[t] + (IF pc'[t] = "reboot" THEN 1 ELSE 0)
      /\ pc'[t] \in {"user", "reboot"}
  BY <1>1, <1>2 DEF EnterCritical, LeaveCritical, ReturnAlone, IInv, TypeOK, Node
<1>5. irqOn' <=> nest'[t] = 0
  <2>1. CASE EnterCritical(t)
    BY <1>2, <2>1 DEF EnterCritical, IInv, TypeOK
  <2>2. CASE LeaveCritical(t)
    <3>1. nest'[t] = nest[t] - 1 /\ (irqOn' <=> nest[t] = 1)
      BY <1>2, <2>2 DEF LeaveCritical, IInv, TypeOK
    <3>2. QED
      BY <1>2, <3>1
  <2>3. CASE ReturnAlone(t)
    BY <1>2, <2>3 DEF ReturnAlone, IInv, TypeOK
  <2>4. QED
    BY <2>1, <2>2, <2>3
<1>6. TypeOK'
  BY <1>1, <1>3 DEF IInv, TypeOK
<1>7. RingMirrored' /\ OutsideLoops'
  BY <1>1 DEF IInv, RingMirrored, OutsideLoops, Outside
<1>8. WaitersSwapped'
  BY <1>1, <1>3 DEF IInv, WaitersSwapped, OutsideLoops
<1>9. AnchorRuns'
  BY <1>1, <1>2, <1>4, TasksAssumption DEF IInv, AnchorRuns
<1>10. MaskingSound'
  BY <1>1, <1>5 DEF MaskingSound
<1>11. CriticalDepthKept'
  BY <1>1, <1>2, <1>3, <1>4, TasksAssumption DEF IInv, CriticalDepthKept, Node
<1>12. QED
  BY <1>6, <1>7, <1>8, <1>9, <1>10, <1>11 DEF IInv

LEMMA IdleIInv ==
  ASSUME IInv, YieldFoundNobody \/ WaitForInterrupt
  PROVE  IInv'
<1>1. /\ current = Boot /\ pc[Boot] \in {"user", "idle"} /\ Boot \in Task
      /\ pc' = [pc EXCEPT ![Boot] = IF pc[Boot] = "user" THEN "idle" ELSE "wfi"]
      /\ UNCHANGED <<next, prev, state, nest, current, backup, irqOn, timers, held>>
      /\ Anchor = Boot /\ Anchor' = Boot /\ held[Boot] = 0
  BY TasksAssumption
     DEF YieldFoundNobody, WaitForInterrupt, Running, ring, Anchor, IInv, AnchorRuns
<1>2. TypeOK'
  BY <1>1 DEF IInv, TypeOK, Place
<1>3. RingMirrored' /\ OutsideLoops' /\ MaskingSound'
  BY <1>1 DEF IInv, RingMirrored, OutsideLoops, Outside, MaskingSound
<1>4. WaitersSwapped' /\ AnchorRuns'
  BY <1>1, TasksAssumption DEF IInv, TypeOK, WaitersSwapped, OutsideLoops, AnchorRuns
<1>5. CriticalDepthKept'
  BY <1>1 DEF IInv, TypeOK, CriticalDepthKept
<1>6. QED
  BY <1>2, <1>3, <1>4, <1>5 DEF IInv

LEMMA IrqEnterIInv == ASSUME IInv, IrqEnter PROVE IInv'
<1>1. /\ current \in Task /\ nest[current] = 0 /\ Anchor = current /\ Anchor' = current
      /\ current' = IRQ /\ backup' = current /\ irqOn' = FALSE
      /\ nest' = [nest EXCEPT ![current] = @ + 1]
      /\ UNCHANGED <<next, prev, state, timers, pc, held>>
  BY TasksAssumption DEF IrqEnter, ring, Anchor, IInv, MaskingSound
<1>2. state[current] = "RUNNING" /\ pc[current] \in {"user", "idle", "wfi"} /\ held[current] = 0
  BY <1>1, TasksAssumption DEF IInv, TypeOK, AnchorRuns, CriticalDepthKept
<1>3. TypeOK'
  <2>1. nest' \in [Node -> Nat]
    BY <1>1 DEF IInv, TypeOK
  <2>2. QED
    BY <1>1, <2>1 DEF IInv, TypeOK, Node
<1>4. RingMirrored' /\ OutsideLoops' /\ WaitersSwapped'
  BY <1>1 DEF IInv, RingMirrored, OutsideLoops, WaitersSwapped, Outside
<1>5. AnchorRuns' /\ MaskingSound'
  BY <1>1, <1>2, TasksAssumption DEF IInv, AnchorRuns, MaskingSound
<1>6. CriticalDepthKept'
  BY <1>1, <1>2, TasksAssumption DEF IInv, TypeOK, CriticalDepthKept, Node
<1>7. QED
  BY <1>3, <1>4, <1>5, <1>6 DEF IInv

LEMMA IrqExitIInv == ASSUME IInv, IrqExit PROVE IInv'
<1>1. /\ backup \in Task /\ current = IRQ /\ Anchor = backup /\ Anchor' = backup
      /\ current' = backup /\ irqOn' = TRUE
      /\ nest' = [nest EXCEPT ![backup] = @ - 1]
      /\ pc' = [pc EXCEPT ![backup] = IF @ = "wfi" THEN "user" ELSE @]
      /\ UNCHANGED <<next, prev, state, backup, timers, held>>
  BY TasksAssumption DEF IrqExit, ring, Anchor, IInv, AnchorRuns
<1>2. /\ state[backup] = "RUNNING" /\ pc[backup] \in {"user", "idle", "wfi"}
      /\ held[backup] = 0 /\ nest[backup] = 1 /\ backup \in Node
  BY <1>1, TasksAssumption DEF IInv, TypeOK, AnchorRuns, CriticalDepthKept, Node
<1>3. TypeOK'
  <2>1. nest' \in [Node -> Nat] /\ pc' \in [Task -> Place]
    BY <1>1, <1>2 DEF IInv, TypeOK, Place
  <2>2. QED
    BY <1>1, <2>1 DEF IInv, TypeOK, Node
<1>4. RingMirrored' /\ OutsideLoops'
  BY <1>1 DEF IInv, RingMirrored, OutsideLoops, Outside
<1>5. WaitersSwapped'
  BY <1>1, <1>2 DEF IInv, TypeOK, OutsideLoops, WaitersSwapped
<1>6. AnchorRuns' /\ MaskingSound'
  BY <1>1, <1>2, TasksAssumption DEF IInv, TypeOK, AnchorRuns, MaskingSound, Node
<1>7. CriticalDepthKept'
  BY <1>1, <1>2, TasksAssumption DEF IInv, TypeOK, CriticalDepthKept, Node
<1>8. QED
  BY <1>3, <1>4, <1>5, <1>6, <1>7 DEF IInv

(* What an insertion into the ring of the interrupted task preserves, for   *)
(* a task n that was outside it.                                            *)
LEMMA JoinRing ==
  ASSUME IInv, current = IRQ, NEW n \in Task, Outside(n), n # backup,
         NEW b \in {backup, prev[backup]}, SetRing(Linked(Ring, n, b, next[b]))
  PROVE  /\ next' \in [Node -> Node] /\ prev' \in [Node -> Node]
         /\ RingMirrored'
         /\ \A m \in Node : Outside(m) /\ m # n /\ m # backup => Outside(m)'
         /\ \A m \in Node : next'[m] # m /\ m # n /\ m # backup => next[m] # m
<1>. DEFINE r == Linked(Ring, n, b, next[b])
<1>1. TypeOK /\ RingMirrored /\ backup \in Node
  BY DEF IInv, AnchorRuns, Anchor, Node
<1>2. TypeOK /\ RingMirrored /\ n \in Node /\ b \in Node /\ Outside(n) /\ n # b
  BY <1>1 DEF TypeOK, RingMirrored, Outside, Node
<1>3. /\ r.next \in [Node -> Node] /\ r.prev \in [Node -> Node]
      /\ \A m \in Node : r.prev[r.next[m]] = m /\ r.next[r.prev[m]] = m
      /\ \A m \in Node \ {n, b} : Outside(m) => r.next[m] = m /\ r.prev[m] = m
      /\ \A m \in Node \ {n, b} : r.next[m] = m <=> next[m] = m
      /\ r.next[n] # n
  BY <1>2, InsertKeepsRing, ZenonT(30)
<1>4. next' = r.next /\ prev' = r.prev
  BY DEF SetRing
<1>5. b # backup => next[b] # b
  BY <1>1 DEF TypeOK, RingMirrored
<1>6. /\ next' \in [Node -> Node] /\ prev' \in [Node -> Node]
      /\ RingMirrored'
  BY <1>3, <1>4 DEF RingMirrored
<1>7. \A m \in Node : Outside(m) /\ m # n /\ m # backup => Outside(m)'
  BY <1>3, <1>4, <1>5 DEF Outside
<1>8. \A m \in Node : next'[m] # m /\ m # n /\ m # backup => next[m] # m
  BY <1>3, <1>4, <1>5
<1>9. QED
  BY <1>6, <1>7, <1>8

LEMMA SleepEndsIInv == ASSUME IInv, NEW t \in Task, SleepEnds(t) PROVE IInv'
<1>1. /\ current = IRQ /\ current' = IRQ /\ t \in timers /\ timers' = timers \ {t}
      /\ UNCHANGED <<state, nest, current, backup, irqOn, pc, held>>
      /\ Anchor = backup /\ Anchor' = backup /\ backup \in Task
  BY DEF SleepEnds, Anchor, IInv, AnchorRuns
<1>2. Outside(t) /\ t # backup /\ state[t] = "RUNNING" /\ pc[t] = "swap"
  BY <1>1 DEF IInv, OutsideLoops, WaitersSwapped
<1>3. SetRing(Linked(Ring, t, prev[backup], next[prev[backup]]))
  BY <1>1 DEF SleepEnds, AddBefore, IInv, RingMirrored, Node
<1>4. /\ next' \in [Node -> Node] /\ prev' \in [Node -> Node]
      /\ RingMirrored'
      /\ \A m \in Node : Outside(m) /\ m # t /\ m # backup => Outside(m)'
      /\ \A m \in Node : next'[m] # m /\ m # t /\ m # backup => next[m] # m
  BY <1>1, <1>2, <1>3, JoinRing
<1>5. TypeOK'
  BY <1>1, <1>4 DEF IInv, TypeOK
<1>6. OutsideLoops'
  BY <1>1, <1>2, <1>4, TasksAssumption DEF IInv, OutsideLoops, Node
<1>7. WaitersSwapped'
  BY <1>1, <1>2, <1>4 DEF IInv, WaitersSwapped, Node
<1>8. AnchorRuns' /\ MaskingSound' /\ CriticalDepthKept'
  BY <1>1 DEF IInv, AnchorRuns, MaskingSound, CriticalDepthKept
<1>9. QED
  BY <1>4, <1>5, <1>6, <1>7, <1>8 DEF IInv

LEMMA IrqStartIInv == ASSUME IInv, NEW n \in Task, IrqStart(n) PROVE IInv'
<1>1. /\ current = IRQ /\ current' = IRQ /\ state[n] = "STOPPED"
      /\ state' = [state EXCEPT ![n] = "RUNNING"]
      /\ nest' = [nest EXCEPT ![n] = 1]
      /\ pc' = [pc EXCEPT ![n] = "swap"]
      /\ held' = [held EXCEPT ![n] = 0]
      /\ UNCHANGED <<current, backup, irqOn, timers>>
      /\ Anchor = backup /\ Anchor' = backup /\ backup \in Task
  BY DEF IrqStart, Anchor, IInv, AnchorRuns
<1>2. Outside(n) /\ n # backup
  BY <1>1 DEF IInv, OutsideLoops
<1>3. SetRing(Linked(Ring, n, backup, next[backup]))
  BY DEF IrqStart, AddAfter
<1>4. /\ next' \in [Node -> Node] /\ prev' \in [Node -> Node]
      /\ RingMirrored'
      /\ \A m \in Node : Outside(m) /\ m # n /\ m # backup => Outside(m)'
      /\ \A m \in Node : next'[m] # m /\ m # n /\ m # backup => next[m] # m
  BY <1>1, <1>2, <1>3, JoinRing
<1>5. TypeOK'
  <2>1. nest' \in [Node -> Nat] /\ state' \in [Node -> {"STOPPED", "RUNNING"}]
    BY <1>1 DEF IInv, TypeOK
  <2>2. pc' \in [Task -> Place] /\ held' \in [Task -> Nat]
    BY <1>1 DEF IInv, TypeOK, Place
  <2>3. QED
    BY <1>1, <1>4, <2>1, <2>2 DEF IInv, TypeOK
<1>6. OutsideLoops'
  <2>1. n \notin timers
    BY <1>1 DEF IInv, WaitersSwapped
  <2>2. QED
    BY <1>1, <1>2, <1>4, <2>1, TasksAssumption DEF IInv, TypeOK, OutsideLoops, Node
<1>7. WaitersSwapped'
  BY <1>1, <1>2, <1>4 DEF IInv, TypeOK, WaitersSwapped, Node
<1>8. AnchorRuns' /\ MaskingSound'
  BY <1>1, <1>2, TasksAssumption DEF IInv, TypeOK, AnchorRuns, MaskingSound, Node
<1>9. CriticalDepthKept'
  BY <1>1, <1>2 DEF IInv, TypeOK, CriticalDepthKept, Node
<1>10. QED
  BY <1>4, <1>5, <1>6, <1>7, <1>8, <1>9 DEF IInv

LEMMA RebootIInv == ASSUME Reboot PROVE IInv'
<1>. USE TasksAssumption DEF Reboot, Node
<1>1. TypeOK'
  BY DEF TypeOK, Place
<1>2. RingMirrored' /\ OutsideLoops' /\ WaitersSwapped'
  BY DEF RingMirrored, OutsideLoops, WaitersSwapped, Outside, Anchor
<1>3. AnchorRuns' /\ MaskingSound' /\ CriticalDepthKept'
  BY DEF AnchorRuns, MaskingSound, CriticalDepthKept, Anchor
<1>4. QED
  BY <1>1, <1>2, <1>3 DEF IInv

----------------------------------------------------------------------------
(* The invariant is inductive.                                             *)
THEOREM NextIInv == IInv /\ [Next]_vars => IInv'
<1>. SUFFICES ASSUME IInv, [Next]_vars PROVE IInv'
  OBVIOUS
<1>1. ASSUME NEW t \in Task, TaskStep(t) PROVE IInv'
  BY <1>1, LocalIInv, StartIInv, StopIInv, YieldIInv, SleepIInv DEF TaskStep
<1>2. CASE YieldFoundNobody \/ WaitForInterrupt
  BY <1>2, IdleIInv
<1>3. CASE Reboot
  BY <1>3, RebootIInv
<1>4. CASE IrqEnter
  BY <1>4, IrqEnterIInv
<1>5. CASE Handler
  BY <1>5, SleepEndsIInv, IrqStartIInv DEF Handler
<1>6. CASE IrqExit
  BY <1>6, IrqExitIInv
<1>7. CASE UNCHANGED vars
  BY <1>7 DEF vars, ring, IInv, TypeOK, RingMirrored, OutsideLoops, WaitersSwapped,
              AnchorRuns, MaskingSound, CriticalDepthKept, Outside, Anchor
<1>8. QED
  BY <1>1, <1>2, <1>3, <1>4, <1>5, <1>6, <1>7 DEF Next

(* Every reachable state satisfies it. *)
THEOREM SpecIInv == Spec => []IInv
<1>1. QED
  BY InitIInv, NextIInv, PTL DEF Spec

(* The variables of the scheduler keep their types: the nest counts never  *)
(* go below zero, so LeaveCriticalSection never wraps around.              *)
THEOREM SpecTypeOK == Spec => []TypeOK
<1>1. IInv => TypeOK
  BY DEF IInv
<1>2. QED
  BY <1>1, SpecIInv, PTL

(* next and prev mirror each other in every reachable state (tasks.c:38-84). *)
THEOREM SpecRingMirrored == Spec => []RingMirrored
<1>1. IInv => RingMirrored
  BY DEF IInv
<1>2. QED
  BY <1>1, SpecIInv, PTL

(* Interrupts are on exactly when the running task holds no critical       *)
(* section (asmhelpers.sx:82-116).                                         *)
THEOREM SpecMaskingSound == Spec => []MaskingSound
<1>1. IInv => MaskingSound
  BY DEF IInv
<1>2. QED
  BY <1>1, SpecIInv, PTL

(* A task comes back from every swap and interrupt with the critical       *)
(* sections it had (asmhelpers.sx:82-116, 395-437; entry.sx:242-247).      *)
THEOREM SpecCriticalDepthKept == Spec => []CriticalDepthKept
<1>1. IInv => CriticalDepthKept
  BY DEF IInv
<1>2. QED
  BY <1>1, SpecIInv, PTL

(* An interrupt goes back to the task it interrupted (entry.sx:356-372).   *)
THEOREM SpecInterruptTransparent == Spec => InterruptTransparent
<1>1. ASSUME IInv, [Next]_vars, current = IRQ, current' # IRQ PROVE IrqExit
  BY <1>1, TasksAssumption
     DEF Next, TaskStep, EnterCritical, LeaveCritical, Start, Stop, ReturnAlone, Yield, Sleep,
         Running, YieldFoundNobody, WaitForInterrupt, Reboot, IrqEnter, Handler, SleepEnds,
         IrqStart, vars
<1>2. ASSUME IInv, IrqExit, current = IRQ
      PROVE  current' = backup /\ irqOn' /\ nest'[backup] = 0 /\ held'[backup] = held[backup]
  BY <1>2, TasksAssumption
     DEF IrqExit, IInv, TypeOK, AnchorRuns, CriticalDepthKept, Anchor, Node
<1>3. IInv /\ [Next]_vars =>
        [(current = IRQ /\ current' # IRQ) =>
           /\ current' = backup
           /\ irqOn' /\ nest'[backup] = 0
           /\ held'[backup] = held[backup]]_vars
  BY <1>1, <1>2
<1>4. QED
  BY <1>3, SpecIInv, PTL DEF Spec, InterruptTransparent

----------------------------------------------------------------------------
(* Who is ahead of whom.                                                   *)

(* The tasks met on the way back from t, t and the last one included.      *)
Back(t) ==
  {n \in Node : \A C \in SUBSET Node :
     t \in C /\ (\A x \in C \ {Anchor} : prev[x] \in C) => n \in C}

LEMMA BackCloses ==
  ASSUME TypeOK, NEW t \in Task
  PROVE  /\ Back(t) \subseteq Node /\ t \in Back(t)
         /\ \A x \in Back(t) \ {Anchor} : prev[x] \in Back(t)
         /\ Ahead(t) = (Back(t) \cap Task) \ {t}
<1>1. Back(t) \subseteq Node /\ t \in Back(t)
  BY DEF Back, Node
<1>2. ASSUME NEW x \in Back(t) \ {Anchor} PROVE prev[x] \in Back(t)
  <2>1. x \in Node /\ prev[x] \in Node
    BY <1>1 DEF TypeOK
  <2>2. ASSUME NEW C \in SUBSET Node, t \in C, \A y \in C \ {Anchor} : prev[y] \in C
        PROVE  prev[x] \in C
    BY <1>2, <2>2 DEF Back
  <2>3. QED
    BY <2>1, <2>2 DEF Back
<1>3. Ahead(t) = (Back(t) \cap Task) \ {t}
  BY DEF Ahead, Back, Node
<1>4. QED
  BY <1>1, <1>2, <1>3

(* A descriptor outside the ring is not met on the way back.               *)
LEMMA OutsideNotBack ==
  ASSUME TypeOK, RingMirrored, NEW t \in Task, NEW s \in Node, Outside(s), s # t
  PROVE  s \notin Back(t)
<1>. DEFINE C == Back(t) \ {s}
<1>1. C \in SUBSET Node /\ t \in C
  BY BackCloses
<1>2. ASSUME NEW x \in C \ {Anchor} PROVE prev[x] \in C
  <2>1. x \in Node /\ x # s /\ prev[x] \in Back(t) /\ next[prev[x]] = x
    BY BackCloses DEF RingMirrored
  <2>2. QED
    BY <2>1 DEF Outside
<1>3. s \in Back(t) => s \in C
  BY <1>1, <1>2 DEF Back
<1>4. QED
  BY <1>3

(* Whatever holds t and is closed under the way back after a step holds    *)
(* everything that is ahead of t then.                                     *)
LEMMA AheadWithin ==
  ASSUME NEW t \in Task, NEW D \in SUBSET Node, t \in D,
         \A x \in D \ {Anchor'} : prev'[x] \in D
  PROVE  Ahead(t)' \subseteq (D \cap Task) \ {t}
BY DEF Ahead

Overtaken(t) ==  \* what NoOvertaking says of one task
  \/ t = Anchor'
  \/ Ahead(t)' \subseteq
       (Ahead(t) \ {x \in {Anchor} : GivesUpCPU}) \cup {n \in Task : state[n] = "STOPPED"}

(* The CPU and the way back are left alone. *)
LEMMA AheadSame ==
  ASSUME IInv, NEW t \in Task, Anchor' = Anchor, prev' = prev
  PROVE  Ahead(t)' \subseteq Ahead(t) /\ ~GivesUpCPU
<1>1. ~GivesUpCPU
  BY DEF GivesUpCPU
<1>2. Back(t) \in SUBSET Node /\ t \in Back(t)
      /\ (\A x \in Back(t) \ {Anchor'} : prev'[x] \in Back(t))
  BY BackCloses DEF IInv
<1>3. QED
  BY <1>1, <1>2, AheadWithin, BackCloses DEF IInv

(* task_yield, task_sleep and task_stop: the task that gives up the CPU is *)
(* nowhere on the way back any more.                                       *)
LEMMA AheadGivenUp ==
  ASSUME IInv, NEW t \in Task, Waiting(t), NEW a \in Task,
         Yield(a) \/ Sleep(a) \/ Stop(a)
  PROVE  Overtaken(t)
<1>. DEFINE D == Back(t) \ {a}
<1>1. a = current /\ a = Anchor /\ next[a] # a /\ next[a] \in Task /\ current' = next[a]
  BY BehindCurrent, TasksAssumption DEF Yield, Sleep, Stop, Swap, Running, Alone, Anchor
<1>2. Anchor' = next[a]
  BY <1>1, TasksAssumption DEF Anchor
<1>3. TypeOK /\ RingMirrored
  BY DEF IInv
<1>4. \A x \in Node \ {a, next[a]} : prev'[x] = prev[x] /\ prev[x] # a
  <2>1. prev' = prev \/ prev' = [prev EXCEPT ![next[a]] = prev[a], ![a] = a]
    BY DEF Yield, Sleep, Stop, SetRing, Removed, ring
  <2>2. \A x \in Node : prev[x] = a => x = next[a]
    BY <1>3 DEF RingMirrored, TypeOK
  <2>3. QED
    BY <1>3, <2>1, <2>2 DEF TypeOK
<1>5. D \in SUBSET Node /\ t \in D
  BY <1>1, <1>3, BackCloses DEF Waiting
<1>6. ASSUME NEW x \in D \ {Anchor'} PROVE prev'[x] \in D
  <2>1. x \in Node \ {a, next[a]} /\ x \in Back(t) \ {Anchor}
    BY <1>1, <1>2, <1>3, BackCloses
  <2>2. prev[x] \in Back(t)
    BY <1>3, <2>1, BackCloses
  <2>3. QED
    BY <1>4, <2>1, <2>2
<1>7. Ahead(t)' \subseteq (D \cap Task) \ {t}
  BY <1>5, <1>6, AheadWithin
<1>8. (D \cap Task) \ {t} \subseteq Ahead(t) \ {Anchor}
  BY <1>1, <1>3, BackCloses
<1>9. QED
  BY <1>7, <1>8 DEF Overtaken

(* task_start from a task: the new one, and its starter behind it. *)
LEMMA AheadStart ==
  ASSUME IInv, NEW t \in Task, Waiting(t), NEW a \in Task, NEW n \in Task, Start(a, n)
  PROVE  Overtaken(t)
<1>. DEFINE D == Back(t) \cup {n}
<1>1. /\ a = current /\ a = Anchor /\ n # a /\ state[n] = "STOPPED" /\ current' = n
      /\ prev' = [prev EXCEPT ![n] = prev[a], ![a] = n]
  BY TasksAssumption DEF Start, Swap, Running, Anchor, SetRing, AddBefore, Linked, Ring
<1>2. Anchor' = n /\ ~GivesUpCPU
  BY <1>1, TasksAssumption DEF Anchor, GivesUpCPU
<1>3. TypeOK /\ n \in Node
  BY DEF IInv, Node
<1>4. D \in SUBSET Node /\ t \in D
  BY <1>3, BackCloses
<1>5. ASSUME NEW x \in D \ {Anchor'} PROVE prev'[x] \in D
  <2>1. x \in Back(t) /\ x \in Node /\ x # n
    BY <1>2, <1>3, BackCloses
  <2>2. CASE x = a
    BY <1>1, <1>3, <2>1, <2>2 DEF TypeOK
  <2>3. CASE x # a
    <3>1. prev'[x] = prev[x]
      BY <1>1, <1>3, <2>1, <2>3 DEF TypeOK
    <3>2. QED
      BY <1>1, <1>3, <2>1, <2>3, <3>1, BackCloses
  <2>4. QED
    BY <2>2, <2>3
<1>6. Ahead(t)' \subseteq (D \cap Task) \ {t}
  BY <1>4, <1>5, AheadWithin
<1>7. QED
  BY <1>1, <1>2, <1>3, <1>6, BackCloses DEF Overtaken

(* task_start from a handler: the new task is next, so it is ahead of      *)
(* those of whom the task behind the interrupted one was ahead.            *)
LEMMA AheadIrqStart ==
  ASSUME IInv, NEW t \in Task, Waiting(t), NEW n \in Task, IrqStart(n)
  PROVE  Overtaken(t)
<1>. DEFINE D == IF next[backup] \in Back(t) THEN Back(t) \cup {n} ELSE Back(t)
<1>1. /\ Anchor = backup /\ Anchor' = backup /\ state[n] = "STOPPED"
      /\ prev' = [prev EXCEPT ![n] = backup, ![next[backup]] = n]
  BY DEF IrqStart, Anchor, SetRing, AddAfter, Linked, Ring
<1>2. TypeOK /\ RingMirrored /\ n \in Node /\ backup \in Task /\ Outside(n) /\ n # backup
  BY <1>1 DEF IInv, Node, AnchorRuns, OutsideLoops, IrqStart
<1>3. next[backup] \in Node /\ prev[next[backup]] = backup /\ prev[n] = n
      /\ next[backup] # n /\ n # t
  BY <1>1, <1>2 DEF TypeOK, RingMirrored, Node, Outside, Waiting
<1>4. D \in SUBSET Node /\ t \in D
  BY <1>2, BackCloses
<1>5. ASSUME NEW x \in D \ {Anchor'} PROVE prev'[x] \in D
  <2>1. CASE x = n /\ x \notin Back(t)
    <3>1. next[backup] \in Back(t)
      BY <1>5, <2>1
    <3>2. CASE next[backup] # backup
      <4>1. backup \in Back(t)
        BY <1>1, <1>2, <1>3, <3>1, <3>2, BackCloses
      <4>2. QED
        BY <1>1, <1>2, <1>3, <2>1, <4>1 DEF TypeOK
    <3>3. CASE next[backup] = backup
      BY <1>1, <1>2, <1>3, <2>1, <3>1, <3>3 DEF TypeOK
    <3>4. QED
      BY <3>2, <3>3
  <2>2. CASE x \in Back(t)
    <3>1. x \in Node /\ x # backup /\ prev[x] \in Back(t)
      BY <1>1, <1>2, <1>5, <2>2, BackCloses
    <3>2. CASE x = next[backup]
      BY <1>1, <1>2, <1>3, <2>2, <3>1, <3>2 DEF TypeOK
    <3>3. CASE x = n
      <4>1. n \notin Back(t)
        BY <1>2, <1>3, OutsideNotBack
      <4>2. QED
        BY <2>2, <3>3, <4>1
    <3>4. CASE x # next[backup] /\ x # n
      BY <1>1, <1>2, <3>1, <3>4 DEF TypeOK
    <3>5. QED
      BY <3>2, <3>3, <3>4
  <2>3. QED
    BY <1>5, <2>1, <2>2
<1>6. Ahead(t)' \subseteq (D \cap Task) \ {t} /\ ~GivesUpCPU
  BY <1>1, <1>4, <1>5, AheadWithin DEF GivesUpCPU
<1>7. QED
  BY <1>1, <1>2, <1>6, BackCloses DEF Overtaken

(* A sleep that ends: its task is behind all of them. *)
LEMMA AheadSleepEnds ==
  ASSUME IInv, NEW t \in Task, Waiting(t), NEW s \in Task, SleepEnds(s)
  PROVE  Overtaken(t)
<1>1. /\ Anchor = backup /\ Anchor' = backup /\ s \in timers
      /\ prev' = [prev EXCEPT ![s] = prev[backup], ![backup] = s]
  BY DEF SleepEnds, Anchor, SetRing, AddBefore, Linked, Ring
<1>2. TypeOK /\ RingMirrored /\ s \in Node /\ backup \in Task /\ Outside(s) /\ s # t
  BY <1>1 DEF IInv, Node, AnchorRuns, OutsideLoops, Waiting, Asleep
<1>3. s \notin Back(t)
  BY <1>2, OutsideNotBack
<1>4. Back(t) \in SUBSET Node /\ t \in Back(t)
  BY <1>2, BackCloses
<1>5. ASSUME NEW x \in Back(t) \ {Anchor'} PROVE prev'[x] \in Back(t)
  BY <1>1, <1>2, <1>3, <1>4, BackCloses DEF TypeOK
<1>6. Ahead(t)' \subseteq (Back(t) \cap Task) \ {t} /\ ~GivesUpCPU
  BY <1>1, <1>4, <1>5, AheadWithin DEF GivesUpCPU
<1>7. QED
  BY <1>2, <1>6, BackCloses DEF Overtaken

(* No step of a task or of an interrupt handler lets a task overtake one   *)
(* that waits in the run ring, whatever it wakes, starts or takes out      *)
(* (tasks.c:107-139, 141-295).                                             *)
THEOREM SpecNoOvertaking == Spec => NoOvertaking
<1>1. ASSUME IInv, [Next]_vars, ~Reboot, NEW t \in Task, Waiting(t)
      PROVE  Overtaken(t)
  <2>1. ASSUME Anchor' = Anchor, prev' = prev PROVE Overtaken(t)
    BY <1>1, <2>1, AheadSame DEF Overtaken
  <2>2. ASSUME NEW a \in Task, TaskStep(a) PROVE Overtaken(t)
    <3>1. CASE Yield(a) \/ Sleep(a) \/ Stop(a)
      BY <1>1, <3>1, AheadGivenUp
    <3>2. CASE \E n \in Task \ IrqTask : Start(a, n)
      BY <1>1, <3>2, AheadStart
    <3>3. CASE EnterCritical(a) \/ LeaveCritical(a) \/ ReturnAlone(a)
      BY <2>1, <3>3 DEF EnterCritical, LeaveCritical, ReturnAlone, Anchor, ring
    <3>4. QED
      BY <2>2, <3>1, <3>2, <3>3 DEF TaskStep
  <2>3. CASE Handler
    BY <1>1, <2>3, AheadIrqStart, AheadSleepEnds DEF Handler
  <2>4. CASE IrqEnter \/ IrqExit
    <3>1. prev' = prev
      BY <2>4 DEF IrqEnter, IrqExit, ring
    <3>2. Anchor' = Anchor
      BY <1>1, <2>4, TasksAssumption DEF IrqEnter, IrqExit, Anchor, IInv, TypeOK, MaskingSound, AnchorRuns
    <3>3. QED
      BY <2>1, <3>1, <3>2
  <2>5. CASE YieldFoundNobody \/ WaitForInterrupt \/ UNCHANGED vars
    BY <2>1, <2>5 DEF YieldFoundNobody, WaitForInterrupt, vars, Anchor, ring
  <2>6. QED
    BY <1>1, <2>2, <2>3, <2>4, <2>5 DEF Next
<1>2. IInv /\ [Next]_vars =>
        [~Reboot => \A t \in Task : Waiting(t) =>
           \/ t = Anchor'
           \/ Ahead(t)' \subseteq
                (Ahead(t) \ {x \in {Anchor} : GivesUpCPU})
                  \cup {n \in Task : state[n] = "STOPPED"}]_vars
  BY <1>1 DEF Overtaken
<1>3. QED
  BY <1>2, SpecIInv, PTL DEF Spec, NoOvertaking

----------------------------------------------------------------------------
(* The ring holds the runnable tasks and nothing else.                     *)

Queued == {t \in Task : state[t] = "RUNNING" /\ ~Asleep(t)}

Closed(C, succ) == \A x \in C : succ[x] \in C

(* Whoever follows the links from one queued task meets them all.  Stated  *)
(* without a starting point, because the task that has the CPU changes.    *)
RingConnected ==
  \A C \in SUBSET Node : C \cap Queued # {} /\ Closed(C, next) => Queued \subseteq C

(* The links lead from queued tasks to queued tasks: the others point to   *)
(* themselves.                                                             *)
LEMMA QueuedClosed ==
  ASSUME IInv
  PROVE  Anchor \in Queued /\ Closed(Queued, next)
<1>1. Anchor \in Queued
  BY DEF IInv, AnchorRuns, OutsideLoops, Queued, Asleep
<1>2. ASSUME NEW x \in Queued PROVE next[x] \in Queued
  <2>1. x \in Node /\ next[x] \in Node /\ prev[next[x]] = x
    BY DEF Queued, Node, IInv, TypeOK, RingMirrored
  <2>2. SUFFICES ASSUME next[x] \notin Queued PROVE FALSE
    OBVIOUS
  <2>3. Outside(next[x])
    <3>1. CASE next[x] = IRQ
      BY <3>1 DEF IInv, OutsideLoops
    <3>2. CASE next[x] \in Task
      <4>1. state[next[x]] = "STOPPED" \/ next[x] \in timers
        BY <2>1, <2>2, <3>2 DEF Queued, Asleep, IInv, TypeOK
      <4>2. QED
        BY <3>2, <4>1 DEF IInv, OutsideLoops
    <3>3. QED
      BY <2>1, <3>1, <3>2 DEF Node
  <2>4. next[x] = x
    BY <2>1, <2>3 DEF Outside
  <2>5. QED
    BY <2>2, <2>4
<1>3. QED
  BY <1>1, <1>2 DEF Closed

(* Taking a task out of the ring leaves the rest of it connected. *)
LEMMA RemoveKeepsConnected ==
  ASSUME TypeOK, RingMirrored, RingConnected, NEW t \in Queued, next[t] # t,
         SetRing(Removed(t)), Queued' = Queued \ {t}
  PROVE  RingConnected'
<1>. DEFINE p == prev[t]
<1>1. /\ t \in Node /\ p \in Node \ {t} /\ next[t] \in Node \ {t}
      /\ next[p] = t /\ next \in [Node -> Node]
      /\ \A x \in Node : next[x] = t => x = p
  BY DEF TypeOK, RingMirrored, Queued, Node
<1>2. next' = [next EXCEPT ![p] = next[t], ![t] = t]
  BY DEF SetRing, Removed
<1>3. /\ next'[p] = next[t]
      /\ \A x \in Node \ {p, t} : next'[x] = next[x]
  BY <1>1, <1>2
<1>4. ASSUME NEW C \in SUBSET Node, C \cap Queued' # {}, Closed(C, next')
      PROVE  Queued' \subseteq C
  <2>1. CASE p \in C
    <3>1. next[t] \in C
      BY <1>3, <1>4, <2>1 DEF Closed
    <3>2. ASSUME NEW x \in C \cup {t} PROVE next[x] \in C \cup {t}
      <4>1. CASE x = t
        BY <3>1, <4>1
      <4>2. CASE x = p
        BY <1>1, <4>2
      <4>3. CASE x \notin {p, t}
        <5>1. x \in C /\ x \in Node \ {p, t}
          BY <3>2, <4>3
        <5>2. next'[x] \in C
          BY <1>4, <5>1 DEF Closed
        <5>3. QED
          BY <1>3, <5>1, <5>2
      <4>4. QED
        BY <4>1, <4>2, <4>3
    <3>3. (C \cup {t}) \in SUBSET Node /\ (C \cup {t}) \cap Queued # {}
      BY <1>1
    <3>4. Queued \subseteq C \cup {t}
      BY <3>2, <3>3 DEF RingConnected, Closed
    <3>5. QED
      BY <3>4
  <2>2. CASE p \notin C
    <3>1. ASSUME NEW x \in C \ {t} PROVE next[x] \in C \ {t}
      <4>1. x \in Node \ {p, t} /\ x \in C
        BY <2>2
      <4>2. next'[x] \in C
        BY <1>4, <4>1 DEF Closed
      <4>3. next[x] # t
        BY <1>1, <4>1
      <4>4. QED
        BY <1>3, <4>1, <4>2, <4>3
    <3>2. (C \ {t}) \in SUBSET Node /\ (C \ {t}) \cap Queued # {}
      BY <1>4
    <3>3. Queued \subseteq C \ {t}
      BY <3>1, <3>2 DEF RingConnected, Closed
    <3>4. QED
      BY <3>3
  <2>3. QED
    BY <2>1, <2>2
<1>5. QED
  BY <1>4 DEF RingConnected

(* A task put into the ring behind a queued one is reached through it. *)
LEMMA InsertKeepsConnected ==
  ASSUME TypeOK, RingMirrored, RingConnected, Closed(Queued, next),
         NEW a \in Node, Outside(a), a \notin Queued, NEW b \in Queued,
         SetRing(Linked(Ring, a, b, next[b])), Queued' = Queued \cup {a}
  PROVE  RingConnected'
<1>1. /\ b \in Node /\ a # b /\ next \in [Node -> Node]
      /\ next[b] \in Queued /\ next[b] # a
      /\ \A x \in Node : next[x] = a => x = a
  BY DEF TypeOK, RingMirrored, Outside, Queued, Node, Closed
<1>2. next' = [next EXCEPT ![b] = a, ![a] = next[b]]
  BY DEF SetRing, Linked, Ring
<1>3. /\ next'[b] = a /\ next'[a] = next[b]
      /\ \A x \in Node \ {a, b} : next'[x] = next[x]
  BY <1>1, <1>2
<1>4. ASSUME NEW C \in SUBSET Node, C \cap Queued' # {}, Closed(C, next')
      PROVE  Queued' \subseteq C
  <2>1. a \in C => next[b] \in C
    BY <1>3, <1>4 DEF Closed
  <2>2. ASSUME NEW x \in C \ {a} PROVE next[x] \in C \ {a}
    <3>1. x \in Node /\ x \in C /\ x # a /\ next'[x] \in C
      BY <1>4 DEF Closed
    <3>2. CASE x = b
      BY <1>1, <1>3, <2>1, <3>1, <3>2
    <3>3. CASE x # b
      BY <1>1, <1>3, <3>1, <3>3
    <3>4. QED
      BY <3>2, <3>3
  <2>3. (C \ {a}) \in SUBSET Node /\ (C \ {a}) \cap Queued # {}
    BY <1>1, <1>4, <2>1
  <2>4. Queued \subseteq C \ {a}
    BY <2>2, <2>3 DEF RingConnected, Closed
  <2>5. a \in C
    BY <1>3, <1>4, <2>4 DEF Closed
  <2>6. QED
    BY <2>4, <2>5
<1>5. QED
  BY <1>4 DEF RingConnected


(* The link back from a queued task leads to a queued task, too. *)
LEMMA QueuedBack ==
  ASSUME IInv, NEW x \in Queued
  PROVE  prev[x] \in Queued /\ next[prev[x]] = x
<1>1. x \in Node /\ prev[x] \in Node /\ next[prev[x]] = x
  BY DEF Queued, Node, IInv, TypeOK, RingMirrored
<1>2. SUFFICES ASSUME prev[x] \notin Queued PROVE FALSE
  BY <1>1
<1>3. Outside(prev[x])
  <2>1. CASE prev[x] = IRQ
    BY <2>1 DEF IInv, OutsideLoops
  <2>2. CASE prev[x] \in Task
    <3>1. state[prev[x]] = "STOPPED" \/ prev[x] \in timers
      BY <1>1, <1>2, <2>2 DEF Queued, Asleep, IInv, TypeOK
    <3>2. QED
      BY <2>2, <3>1 DEF IInv, OutsideLoops
  <2>3. QED
    BY <1>1, <2>1, <2>2 DEF Node
<1>4. QED
  BY <1>1, <1>2, <1>3 DEF Outside

LEMMA InitConnected == Init => RingConnected
<1>. SUFFICES ASSUME Init PROVE RingConnected
  OBVIOUS
<1>1. Queued = {Boot}
  BY TasksAssumption DEF Init, Queued, Node, Asleep
<1>2. QED
  BY <1>1 DEF RingConnected

LEMMA RebootConnected == Reboot => RingConnected'
<1>. SUFFICES ASSUME Reboot PROVE RingConnected'
  OBVIOUS
<1>1. Queued' = {Boot}
  BY TasksAssumption DEF Reboot, Queued, Node, Asleep
<1>2. QED
  BY <1>1 DEF RingConnected

(* task_sleep and task_stop take the running task out. *)
LEMMA LeaveConnected ==
  ASSUME IInv, RingConnected, NEW t \in Task, Sleep(t) \/ Stop(t)
  PROVE  RingConnected'
<1>1. TypeOK /\ RingMirrored /\ next[t] # t /\ SetRing(Removed(t))
  BY DEF IInv, Sleep, Stop, Alone
<1>2. t \in Queued
  <2>1. t = Anchor
    BY TasksAssumption DEF Sleep, Stop, Running, Anchor
  <2>2. QED
    BY <2>1, QueuedClosed
<1>3. Queued' = Queued \ {t}
  <2>1. CASE Sleep(t)
    BY <2>1 DEF Sleep, Queued, Asleep
  <2>2. CASE Stop(t)
    BY <2>2, <1>1 DEF Stop, Queued, Asleep, TypeOK, Node
  <2>3. QED
    BY <2>1, <2>2
<1>4. QED
  BY <1>1, <1>2, <1>3, RemoveKeepsConnected

(* task_start from a task puts the new one in front of its starter. *)
LEMMA StartConnected ==
  ASSUME IInv, RingConnected, NEW t \in Task, NEW n \in Task, Start(t, n)
  PROVE  RingConnected'
<1>1. TypeOK /\ RingMirrored /\ Closed(Queued, next) /\ n \in Node
  BY QueuedClosed DEF IInv, Node
<1>2. t \in Queued
  <2>1. t = Anchor
    BY TasksAssumption DEF Start, Running, Anchor
  <2>2. QED
    BY <2>1, QueuedClosed
<1>3. prev[t] \in Queued /\ next[prev[t]] = t
  BY <1>2, QueuedBack
<1>4. Outside(n) /\ n \notin timers /\ n \notin Queued
  BY DEF Start, IInv, OutsideLoops, WaitersSwapped, Queued
<1>5. SetRing(Linked(Ring, n, prev[t], next[prev[t]]))
  BY <1>3 DEF Start, AddBefore
<1>6. Queued' = Queued \cup {n}
  BY <1>1, <1>4 DEF Start, Queued, Asleep, TypeOK, Node
<1>7. QED
  BY <1>1, <1>3, <1>4, <1>5, <1>6, InsertKeepsConnected

(* A sleep that ends puts its task in front of the interrupted one. *)
LEMMA WakeConnected ==
  ASSUME IInv, RingConnected, NEW t \in Task, SleepEnds(t)
  PROVE  RingConnected'
<1>1. TypeOK /\ RingMirrored /\ Closed(Queued, next) /\ t \in Node
  BY QueuedClosed DEF IInv, Node
<1>2. backup \in Queued
  BY QueuedClosed DEF SleepEnds, Anchor
<1>3. prev[backup] \in Queued /\ next[prev[backup]] = backup
  BY <1>2, QueuedBack
<1>4. Outside(t) /\ state[t] = "RUNNING" /\ t \notin Queued
  BY DEF SleepEnds, IInv, OutsideLoops, WaitersSwapped, Queued, Asleep
<1>5. SetRing(Linked(Ring, t, prev[backup], next[prev[backup]]))
  BY <1>3 DEF SleepEnds, AddBefore
<1>6. Queued' = Queued \cup {t}
  BY <1>4 DEF SleepEnds, Queued, Asleep
<1>7. QED
  BY <1>1, <1>3, <1>4, <1>5, <1>6, InsertKeepsConnected

(* task_start from a handler puts the new task behind the interrupted one. *)
LEMMA IrqStartConnected ==
  ASSUME IInv, RingConnected, NEW n \in Task, IrqStart(n)
  PROVE  RingConnected'
<1>1. TypeOK /\ RingMirrored /\ Closed(Queued, next) /\ n \in Node
  BY QueuedClosed DEF IInv, Node
<1>2. backup \in Queued
  BY QueuedClosed DEF IrqStart, Anchor
<1>3. Outside(n) /\ n \notin timers /\ n \notin Queued
  BY DEF IrqStart, IInv, OutsideLoops, WaitersSwapped, Queued
<1>4. SetRing(Linked(Ring, n, backup, next[backup]))
  BY DEF IrqStart, AddAfter
<1>5. Queued' = Queued \cup {n}
  BY <1>1, <1>3 DEF IrqStart, Queued, Asleep, TypeOK, Node
<1>6. QED
  BY <1>1, <1>2, <1>3, <1>4, <1>5, InsertKeepsConnected

LEMMA NextConnected == IInv /\ RingConnected /\ [Next]_vars => RingConnected'
<1>. SUFFICES ASSUME IInv, RingConnected, [Next]_vars PROVE RingConnected'
  OBVIOUS
<1>1. CASE UNCHANGED <<next, state, timers>>
  BY <1>1 DEF RingConnected, Queued, Closed, Asleep
<1>2. ASSUME NEW t \in Task, TaskStep(t) PROVE RingConnected'
  <2>1. CASE EnterCritical(t) \/ LeaveCritical(t) \/ ReturnAlone(t) \/ Yield(t)
    BY <1>1, <2>1 DEF EnterCritical, LeaveCritical, ReturnAlone, Yield, ring
  <2>2. CASE Sleep(t) \/ Stop(t)
    BY <2>2, LeaveConnected
  <2>3. CASE \E n \in Task \ IrqTask : Start(t, n)
    BY <2>3, StartConnected
  <2>4. QED
    BY <1>2, <2>1, <2>2, <2>3 DEF TaskStep
<1>3. CASE YieldFoundNobody \/ WaitForInterrupt \/ IrqEnter \/ IrqExit
  BY <1>1, <1>3 DEF YieldFoundNobody, WaitForInterrupt, IrqEnter, IrqExit, ring
<1>4. CASE Reboot
  BY <1>4, RebootConnected
<1>5. CASE Handler
  BY <1>5, WakeConnected, IrqStartConnected DEF Handler
<1>6. CASE UNCHANGED vars
  BY <1>1, <1>6 DEF vars, ring
<1>7. QED
  BY <1>2, <1>3, <1>4, <1>5, <1>6 DEF Next


----------------------------------------------------------------------------
(* The walk over the ring.                                                 *)

(* A set of numbers has a least one. *)
LEMMA LeastNumber ==
  ASSUME NEW S, S \subseteq Nat, S # {}
  PROVE  \E x \in S : \A y \in S : ~(y < x)
<1>1. PICK x \in S : \A y \in S : ~(<<y, x>> \in OpToRel(<, Nat))
  BY NatLessThanWellFounded, WFMin
<1>2. OpToRel(<, Nat) = {r \in Nat \X Nat : r[1] < r[2]}
  BY DEF OpToRel
<1>3. ASSUME NEW y \in S PROVE ~(y < x)
  <2>1. x \in Nat /\ y \in Nat /\ ~(<<y, x>> \in {r \in Nat \X Nat : r[1] < r[2]})
    BY <1>1, <1>2
  <2>2. QED
    BY <2>1
<1>4. QED
  BY <1>3

(* w is the walk of m links. *)
Walks(w, m) == w = [k \in 0..m |-> IF k = 0 THEN Anchor ELSE next[w[k - 1]]]

(* One link more. *)
LEMMA WalkOn ==
  ASSUME NEW m \in Nat, NEW w, Walks(w, m)
  PROVE  \E v : Walks(v, m + 1)
<1>. DEFINE v == [k \in 0..m + 1 |-> IF k = m + 1 THEN next[w[m]] ELSE w[k]]
<1>1. /\ \A k \in 0..m : v[k] = w[k]
      /\ \A k \in 0..m : w[k] = IF k = 0 THEN Anchor ELSE next[w[k - 1]]
      /\ v[m + 1] = next[w[m]]
  BY DEF Walks
<1>2. ASSUME NEW k \in 0..m + 1
      PROVE  v[k] = IF k = 0 THEN Anchor ELSE next[v[k - 1]]
  <2>1. CASE k = m + 1
    <3>1. k # 0 /\ k - 1 = m /\ m \in 0..m
      BY <2>1
    <3>2. QED
      BY <1>1, <2>1, <3>1
  <2>2. CASE k = 0
    <3>1. 0 \in 0..m
      OBVIOUS
    <3>2. QED
      BY <1>1, <2>2, <3>1
  <2>3. CASE k # 0 /\ k # m + 1
    <3>1. k \in 0..m /\ k - 1 \in 0..m
      BY <2>3
    <3>2. QED
      BY <1>1, <2>3, <3>1
  <2>4. QED
    BY <2>1, <2>2, <2>3
<1>. HIDE DEF v
<1>3. [k \in 0..m + 1 |-> v[k]] = [k \in 0..m + 1 |-> IF k = 0 THEN Anchor ELSE next[v[k - 1]]]
  BY <1>2
<1>4. v = [k \in 0..m + 1 |-> v[k]]
  BY DEF v
<1>5. Walks(v, m + 1)
  BY <1>3, <1>4 DEF Walks
<1>6. QED
  BY <1>5

(* There is a walk of every length: by the least counterexample. *)
LEMMA WalkExists ==
  ASSUME NEW n \in Nat
  PROVE  \E w : Walks(w, n)
<1>. DEFINE S == {m \in Nat : ~\E w : Walks(w, m)}
<1>1. SUFFICES ASSUME S # {} PROVE FALSE
  OBVIOUS
<1>2. PICK m \in S : \A y \in S : ~(y < m)
  BY <1>1, LeastNumber
<1>3. m \in Nat /\ ~\E w : Walks(w, m)
  OBVIOUS
<1>4. m # 0
  <2>1. Walks([k \in 0..0 |-> Anchor], 0)
    BY DEF Walks
  <2>2. QED
    BY <1>3, <2>1
<1>5. m - 1 \in Nat /\ m - 1 < m /\ (m - 1) + 1 = m
  BY <1>3, <1>4
<1>6. PICK w : Walks(w, m - 1)
  BY <1>2, <1>5
<1>7. \E v : Walks(v, (m - 1) + 1)
  BY <1>5, <1>6, WalkOn
<1>8. QED
  BY <1>3, <1>5, <1>7

LEMMA WalkValue == Walks(Walk, Cardinality(Task))
<1>1. Cardinality(Task) \in Nat
  BY TasksAssumption, FS_CardinalityType
<1>2. \E w : Walks(w, Cardinality(Task))
  BY <1>1, WalkExists
<1>3. QED
  BY <1>2 DEF Walk, Walks

(* The walk stays among the queued tasks. *)
LEMMA WalkQueued ==
  ASSUME IInv, NEW k \in 0..Cardinality(Task)
  PROVE  Walk[k] \in Queued
<1>. DEFINE S == {m \in 0..Cardinality(Task) : Walk[m] \notin Queued}
<1>1. SUFFICES ASSUME S # {} PROVE FALSE
  OBVIOUS
<1>2. Cardinality(Task) \in Nat
  BY TasksAssumption, FS_CardinalityType
<1>3. PICK m \in S : \A y \in S : ~(y < m)
  <2>1. S \subseteq Nat
    BY <1>2
  <2>. HIDE DEF S
  <2>2. QED
    BY <1>1, <2>1, LeastNumber
<1>4. m \in 0..Cardinality(Task) /\ Walk[m] \notin Queued
  OBVIOUS
<1>5. Walk[m] = IF m = 0 THEN Anchor ELSE next[Walk[m - 1]]
  BY <1>4, WalkValue DEF Walks
<1>6. m # 0
  BY <1>4, <1>5, QueuedClosed
<1>7. m - 1 \in 0..Cardinality(Task) /\ m - 1 < m
  BY <1>2, <1>4, <1>6
<1>8. Walk[m - 1] \in Queued
  BY <1>3, <1>7
<1>9. QED
  BY <1>4, <1>5, <1>6, <1>8, QueuedClosed DEF Closed

(* It comes back to a task it has met: there are more steps than tasks. *)
LEMMA WalkRepeats ==
  ASSUME IInv
  PROVE  \E i, j \in 0..Cardinality(Task) : i < j /\ Walk[i] = Walk[j]
<1>. DEFINE N == Cardinality(Task)
            f == [k \in 0..N |-> Walk[k]]
<1>1. N \in Nat /\ IsFiniteSet(Task)
  BY TasksAssumption, FS_CardinalityType
<1>2. IsFiniteSet(0..N) /\ Cardinality(0..N) = N + 1
  BY <1>1, FS_Interval
<1>3. f \in [0..N -> Task]
  BY WalkQueued DEF Queued
<1>4. N < Cardinality(0..N)
  BY <1>1, <1>2
<1>5. PICK x, y \in 0..N : x # y /\ f[x] = f[y]
  <2>1. Cardinality(Task) < Cardinality(0..N)
    BY <1>4
  <2>. HIDE DEF f, N
  <2>2. QED
    BY <1>1, <1>2, <1>3, <2>1, FS_PigeonHole
<1>6. Walk[x] = Walk[y] /\ Walk[y] = Walk[x]
  BY <1>5
<1>7. x < y \/ y < x
  BY <1>1, <1>5
<1>8. QED
  BY <1>6, <1>7

(* So what it has met by then is closed, and holds every queued task. *)
LEMMA WalkMeetsAll ==
  ASSUME IInv, RingConnected
  PROVE  Queued \subseteq InRing
<1>1. Cardinality(Task) \in Nat
  BY TasksAssumption, FS_CardinalityType
<1>2. PICK i, j \in 0..Cardinality(Task) : i < j /\ Walk[i] = Walk[j]
  BY WalkRepeats
<1>. DEFINE C == {Walk[k] : k \in 0..j - 1}
<1>3. C \in SUBSET Node
  <2>1. ASSUME NEW k \in 0..j - 1 PROVE Walk[k] \in Node
    <3>1. k \in 0..Cardinality(Task)
      BY <1>1
    <3>2. QED
      BY <3>1, WalkQueued DEF Queued, Node
  <2>2. QED
    BY <2>1
<1>4. ASSUME NEW k \in 0..j - 1 PROVE next[Walk[k]] \in C
  <2>1. k + 1 \in 0..Cardinality(Task) /\ k + 1 # 0 /\ (k + 1) - 1 = k
    BY <1>1, <1>2
  <2>2. Walk[k + 1] = next[Walk[k]]
    BY <2>1, WalkValue DEF Walks
  <2>3. CASE k + 1 = j
    <3>1. i \in 0..j - 1
      BY <1>1, <1>2
    <3>2. QED
      BY <1>2, <2>2, <2>3, <3>1
  <2>4. CASE k + 1 # j
    <3>1. k + 1 \in 0..j - 1
      BY <1>1, <2>4
    <3>2. QED
      BY <2>2, <3>1
  <2>5. QED
    BY <2>3, <2>4
<1>5. Closed(C, next)
  BY <1>4 DEF Closed
<1>6. C \cap Queued # {}
  <2>1. 0 \in 0..j - 1 /\ 0 \in 0..Cardinality(Task)
    BY <1>1, <1>2
  <2>2. Walk[0] \in C /\ Walk[0] \in Queued
    BY <2>1, WalkQueued
  <2>3. QED
    BY <2>2
<1>7. Queued \subseteq C
  BY <1>3, <1>5, <1>6 DEF RingConnected
<1>8. C \subseteq InRing
  <2>1. 0..j - 1 \subseteq 0..Cardinality(Task)
    BY <1>1
  <2>2. QED
    BY <2>1 DEF InRing
<1>9. QED
  BY <1>7, <1>8

(* The run ring holds every started task that is not asleep, and nothing   *)
(* else: no task is lost from it by a wake-up or a start that an interrupt *)
(* slips in (tasks.c:38-84, 141-295).                                      *)
THEOREM SpecRunQueueExact == Spec => []RunQueueExact
<1>1. IInv /\ RingConnected => RunQueueExact
  BY WalkQueued, WalkMeetsAll DEF RunQueueExact, InRing, Queued
<1>2. QED
  BY <1>1, InitConnected, NextConnected, SpecIInv, PTL DEF Spec

=============================================================================
