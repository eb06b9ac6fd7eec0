------------------------------- MODULE Tasks -------------------------------
(***************************************************************************)
(* The cooperative scheduler of openiBoot: tasks.c, the critical sections  *)
(* and SwapTask of arch-arm/asmhelpers.sx, and the interrupt entry of      *)
(* arch-arm/entry.sx.                                                      *)
(*                                                                         *)
(* One CPU runs one task at a time.  The runnable tasks form a circular    *)
(* doubly linked list; a task gives up the CPU only inside a scheduler     *)
(* call, and only an interrupt can come between two steps of a task.  Every *)
(* scheduler call holds a critical section (interrupts off), so a call is  *)
(* one action here, together with the code the CPU goes on with: the end   *)
(* of the call in which the next task had itself been switched out.        *)
(*                                                                         *)
(* Abstracted: registers, stacks and task names; the time at which a sleep *)
(* ends (any pending sleep may end in any timer interrupt; module Events   *)
(* has the deadlines); calls that the code refuses without changing state. *)
(***************************************************************************)
EXTENDS Integers, FiniteSets

CONSTANTS
  Task,       \* task descriptors of ordinary tasks
  Boot,       \* bootstrapTask, which ends up in tasks_run
  IRQ,        \* irqTask, on whose behalf interrupt handlers run
  IrqTask,    \* tasks that interrupt handlers start (acm_parse_task)
  NULL,       \* IRQBackupTask before the first interrupt
  MaxHeld     \* bound: critical sections a task holds around its calls

ASSUME TasksAssumption ==
  /\ IsFiniteSet(Task)
  /\ Boot \in Task
  /\ IRQ \notin Task
  /\ NULL \notin Task /\ NULL # IRQ
  /\ IrqTask \subseteq Task \ {Boot}
  /\ MaxHeld \in Nat

Node == Task \cup {IRQ}

VARIABLES
  next, prev,  \* taskList.next, taskList.prev of every descriptor
  state,       \* TaskDescriptor.state
  nest,        \* TaskDescriptor.criticalSectionNestCount
  current,     \* CurrentRunning
  backup,      \* IRQBackupTask
  irqOn,       \* the CPU takes interrupts (CPSR.I clear)
  timers,      \* tasks whose sleepEvent is on the event list
  pc,          \* where a task goes on when it has the CPU
  held         \* history: critical sections the task's own code holds

ring == <<next, prev>>
vars == <<next, prev, state, nest, current, backup, irqOn, timers, pc, held>>

(***************************************************************************)
(* "user" in the task's own code, between scheduler calls;                 *)
(* "swap" inside SwapTask, with LeaveCriticalSection still to do;          *)
(* "gone" inside the SwapTask of task_stop, or never started;              *)
(* "idle" Boot after a task_yield that found nobody, "wfi" in              *)
(* WaitForInterrupt; "reboot" past the end of StartTask.                   *)
(***************************************************************************)
Place == {"user", "swap", "gone", "idle", "wfi", "reboot"}

TypeOK ==
  /\ next \in [Node -> Node]
  /\ prev \in [Node -> Node]
  /\ state \in [Node -> {"STOPPED", "RUNNING"}]
  /\ nest \in [Node -> Nat]
  /\ current \in Node
  /\ backup \in Task \cup {NULL}
  /\ irqOn \in BOOLEAN
  /\ timers \subseteq Task
  /\ pc \in [Task -> Place]
  /\ held \in [Task -> Nat]

----------------------------------------------------------------------------
(* The run ring.  Every write goes through these two pointer updates.      *)

LinkedNoBack(r, a, b, c) ==  \* faulty: c's back link forgotten
  [next |-> [r.next EXCEPT ![b] = a, ![a] = c],
   prev |-> [r.prev EXCEPT ![a] = b]]

Linked(r, a, b, c) ==  \* a between b and its successor c
  [next |-> [r.next EXCEPT ![b] = a, ![a] = c],
   prev |-> [r.prev EXCEPT ![a] = b, ![c] = a]]

Ring == [next |-> next, prev |-> prev]

AddAfter(a, b)  == Linked(Ring, a, b, next[b])
AddBefore(a, b) == Linked(Ring, a, prev[b], b)

Removed(t) ==
  [next |-> [next EXCEPT ![prev[t]] = next[t], ![t] = t],
   prev |-> [prev EXCEPT ![next[t]] = prev[t], ![t] = t]]

SetRing(r) == next' = r.next /\ prev' = r.prev

----------------------------------------------------------------------------
(* tasks_setup, then the LeaveCriticalSection at the end of platform_init. *)

Init ==
  /\ next = [n \in Node |-> n]
  /\ prev = [n \in Node |-> n]
  /\ state = [n \in Node |-> IF n \in {Boot, IRQ} THEN "RUNNING" ELSE "STOPPED"]
  /\ nest = [n \in Node |-> IF n = Boot THEN 0 ELSE 1]
  /\ current = Boot
  /\ backup = NULL
  /\ irqOn = TRUE
  /\ timers = {}
  /\ pc = [t \in Task |-> IF t = Boot THEN "user" ELSE "gone"]
  /\ held = [t \in Task |-> 0]

Running(t) == t = current /\ t \in Task /\ pc[t] = "user"
Alone(t)   == next[t] = t

SwapNoEnter(t, n, depth, place) ==  \* faulty: no EnterCriticalSection before
  /\ current' = n
  /\ nest' = [depth EXCEPT ![n] = @ - 1]
  /\ irqOn' = (depth[n] = 1)
  /\ pc' = [pc EXCEPT ![t] = place, ![n] = "user"]

SwapIrqOn(t, n, depth, place) ==  \* faulty: interrupts on whatever n's depth
  /\ current' = n
  /\ nest' = [depth EXCEPT ![t] = @ + 1, ![n] = @ - 1]
  /\ irqOn' = TRUE
  /\ pc' = [pc EXCEPT ![t] = place, ![n] = "user"]

(* SwapTask(n) called by t inside one more critical section, and the       *)
(* LeaveCriticalSection with which n leaves the call it was swapped out of *)
(* (or task_run, when n is new).  depth is the nest count as t leaves it.  *)
Swap(t, n, depth, place) ==
  /\ current' = n
  /\ nest' = [depth EXCEPT ![t] = @ + 1, ![n] = @ - 1]
  /\ irqOn' = (depth[n] = 1)
  /\ pc' = [pc EXCEPT ![t] = place, ![n] = "user"]

EnterCritical(t) ==
  /\ Running(t) /\ held[t] < MaxHeld
  /\ irqOn' = FALSE
  /\ nest' = [nest EXCEPT ![t] = @ + 1]
  /\ held' = [held EXCEPT ![t] = @ + 1]
  /\ UNCHANGED <<ring, state, current, backup, timers, pc>>

LeaveCritical(t) ==
  /\ Running(t) /\ held[t] > 0
  /\ nest' = [nest EXCEPT ![t] = @ - 1]
  /\ irqOn' = (nest[t] = 1)
  /\ held' = [held EXCEPT ![t] = @ - 1]
  /\ UNCHANGED <<ring, state, current, backup, timers, pc>>

(* task_start from a task: the new task runs at once and the caller waits  *)
(* right behind it.                                                        *)
Start(t, n) ==
  /\ Running(t) /\ n # t
  /\ state[n] = "STOPPED"
  /\ state' = [state EXCEPT ![n] = "RUNNING"]
  /\ SetRing(AddBefore(n, t))
  /\ Swap(t, n, [nest EXCEPT ![n] = 1], "swap")
  /\ held' = [held EXCEPT ![n] = 0]
  /\ UNCHANGED <<backup, timers>>

(* task_stop.  Refused, with no effect, for the last task of the ring. *)
Stop(t) ==
  /\ Running(t) /\ t # Boot
  /\ ~Alone(t)
  /\ state' = [state EXCEPT ![t] = "STOPPED"]
  /\ SetRing(Removed(t))
  /\ Swap(t, next[t], nest, "gone")
  /\ UNCHANGED <<backup, timers, held>>

(* The task's function returns when task_stop cannot stop the task: it     *)
(* falls through task_run and StartTask into Reboot.                       *)
ReturnAlone(t) ==
  /\ Running(t) /\ t # Boot
  /\ Alone(t)
  /\ pc' = [pc EXCEPT ![t] = "reboot"]
  /\ nest' = [nest EXCEPT ![t] = @ + 1]
  /\ irqOn' = FALSE
  /\ UNCHANGED <<ring, state, current, backup, timers, held>>

Reboot ==
  /\ current \in Task /\ pc[current] = "reboot"
  /\ next' = [n \in Node |-> n]
  /\ prev' = [n \in Node |-> n]
  /\ state' = [n \in Node |-> IF n \in {Boot, IRQ} THEN "RUNNING" ELSE "STOPPED"]
  /\ nest' = [n \in Node |-> IF n = Boot THEN 0 ELSE 1]
  /\ current' = Boot
  /\ backup' = NULL
  /\ irqOn' = TRUE
  /\ timers' = {}
  /\ pc' = [t \in Task |-> IF t = Boot THEN "user" ELSE "gone"]
  /\ held' = [t \in Task |-> 0]

(* task_yield.  With nobody to yield to it returns without effect. *)
Yield(t) ==
  /\ Running(t) /\ ~Alone(t)
  /\ Swap(t, next[t], nest, "swap")
  /\ UNCHANGED <<ring, state, backup, timers, held>>

(* tasks_run: a task_yield that found nobody, then WaitForInterrupt with   *)
(* interrupts on in between.                                               *)
YieldFoundNobody ==
  /\ Running(Boot) /\ Alone(Boot) /\ held[Boot] = 0
  /\ pc' = [pc EXCEPT ![Boot] = "idle"]
  /\ UNCHANGED <<ring, state, nest, current, backup, irqOn, timers, held>>

WaitForInterrupt ==
  /\ current = Boot /\ pc[Boot] = "idle"
  /\ pc' = [pc EXCEPT ![Boot] = "wfi"]
  /\ UNCHANGED <<ring, state, nest, current, backup, irqOn, timers, held>>

(* task_sleep.  The last task of the ring busy-waits instead. *)
Sleep(t) ==
  /\ Running(t) /\ ~Alone(t)
  /\ SetRing(Removed(t))
  /\ timers' = timers \cup {t}
  /\ Swap(t, next[t], nest, "swap")
  /\ UNCHANGED <<state, backup, held>>

----------------------------------------------------------------------------
(* Interrupts.  Handlers run as irqTask with interrupts off.               *)

IrqEnter ==
  /\ irqOn
  /\ irqOn' = FALSE
  /\ nest' = [nest EXCEPT ![current] = @ + 1]
  /\ backup' = current
  /\ current' = IRQ
  /\ UNCHANGED <<ring, state, timers, pc, held>>

SleepEndsInFront(t) ==  \* faulty: task_add_after for task_add_before
  /\ current = IRQ /\ t \in timers
  /\ timers' = timers \ {t}
  /\ SetRing(AddAfter(t, backup))
  /\ UNCHANGED <<state, nest, current, backup, irqOn, pc, held>>

SleepEndsBesideIrq(t) ==  \* faulty: no look at IRQBackupTask
  /\ current = IRQ /\ t \in timers
  /\ timers' = timers \ {t}
  /\ SetRing(AddBefore(t, current))
  /\ UNCHANGED <<state, nest, current, backup, irqOn, pc, held>>

(* eventTimerHandler dispatches t's sleepEvent: task_wake_event. *)
SleepEnds(t) ==
  /\ current = IRQ /\ t \in timers
  /\ timers' = timers \ {t}
  /\ SetRing(AddBefore(t, backup))
  /\ UNCHANGED <<state, nest, current, backup, irqOn, pc, held>>

(* A handler calls task_start: the task runs right after the interrupted one. *)
IrqStart(n) ==
  /\ current = IRQ /\ n \in IrqTask
  /\ state[n] = "STOPPED"
  /\ state' = [state EXCEPT ![n] = "RUNNING"]
  /\ nest' = [nest EXCEPT ![n] = 1]
  /\ SetRing(AddAfter(n, backup))
  /\ pc' = [pc EXCEPT ![n] = "swap"]
  /\ held' = [held EXCEPT ![n] = 0]
  /\ UNCHANGED <<current, backup, irqOn, timers>>

IrqExitToFirst ==  \* faulty: goes on with the task queued behind
  /\ current = IRQ
  /\ current' = next[backup]
  /\ nest' = [nest EXCEPT ![backup] = @ - 1]
  /\ irqOn' = TRUE
  /\ pc' = [pc EXCEPT ![backup] = IF @ = "wfi" THEN "user" ELSE @]
  /\ UNCHANGED <<ring, state, backup, timers, held>>

IrqExit ==
  /\ current = IRQ
  /\ current' = backup
  /\ nest' = [nest EXCEPT ![backup] = @ - 1]
  /\ irqOn' = TRUE
  /\ pc' = [pc EXCEPT ![backup] = IF @ = "wfi" THEN "user" ELSE @]
  /\ UNCHANGED <<ring, state, backup, timers, held>>

----------------------------------------------------------------------------
TaskStep(t) ==
  \/ EnterCritical(t) \/ LeaveCritical(t)
  \/ \E n \in Task \ IrqTask : Start(t, n)
  \/ Stop(t) \/ ReturnAlone(t)
  \/ Yield(t) \/ Sleep(t)

Handler == \E t \in Task : SleepEnds(t) \/ IrqStart(t)

Next ==
  \/ \E t \in Task : TaskStep(t)
  \/ YieldFoundNobody \/ WaitForInterrupt
  \/ Reboot
  \/ IrqEnter \/ Handler \/ IrqExit

Spec == Init /\ [][Next]_vars

(***************************************************************************)
(* Fairness.  Tasks cooperate: one that keeps getting the CPU sooner or    *)
(* later leaves its critical section and yields (SF, because interrupts    *)
(* come in between).  Interrupts keep arriving, the timer of the S5L8900   *)
(* and S5L8720 being periodic, handlers return, and a sleep that every     *)
(* tick may end does end.                                                  *)
(***************************************************************************)
Fairness ==
  /\ \A t \in Task : SF_vars(Yield(t)) /\ SF_vars(LeaveCritical(t))
  /\ SF_vars(WaitForInterrupt)
  /\ WF_vars(Reboot)
  /\ SF_vars(IrqEnter) /\ WF_vars(IrqExit)
  /\ \A t \in Task : SF_vars(SleepEnds(t))

FairSpec == Spec /\ Fairness
----------------------------------------------------------------------------
(* Safety.                                                                 *)

(* The two link fields mirror each other in every descriptor, also in      *)
(* those outside the run ring, whatever interrupts a queue operation's     *)
(* caller (task_add_after, task_add_before, task_remove).                  *)
RingMirrored ==
  \A n \in Node : prev[next[n]] = n /\ next[prev[n]] = n

Anchor == IF current = IRQ THEN backup ELSE current  \* the task that has the CPU

(* The descriptors met on the way along the next links. *)
Walk[k \in 0..Cardinality(Task)] ==
  IF k = 0 THEN Anchor ELSE next[Walk[k - 1]]

InRing == {Walk[k] : k \in 0..Cardinality(Task)}

Asleep(t) == t \in timers

(* The ring that task_yield walks holds every started task that is not     *)
(* asleep, and nothing else: no task is lost from it by a wake-up or a     *)
(* start that an interrupt slips in, and no stopped task is scheduled.     *)
RunQueueExact ==
  InRing = {t \in Task : state[t] = "RUNNING" /\ ~Asleep(t)}

(* Interrupts are on exactly while the running task holds no critical      *)
(* section: a swap that happens inside a critical section of the one task  *)
(* neither leaves interrupts off in the other nor turns them on in an      *)
(* interrupt handler (EnterCriticalSection, LeaveCriticalSection).         *)
MaskingSound ==
  irqOn <=> (current \in Task /\ nest[current] = 0)

(* However often a task is switched out, put to sleep or interrupted, it   *)
(* owns as many nested critical sections as its own code has entered, plus *)
(* the one of the call it is switched out in and the one of the interrupt  *)
(* (criticalSectionNestCount is kept per task for this).                   *)
CriticalDepthKept ==
  \A t \in Task : state[t] = "RUNNING" =>
    nest[t] = held[t] + (IF pc[t] \in {"swap", "reboot"} THEN 1 ELSE 0)
                      + (IF current = IRQ /\ backup = t THEN 1 ELSE 0)

(* An interrupt is transparent: when the CPU leaves irqTask it goes back   *)
(* to the task that was interrupted, at the same place and depth.          *)
InterruptTransparent ==
  [][(current = IRQ /\ current' # IRQ) =>
       /\ current' = backup
       /\ irqOn' /\ nest'[backup] = 0
       /\ held'[backup] = held[backup]]_vars

Waiting(t) == state[t] = "RUNNING" /\ ~Asleep(t) /\ t # Anchor

(* The tasks that have the CPU before a waiting t has it: those met on the *)
(* way back from t to the task that has it now.                            *)
Ahead(t) ==
  {n \in Task \ {t} : \A C \in SUBSET Node :
     t \in C /\ (\A x \in C \ {Anchor} : prev[x] \in C) => n \in C}

GivesUpCPU == Anchor' # Anchor /\ state[Anchor'] # "STOPPED"

(* Nobody overtakes a waiting task: whatever is woken, started, put to     *)
(* sleep or stopped, by tasks or by interrupt handlers, no task gets ahead *)
(* of it that was not ahead before, but one started just now, and the one  *)
(* that gives up the CPU goes behind it (task_yield, task_sleep,           *)
(* task_wake_event, task_start).  When t gets the CPU, it therefore is     *)
(* the first of those waiting.                                             *)
NoOvertaking ==
  [][~Reboot => \A t \in Task : Waiting(t) =>
       \/ t = Anchor'
       \/ Ahead(t)' \subseteq
            (Ahead(t) \ {x \in {Anchor} : GivesUpCPU})
              \cup {n \in Task : state[n] = "STOPPED"}]_vars

----------------------------------------------------------------------------
(* Liveness, with periodic timer interrupts.                               *)

(* A task in the run ring gets the CPU, unless the machine reboots. *)
RunnableRuns ==
  \A t \in Task :
    (state[t] = "RUNNING" /\ ~Asleep(t)) ~> (current = t \/ state[t] = "STOPPED")

(* A sleeping task comes back to the CPU. *)
SleeperRuns ==
  \A t \in Task : Asleep(t) ~> (current = t \/ state[t] = "STOPPED")
=============================================================================
