----------------------------- MODULE Scheduler -----------------------------
(***************************************************************************)
(* The cooperative scheduler of os/kernel/scheduler.c, driven by the loop  *)
(* of mk_kernel_run.                                                       *)
(*                                                                         *)
(* One iteration of the loop (mk_scheduler_run_iteration) is split where a *)
(* task's entry function runs: Dispatch is everything up to the call,      *)
(* Finish everything after its return, and in between the entry may call   *)
(* mk_task_set_state.  The tick is the uint32 counter kernel->tick, kept   *)
(* modulo TickMod.                                                         *)
(*                                                                         *)
(* Definitions named Bad... are faulty variants of the definition that     *)
(* follows them; no specification uses them, and each property is known to *)
(* fail under one of them.                                                 *)
(*                                                                         *)
(* Telemetry that no decision reads (execution times, execution and        *)
(* overrun counts, names) is left out.  deadline_miss_count is kept as the *)
(* set of tasks whose count is not zero.                                   *)
(***************************************************************************)
EXTENDS Integers

CONSTANTS
    MaxTasks,       \* MK_MAX_TASKS, the number of task slots
    LowestPrio,     \* MK_TASK_PRIO_LOWEST, the largest priority number
    Priorities,     \* the priorities callers ask for
    Periods,        \* the periods, in ticks, callers ask for
    SettableStates, \* the states entries pass to mk_task_set_state
    TickMod         \* 2^32: the tick counter wraps here

ASSUME SchedulerAssumption ==
    /\ MaxTasks \in Nat \ {0}
    /\ LowestPrio \in Nat
    /\ Priorities \subseteq Nat
    /\ TickMod \in Nat \ {0}
    /\ Periods \subseteq 0 .. (TickMod - 1)

Tasks == 0 .. (MaxTasks - 1)
NoTask == MaxTasks
TaskStates == {"UNUSED", "READY", "RUNNING", "BLOCKED", "SLEEPING",
               "TERMINATED", "FAULT"}

ASSUME SettableAssumption == SettableStates \subseteq TaskStates

VARIABLES
    tick,     \* kernel->tick
    task,     \* kernel->tasks: state, priority, period, next run, entry # NULL
    cursor,   \* s_rr_cursor
    running,  \* the task whose entry is executing, or NoTask
    started,  \* mk_kernel_run has been called
    late,     \* the tasks with deadline_miss_count > 0
    wrapped   \* history: some next_run_tick has been computed past 2^32
vars == <<tick, task, cursor, running, started, late, wrapped>>

Ticks == 0 .. (TickMod - 1)

(* The fields of mk_tcb_t that decide what runs when.                      *)
Tcb == [state : TaskStates, prio : 0 .. LowestPrio, period : Periods \cup {0},
        next : Ticks, entry : BOOLEAN]

TypeOK ==
    /\ tick \in Ticks
    /\ task \in [Tasks -> Tcb]
    /\ cursor \in Tasks
    /\ running \in Tasks \cup {NoTask}
    /\ started \in BOOLEAN
    /\ late \subseteq Tasks
    /\ wrapped \in BOOLEAN
-----------------------------------------------------------------------------
(* mk_scheduler_init: every slot unused, at the lowest priority.           *)
Init ==
    /\ tick = 0
    /\ task = [t \in Tasks |-> [state |-> "UNUSED", prio |-> LowestPrio,
                                period |-> 0, next |-> 0, entry |-> FALSE]]
    /\ cursor = 0
    /\ running = NoTask
    /\ started = FALSE
    /\ late = {}
    /\ wrapped = FALSE

BadClamp(p) == p  \* the range check forgotten

Clamp(p) == IF p > LowestPrio THEN LowestPrio ELSE p

(* mk_task_register, called by app_main before the kernel runs.            *)
Register(t, p, d) ==
    /\ ~started
    /\ task' = [task EXCEPT ![t] =
                  [state |-> "READY", prio |-> Clamp(p), period |-> d,
                   next |-> tick, entry |-> TRUE]]
    /\ late' = late \ {t}
    /\ UNCHANGED <<tick, cursor, running, started, wrapped>>

(* mk_kernel_run enters its loop.                                          *)
Start ==
    /\ ~started
    /\ started' = TRUE
    /\ UNCHANGED <<tick, task, cursor, running, late, wrapped>>
-----------------------------------------------------------------------------
(* mk_scheduler_select_next: of the ready tasks that are due, the best     *)
(* priority; among those, the first slot at or after the cursor.           *)
Eligible(t) == task[t].state = "READY" /\ tick >= task[t].next

BadBest(t) == Eligible(t)  \* round robin over all priorities

Best(t) ==
    /\ Eligible(t)
    /\ \A u \in Tasks : Eligible(u) => task[t].prio <= task[u].prio

Distance(t) == IF t >= cursor THEN t - cursor ELSE t - cursor + MaxTasks

Selected(t) ==
    /\ Best(t)
    /\ \A u \in Tasks : Best(u) => Distance(t) <= Distance(u)

BadAfter(t) == t  \* the cursor stays on the slot it chose

After(t) == IF t = MaxTasks - 1 THEN 0 ELSE t + 1

(* uint32 addition: a sum of two values wraps around at most once.         *)
Wrap(x) == IF x < TickMod THEN x ELSE x - TickMod

(* mk_scheduler_tick: advance the tick, wake the sleepers that are due.    *)
NextTick == Wrap(tick + 1)

BadWoken(k, now) ==  \* wakes one tick late
    IF k.state = "SLEEPING" /\ now > k.next
    THEN [k EXCEPT !.state = "READY"]
    ELSE k

Woken(k, now) ==
    IF k.state = "SLEEPING" /\ now >= k.next
    THEN [k EXCEPT !.state = "READY"]
    ELSE k

Advance ==
    /\ tick' = NextTick
    /\ task' = [t \in Tasks |-> Woken(task[t], NextTick)]

(* As docs/SCHEDULER.md draws it: every round advances the tick first.     *)
BadDispatch(t) ==
    /\ started /\ running = NoTask
    /\ Selected(t)
    /\ task[t].entry
    /\ cursor' = After(t)
    /\ tick' = NextTick
    /\ late' = IF NextTick > task[t].next THEN late \cup {t} ELSE late
    /\ task' = [u \in Tasks |-> IF u = t THEN [task[t] EXCEPT !.state = "RUNNING"]
                                        ELSE Woken(task[u], NextTick)]
    /\ running' = t
    /\ UNCHANGED <<started, wrapped>>

(* The first half of an iteration: select, count a missed deadline, mark   *)
(* the task running and call its entry.                                    *)
Dispatch(t) ==
    /\ started /\ running = NoTask
    /\ Selected(t)
    /\ task[t].entry
    /\ cursor' = After(t)
    /\ late' = IF tick > task[t].next THEN late \cup {t} ELSE late
    /\ task' = [task EXCEPT ![t].state = "RUNNING"]
    /\ running' = t
    /\ UNCHANGED <<tick, started, wrapped>>

(* What the second half does to the TCB of a task that is still RUNNING.   *)
BadRescheduled(k) ==  \* the state is left RUNNING
    [k EXCEPT !.next = Wrap(tick + k.period)]

Rescheduled(k) ==
    IF k.period > 0
    THEN [k EXCEPT !.next = Wrap(tick + k.period), !.state = "SLEEPING"]
    ELSE [k EXCEPT !.next = tick, !.state = "READY"]

(* Without the test for a state changed by the entry itself.               *)
BadFinish(t) ==
    /\ running = t
    /\ running' = NoTask
    /\ task' = [task EXCEPT ![t] = Rescheduled(@)]
    /\ wrapped' = (wrapped \/ tick + task[t].period >= TickMod)
    /\ UNCHANGED <<tick, cursor, started, late>>

(* The second half: the entry has returned.  A task that changed its own   *)
(* state meanwhile is left as it is.                                       *)
Finish(t) ==
    /\ running = t
    /\ running' = NoTask
    /\ task' = IF task[t].state = "RUNNING"
               THEN [task EXCEPT ![t] = Rescheduled(@)]
               ELSE task
    /\ wrapped' = (wrapped \/ (task[t].state = "RUNNING"
                               /\ tick + task[t].period >= TickMod))
    /\ UNCHANGED <<tick, cursor, started, late>>

(* mk_task_set_state, called by the entry that is executing.  The state is *)
(* stored unchecked, for any slot.                                         *)
SetState(t, s) ==
    /\ running # NoTask
    /\ task' = [task EXCEPT ![t].state = s]
    /\ UNCHANGED <<tick, cursor, running, started, late, wrapped>>

(* select_next finds no task, or a slot made READY that was never          *)
(* registered, whose entry is NULL.                                        *)
NothingToRun ==
    (\E t \in Tasks : Eligible(t)) =>
        \E t \in Tasks : Selected(t) /\ ~task[t].entry

(* The other branch of an iteration: the only place where the tick         *)
(* advances.                                                               *)
Idle ==
    /\ started /\ running = NoTask
    /\ NothingToRun
    /\ cursor' = IF \E t \in Tasks : Eligible(t)
                 THEN After(CHOOSE t \in Tasks : Selected(t))
                 ELSE cursor
    /\ Advance
    /\ UNCHANGED <<running, started, late, wrapped>>

Iterate == Idle \/ \E t \in Tasks : Dispatch(t) \/ Finish(t)

Next ==
    \/ \E t \in Tasks, p \in Priorities, d \in Periods : Register(t, p, d)
    \/ Start
    \/ Iterate
    \/ \E t \in Tasks, s \in SettableStates : SetState(t, s)

Spec == Init /\ [][Next]_vars

(* The loop of mk_kernel_run keeps iterating, and every entry returns: an  *)
(* entry that does not is reset by the hardware watchdog.                  *)
FairSpec == Spec /\ WF_vars(Start) /\ WF_vars(Iterate)
-----------------------------------------------------------------------------
(* A task is RUNNING only while its entry executes: run_iteration never    *)
(* leaves a slot RUNNING behind, whatever entries do to other slots.       *)
OneRunning == \A t \in Tasks : task[t].state = "RUNNING" => running = t

(* In step with the tick: a ready or running task is due now, a sleeping   *)
(* one within its period.                                                  *)
InStep(t) ==
    /\ task[t].state \in {"READY", "RUNNING"} => task[t].next = tick
    /\ task[t].state = "SLEEPING" =>
          /\ task[t].next > tick
          /\ task[t].next <= tick + task[t].period

(* select_next and the wake-up loop of mk_scheduler_tick together never    *)
(* let a due task fall behind the tick, so the deadline check of           *)
(* run_iteration counts no miss until release times wrap around.           *)
OnTime == ~wrapped => late = {} /\ \A t \in Tasks : InStep(t)

(* While an entry executes, no due task of a better priority waits: the    *)
(* choice made by select_next stays right until the entry returns.         *)
NoInversion ==
    \A t, u \in Tasks :
        running = t /\ Eligible(u) => task[t].prio <= task[u].prio

(* The tick moves only when every task released so far has had its turn:   *)
(* the idle branch leaves no registered task ready behind.                 *)
ReleasesServed ==
    [][tick' # tick =>
         \A t \in Tasks : task[t].entry => task[t].state # "READY"]_vars

(* mk_scheduler_tick wakes a sleeping task at its release tick and at no   *)
(* other, until release times wrap around.                                 *)
WakesOnTime ==
    [][\A t \in Tasks :
         ~wrapped /\ task[t].state = "SLEEPING" /\ task'[t].state = "READY"
            => tick' = task[t].next]_vars

(* A task blocked while its own entry executes is still blocked when the   *)
(* iteration ends: only another mk_task_set_state brings it back.          *)
BlockHolds ==
    [][\A t \in Tasks :
         task[t].state = "BLOCKED" /\ task'[t].state # "BLOCKED" =>
            running # NoTask /\ running' = running]_vars

Live(t) == task[t].state \in {"READY", "RUNNING", "SLEEPING"}

(* A task of period 0 is ready again as soon as it has run.                *)
Hog(t) == Live(t) /\ task[t].entry /\ task[t].period = 0

(* Every live task gets to run, whatever its priority, also across the     *)
(* wrap of the tick, unless a task of period 0 keeps the tick from moving. *)
StarvationFree ==
    \A t \in Tasks :
        Live(t) ~> running = t \/ ~Live(t) \/ \E u \in Tasks : Hog(u)

(* Round robin: a task that is again and again among the eligible tasks of *)
(* the best priority runs again and again.                                 *)
RoundRobinFair ==
    \A t \in Tasks :
        []<>(running = NoTask /\ Best(t) /\ task[t].entry) => []<>(running = t)
=============================================================================
