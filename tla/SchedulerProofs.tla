-------------------------- MODULE SchedulerProofs --------------------------
(***************************************************************************)
(* Proofs about Scheduler for every number of slots, every set of          *)
(* priorities and periods and every width of the tick counter.  They       *)
(* assume that entries never put a slot back into the ready, running or    *)
(* sleeping state themselves (NoResume); the firmware's entries never call *)
(* mk_task_set_state at all.                                               *)
(***************************************************************************)
EXTENDS Scheduler, TLAPS

NoResume ==
    SettableStates \cap {"READY", "RUNNING", "SLEEPING"} = {}

(* Only registered slots are live, only periodic ones sleep, once the      *)
(* kernel runs, and a ready slot is due, wrapped or not: it became ready   *)
(* by registration, by waking or by finishing, and each of these compares  *)
(* or copies the tick.                                                     *)
Sound(t) ==
    /\ task[t].state \in {"READY", "RUNNING", "SLEEPING"} => task[t].entry = TRUE
    /\ task[t].state = "SLEEPING" => task[t].period > 0 /\ started = TRUE
    /\ task[t].state = "READY" => task[t].next <= tick

(* Every slot is sound, and nothing runs before mk_kernel_run.             *)
Lifecycle ==
    /\ \A t \in Tasks : Sound(t)
    /\ started = FALSE => running = NoTask

IInv == TypeOK /\ Lifecycle /\ OneRunning /\ OnTime /\ NoInversion
-----------------------------------------------------------------------------
LEMMA WrapType ==
    ASSUME NEW x \in Ticks, NEW y \in Ticks
    PROVE  /\ Wrap(x + y) \in Ticks
           /\ x + y < TickMod => Wrap(x + y) = x + y
  BY SchedulerAssumption DEF Wrap, Ticks

LEMMA WrapNext ==
    ASSUME NEW x \in Ticks
    PROVE  /\ Wrap(x + 1) \in Ticks
           /\ x + 1 < TickMod => Wrap(x + 1) = x + 1
  BY SchedulerAssumption DEF Wrap, Ticks

(* What the type invariant says of one slot.                               *)
LEMMA TcbType ==
    ASSUME TypeOK, NEW t \in Tasks
    PROVE  /\ tick \in Nat /\ tick < TickMod /\ tick \in Ticks
           /\ task[t] \in Tcb
           /\ task[t].state \in TaskStates
           /\ task[t].prio \in 0 .. LowestPrio
           /\ task[t].period \in Nat /\ task[t].period < TickMod
           /\ task[t].period \in Ticks
           /\ task[t].next \in Nat /\ task[t].next < TickMod
           /\ task[t].entry \in BOOLEAN
<1>1. task[t] \in Tcb
  BY DEF TypeOK
<1>2. task[t].period \in Ticks /\ task[t].next \in Ticks
  <2>1. Periods \cup {0} \subseteq Ticks
    BY SchedulerAssumption DEF Ticks
  <2> QED
    BY <1>1, <2>1 DEF Tcb
<1>3. /\ task[t].state \in TaskStates
      /\ task[t].prio \in 0 .. LowestPrio
      /\ task[t].entry \in BOOLEAN
  BY <1>1 DEF Tcb
<1>4. \A x \in Ticks : x \in Nat /\ x < TickMod
  BY SchedulerAssumption DEF Ticks
<1> QED
  BY <1>1, <1>2, <1>3, <1>4 DEF TypeOK

(* Changing one field, or a whole block, keeps the table of tasks typed.   *)
LEMMA TableType ==
    ASSUME TypeOK, NEW t \in Tasks, NEW k \in Tcb
    PROVE  [task EXCEPT ![t] = k] \in [Tasks -> Tcb]
  BY DEF TypeOK

LEMMA NoTaskType == NoTask \notin Tasks
  BY SchedulerAssumption DEF NoTask, Tasks

LEMMA AfterType == \A t \in Tasks : After(t) \in Tasks
  BY SchedulerAssumption DEF After, Tasks

LEMMA InitIInv == Init => IInv
<1> SUFFICES ASSUME Init PROVE IInv
  OBVIOUS
<1>1. TypeOK
  <2>1. /\ 0 \in Ticks
        /\ 0 \in Tasks
        /\ LowestPrio \in 0 .. LowestPrio
    BY SchedulerAssumption DEF Tasks, Ticks
  <2>2. [state |-> "UNUSED", prio |-> LowestPrio, period |-> 0, next |-> 0,
         entry |-> FALSE] \in Tcb
    BY <2>1 DEF Tcb, TaskStates
  <2>3. task \in [Tasks -> Tcb]
    BY <2>2 DEF Init
  <2> QED
    BY <2>1, <2>3 DEF Init, TypeOK
<1>2. Lifecycle /\ OneRunning
  BY DEF Init, Lifecycle, Sound, OneRunning
<1>3. OnTime
  BY DEF Init, OnTime, InStep
<1>4. NoInversion
  BY DEF Init, NoInversion, Eligible
<1> QED
  BY <1>1, <1>2, <1>3, <1>4 DEF IInv

(* The facts of IInv about one slot.                                       *)
LEMMA Pointwise ==
    ASSUME IInv, NEW t \in Tasks
    PROVE  /\ Sound(t)
           /\ task[t].state = "RUNNING" => running = t
           /\ ~wrapped => late = {} /\ InStep(t)
  BY DEF IInv, Lifecycle, OneRunning, OnTime

(* mk_task_register keeps the invariant.                                   *)
LEMMA RegisterIInv ==
    ASSUME IInv, NEW t \in Tasks, NEW p \in Priorities, NEW d \in Periods,
           Register(t, p, d)
    PROVE  IInv'
<1> DEFINE k == [state |-> "READY", prio |-> Clamp(p), period |-> d,
                 next |-> tick, entry |-> TRUE]
<1>1. k \in Tcb
  <2>1. Clamp(p) \in 0 .. LowestPrio
    BY SchedulerAssumption DEF Clamp
  <2> QED
    BY <2>1 DEF Tcb, TaskStates, IInv, TypeOK
<1>2. task' = [task EXCEPT ![t] = k]
  BY DEF Register
<1>3. /\ k.state = "READY" /\ k.next = tick /\ k.entry = TRUE
      /\ task'[t] = k
      /\ task'[t].state = "READY" /\ task'[t].next = tick
      /\ task'[t].entry = TRUE
      /\ \A u \in Tasks : u # t => task'[u] = task[u]
  BY <1>2 DEF IInv, TypeOK
<1> HIDE DEF k
<1>4. TypeOK'
  BY <1>1, <1>2, TableType DEF IInv, TypeOK, Register
<1>5. running' = NoTask /\ running = NoTask
  BY DEF IInv, Lifecycle, Register
<1>6. tick' = tick /\ wrapped' = wrapped /\ (late = {} => late' = {})
  BY DEF Register
<1>7. tick \in Nat
  BY SchedulerAssumption DEF IInv, TypeOK, Ticks
<1>8. ASSUME NEW u \in Tasks
      PROVE  /\ Sound(u)'
             /\ task'[u].state = "RUNNING" => running' = u
             /\ ~wrapped' => late' = {} /\ InStep(u)'
  <2>1. CASE u = t
    <3>1. Sound(u)' /\ task'[u].state # "RUNNING"
      BY <1>3, <1>6, <1>7, <2>1 DEF Sound
    <3>2. ~wrapped' => late' = {}
      BY <1>6, Pointwise
    <3>3. InStep(u)'
      BY <1>3, <1>6, <1>7, <2>1 DEF InStep
    <3> QED
      BY <3>1, <3>2, <3>3
  <2>2. CASE u # t
    <3>1. task'[u] = task[u] /\ started' = started
      BY <1>3, <2>2 DEF Register
    <3> QED
      BY <1>5, <1>6, <2>2, <3>1, Pointwise DEF Sound, InStep
  <2> QED
    BY <2>1, <2>2
<1>9. NoInversion'
  BY <1>5, NoTaskType DEF NoInversion
<1>10. OnTime'
  BY <1>6, <1>8 DEF OnTime, IInv
<1> QED
  BY <1>4, <1>5, <1>8, <1>9, <1>10 DEF IInv, Lifecycle, OneRunning

LEMMA StartIInv == IInv /\ Start => IInv'
  BY DEF IInv, TypeOK, Lifecycle, Sound, OneRunning, OnTime, InStep,
         NoInversion, Eligible, Start

(* Dispatch keeps the invariant: the task selected is due exactly now, and *)
(* no eligible task has a better priority.                                 *)
LEMMA DispatchIInv ==
    ASSUME IInv, NEW t \in Tasks, Dispatch(t)
    PROVE  IInv'
<1>1. task[t].state = "READY" /\ Best(t) /\ started
  BY DEF Dispatch, Selected, Best, Eligible
<1>2. /\ task' = [task EXCEPT ![t].state = "RUNNING"]
      /\ tick' = tick /\ wrapped' = wrapped /\ started' = started
      /\ running = NoTask /\ running' = t
  BY DEF Dispatch
<1>3. /\ task'[t] = [task[t] EXCEPT !.state = "RUNNING"]
      /\ \A u \in Tasks : u # t => task'[u] = task[u]
  BY <1>2 DEF IInv, TypeOK
<1>4. /\ task'[t].state = "RUNNING" /\ task'[t].next = task[t].next
      /\ task'[t].prio = task[t].prio /\ task'[t].entry = task[t].entry
  BY <1>3, TcbType DEF IInv, Tcb
<1>5. TypeOK'
  <2>1. [task[t] EXCEPT !.state = "RUNNING"] \in Tcb
    BY TcbType DEF IInv, Tcb, TaskStates
  <2> QED
    BY <2>1, TableType, AfterType DEF IInv, TypeOK, Dispatch
<1>6. ASSUME NEW u \in Tasks
      PROVE  /\ Sound(u)'
             /\ task'[u].state = "RUNNING" => running' = u
             /\ ~wrapped' => InStep(u)'
  <2>1. CASE u = t
    BY <1>1, <1>2, <1>4, <2>1, Pointwise DEF Sound, InStep
  <2>2. CASE u # t
    BY <1>2, <1>3, <2>2, Pointwise, NoTaskType DEF Sound, InStep
  <2> QED
    BY <2>1, <2>2
<1>7. ~wrapped => late' = {}
  BY <1>1, Pointwise, TcbType DEF InStep, Dispatch, IInv
<1>8. NoInversion'
  <2> SUFFICES ASSUME NEW v \in Tasks, Eligible(v)'
               PROVE  task'[t].prio <= task'[v].prio
    BY <1>2 DEF NoInversion
  <2>1. v # t /\ task'[v] = task[v]
    BY <1>3, <1>4 DEF Eligible
  <2>2. Eligible(v)
    BY <1>2, <2>1 DEF Eligible
  <2>3. task[t].prio <= task[v].prio
    BY <1>1, <2>2 DEF Best
  <2> QED
    BY <1>4, <2>1, <2>3
<1>9. OnTime'
  BY <1>2, <1>6, <1>7 DEF OnTime
<1> QED
  BY <1>1, <1>2, <1>5, <1>6, <1>8, <1>9 DEF IInv, Lifecycle, OneRunning

(* Finish keeps the invariant: the next release is computed from the       *)
(* current tick, or lands past the wrap and is recorded as such.           *)
LEMMA FinishIInv ==
    ASSUME IInv, NEW t \in Tasks, Finish(t)
    PROVE  IInv'
<1>1. CASE task[t].state = "RUNNING"
  <2> DEFINE n == Wrap(tick + task[t].period)
  <2>1. /\ task[t].period \in Ticks /\ task[t].period \in Nat
        /\ tick \in Ticks /\ tick \in Nat
    BY TcbType DEF IInv
  <2>2. n \in Ticks
    BY <2>1, WrapType
  <2>3. tick + task[t].period < TickMod => n = tick + task[t].period
    BY <2>1, WrapType
  <2> HIDE DEF n
  <2>4. /\ task' = [task EXCEPT ![t] = Rescheduled(task[t])]
        /\ task'[t] = Rescheduled(task[t])
        /\ \A u \in Tasks : u # t => task'[u] = task[u]
    BY <1>1 DEF Finish, IInv, TypeOK
  <2>5. /\ tick' = tick /\ running' = NoTask /\ started' = started
        /\ late' = late /\ cursor' = cursor
    BY DEF Finish
  <2>6. /\ task[t].period > 0 =>
              Rescheduled(task[t]) = [task[t] EXCEPT !.next = n, !.state = "SLEEPING"]
        /\ ~(task[t].period > 0) =>
              Rescheduled(task[t]) = [task[t] EXCEPT !.next = tick, !.state = "READY"]
    BY DEF Rescheduled, n
  <2>7. /\ task'[t].entry = task[t].entry /\ task'[t].period = task[t].period
        /\ task[t].period > 0 =>
              task'[t].state = "SLEEPING" /\ task'[t].next = n
        /\ ~(task[t].period > 0) =>
              task'[t].state = "READY" /\ task'[t].next = tick
    <3>1. task[t] \in Tcb
      BY TcbType DEF IInv
    <3>2. CASE task[t].period > 0
      <4>1. task'[t] = [task[t] EXCEPT !.next = n, !.state = "SLEEPING"]
        BY <2>4, <2>6, <3>2
      <4> QED
        BY <3>1, <3>2, <4>1 DEF Tcb
    <3>3. CASE ~(task[t].period > 0)
      <4>1. task'[t] = [task[t] EXCEPT !.next = tick, !.state = "READY"]
        BY <2>4, <2>6, <3>3
      <4> QED
        BY <3>1, <3>3, <4>1 DEF Tcb
    <3> QED
      BY <3>2, <3>3
  <2>8. TypeOK'
    <3>1. Rescheduled(task[t]) \in Tcb
      BY <2>1, <2>2, <2>6, TcbType DEF IInv, Tcb, TaskStates
    <3>2. task' \in [Tasks -> Tcb]
      BY <2>4, <3>1, TableType DEF IInv
    <3>3. wrapped' \in BOOLEAN
      BY DEF Finish
    <3> QED
      BY <2>5, <3>2, <3>3 DEF IInv, TypeOK
  <2>9. ASSUME ~wrapped' PROVE ~wrapped /\ n = tick + task[t].period
    <3>1. ~wrapped /\ ~(tick + task[t].period >= TickMod)
      BY <1>1, <2>9 DEF Finish
    <3>2. tick + task[t].period < TickMod
      BY <2>1, <3>1, SchedulerAssumption
    <3> QED
      BY <2>3, <3>1, <3>2
  <2>10. ASSUME NEW u \in Tasks
         PROVE  /\ Sound(u)'
                /\ task'[u].state # "RUNNING"
                /\ ~wrapped' => late' = {} /\ InStep(u)'
    <3>1. CASE u = t
      <4>1. task[t].entry = TRUE /\ started = TRUE
        BY <1>1, Pointwise, NoTaskType DEF Sound, IInv, Lifecycle, TypeOK
      <4>2. Sound(u)' /\ task'[u].state # "RUNNING"
        BY <2>1, <2>5, <2>7, <3>1, <4>1 DEF Sound
      <4>3. ASSUME ~wrapped' PROVE late' = {} /\ InStep(u)'
        BY <2>1, <2>5, <2>7, <2>9, <3>1, <4>3, Pointwise DEF InStep
      <4> QED
        BY <4>2, <4>3
    <3>2. CASE u # t
      BY <2>4, <2>5, <2>9, <3>2, Pointwise DEF Sound, InStep, Finish
    <3> QED
      BY <3>1, <3>2
  <2>11. OnTime'
    BY <2>5, <2>9, <2>10 DEF OnTime, IInv
  <2>12. NoInversion'
    BY <2>5, NoTaskType DEF NoInversion
  <2> QED
    BY <2>5, <2>8, <2>10, <2>11, <2>12 DEF IInv, Lifecycle, OneRunning
<1>2. CASE task[t].state # "RUNNING"
  <2>1. /\ task' = task /\ wrapped' = wrapped /\ running' = NoTask
        /\ tick' = tick /\ late' = late /\ cursor' = cursor
        /\ started' = started
    BY <1>2 DEF Finish, IInv, TypeOK
  <2>2. TypeOK' /\ Lifecycle' /\ OnTime'
    BY <2>1 DEF IInv, TypeOK, Lifecycle, Sound, OnTime, InStep
  <2>3. OneRunning'
    BY <1>2, <2>1 DEF Finish, IInv, OneRunning
  <2>4. NoInversion'
    BY <2>1, NoTaskType DEF NoInversion
  <2> QED
    BY <2>2, <2>3, <2>4 DEF IInv
<1> QED
  BY <1>1, <1>2

(* mk_task_set_state keeps the invariant as long as it only retires slots. *)
LEMMA SetStateIInv ==
    ASSUME NoResume, IInv, NEW t \in Tasks, NEW s \in SettableStates,
           SetState(t, s)
    PROVE  IInv'
<1>1. s \in TaskStates /\ s \notin {"READY", "RUNNING", "SLEEPING"}
  BY SettableAssumption DEF NoResume
<1>2. /\ task' = [task EXCEPT ![t].state = s]
      /\ tick' = tick /\ running' = running /\ wrapped' = wrapped
      /\ late' = late /\ started' = started /\ cursor' = cursor
      /\ running # NoTask
  BY DEF SetState
<1>3. /\ task'[t] = [task[t] EXCEPT !.state = s]
      /\ \A u \in Tasks : u # t => task'[u] = task[u]
  BY <1>2 DEF IInv, TypeOK
<1>4. task'[t].state = s /\ task'[t].prio = task[t].prio
  BY <1>3, TcbType DEF IInv, Tcb
<1>5. TypeOK'
  <2>1. [task[t] EXCEPT !.state = s] \in Tcb
    BY <1>1, TcbType DEF IInv, Tcb
  <2> QED
    BY <1>2, <2>1, TableType DEF IInv, TypeOK
<1>6. ASSUME NEW u \in Tasks
      PROVE  /\ Sound(u)'
             /\ task'[u].state = "RUNNING" => running' = u
             /\ ~wrapped' => late' = {} /\ InStep(u)'
  <2>1. CASE u = t
    BY <1>1, <1>2, <1>4, <2>1, Pointwise DEF Sound, InStep
  <2>2. CASE u # t
    BY <1>2, <1>3, <2>2, Pointwise DEF Sound, InStep
  <2> QED
    BY <2>1, <2>2
<1>7. NoInversion'
  <2> SUFFICES ASSUME NEW u \in Tasks, NEW v \in Tasks,
                      running = u, Eligible(v)'
               PROVE  task'[u].prio <= task'[v].prio
    BY <1>2 DEF NoInversion
  <2>1. v # t /\ task'[v] = task[v]
    BY <1>1, <1>3, <1>4 DEF Eligible
  <2>2. task[u].prio <= task[v].prio
    BY <1>2, <2>1 DEF IInv, NoInversion, Eligible
  <2>3. task'[u].prio = task[u].prio
    BY <1>3, <1>4
  <2> QED
    BY <2>1, <2>2, <2>3
<1>8. OnTime'
  BY <1>2, <1>6 DEF IInv, OnTime
<1> QED
  BY <1>2, <1>5, <1>6, <1>7, <1>8 DEF IInv, Lifecycle, OneRunning

(* The idle branch is taken only when no task is ready.                    *)
LEMMA IdleNoneReady ==
    ASSUME IInv, Idle, NEW t \in Tasks
    PROVE  task[t].state # "READY"
<1> SUFFICES ASSUME task[t].state = "READY" PROVE FALSE
  OBVIOUS
<1>1. Eligible(t)
  BY TcbType, Pointwise DEF Eligible, IInv, Sound
<1>2. PICK u \in Tasks : Selected(u) /\ ~task[u].entry
  BY <1>1 DEF Idle, NothingToRun
<1>3. task[u].state = "READY"
  BY <1>2 DEF Selected, Best, Eligible
<1> QED
  BY <1>2, <1>3, Pointwise DEF Sound

(* Idle keeps the invariant: sleepers are woken exactly when due.          *)
LEMMA IdleIInv ==
    ASSUME IInv, Idle
    PROVE  IInv'
<1>1. /\ running' = NoTask /\ running = NoTask
      /\ started' = started /\ late' = late /\ wrapped' = wrapped
      /\ started
  BY DEF Idle
<1>2. cursor' = cursor
  BY IdleNoneReady DEF Idle, Eligible
<1>3. /\ tick' = Wrap(tick + 1)
      /\ tick' \in Ticks
      /\ tick + 1 < TickMod => tick' = tick + 1
  BY WrapNext DEF Idle, Advance, NextTick, IInv, TypeOK
<1>4. tick' \in Nat
  BY <1>3, SchedulerAssumption DEF Ticks
<1>5. task' = [t \in Tasks |-> Woken(task[t], tick')]
  BY DEF Idle, Advance
<1>6. ASSUME NEW t \in Tasks
      PROVE  /\ task[t].state = "SLEEPING" /\ tick' >= task[t].next =>
                   task'[t] = [task[t] EXCEPT !.state = "READY"]
             /\ ~(task[t].state = "SLEEPING" /\ tick' >= task[t].next) =>
                   task'[t] = task[t]
  BY <1>5 DEF Woken
<1>7. TypeOK'
  <2>1. ASSUME NEW t \in Tasks PROVE task'[t] \in Tcb
    <3>1. task[t] \in Tcb
      BY TcbType DEF IInv
    <3>2. [task[t] EXCEPT !.state = "READY"] \in Tcb
      BY <3>1 DEF Tcb, TaskStates
    <3> QED
      BY <1>6, <3>1, <3>2
  <2>2. task' \in [Tasks -> Tcb]
    BY <1>5, <2>1
  <2> QED
    BY <1>1, <1>2, <1>3, <2>2 DEF IInv, TypeOK
<1>8. ASSUME NEW t \in Tasks
      PROVE  /\ Sound(t)'
             /\ task'[t].state # "RUNNING"
             /\ ~wrapped => late' = {} /\ InStep(t)'
  <2>1. CASE task[t].state = "SLEEPING" /\ tick' >= task[t].next
    <3>1. /\ task'[t].state = "READY" /\ task'[t].next = task[t].next
          /\ task'[t].period = task[t].period
          /\ task'[t].entry = task[t].entry
      BY <1>6, <2>1, TcbType DEF IInv, Tcb
    <3>2. ASSUME ~wrapped PROVE tick' = task[t].next
      BY <1>3, <2>1, <3>2, TcbType, Pointwise, SchedulerAssumption
      DEF InStep, IInv
    <3> QED
      BY <1>1, <1>4, <2>1, <3>1, <3>2, Pointwise, TcbType
      DEF Sound, InStep, IInv
  <2>2. CASE task[t].state = "SLEEPING" /\ ~(tick' >= task[t].next)
    <3>1. task'[t] = task[t]
      BY <1>6, <2>2
    <3>2. ASSUME ~wrapped PROVE tick' = tick + 1
      BY <1>3, <2>2, <3>2, TcbType, Pointwise, SchedulerAssumption
      DEF InStep, IInv
    <3>3. Sound(t)'
      BY <1>1, <2>2, <3>1, Pointwise DEF Sound
    <3>4. /\ tick \in Nat
          /\ task[t].next \in Nat
          /\ task[t].period \in Nat
      BY TcbType DEF IInv
    <3>5. ASSUME ~wrapped PROVE late' = {} /\ InStep(t)'
      BY <1>1, <2>2, <3>1, <3>2, <3>4, <3>5, Pointwise DEF InStep
    <3> QED
      BY <2>2, <3>1, <3>3, <3>5
  <2>3. CASE task[t].state # "SLEEPING"
    <3>1. task'[t] = task[t]
      BY <1>6, <2>3
    <3>2. task[t].state \notin {"READY", "RUNNING", "SLEEPING"}
      BY <1>1, <2>3, IdleNoneReady, Pointwise DEF Tasks, NoTask
    <3> QED
      BY <1>1, <3>1, <3>2, Pointwise DEF Sound, InStep
  <2> QED
    BY <2>1, <2>2, <2>3
<1>9. NoInversion'
  BY <1>1, NoTaskType DEF NoInversion
<1>10. OnTime'
  BY <1>1, <1>8 DEF OnTime, IInv
<1> QED
  BY <1>1, <1>7, <1>8, <1>9, <1>10 DEF IInv, Lifecycle, OneRunning

LEMMA NextIInv == NoResume /\ IInv /\ [Next]_vars => IInv'
<1> SUFFICES ASSUME NoResume, IInv, [Next]_vars PROVE IInv'
  OBVIOUS
<1>1. CASE \E t \in Tasks, p \in Priorities, d \in Periods : Register(t, p, d)
  BY <1>1, RegisterIInv
<1>2. CASE Start
  BY <1>2, StartIInv
<1>3. CASE Idle
  BY <1>3, IdleIInv
<1>4. CASE \E t \in Tasks : Dispatch(t) \/ Finish(t)
  BY <1>4, DispatchIInv, FinishIInv
<1>5. CASE \E t \in Tasks, s \in SettableStates : SetState(t, s)
  BY <1>5, SetStateIInv
<1>6. CASE UNCHANGED vars
  BY <1>6
  DEF vars, IInv, TypeOK, Lifecycle, Sound, OneRunning, OnTime,
      InStep, NoInversion, Eligible
<1> QED
  BY <1>1, <1>2, <1>3, <1>4, <1>5, <1>6 DEF Next, Iterate
-----------------------------------------------------------------------------
(* The strengthening of the safety properties is an invariant.             *)
THEOREM Inductive == ASSUME NoResume PROVE Spec => []IInv
<1>1. Init => IInv
  BY InitIInv
<1>2. IInv /\ [Next]_vars => IInv'
  BY NextIInv
<1> QED
  BY <1>1, <1>2, PTL DEF Spec

(* Type correctness of the whole scheduler state.                          *)
THEOREM TypeCorrect == ASSUME NoResume PROVE Spec => []TypeOK
<1>1. IInv => TypeOK
  BY DEF IInv
<1> QED
  BY <1>1, Inductive, PTL

(* At most the task whose entry executes is RUNNING.                       *)
THEOREM OneRunningHolds == ASSUME NoResume PROVE Spec => []OneRunning
<1>1. IInv => OneRunning
  BY DEF IInv
<1> QED
  BY <1>1, Inductive, PTL

(* No task is ever behind its release tick and no deadline miss is ever    *)
(* counted, until a release time is computed past the end of the counter.  *)
THEOREM OnTimeHolds == ASSUME NoResume PROVE Spec => []OnTime
<1>1. IInv => OnTime
  BY DEF IInv
<1> QED
  BY <1>1, Inductive, PTL

(* The entry executing has the best priority among the tasks that are due. *)
THEOREM NoInversionHolds == ASSUME NoResume PROVE Spec => []NoInversion
<1>1. IInv => NoInversion
  BY DEF IInv
<1> QED
  BY <1>1, Inductive, PTL

(* The tick moves only after every released task has had its turn.         *)
THEOREM ReleasesServedHolds == ASSUME NoResume PROVE Spec => ReleasesServed
<1>1. IInv /\ [Next]_vars =>
        [tick' # tick =>
           \A t \in Tasks : task[t].entry => task[t].state # "READY"]_vars
  <2> SUFFICES ASSUME IInv, Next, tick' # tick
               PROVE  \A t \in Tasks : task[t].state # "READY"
    BY DEF vars
  <2>1. Idle
    BY DEF Next, Iterate, Register, Start, Dispatch, Finish, SetState
  <2> QED
    BY <2>1, IdleNoneReady
<1> QED
  BY <1>1, Inductive, PTL DEF Spec, ReleasesServed

(* Sleeping tasks are woken at their release tick, until the wrap.         *)
THEOREM WakesOnTimeHolds == ASSUME NoResume PROVE Spec => WakesOnTime
<1> DEFINE Wake(t) == ~wrapped /\ task[t].state = "SLEEPING"
                               /\ task'[t].state = "READY"
<1>1. IInv /\ [Next]_vars =>
        [\A t \in Tasks : Wake(t) => tick' = task[t].next]_vars
  <2> SUFFICES ASSUME IInv, Next, NEW t \in Tasks, Wake(t)
               PROVE  tick' = task[t].next
    BY DEF vars
  <2>1. CASE Idle
    <3>1. /\ task[t].next > tick
          /\ task[t].next \in Nat /\ task[t].next < TickMod
          /\ tick \in Ticks /\ tick \in Nat
      BY TcbType DEF IInv, OnTime, InStep
    <3>2. tick' = tick + 1
      BY <2>1, <3>1, WrapNext, SchedulerAssumption DEF Idle, Advance, NextTick
    <3>3. tick' >= task[t].next
      BY <2>1 DEF Idle, Advance, Woken
    <3> QED
      BY <3>1, <3>2, <3>3
  <2>2. CASE \E u \in Tasks, p \in Priorities, d \in Periods : Register(u, p, d)
    <3>1. PICK u \in Tasks, p \in Priorities, d \in Periods : Register(u, p, d)
      BY <2>2
    <3>2. ~started
      BY <3>1 DEF Register
    <3> QED
      BY <3>2, Pointwise DEF Sound
  <2>3. CASE Start
    BY <2>3 DEF Start
  <2>4. CASE \E u \in Tasks : Dispatch(u)
    BY <2>4 DEF Dispatch, IInv, TypeOK
  <2>5. CASE \E u \in Tasks : Finish(u)
    BY <2>5 DEF Finish, Rescheduled, IInv, TypeOK
  <2>6. CASE \E u \in Tasks, s \in SettableStates : SetState(u, s)
    BY <2>6 DEF NoResume, SetState, IInv, TypeOK
  <2> QED
    BY <2>1, <2>2, <2>3, <2>4, <2>5, <2>6 DEF Next, Iterate
<1> QED
  BY <1>1, Inductive, PTL DEF Spec, WakesOnTime
-----------------------------------------------------------------------------
(* Before mk_kernel_run no entry executes and slots are only registered.   *)
NotYetRunning ==
    started = FALSE =>
        /\ running = NoTask
        /\ \A t \in Tasks : task[t].state \in {"UNUSED", "READY"}

Table ==
    /\ task = [t \in Tasks |-> task[t]]
    /\ started \in BOOLEAN

BlockInv == Table /\ NotYetRunning

LEMMA BlockStep ==
    ASSUME BlockInv, [Next]_vars
    PROVE  /\ BlockInv'
           /\ \A t \in Tasks :
                 task[t].state = "BLOCKED" /\ task'[t].state # "BLOCKED" =>
                    running # NoTask /\ running' = running
<1> USE DEF BlockInv, Table, NotYetRunning
<1>1. ASSUME NEW t \in Tasks, NEW p \in Priorities, NEW d \in Periods, Register(t, p, d)
      PROVE  /\ BlockInv'
             /\ \A u \in Tasks : task[u].state # "BLOCKED"
  BY <1>1 DEF Register
<1>2. CASE Start \/ UNCHANGED vars
  BY <1>2 DEF Start, vars
<1>3. CASE Idle
  BY <1>3 DEF Idle, Advance, Woken
<1>4. ASSUME NEW t \in Tasks, Dispatch(t)
      PROVE  /\ BlockInv'
             /\ \A u \in Tasks : task[u].state = "BLOCKED" => task'[u] = task[u]
  BY <1>4 DEF Dispatch, Selected, Best, Eligible
<1>5. ASSUME NEW t \in Tasks, Finish(t)
      PROVE  /\ BlockInv'
             /\ \A u \in Tasks : task[u].state = "BLOCKED" => task'[u] = task[u]
  BY <1>5, NoTaskType DEF Finish
<1>6. ASSUME NEW t \in Tasks, NEW s \in SettableStates, SetState(t, s)
      PROVE  BlockInv' /\ running # NoTask /\ running' = running
  BY <1>6 DEF SetState
<1> QED
  BY <1>1, <1>2, <1>3, <1>4, <1>5, <1>6 DEF Next, Iterate

(* A blocked task stays blocked but for an entry that calls                *)
(* mk_task_set_state: the scheduler itself never revives it, nor does the  *)
(* return of its own entry, whatever states entries store (no NoResume).   *)
THEOREM BlockHoldsAlways == Spec => BlockHolds
<1>1. Init => BlockInv
  <2> SUFFICES ASSUME Init PROVE BlockInv
    OBVIOUS
  <2>1. Table
    BY DEF Init, Table
  <2>2. \A t \in Tasks : task[t].state = "UNUSED"
    BY DEF Init
  <2> QED
    BY <2>1, <2>2 DEF Init, BlockInv, NotYetRunning
<1>2. BlockInv /\ [Next]_vars =>
        /\ BlockInv'
        /\ [\A t \in Tasks :
             task[t].state = "BLOCKED" /\ task'[t].state # "BLOCKED" =>
                running # NoTask /\ running' = running]_vars
  BY BlockStep
<1> QED
  BY <1>1, <1>2, PTL DEF Spec, BlockHolds
=============================================================================
