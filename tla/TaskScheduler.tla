---------------------------- MODULE TaskScheduler ----------------------------
(***************************************************************************)
(* The cooperative task scheduler of the VM                                *)
(* (subset_julia_vm_vm/src/vm/builtins_tasks.rs), with the instruction     *)
(* `sleep`, the root return of a task in the run loop, the exception       *)
(* handlers an error of the scheduler is routed to, and the reset between  *)
(* two REPL inputs.                                                        *)
(*                                                                         *)
(* One thread runs everything, so only the current task and the scheduler  *)
(* itself take steps.  A switch is several steps here (save the outgoing   *)
(* task, drain the timers, pick, activate), one per loop iteration or      *)
(* branch of next_runnable_task and activate_task; no program step comes   *)
(* between them.                                                           *)
(*                                                                         *)
(* Data kept: a task is its index in the table; a value on an operand      *)
(* stack is the index of the task that pushed it; a handler is the stack   *)
(* depth it was installed at; time is what is left of each timer.          *)
(***************************************************************************)
EXTENDS TaskQueues

CONSTANTS
    MaxTasks,     \* bound: entries the task table may grow to
    MaxStack,     \* bound: operand stack depth of one task
    MaxHandlers,  \* bound: nested try blocks of one task
    MaxSleep,     \* bound: longest sleep, in ticks
    Fallible      \* tasks whose entry callable may fail to dispatch

TaskId == 0 .. MaxTasks - 1

\* The bounds are natural numbers and the table has room for the main task.
ASSUME BoundsAssumption ==
    /\ MaxTasks \in Nat \ {0}
    /\ MaxStack \in Nat
    /\ MaxHandlers \in Nat
    /\ MaxSleep \in Nat
    /\ Fallible \subseteq TaskId

VARIABLES
    count,      \* length of `tasks`
    state,      \* tasks[id].state, "Absent" beyond the table's end
    entry,      \* does tasks[id] hold an entry callable and its Task object?
    context,    \* tasks[id].context; live = FALSE stands for None
    runnable,   \* runnable_tasks
    sleeping,   \* sleeping_tasks: what is left of each timer, and its task
    pending,    \* the local `pending` of a drain under way
    current,    \* current_task_id
    stack,      \* the active operand stack
    handlers,   \* the active handler stack
    floor,      \* eval_dispatch_floor: handlers below a native call, or NoFloor
    mode,       \* where control is: "run", "drain", "pick", "activate", "raise"
    leaving,    \* the primitive that started the switch under way
    next,       \* the task picked, while mode = "activate"
    err,        \* the error on its way to a handler, or "none"
    outcome,    \* "running", or how run() returned: "exit" or "error"
    before      \* history: active stack and handlers when a primitive began

tableVars  == <<count, state, entry, context>>
queueVars  == <<runnable, sleeping, pending>>
activeVars == <<stack, handlers, floor>>
switchVars == <<leaving, next>>
schedVars  == <<tableVars, queueVars, current>>
controlVars == <<mode, switchVars, err, outcome, before>>
vars == <<schedVars, activeVars, controlVars>>

NoFloor == -1
NoContext == [live |-> FALSE, stack |-> <<>>, handlers |-> <<>>]
Nothing == [stack |-> <<>>, handlers |-> <<>>]

States == {"Absent", "Runnable", "Running", "Blocked", "Done"}
Modes == {"run", "drain", "pick", "activate", "raise"}
Primitives == {"none", "yield", "park", "sleep", "finish"}
Errors == {"none", "user", "argument", "boundary", "deadlock", "activation",
           "fatal"}
Timer == [id : TaskId, left : 0 .. MaxSleep]

Init ==
    /\ count = 1
    /\ state = [t \in TaskId |-> IF t = 0 THEN "Running" ELSE "Absent"]
    /\ entry = [t \in TaskId |-> FALSE]
    /\ context = [t \in TaskId |-> NoContext]
    /\ runnable = <<>>
    /\ sleeping = <<>>
    /\ pending = <<>>
    /\ current = 0
    /\ stack = <<>>
    /\ handlers = <<>>
    /\ floor = NoFloor
    /\ mode = "run"
    /\ leaving = "none"
    /\ next = 0
    /\ err = "none"
    /\ outcome = "running"
    /\ before = Nothing

Running == mode = "run" /\ outcome = "running"
Switching(m) == mode = m /\ outcome = "running"

\* Option::take of a task's context.
ClonedContext(id) == context

TakeContext(id) == [context EXCEPT ![id] = NoContext]

\* clear_active_task_execution_state.
ClearNothing == UNCHANGED <<stack, handlers>>
ClearStackOnly == stack' = <<>> /\ UNCHANGED handlers

ClearActive == stack' = <<>> /\ handlers' = <<>>

-----------------------------------------------------------------------------
(* Steps of the running program that the scheduler has to survive.          *)

\* The stack depth a `catch` of this task would truncate to.
Base == IF handlers = <<>> THEN 0 ELSE handlers[Len(handlers)]

\* A handler opened before a native call is out of reach until it returns.
HandlerReachable == Len(handlers) > (IF floor = NoFloor THEN 0 ELSE floor)

(***************************************************************************)
(* Ordinary instructions: values are pushed and popped (compiled code      *)
(* never pops below the depth its innermost try started at), try blocks    *)
(* are entered and left, and a builtin re-enters the interpreter           *)
(* (run_until_frame_return installs the floor) and returns.                *)
(***************************************************************************)
PushValue == /\ Len(stack) < MaxStack
             /\ stack' = Append(stack, current)
             /\ UNCHANGED <<handlers, floor>>

PopValue == /\ Len(stack) > Base
            /\ stack' = SubSeq(stack, 1, Len(stack) - 1)
            /\ UNCHANGED <<handlers, floor>>

PushHandler == /\ Len(handlers) < MaxHandlers
               /\ handlers' = Append(handlers, Len(stack))
               /\ UNCHANGED <<stack, floor>>

PopHandler == /\ HandlerReachable
              /\ handlers' = SubSeq(handlers, 1, Len(handlers) - 1)
              /\ UNCHANGED <<stack, floor>>

EnterNative == /\ floor = NoFloor
               /\ floor' = Len(handlers)
               /\ UNCHANGED <<stack, handlers>>

LeaveNative == /\ floor = Len(handlers)
               /\ floor' = NoFloor
               /\ UNCHANGED <<stack, handlers>>

Compute ==
    /\ Running
    /\ PushValue \/ PopValue \/ PushHandler \/ PopHandler
         \/ EnterNative \/ LeaveNative
    /\ UNCHANGED <<schedVars, controlVars>>

StartRaise(e) == mode' = "raise" /\ err' = e

Throw ==
    /\ Running
    /\ StartRaise("user")
    /\ UNCHANGED <<schedVars, activeVars, switchVars, outcome, before>>

(***************************************************************************)
(* raise / handle_error.  A handler below the native floor is not used:    *)
(* the error first unwinds the native call.  An error no handler takes     *)
(* makes run() return, and so does one that is not catchable.              *)
(***************************************************************************)
RaiseCaught ==
    /\ Switching("raise")
    /\ err # "fatal"
    /\ HandlerReachable
    /\ stack' = SubSeq(stack, 1, handlers[Len(handlers)])
    /\ handlers' = SubSeq(handlers, 1, Len(handlers) - 1)
    /\ mode' = "run"
    /\ err' = "none"
    /\ before' = Nothing
    /\ UNCHANGED <<schedVars, floor, switchVars, outcome>>

RaiseOutOfNative ==
    /\ Switching("raise")
    /\ ~HandlerReachable
    /\ floor # NoFloor
    /\ floor' = NoFloor
    /\ UNCHANGED <<schedVars, stack, handlers, controlVars>>

RaiseUncaught ==
    /\ Switching("raise")
    /\ floor = NoFloor
    /\ err = "fatal" \/ ~HandlerReachable
    /\ outcome' = "error"
    /\ UNCHANGED <<schedVars, activeVars, mode, switchVars, err, before>>

-----------------------------------------------------------------------------
(* The primitives that do not switch.  The arguments a primitive pops were *)
(* pushed for the same call, so only its result changes the stack.         *)

TaskSchedule ==
    /\ Running
    /\ count < MaxTasks
    /\ Len(stack) < MaxStack
    /\ count' = count + 1
    /\ state' = [state EXCEPT ![count] = "Runnable"]
    /\ entry' = [entry EXCEPT ![count] = TRUE]
    /\ runnable' = Append(runnable, count)
    /\ stack' = Append(stack, current)
    /\ UNCHANGED <<context, sleeping, pending, current, handlers, floor, mode,
                   switchVars, err, outcome, before>>

\* A wake of a task that is not parked does nothing; it is never remembered.
TaskWake(id) ==
    /\ Running
    /\ id < count
    /\ Len(stack) < MaxStack
    /\ IF state[id] = "Blocked"
       THEN /\ state' = [state EXCEPT ![id] = "Runnable"]
            /\ sleeping' = CancelTimer(sleeping, id)
            /\ runnable' = Append(runnable, id)
       ELSE UNCHANGED <<state, sleeping, runnable>>
    /\ stack' = Append(stack, current)
    /\ UNCHANGED <<count, entry, context, pending, current, handlers, floor,
                   mode, switchVars, err, outcome, before>>

TaskWakeUnknown ==
    /\ Running
    /\ \E id \in TaskId : id >= count
    /\ StartRaise("argument")
    /\ UNCHANGED <<schedVars, activeVars, switchVars, outcome, before>>

-----------------------------------------------------------------------------
(* Suspending the current task: yield, park and sleep.                      *)

\* ensure_suspendable_task_boundary: no suspension below a native call.
RejectSuspend ==
    /\ Running
    /\ floor # NoFloor
    /\ StartRaise("boundary")
    /\ before' = [stack |-> stack, handlers |-> handlers]
    /\ UNCHANGED <<schedVars, activeVars, switchVars, outcome>>

(***************************************************************************)
(* save_and_switch_current up to the call of next_runnable_task: the       *)
(* primitive's result goes on the stack first, then the whole active state *)
(* moves into the task's context.                                          *)
(***************************************************************************)
SaveCurrent(primitive, newState) ==
    /\ Running
    /\ floor = NoFloor
    /\ Len(stack) < MaxStack
    /\ before' = [stack |-> stack, handlers |-> handlers]
    /\ context' = [context EXCEPT ![current] =
                      [live |-> TRUE, stack |-> Append(stack, current),
                       handlers |-> handlers]]
    /\ stack' = <<>>
    /\ handlers' = <<>>
    /\ state' = [state EXCEPT ![current] = newState]
    /\ mode' = "drain"
    /\ leaving' = primitive
    /\ UNCHANGED <<count, entry, pending, current, floor, next, err, outcome>>

YieldToFront ==
    /\ SaveCurrent("yield", "Runnable")
    /\ runnable' = <<current>> \o runnable
    /\ UNCHANGED sleeping

TaskYield ==
    /\ SaveCurrent("yield", "Runnable")
    /\ runnable' = Append(runnable, current)
    /\ UNCHANGED sleeping

TaskPark ==
    /\ SaveCurrent("park", "Blocked")
    /\ UNCHANGED <<runnable, sleeping>>

Sleep(d) ==
    /\ SaveCurrent("sleep", "Blocked")
    /\ sleeping' = Append(sleeping, [id |-> current, left |-> d])
    /\ UNCHANGED runnable

\* sleep() of a negative or non-finite duration raises a DomainError.
SleepDomainError ==
    /\ Running
    /\ StartRaise("argument")
    /\ UNCHANGED <<schedVars, activeVars, switchVars, outcome, before>>

(***************************************************************************)
(* The root return of a task: finish_current_task_and_switch for a child,  *)
(* the end of run() for the main task, whatever other tasks are doing.     *)
(***************************************************************************)
FinishTask ==
    /\ Running
    /\ floor = NoFloor
    /\ current # 0
    /\ ClearActive
    /\ state' = [state EXCEPT ![current] = "Done"]
    /\ context' = TakeContext(current)
    /\ entry' = [entry EXCEPT ![current] = FALSE]
    /\ mode' = "drain"
    /\ leaving' = "finish"
    /\ UNCHANGED <<count, queueVars, current, floor, next, err, outcome, before>>

MainExit ==
    /\ Running
    /\ floor = NoFloor
    /\ current = 0
    /\ outcome' = "exit"
    /\ UNCHANGED <<schedVars, activeVars, mode, switchVars, err, before>>

-----------------------------------------------------------------------------
(* next_runnable_task.                                                      *)

\* One iteration of the drain: the first timer, due or not.
DrainTimer ==
    /\ Switching("drain")
    /\ sleeping # <<>>
    /\ LET timer == Head(sleeping) IN
       IF timer.left = 0
       THEN /\ UNCHANGED pending
            /\ IF state[timer.id] = "Blocked"
               THEN /\ state' = [state EXCEPT ![timer.id] = "Runnable"]
                    /\ runnable' = Append(runnable, timer.id)
               ELSE UNCHANGED <<state, runnable>>
       ELSE /\ pending' = Append(pending, timer)
            /\ UNCHANGED <<state, runnable>>
    /\ sleeping' = Tail(sleeping)
    /\ UNCHANGED <<count, entry, context, current, activeVars, mode,
                   switchVars, err, outcome, before>>

DrainForgetsPending ==
    /\ Switching("drain")
    /\ sleeping = <<>>
    /\ pending' = <<>>
    /\ mode' = "pick"
    /\ UNCHANGED <<tableVars, runnable, sleeping, current, activeVars,
                   switchVars, err, outcome, before>>

DrainDone ==
    /\ Switching("drain")
    /\ sleeping = <<>>
    /\ sleeping' = pending
    /\ pending' = <<>>
    /\ mode' = "pick"
    /\ UNCHANGED <<tableVars, runnable, current, activeVars, switchVars, err,
                   outcome, before>>

\* The position pop_front stops at: the first entry still Runnable.
FirstRunnable(i) ==
    /\ i \in DOMAIN runnable
    /\ state[runnable[i]] = "Runnable"
    /\ \A j \in 1 .. i - 1 : state[runnable[j]] # "Runnable"

NoneRunnable == \A i \in DOMAIN runnable : state[runnable[i]] # "Runnable"

PickNewest ==
    /\ Switching("pick")
    /\ runnable # <<>>
    /\ next' = runnable[Len(runnable)]
    /\ runnable' = SubSeq(runnable, 1, Len(runnable) - 1)
    /\ mode' = "activate"
    /\ UNCHANGED <<tableVars, sleeping, pending, current, activeVars, leaving,
                   err, outcome, before>>

PickTask ==
    /\ Switching("pick")
    /\ \E i \in DOMAIN runnable :
          /\ FirstRunnable(i)
          /\ next' = runnable[i]
          /\ runnable' = SubSeq(runnable, i + 1, Len(runnable))
    /\ mode' = "activate"
    /\ UNCHANGED <<tableVars, sleeping, pending, current, activeVars, leaving,
                   err, outcome, before>>

\* Every timer, d ticks later; a deadline already passed stays due.
ElapseUnclamped(d) ==
    [i \in DOMAIN sleeping |-> [sleeping[i] EXCEPT !.left = @ - d]]

Elapse(d) ==
    [i \in DOMAIN sleeping |->
        [sleeping[i] EXCEPT !.left = IF @ < d THEN 0 ELSE @ - d]]

\* thread::sleep until the earliest deadline, then drain again.
WaitForTimer ==
    /\ Switching("pick")
    /\ NoneRunnable
    /\ sleeping # <<>>
    /\ \E i \in DOMAIN sleeping :
          /\ \A j \in DOMAIN sleeping : sleeping[i].left <= sleeping[j].left
          /\ sleeping' = Elapse(sleeping[i].left)
    /\ runnable' = <<>>
    /\ mode' = "drain"
    /\ UNCHANGED <<tableVars, pending, current, activeVars, switchVars, err,
                   outcome, before>>

(***************************************************************************)
(* What save_and_switch_current and sleep_current_task undo when a switch  *)
(* fails: the outgoing task runs again, without the result it pushed.      *)
(***************************************************************************)
StateNotRestored == state

StateAfterFailure == [state EXCEPT ![current] = "Running"]

StackWithResult == context[current].stack

StackAfterFailure ==
    LET saved == context[current].stack IN SubSeq(saved, 1, Len(saved) - 1)

Reinstate(queue, e) ==
    /\ context' = TakeContext(current)
    /\ state' = StateAfterFailure
    /\ stack' = StackAfterFailure
    /\ handlers' = context[current].handlers
    /\ runnable' = queue
    /\ sleeping' = IF leaving = "sleep" THEN CancelTimer(sleeping, current)
                                        ELSE sleeping
    /\ StartRaise(e)
    /\ leaving' = "none"
    /\ next' = 0
    /\ UNCHANGED <<count, entry, pending, current, floor, outcome, before>>

(***************************************************************************)
(* Nothing can run and no timer is pending.  A primitive raises the        *)
(* deadlock error in the task that called it; when a finished task leaves  *)
(* nobody to run, the error leaves run() through `?`.                      *)
(***************************************************************************)
DeadlockDespiteTimers ==
    /\ Switching("pick")
    /\ NoneRunnable
    /\ leaving # "finish"
    /\ Reinstate(<<>>, "deadlock")

DeadlockInPrimitive ==
    /\ Switching("pick")
    /\ NoneRunnable
    /\ sleeping = <<>>
    /\ leaving # "finish"
    /\ Reinstate(<<>>, "deadlock")

DeadlockAtFinish ==
    /\ Switching("pick")
    /\ NoneRunnable
    /\ sleeping = <<>>
    /\ leaving = "finish"
    /\ runnable' = <<>>
    /\ outcome' = "error"
    /\ err' = "deadlock"
    /\ UNCHANGED <<tableVars, sleeping, pending, current, activeVars, mode,
                   switchVars, before>>

-----------------------------------------------------------------------------
(* activate_task.                                                           *)

Activated ==
    /\ state' = [state EXCEPT ![next] = "Running"]
    /\ current' = next
    /\ mode' = "run"
    /\ leaving' = "none"
    /\ next' = 0
    /\ before' = Nothing
    /\ UNCHANGED <<count, entry, queueVars, floor, err, outcome>>

ResumeTask ==
    /\ Switching("activate")
    /\ context[next].live
    /\ stack' = context[next].stack
    /\ handlers' = context[next].handlers
    /\ context' = TakeContext(next)
    /\ Activated

StartTask ==
    /\ Switching("activate")
    /\ ~context[next].live
    /\ entry[next]
    /\ ClearActive
    /\ UNCHANGED context
    /\ Activated

\* Dispatching the entry fails: the target keeps its place at the front.
EntryFails ==
    /\ Switching("activate")
    /\ ~context[next].live
    /\ next \in Fallible \/ ~entry[next]

ActivationFailsInPrimitive ==
    /\ EntryFails
    /\ leaving # "finish"
    /\ \E e \in IF leaving = "sleep" THEN {"activation", "fatal"}
                                     ELSE {"activation"} :
          Reinstate(RetainOther(<<next>> \o runnable, current), e)

ActivationFailsAtFinish ==
    /\ EntryFails
    /\ leaving = "finish"
    /\ runnable' = <<next>> \o runnable
    /\ outcome' = "error"
    /\ err' = "activation"
    /\ UNCHANGED <<tableVars, sleeping, pending, current, activeVars, mode,
                   switchVars, before>>

-----------------------------------------------------------------------------
\* Wall-clock time passes while a task runs.
Tick ==
    /\ Running
    /\ \E i \in DOMAIN sleeping : sleeping[i].left > 0
    /\ sleeping' = Elapse(1)
    /\ UNCHANGED <<tableVars, runnable, pending, current, activeVars, mode,
                   switchVars, err, outcome, before>>

\* reset_repl_transient_state, before the next input of a live session.
ReplReset ==
    /\ outcome # "running"
    /\ count' = 1
    /\ state' = [t \in TaskId |-> IF t = 0 THEN "Running" ELSE "Absent"]
    /\ entry' = [t \in TaskId |-> FALSE]
    /\ context' = [t \in TaskId |-> NoContext]
    /\ runnable' = <<>>
    /\ sleeping' = <<>>
    /\ pending' = <<>>
    /\ current' = 0
    /\ stack' = <<>>
    /\ handlers' = <<>>
    /\ floor' = NoFloor
    /\ mode' = "run"
    /\ leaving' = "none"
    /\ next' = 0
    /\ err' = "none"
    /\ outcome' = "running"
    /\ before' = Nothing

Raise == RaiseCaught \/ RaiseOutOfNative \/ RaiseUncaught

Suspend == TaskYield \/ TaskPark \/ (\E d \in 0 .. MaxSleep : Sleep(d))

Switch == \/ DrainTimer \/ DrainDone \/ PickTask \/ WaitForTimer
          \/ DeadlockInPrimitive \/ DeadlockAtFinish
          \/ ResumeTask \/ StartTask
          \/ ActivationFailsInPrimitive \/ ActivationFailsAtFinish

Next ==
    \/ Compute
    \/ Throw
    \/ Raise
    \/ TaskSchedule
    \/ \E id \in TaskId : TaskWake(id)
    \/ TaskWakeUnknown
    \/ RejectSuspend
    \/ Suspend
    \/ SleepDomainError
    \/ FinishTask
    \/ MainExit
    \/ Switch
    \/ Tick
    \/ ReplReset

Spec == Init /\ [][Next]_vars

(***************************************************************************)
(* The scheduler itself never stops half way and an error in flight        *)
(* reaches its handler; the clock advances while tasks run.                *)
(***************************************************************************)
Fairness == WF_vars(Switch) /\ WF_vars(Raise) /\ SF_vars(Tick)

FairSpec == Spec /\ Fairness

-----------------------------------------------------------------------------
(* Properties.                                                              *)

Context == [live : BOOLEAN, stack : Seq(TaskId), handlers : Seq(Nat)]

\* Every variable has its type.
TypeOK ==
    /\ count \in 1 .. MaxTasks
    /\ state \in [TaskId -> States]
    /\ entry \in [TaskId -> BOOLEAN]
    /\ context \in [TaskId -> Context]
    /\ runnable \in Seq(TaskId)
    /\ sleeping \in Seq(Timer)
    /\ pending \in Seq(Timer)
    /\ current \in TaskId
    /\ stack \in Seq(TaskId)
    /\ handlers \in Seq(Nat)
    /\ floor \in Nat \cup {NoFloor}
    /\ mode \in Modes
    /\ leaving \in Primitives
    /\ next \in TaskId
    /\ err \in Errors
    /\ outcome \in {"running", "exit", "error"}
    /\ before \in [stack : Seq(TaskId), handlers : Seq(Nat)]

InSwitch == mode \in {"drain", "pick", "activate"}
Picked(t) == mode = "activate" /\ outcome = "running" /\ t = next

\* At most one task is Running: the current one, except while the scheduler is
\* between two tasks, when there is none (`current_task_id` and the states agree
\* through every failed switch of save_and_switch_current).
OneRunning ==
    \A t \in TaskId : state[t] = "Running" <=> (t = current /\ ~InSwitch)

\* The ready queue holds each Runnable task exactly once and nothing else
\* (a task missing from it would never run again, a second entry would run
\* it when it is parked): push_back, push_front and retain stay in step with
\* the states, the task being activated excepted.
QueueExact ==
    /\ Distinct(runnable)
    /\ \A t \in TaskId :
          Has(runnable, t) <=> (state[t] = "Runnable" /\ ~Picked(t))

\* A task that can be resumed has what activate_task needs, a saved context
\* or, before it first runs, its entry callable, so the internal errors of
\* activate_task are never raised; a Running or Done task has no context, so
\* none is kept or restored twice.
ContextExact ==
    \A t \in TaskId :
        /\ state[t] = "Blocked" => context[t].live
        /\ state[t] = "Runnable" => context[t].live \/ entry[t]
        /\ context[t].live => state[t] \in {"Runnable", "Blocked"}
        /\ state[t] = "Absent" <=> t >= count

HasTimer(t) == Owns(sleeping, t) \/ Owns(pending, t)

\* A pending timer belongs to a task that is parked, and a task has at most
\* one: an explicit wake or a failed sleep leaves no deadline behind that
\* would end a later, unrelated park.
TimersExact ==
    /\ \A t \in TaskId : HasTimer(t) => state[t] = "Blocked"
    /\ DistinctOwners(sleeping)
    /\ DistinctOwners(pending)
    /\ \A t \in TaskId : ~(Owns(sleeping, t) /\ Owns(pending, t))

\* Capturing, clearing and restoring never mixes two tasks: the active operand
\* stack holds values of the current task only, a saved one those of its owner.
Isolation ==
    /\ \A i \in DOMAIN stack : stack[i] = current
    /\ \A t \in TaskId : \A i \in DOMAIN context[t].stack : context[t].stack[i] = t

\* Handler depths are absolute and stay valid across suspension and resumption
\* without rebasing (the module comment of builtins_tasks.rs): catching never
\* truncates to more values than the task's stack holds.
HandlersValid ==
    /\ \A i \in DOMAIN handlers : handlers[i] <= Len(stack)
    /\ \A t \in TaskId : \A i \in DOMAIN context[t].handlers :
          context[t].handlers[i] <= Len(context[t].stack)

\* A yield, park or sleep that fails is transactional: when its error starts
\* towards a handler the calling task has the stack and handlers it had before
\* the primitive, with no synthetic result value left on the stack.
FailedSwitchRestores ==
    mode = "raise" /\ err \in {"boundary", "deadlock", "activation", "fatal"}
        => stack = before.stack /\ handlers = before.handlers

\* The deadlock error is never raised early: no other task is runnable and no
\* timer is pending that could make one runnable.
DeadlockGenuine ==
    err = "deadlock" =>
        /\ sleeping = <<>>
        /\ \A t \in TaskId \ {current} : state[t] \in {"Blocked", "Done", "Absent"}

\* Control reaches the scheduler again and again: the assumption on programs
\* without which a task that never yields starves the others.
Cooperative == []<>(mode = "drain" /\ outcome = "running")

\* If the running tasks keep reaching scheduling points, every Runnable task
\* runs (or its session input ends): FIFO rotation starves nobody.
RunnableRuns ==
    Cooperative => \A t \in TaskId :
        (state[t] = "Runnable" ~> state[t] \in {"Running", "Absent"})

\* If the running tasks keep reaching scheduling points, a sleeping task is
\* woken: a due timer is noticed even when the ready queue never empties.
SleeperWakes ==
    Cooperative => \A t \in TaskId : (HasTimer(t) ~> state[t] # "Blocked")

\* "all-blocked state raises a catchable deadlock error": run() never ends with
\* the deadlock error while some task is parked inside a try block.
DeadlockCatchable ==
    ~(outcome = "error" /\ err = "deadlock"
        /\ \E t \in TaskId : context[t].live /\ context[t].handlers # <<>>)

(* Refinement.                                                             *)

\* The ready queue with the task being activated still at its head.
Ready == IF Picked(next) THEN <<next>> \o runnable ELSE runnable
Timed == {t \in TaskId : HasTimer(t)}

Coop == INSTANCE CoopScheduler WITH
            Task <- TaskId, Main <- 0, status <- state, ready <- Ready,
            timed <- Timed, idle <- InSwitch, up <- outcome = "running"

\* The scheduler keeps its promise to the Julia library: seen without contexts
\* and the inner steps of a switch, every step of builtins_tasks.rs is a step
\* of the cooperative scheduler (FIFO hand-over, wakes that also end a sleep,
\* refused switches that give control back) or changes nothing.
ImplementsCoop == Coop!Spec
=============================================================================
