----------------------------- MODULE JuliaTasks -----------------------------
(***************************************************************************)
(* Task objects and Conditions of the Julia library (base/task.jl and      *)
(* base/lock.jl), over the scheduler's promise CoopScheduler.  The task in *)
(* control runs without interruption until it yields, parks, sleeps or     *)
(* returns, so one step stands for the Julia code between two scheduler    *)
(* primitives; a loop of wakes is one step per wake.                       *)
(*                                                                         *)
(* A task's program is any sequence of library calls; all the programs     *)
(* together make at most MaxCalls.  An exception that reaches the program  *)
(* leaves it in its body: it goes on (the exception was caught) or fails   *)
(* (BodyFails).  Calls that change nothing (a wait for a task that is      *)
(* done, a schedule that is refused) are not steps.                        *)
(***************************************************************************)
EXTENDS TaskQueues

CONSTANTS
    Task,      \* the Task objects there may ever be
    Main,      \* the main task
    Calls,     \* the library functions the programs call
    MaxCalls   \* bound: library calls of all the programs together

ASSUME ProgramAssumption == Main \in Task /\ MaxCalls \in Nat

VARIABLES
    status, ready, timed, current, idle, up,   \* the scheduler
    obj,      \* the fields state, started and queued of each Task object
    waiters,  \* t.waiters: who is parked in wait(t)
    waitq,    \* the queue of one Condition
    pc,       \* where each task's program is
    on,       \* the Task object its wait or completion is about
    calls,    \* library calls the programs have left
    cause,    \* history: what made the task ready after its last park
    refused   \* history: has a deadlock error been raised?

schedVars == <<status, ready, timed, current, idle, up>>
taskVars == <<obj, waiters, waitq, on>>
progVars == <<pc, calls>>
histVars == <<cause, refused>>

S == INSTANCE CoopScheduler

Fields == [state : {"runnable", "done", "failed"},
           started : BOOLEAN, queued : BOOLEAN]

NewTask == [state |-> "runnable", started |-> FALSE, queued |-> FALSE]

\* istaskdone: the task exited, or was marked as failed by `schedule`.
IsTaskDone(t) == obj[t].state # "runnable"

TaskInit ==
    /\ S!Init
    /\ obj = [[t \in Task |-> NewTask] EXCEPT ![Main].started = TRUE]
    /\ waiters = [t \in Task |-> <<>>]
    /\ waitq = <<>>
    /\ pc = [t \in Task |-> IF t = Main THEN "body" ELSE "entry"]
    /\ on = [t \in Task |-> Main]
    /\ calls = MaxCalls
    /\ cause = [t \in Task |-> "none"]
    /\ refused = FALSE

At(where) == S!Active /\ pc[current] = where
GoTo(where) == pc' = [pc EXCEPT ![current] = where]

\* The program of the current task calls a library function.
Call(name, where) ==
    /\ At("body")
    /\ name \in Calls
    /\ calls > 0
    /\ calls' = calls - 1
    /\ GoTo(where)

\* _task_wake(t.vm_id): no effect unless t is parked.
WakeTask(t, why) ==
    IF status[t] = "Blocked"
    THEN S!Wake(t) /\ cause' = [cause EXCEPT ![t] = why]
    ELSE UNCHANGED <<schedVars, cause>>

\* _task_park() of the current task.
ParkCurrent == S!Park /\ cause' = [cause EXCEPT ![current] = "none"]

-----------------------------------------------------------------------------
(* schedule, the entry of a task and its completion.                       *)

Schedule(t) ==
    /\ Call("schedule", "body")
    /\ obj[t] = NewTask
    /\ S!Spawn(t)
    /\ obj' = [obj EXCEPT ![t].queued = TRUE]
    /\ UNCHANGED <<waiters, waitq, on, histVars>>

\* schedule(t, val; _error = true) for another task: t is marked as failed,
\* whatever it is doing.
ScheduleError(t) ==
    /\ Call("schedule_error", "exit")
    /\ t # current
    /\ ~IsTaskDone(t)
    /\ obj' = [obj EXCEPT ![t] = [state |-> "failed", started |-> TRUE,
                                 queued |-> FALSE]]
    /\ on' = [on EXCEPT ![current] = t]
    /\ UNCHANGED <<schedVars, waiters, waitq, histVars>>

\* __sjulia_task_entry, up to the call of the task's function.
RunStillQueued ==
    /\ GoTo("body")
    /\ obj' = [obj EXCEPT ![current].started = TRUE]

RunFunction ==
    /\ GoTo("body")
    /\ obj' = [obj EXCEPT ![current].started = TRUE, ![current].queued = FALSE]

EntryWhateverState ==
    /\ At("entry")
    /\ GoTo("body")
    /\ obj' = [obj EXCEPT ![current] = [NewTask EXCEPT !.started = TRUE]]
    /\ UNCHANGED <<schedVars, waiters, waitq, on, calls, histVars>>

TaskEntry ==
    /\ At("entry")
    /\ IF IsTaskDone(current)
       THEN GoTo("return") /\ UNCHANGED obj
       ELSE RunFunction
    /\ UNCHANGED <<schedVars, waiters, waitq, on, calls, histVars>>

\* The task's function returns or throws.
BodyEnds(result) ==
    /\ At("body")
    /\ current # Main
    /\ obj' = [obj EXCEPT ![current].state = result]
    /\ on' = [on EXCEPT ![current] = current]
    /\ GoTo("exit")
    /\ UNCHANGED <<schedVars, waiters, waitq, calls, histVars>>

BodyReturns == BodyEnds("done")
BodyFails == BodyEnds("failed")

\* The loop of __sjulia_finish_task over the waiters.
ForgetWaiters ==
    /\ At("wake")
    /\ waiters[on[current]] # <<>>
    /\ waiters' = [waiters EXCEPT ![on[current]] = <<>>]
    /\ UNCHANGED <<schedVars, obj, waitq, on, progVars, histVars>>

WakeWaiter ==
    /\ At("wake")
    /\ LET t == on[current] IN
       /\ waiters[t] # <<>>
       /\ waiters' = [waiters EXCEPT ![t] = Tail(@)]
       /\ WakeTask(Head(waiters[t]), "exit")
    /\ UNCHANGED <<obj, waitq, on, progVars, refused>>

WakeWaitersDone ==
    /\ At("wake")
    /\ waiters[on[current]] = <<>>
    /\ GoTo(IF on[current] = current THEN "return" ELSE "body")
    /\ UNCHANGED <<schedVars, taskVars, calls, histVars>>

\* The entry's return is the root return of the task.
RootReturn ==
    /\ At("return")
    /\ S!Finish
    /\ UNCHANGED <<taskVars, progVars, histVars>>

\* The main program ends, normally or with an exception it does not catch.
MainEnds ==
    /\ At("body")
    /\ current = Main
    /\ S!Stop
    /\ UNCHANGED <<taskVars, progVars, histVars>>

-----------------------------------------------------------------------------
(* yield, sleep, wait(t) and Conditions.                                   *)

YieldCall ==
    /\ Call("yield", "body")
    /\ S!Yield
    /\ UNCHANGED <<taskVars, histVars>>

SleepCall ==
    /\ Call("sleep", "sleep")
    /\ S!Sleep
    /\ cause' = [cause EXCEPT ![current] = "none"]
    /\ UNCHANGED <<taskVars, refused>>

SleepEnds ==
    /\ At("sleep")
    /\ GoTo("body")
    /\ UNCHANGED <<schedVars, taskVars, calls, histVars>>

\* The body of the loop of wait(t), at the call and after every wake-up.
ParkInWait(t) ==
    /\ ~IsTaskDone(t)
    /\ waiters' = [waiters EXCEPT ![t] = Append(@, current)]
    /\ ParkCurrent
    /\ UNCHANGED <<obj, waitq, refused>>

WaitCall(t) ==
    /\ Call("wait", "wait")
    /\ status[t] # "Absent"
    /\ on' = [on EXCEPT ![current] = t]
    /\ ParkInWait(t)

WaitAgain ==
    /\ At("wait")
    /\ ParkInWait(on[current])
    /\ UNCHANGED <<on, progVars>>

WaitEnds ==
    /\ At("wait")
    /\ IsTaskDone(on[current])
    /\ GoTo("body")
    /\ UNCHANGED <<schedVars, taskVars, calls, histVars>>

\* _wait_condition: unlike wait(t), not a loop.
WaitCondition ==
    /\ Call("wait_condition", "condition")
    /\ waitq' = Append(waitq, current)
    /\ ParkCurrent
    /\ UNCHANGED <<obj, waiters, on, refused>>

WaitConditionEnds ==
    /\ At("condition")
    /\ GoTo("body")
    /\ UNCHANGED <<schedVars, taskVars, calls, histVars>>

\* notify(c; all): the queue loses every task it wakes.
NotifyKeepsQueue ==
    /\ waitq # <<>>
    /\ WakeTask(Head(waitq), "notify")
    /\ UNCHANGED <<obj, waiters, waitq, on, refused>>

NotifyHead ==
    /\ waitq # <<>>
    /\ WakeTask(Head(waitq), "notify")
    /\ waitq' = Tail(waitq)
    /\ UNCHANGED <<obj, waiters, on, refused>>

NotifyCall == \E where \in {"body", "notify"} :
                 Call("notify", where) /\ NotifyHead

NotifyNext == At("notify") /\ NotifyHead /\ UNCHANGED progVars

NotifyEnds ==
    /\ At("notify")
    /\ waitq = <<>>
    /\ GoTo("body")
    /\ UNCHANGED <<schedVars, taskVars, calls, histVars>>

-----------------------------------------------------------------------------
(* The scheduler between two tasks.                                        *)

Dispatch == S!Dispatch /\ UNCHANGED <<taskVars, progVars, histVars>>

TimerExpires ==
    \E t \in Task :
        /\ S!Expire(t)
        /\ cause' = [cause EXCEPT ![t] = "timer"]
        /\ UNCHANGED <<taskVars, progVars, refused>>

\* The deadlock error: thrown out of the library call that parked last.  What
\* the call had entered in a queue of waiters stays there.
DeadlockError ==
    /\ S!Refuse
    /\ ready = <<>>
    /\ refused' = TRUE
    /\ GoTo("body")
    /\ UNCHANGED <<taskVars, calls, cause>>

\* A finished task leaves nobody to run: run() returns the error.
DeadlockEndsRun ==
    /\ S!Between
    /\ status[current] = "Done"
    /\ ready = <<>>
    /\ timed = {}
    /\ S!Stop
    /\ UNCHANGED <<taskVars, progVars, histVars>>

Ended == ~up /\ UNCHANGED <<schedVars, taskVars, progVars, histVars>>

TaskSteps ==
    \/ \E t \in Task : Schedule(t) \/ ScheduleError(t) \/ WaitCall(t)
    \/ TaskEntry \/ BodyReturns \/ BodyFails
    \/ WakeWaiter \/ WakeWaitersDone \/ RootReturn \/ MainEnds
    \/ YieldCall \/ SleepCall \/ SleepEnds
    \/ WaitAgain \/ WaitEnds
    \/ WaitCondition \/ WaitConditionEnds
    \/ NotifyCall \/ NotifyNext \/ NotifyEnds

SchedulerSteps ==
    Dispatch \/ TimerExpires \/ DeadlockError \/ DeadlockEndsRun \/ Ended

\* __sjulia_finish_task of a task with no bound channel goes on to the waiters.
ExitUnbound ==
    /\ At("exit")
    /\ GoTo("wake")
    /\ UNCHANGED <<schedVars, taskVars, calls, histVars>>

taskSpecVars == <<schedVars, taskVars, progVars, histVars>>

TaskNext == TaskSteps \/ ExitUnbound \/ SchedulerSteps

TaskSpec == TaskInit /\ [][TaskNext]_taskSpecVars

-----------------------------------------------------------------------------
(* Properties.                                                             *)

Places == {"entry", "body", "exit", "wake", "return", "wait", "condition",
           "notify", "sleep"}

\* Every variable has its type, and a Task object counts as queued only between
\* `schedule` and its entry.
TaskTypeOK ==
    /\ obj \in [Task -> Fields]
    /\ \A t \in Task : obj[t].queued => obj[t] = [NewTask EXCEPT !.queued = TRUE]
    /\ \A t \in Task : waiters[t] \in Seq(Task)
    /\ waitq \in Seq(Task)
    /\ pc \in [Task -> Places]
    /\ on \in [Task -> Task]
    /\ calls \in 0 .. MaxCalls
    /\ refused \in BOOLEAN

Parked(t, where) == status[t] = "Blocked" /\ pc[t] = where

\* No missed completion: a task parked in wait(t) when t is done is about to be
\* woken by the completion of t that is under way (__sjulia_finish_task), even
\* when t was marked as failed by another task while the waiter was parked.
NoMissedExit ==
    \A w \in Task :
        Parked(w, "wait") /\ IsTaskDone(on[w]) =>
            /\ Has(waiters[on[w]], w)
            /\ pc[current] \in {"exit", "wake"} /\ on[current] = on[w]

\* A task that is done stays done: a `schedule` or the late entry of a task that
\* was marked as failed while it was queued never revives it.
DoneIsFinal == [][\A t \in Task : IsTaskDone(t) => IsTaskDone(t)']_obj

\* Until a deadlock error has left a stale entry in some queue of waiters, a
\* task resumes only for what it waits for: wait(t) when t completes, a
\* Condition when it is notified, a sleep when its timer expires.
NoSpuriousWake ==
    ~refused => \A t \in Task :
        status[t] \in {"Runnable", "Running"} =>
            /\ pc[t] = "wait" => cause[t] = "exit"
            /\ pc[t] = "condition" => cause[t] = "notify"
            /\ pc[t] = "sleep" => cause[t] = "timer"

\* A task parked in wait(t) returns from it once t is done, unless the main
\* program ends before its turn: a completion never ends in the deadlock error
\* that ends the run.
WaitReturns ==
    \A w \in Task :
        Parked(w, "wait") /\ IsTaskDone(on[w])
            ~> pc[w] # "wait" \/ (~up /\ current = Main)
=============================================================================
