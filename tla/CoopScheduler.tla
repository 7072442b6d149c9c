---------------------------- MODULE CoopScheduler ----------------------------
(***************************************************************************)
(* What the task scheduler promises to the Julia code above it, without    *)
(* contexts, timers' deadlines or the steps of a switch:                   *)
(*   - one task at a time has control, and keeps it until it gives it up;  *)
(*   - ready tasks get control in the order in which they became ready;    *)
(*   - a task that parked gets ready by a wake, and only a task that went  *)
(*     to sleep also by its timer; a wake ends the sleep for good;         *)
(*   - a switch that is refused gives control back to the task that asked  *)
(*     for it, as if it had never left the running state.                  *)
(* TaskScheduler implements this specification; the models of the Julia    *)
(* library are built from its actions.                                     *)
(***************************************************************************)
EXTENDS TaskQueues

CONSTANTS
    Task,    \* the tasks there may ever be
    Main     \* the task that runs the program's top level

VARIABLES
    status,   \* the state of every task
    ready,    \* the tasks waiting for control, in order
    timed,    \* the parked tasks that have a timer pending
    current,  \* the task with control or, between two tasks, the last one
    idle,     \* is control between two tasks?
    up        \* has run() not returned yet?

vars == <<status, ready, timed, current, idle, up>>

Fresh ==
    /\ status = [t \in Task |-> IF t = Main THEN "Running" ELSE "Absent"]
    /\ ready = <<>>
    /\ timed = {}
    /\ current = Main
    /\ idle = FALSE

Init == Fresh /\ up = TRUE

Active == up /\ ~idle
Between == up /\ idle

-----------------------------------------------------------------------------
(* What the task in control may do.                                        *)

Spawn(t) ==
    /\ Active
    /\ status[t] = "Absent"
    /\ status' = [status EXCEPT ![t] = "Runnable"]
    /\ ready' = Append(ready, t)
    /\ UNCHANGED <<timed, current, idle, up>>

Wake(t) ==
    /\ Active
    /\ status[t] = "Blocked"
    /\ status' = [status EXCEPT ![t] = "Runnable"]
    /\ ready' = Append(ready, t)
    /\ timed' = timed \ {t}
    /\ UNCHANGED <<current, idle, up>>

Leave(newStatus) ==
    /\ Active
    /\ status' = [status EXCEPT ![current] = newStatus]
    /\ idle' = TRUE
    /\ UNCHANGED <<current, up>>

Yield == Leave("Runnable") /\ ready' = Append(ready, current) /\ UNCHANGED timed

Park == Leave("Blocked") /\ UNCHANGED <<ready, timed>>

Sleep == Leave("Blocked") /\ timed' = timed \cup {current} /\ UNCHANGED ready

Finish == current # Main /\ Leave("Done") /\ UNCHANGED <<ready, timed>>

-----------------------------------------------------------------------------
(* What the scheduler does between two tasks.                              *)

Expire(t) ==
    /\ Between
    /\ t \in timed
    /\ status' = [status EXCEPT ![t] = "Runnable"]
    /\ ready' = Append(ready, t)
    /\ timed' = timed \ {t}
    /\ UNCHANGED <<current, idle, up>>

Dispatch ==
    /\ Between
    /\ ready # <<>>
    /\ status' = [status EXCEPT ![Head(ready)] = "Running"]
    /\ ready' = Tail(ready)
    /\ current' = Head(ready)
    /\ idle' = FALSE
    /\ UNCHANGED <<timed, up>>

\* Everyone is blocked for ever, or the first ready task cannot be started.
Refuse ==
    /\ Between
    /\ status[current] # "Done"
    /\ \/ ready = <<>> /\ timed = {}
       \/ ready # <<>> /\ Head(ready) # current
    /\ status' = [status EXCEPT ![current] = "Running"]
    /\ ready' = RetainOther(ready, current)
    /\ timed' = timed \ {current}
    /\ idle' = FALSE
    /\ UNCHANGED <<current, up>>

\* run() returns, with the value of the main task or an error nobody caught.
Stop == up /\ up' = FALSE /\ UNCHANGED <<status, ready, timed, current, idle>>

\* The next input of a live session starts from a fresh table.
Restart == ~up /\ Fresh' /\ up' = TRUE

Next ==
    \/ \E t \in Task : Spawn(t) \/ Wake(t) \/ Expire(t)
    \/ Yield \/ Park \/ Sleep \/ Finish
    \/ Dispatch \/ Refuse
    \/ Stop \/ Restart

Spec == Init /\ [][Next]_vars
=============================================================================
