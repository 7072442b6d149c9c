--------------------------- MODULE JuliaTasksProofs ---------------------------
(***************************************************************************)
(* That no completion of a task is missed and no task resumes for what it  *)
(* did not wait for, for any number of tasks and library calls.  The step  *)
(* lemmas do not say where else a program may be, so that the proofs about *)
(* Channels use them as well.                                              *)
(***************************************************************************)
EXTENDS JuliaTasks, TLAPS

-----------------------------------------------------------------------------
(***************************************************************************)
(* Queues.                                                                 *)
(***************************************************************************)
\* A queue that gets one more entry.
LEMMA QueueAppend ==
    ASSUME NEW T, NEW q \in Seq(T), NEW x \in T
    PROVE  /\ Append(q, x) \in Seq(T) /\ Append(q, x) # <<>>
           /\ \A y : Has(Append(q, x), y) <=> Has(q, y) \/ y = x
           /\ Distinct(q) /\ ~Has(q, x) => Distinct(Append(q, x))
<1> DEFINE n == Len(q)
           r == Append(q, x)
<1>1. /\ n \in Nat /\ DOMAIN q = 1..n
      /\ r \in Seq(T) /\ DOMAIN r = 1..n + 1 /\ r # <<>>
      /\ r[n + 1] = x /\ \A i \in 1..n : r[i] = q[i]
  OBVIOUS
<1>2. \A y : Has(r, y) <=> Has(q, y) \/ y = x
  <2> HIDE DEF n, r
  <2> QED
    BY <1>1 DEF Has
<1>3. Distinct(q) /\ ~Has(q, x) => Distinct(r)
  <2> HIDE DEF n, r
  <2> QED
    BY <1>1 DEF Has, Distinct
<1> QED
  BY <1>1, <1>2, <1>3

\* A queue that loses its first entry.
LEMMA QueueTail ==
    ASSUME NEW T, NEW q \in Seq(T), q # <<>>
    PROVE  /\ Tail(q) \in Seq(T) /\ Head(q) \in T
           /\ \A y : Has(q, y) <=> Has(Tail(q), y) \/ y = Head(q)
           /\ Distinct(q) => Distinct(Tail(q)) /\ ~Has(Tail(q), Head(q))
<1> DEFINE n == Len(q)
           r == Tail(q)
           h == Head(q)
<1>1. /\ n \in Nat \ {0} /\ DOMAIN q = 1..n
      /\ r \in Seq(T) /\ DOMAIN r = 1..n - 1 /\ h \in T
      /\ h = q[1] /\ \A i \in 1..n - 1 : r[i] = q[i + 1]
  OBVIOUS
<1> HIDE DEF n, r, h
<1>2. ASSUME NEW y PROVE Has(q, y) <=> Has(r, y) \/ y = h
  <2>1. Has(q, y) => Has(r, y) \/ y = h
    <3> SUFFICES ASSUME NEW i \in 1..n, q[i] = y, i # 1 PROVE Has(r, y)
      BY <1>1 DEF Has
    <3>1. i - 1 \in 1..n - 1 /\ (i - 1) + 1 = i
      BY <1>1
    <3>2. r[i - 1] = q[i]
      BY <1>1, <3>1
    <3> QED
      BY <1>1, <3>1, <3>2 DEF Has
  <2>2. y = h => Has(q, y)
    BY <1>1 DEF Has
  <2>3. Has(r, y) => Has(q, y)
    <3> SUFFICES ASSUME NEW i \in 1..n - 1, r[i] = y PROVE Has(q, y)
      BY <1>1 DEF Has
    <3>1. i + 1 \in 1..n /\ q[i + 1] = y
      BY <1>1
    <3> QED
      BY <1>1, <3>1 DEF Has
  <2> QED
    BY <2>1, <2>2, <2>3
<1>3. ASSUME Distinct(q) PROVE Distinct(r) /\ ~Has(r, h)
  <2>1. \A i \in 1..n - 1 : i + 1 \in 1..n /\ i + 1 # 1 /\ r[i] = q[i + 1]
    BY <1>1
  <2>2. \A i, j \in 1..n : q[i] = q[j] => i = j
    BY <1>1, <1>3 DEF Distinct
  <2>3. ASSUME NEW i \in 1..n - 1, NEW j \in 1..n - 1, r[i] = r[j] PROVE i = j
    <3>1. i + 1 = j + 1
      BY <2>1, <2>2, <2>3
    <3> QED
      BY <3>1
  <2>4. ASSUME NEW i \in 1..n - 1, r[i] = h PROVE FALSE
    <3>1. i + 1 = 1
      BY <1>1, <2>1, <2>2, <2>4
    <3> QED
      BY <2>1, <3>1
  <2> QED
    BY <1>1, <2>3, <2>4 DEF Has, Distinct
<1> QED
  BY <1>1, <1>2, <1>3 DEF r, h

\* Nothing is in an empty queue.
LEMMA QueueEmpty ==
    ASSUME NEW T
    PROVE  <<>> \in Seq(T) /\ Distinct(<<>>) /\ \A y : ~Has(<<>>, y)
BY DEF Has, Distinct

-----------------------------------------------------------------------------
(***************************************************************************)
(* The scheduler.                                                          *)
(***************************************************************************)
Statuses == {"Absent", "Runnable", "Running", "Blocked", "Done"}

\* The ready queue holds the Runnable tasks, once each; the task in control is
\* the Running one; a timer belongs to a Blocked task.
SchedInv ==
    /\ status \in [Task -> Statuses]
    /\ ready \in Seq(Task) /\ timed \subseteq Task
    /\ current \in Task /\ idle \in BOOLEAN
    /\ Distinct(ready)
    /\ \A t \in Task : status[t] = "Runnable" <=> Has(ready, t)
    /\ \A t \in Task : status[t] = "Running" <=> ~idle /\ t = current
    /\ \A t \in timed : status[t] = "Blocked"
    /\ status[current] # "Absent"

\* A new task is ready.
LEMMA SpawnSched ==
    ASSUME SchedInv, NEW t \in Task, S!Spawn(t)
    PROVE  SchedInv'
BY QueueAppend DEF SchedInv, S!Spawn, S!Active, Statuses

\* A wake makes a Blocked task Runnable and ends its sleep, and does nothing to
\* another one.
LEMMA WakeSched ==
    ASSUME SchedInv, NEW t \in Task, NEW why, S!Active, WakeTask(t, why)
    PROVE  /\ SchedInv' /\ UNCHANGED <<current, idle, up>>
           /\ status' = [status EXCEPT ![t] = IF @ = "Blocked" THEN "Runnable" ELSE @]
           /\ timed' = timed \ {t}
           /\ cause' = IF status[t] = "Blocked" THEN [cause EXCEPT ![t] = why] ELSE cause
<1>1. CASE status[t] = "Blocked"
  <2>1. /\ status' = [status EXCEPT ![t] = "Runnable"] /\ ready' = Append(ready, t)
        /\ timed' = timed \ {t} /\ cause' = [cause EXCEPT ![t] = why]
        /\ UNCHANGED <<current, idle, up>>
    BY <1>1 DEF WakeTask, S!Wake
  <2>2. /\ ready' \in Seq(Task) /\ (~Has(ready, t) => Distinct(ready'))
        /\ \A y : Has(ready', y) <=> Has(ready, y) \/ y = t
    BY <2>1, QueueAppend DEF SchedInv
  <2>3. SchedInv'
    BY <1>1, <2>1, <2>2 DEF SchedInv, Statuses
  <2> QED
    BY <1>1, <2>1, <2>3
<1>2. CASE status[t] # "Blocked"
  <2>1. UNCHANGED <<status, ready, timed, current, idle, up, cause>>
    BY <1>2 DEF WakeTask, schedVars
  <2>2. SchedInv'
    BY <2>1 DEF SchedInv
  <2>3. t \notin timed /\ status = [status EXCEPT ![t] = status[t]]
    BY <1>2 DEF SchedInv
  <2> QED
    BY <1>2, <2>1, <2>2, <2>3
<1> QED
  BY <1>1, <1>2

\* The task in control gives it up.
LEMMA LeaveSched ==
    ASSUME SchedInv, S!Yield \/ S!Park \/ S!Sleep \/ S!Finish
    PROVE  SchedInv' /\ idle'
<1>1. CASE S!Yield
  BY <1>1, QueueAppend DEF SchedInv, S!Yield, S!Leave, S!Active, Statuses
<1>2. CASE S!Park
  BY <1>2 DEF SchedInv, S!Park, S!Leave, S!Active, Statuses
<1>3. CASE S!Sleep
  BY <1>3 DEF SchedInv, S!Sleep, S!Leave, S!Active, Statuses
<1>4. CASE S!Finish
  BY <1>4 DEF SchedInv, S!Finish, S!Leave, S!Active, Statuses
<1> QED
  BY <1>1, <1>2, <1>3, <1>4

\* The scheduler between two tasks.
LEMMA BetweenSched ==
    ASSUME SchedInv,
           \/ S!Dispatch \/ S!Stop \/ \E t \in Task : S!Expire(t)
           \/ S!Refuse /\ ready = <<>>
    PROVE  SchedInv'
<1>1. CASE S!Dispatch
  <2> DEFINE h == Head(ready)
  <2>1. /\ ready \in Seq(Task) /\ ready # <<>> /\ idle /\ ~idle'
        /\ status' = [status EXCEPT ![h] = "Running"] /\ current' = h
        /\ ready' = Tail(ready) /\ timed' = timed
    BY <1>1 DEF SchedInv, S!Dispatch, S!Between
  <2>2. /\ h \in Task /\ ready' \in Seq(Task) /\ Distinct(ready')
        /\ \A t \in Task : Has(ready', t) <=> Has(ready, t) /\ t # h
        /\ Has(ready, h)
    BY <2>1, QueueTail DEF SchedInv
  <2> HIDE DEF h
  <2> QED
    BY <1>1, <2>1, <2>2 DEF SchedInv, S!Dispatch, Statuses
<1>2. CASE S!Stop
  BY <1>2 DEF SchedInv, S!Stop
<1>3. ASSUME NEW t \in Task, S!Expire(t) PROVE SchedInv'
  BY <1>3, QueueAppend DEF SchedInv, S!Expire, S!Between, Statuses
<1>4. CASE S!Refuse /\ ready = <<>>
  <2>1. ready' = <<>>
    <3>1. S!RetainOther(ready, current) = ready
      BY <1>4 DEF S!RetainOther, S!Has
    <3> QED
      BY <1>4, <3>1 DEF S!Refuse
  <2> QED
    BY <1>4, <2>1, QueueEmpty DEF SchedInv, S!Refuse, S!Between, Statuses
<1> QED
  BY <1>1, <1>2, <1>3, <1>4

-----------------------------------------------------------------------------
(***************************************************************************)
(* The inductive invariant.                                                *)
(***************************************************************************)
TypeInv ==
    /\ obj \in [Task -> Fields]
    /\ waiters \in [Task -> Seq(Task)] /\ waitq \in Seq(Task)
    /\ on \in [Task -> Task] /\ calls \in 0..MaxCalls /\ refused \in BOOLEAN
    /\ pc = [t \in Task |-> pc[t]] /\ cause = [t \in Task |-> cause[t]]

\* A program has left its entry only if its object says so; a task that the
\* scheduler does not know, or that is queued, has not.
EntryInv ==
    /\ \A t \in Task :
        /\ obj[t].queued => obj[t].state = "runnable" /\ ~obj[t].started
        /\ pc[t] # "entry" => obj[t].started /\ ~obj[t].queued
        /\ IsTaskDone(t) => obj[t].started
        /\ status[t] = "Absent" => pc[t] = "entry"
    /\ idle => pc[current] # "entry"

\* Where the completion of a task may be; Channels adds the loop of a close.
Completing == ~idle /\ pc[current] \in {"exit", "exit_close", "wake"}

\* Whoever is parked in wait(t) is among the waiters of t, and when t is done its
\* completion is under way.
WaitInv ==
    \A w \in Task : Parked(w, "wait") =>
        /\ Has(waiters[on[w]], w)
        /\ IsTaskDone(on[w]) => Completing /\ on[current] = on[w]

\* Until a deadlock error, every entry of a queue is of a task that is parked
\* there, and the only one.
LiveInv ==
    ~refused =>
        /\ \A t \in Task : Distinct(waiters[t])
        /\ \A t, w \in Task : Has(waiters[t], w) => Parked(w, "wait") /\ on[w] = t
        /\ Distinct(waitq)
        /\ \A w \in Task : Has(waitq, w) => Parked(w, "condition")
        /\ \A t \in timed : Parked(t, "sleep")

TaskInv == SchedInv /\ TypeInv /\ EntryInv /\ WaitInv /\ LiveInv

\* The invariant holds at first.
LEMMA TaskInitInv == TaskInit => TaskInv
<1> SUFFICES ASSUME TaskInit PROVE TaskInv
  OBVIOUS
<1>1. SchedInv
  BY ProgramAssumption, QueueEmpty DEF TaskInit, S!Init, S!Fresh, SchedInv, Statuses
<1>2. TypeInv
  <2>1. obj \in [Task -> Fields]
    BY ProgramAssumption DEF TaskInit, NewTask, Fields
  <2>2. waiters \in [Task -> Seq(Task)] /\ waitq \in Seq(Task)
    BY QueueEmpty DEF TaskInit
  <2>3. on \in [Task -> Task] /\ refused \in BOOLEAN
    BY ProgramAssumption DEF TaskInit
  <2>4. calls \in 0..MaxCalls
    BY ProgramAssumption DEF TaskInit
  <2>5. pc = [t \in Task |-> pc[t]] /\ cause = [t \in Task |-> cause[t]]
    BY DEF TaskInit
  <2> QED
    BY <2>1, <2>2, <2>3, <2>4, <2>5 DEF TypeInv
<1>3. EntryInv
  BY ProgramAssumption DEF TaskInit, S!Init, S!Fresh, EntryInv, IsTaskDone, NewTask
<1>4. WaitInv /\ LiveInv
  BY ProgramAssumption, QueueEmpty DEF TaskInit, S!Init, S!Fresh, WaitInv, LiveInv, Parked
<1> QED
  BY <1>1, <1>2, <1>3, <1>4 DEF TaskInv

-----------------------------------------------------------------------------
(***************************************************************************)
(* Three kinds of steps: nobody parks or is woken, one task is woken, the  *)
(* task in control parks.                                                  *)
(***************************************************************************)
\* What those who are blocked do not notice: where they are, what they wait for.
Undisturbed == \A t \in Task : status[t] = "Blocked" => pc'[t] = pc[t] /\ on'[t] = on[t]

\* A step that leaves the queues of waiters alone.  What is done after it was
\* done before, and its completion goes on or has woken everybody; or its
\* completion starts.
LEMMA GoOn ==
    ASSUME SchedInv, TypeInv, WaitInv, LiveInv, Undisturbed, timed' = timed,
           \A t \in Task : status'[t] = "Blocked" <=> status[t] = "Blocked",
           \A t \in Task : IsTaskDone(t)' =>
               \/ Completing' /\ on'[current'] = t
               \/ IsTaskDone(t) /\ (Completing /\ on[current] = t => waiters[t] = <<>>),
           UNCHANGED <<waiters, waitq, refused>>
    PROVE  WaitInv' /\ LiveInv'
<1>1. \A w \in Task : \A p : Parked(w, p)' <=> Parked(w, p)
  BY DEF Parked, Undisturbed
<1>2. \A w \in Task : \A p : Parked(w, p) => on'[w] = on[w]
  BY DEF Parked, Undisturbed
<1>3. WaitInv'
  BY <1>1, <1>2, QueueEmpty DEF WaitInv, TypeInv
<1>4. LiveInv'
  BY <1>1, <1>2 DEF LiveInv, SchedInv
<1> QED
  BY <1>3, <1>4

\* A step in which a task is woken: only its own entries may go.
LEMMA WakeOther ==
    ASSUME SchedInv, TypeInv, WaitInv, LiveInv, Undisturbed, NEW h \in Task,
           status' = [status EXCEPT ![h] = IF @ = "Blocked" THEN "Runnable" ELSE @],
           timed' = timed \ {h},
           Completing => Completing' /\ on'[current'] = on[current],
           UNCHANGED <<obj, refused>>,
           \A t \in Task : \A w \in Task \ {h} : Has(waiters'[t], w) <=> Has(waiters[t], w),
           \A w \in Task \ {h} : Has(waitq', w) <=> Has(waitq, w),
           ~refused => /\ \A t \in Task : Distinct(waiters'[t]) /\ ~Has(waiters'[t], h)
                       /\ Distinct(waitq') /\ ~Has(waitq', h)
    PROVE  WaitInv' /\ LiveInv'
<1>1. status \in [Task -> Statuses]
  BY DEF SchedInv
<1>2. \A w \in Task : \A p : Parked(w, p)' <=> Parked(w, p) /\ w # h
  BY <1>1 DEF Parked, Undisturbed
<1>3. \A w \in Task : \A p : Parked(w, p) => on'[w] = on[w]
  BY DEF Parked, Undisturbed
<1>4. \A t \in Task : IsTaskDone(t)' <=> IsTaskDone(t)
  BY DEF IsTaskDone
<1>5. WaitInv'
  BY <1>2, <1>3, <1>4 DEF WaitInv, TypeInv
<1>6. LiveInv'
  BY <1>2, <1>3 DEF LiveInv, SchedInv
<1> QED
  BY <1>5, <1>6

\* The task in control parks, with an entry where it waits and nowhere else.
LEMMA ParkSelf ==
    ASSUME SchedInv, TypeInv, WaitInv, LiveInv, Undisturbed, ~Completing,
           status' = [status EXCEPT ![current] = "Blocked"], status[current] = "Running",
           timed' \subseteq timed \cup {current}, current \in timed' => pc'[current] = "sleep",
           UNCHANGED <<obj, refused, current>>,
           \A t \in Task : \A w \in Task \ {current} : Has(waiters'[t], w) <=> Has(waiters[t], w),
           \A w \in Task \ {current} : Has(waitq', w) <=> Has(waitq, w),
           pc'[current] = "wait" => /\ Has(waiters'[on'[current]], current)
                                    /\ ~IsTaskDone(on'[current]) /\ on'[current] \in Task,
           ~refused =>
               /\ \A t \in Task :
                     /\ Distinct(waiters'[t])
                     /\ Has(waiters'[t], current) => pc'[current] = "wait" /\ on'[current] = t
               /\ Distinct(waitq') /\ (Has(waitq', current) => pc'[current] = "condition")
    PROVE  WaitInv' /\ LiveInv'
<1>1. status \in [Task -> Statuses] /\ current \in Task
  BY DEF SchedInv
<1>2. \A w \in Task \ {current} : \A p : Parked(w, p)' <=> Parked(w, p)
  BY <1>1 DEF Parked, Undisturbed
<1>3. \A w \in Task \ {current} : \A p : Parked(w, p) => on'[w] = on[w]
  BY DEF Parked, Undisturbed
<1>4. \A p : (status'[current] = "Blocked" /\ pc'[current] = p) <=> pc'[current] = p
  BY <1>1
<1>5. \A t \in Task : IsTaskDone(t)' <=> IsTaskDone(t)
  BY DEF IsTaskDone
<1>6. WaitInv'
  BY <1>1, <1>2, <1>3, <1>4, <1>5, ZenonT(60) DEF WaitInv, TypeInv, Parked
<1>7. ASSUME ~refused PROVE LiveInv'
  <2>1. \A t, w \in Task : Has(waiters'[t], w) => Parked(w, "wait")' /\ on'[w] = t
    BY <1>1, <1>2, <1>3, <1>4, <1>7 DEF LiveInv, Parked
  <2>2. \A w \in Task : Has(waitq', w) => Parked(w, "condition")'
    BY <1>1, <1>2, <1>4, <1>7 DEF LiveInv, Parked
  <2>3. \A t \in timed' : Parked(t, "sleep")'
    BY <1>1, <1>2, <1>4, <1>7 DEF LiveInv, SchedInv, Parked
  <2> QED
    BY <1>7, <2>1, <2>2, <2>3 DEF LiveInv
<1>8. LiveInv'
  BY <1>7 DEF LiveInv
<1> QED
  BY <1>6, <1>8

-----------------------------------------------------------------------------
(***************************************************************************)
(* Steps in which the program of the current task goes on in another place.*)
(***************************************************************************)
\* The program of the current task is at place p, and has made a call or not.
Moves(p) ==
    /\ pc' = [pc EXCEPT ![current] = p] /\ p # "entry" /\ pc[current] # "entry"
    /\ calls' \in 0..MaxCalls
    /\ UNCHANGED <<obj, refused>>

\* A library call, and a step inside of one.
LEMMA CallMoves ==
    ASSUME TypeInv, NEW name, NEW p, Call(name, p), p # "entry", UNCHANGED <<obj, refused>>
    PROVE  Moves(p) /\ S!Active /\ pc[current] = "body" /\ ~Completing
<1>1. calls \in 0..MaxCalls /\ calls > 0 /\ calls' = calls - 1 /\ MaxCalls \in Nat
  BY ProgramAssumption DEF TypeInv, Call
<1>2. calls' \in 0..MaxCalls
  BY <1>1
<1> QED
  BY <1>2 DEF Call, At, GoTo, Moves, Completing

\* Where nobody is started or marked as done, EntryInv is about the place only.
LEMMA MovesEntry ==
    ASSUME SchedInv, TypeInv, EntryInv, NEW p, Moves(p), ~idle, current' = current,
           \A t \in Task : status'[t] = "Absent" => status[t] = "Absent"
    PROVE  EntryInv'
<1>1. current \in Task /\ status[current] # "Absent"
  BY DEF SchedInv
<1>2. \A t \in Task : pc'[t] = IF t = current THEN p ELSE pc[t]
  BY <1>1 DEF Moves, TypeInv
<1>3. \A t \in Task : IsTaskDone(t)' <=> IsTaskDone(t)
  BY DEF Moves, IsTaskDone
<1>4. obj' = obj /\ p # "entry" /\ pc[current] # "entry"
  BY DEF Moves
<1>5. \A t \in Task : status'[t] = "Absent" => pc'[t] = "entry"
  BY <1>1, <1>2, <1>4 DEF EntryInv, SchedInv
<1>6. \A t \in Task : pc'[t] # "entry" => obj[t].started /\ ~obj[t].queued
  BY <1>1, <1>2, <1>4 DEF EntryInv
<1> QED
  BY <1>1, <1>2, <1>3, <1>4, <1>5, <1>6 DEF EntryInv

\* Places are typed like before.
LEMMA MovesType ==
    ASSUME TypeInv, NEW p, Moves(p), waiters' \in [Task -> Seq(Task)], waitq' \in Seq(Task),
           on' \in [Task -> Task], cause' = [t \in Task |-> cause'[t]]
    PROVE  TypeInv'
<1>1. pc' = [t \in Task |-> pc'[t]]
  BY DEF Moves, TypeInv
<1> QED
  BY <1>1 DEF Moves, TypeInv

\* Nothing but the place changes.  A completion that ends here has no waiters left.
LEMMA PlaceStep ==
    ASSUME TaskInv, S!Active, NEW p, Moves(p), UNCHANGED <<schedVars, taskVars, cause>>,
           Completing => Completing' \/ waiters[on[current]] = <<>>
    PROVE  TaskInv'
<1>0. SchedInv /\ TypeInv /\ EntryInv /\ WaitInv /\ LiveInv
  BY DEF TaskInv
<1>1. UNCHANGED <<status, ready, timed, current, idle, up, waiters, waitq, on, obj, cause, refused>>
      /\ ~idle
  BY DEF schedVars, taskVars, Moves, S!Active
<1>2. SchedInv'
  BY <1>0, <1>1 DEF SchedInv
<1>3. TypeInv'
  BY <1>0, <1>1, MovesType DEF TypeInv
<1>4. EntryInv'
  BY <1>0, <1>1, MovesEntry DEF Moves
<1>5. Undisturbed
  BY <1>0, <1>1 DEF Undisturbed, Moves, SchedInv, TypeInv
<1>6. \A t \in Task : IsTaskDone(t)' <=> IsTaskDone(t)
  BY <1>1 DEF IsTaskDone
<1>7. WaitInv' /\ LiveInv'
  BY <1>0, <1>1, <1>5, <1>6, GoOn
<1> QED
  BY <1>2, <1>3, <1>4, <1>7 DEF TaskInv

\* A task is woken that waits for neither a task nor a Condition.
LEMMA WakeStep ==
    ASSUME TaskInv, S!Active, NEW p, Moves(p), UNCHANGED taskVars, NEW why,
           NEW h \in Task, WakeTask(h, why), Completing => Completing',
           ~refused => ~Parked(h, "wait") /\ ~Parked(h, "condition")
    PROVE  TaskInv'
<1>0. SchedInv /\ TypeInv /\ EntryInv /\ WaitInv /\ LiveInv
  BY DEF TaskInv
<1>1. UNCHANGED <<waiters, waitq, on, obj, refused>> /\ ~idle
  BY DEF taskVars, Moves, S!Active
<1>2. /\ SchedInv' /\ UNCHANGED <<current, idle, up>>
      /\ status' = [status EXCEPT ![h] = IF @ = "Blocked" THEN "Runnable" ELSE @]
      /\ timed' = timed \ {h}
      /\ cause' = IF status[h] = "Blocked" THEN [cause EXCEPT ![h] = why] ELSE cause
  BY <1>0, WakeSched
<1>3. TypeInv'
  <2>1. cause' = [t \in Task |-> cause'[t]]
    BY <1>0, <1>2 DEF TypeInv
  <2> QED
    BY <1>0, <1>1, <2>1, MovesType DEF TypeInv
<1>4. EntryInv'
  <2>1. \A t \in Task : status'[t] = "Absent" => status[t] = "Absent"
    BY <1>0, <1>2 DEF SchedInv
  <2> QED
    BY <1>0, <1>1, <1>2, <2>1, MovesEntry DEF Moves
<1>5. Undisturbed
  BY <1>0, <1>1, <1>2 DEF Undisturbed, Moves, SchedInv, TypeInv
<1>6. ~refused => (\A t \in Task : ~Has(waiters[t], h)) /\ ~Has(waitq, h)
                  /\ (\A t \in Task : Distinct(waiters[t])) /\ Distinct(waitq)
  BY <1>0 DEF LiveInv
<1>7. WaitInv' /\ LiveInv'
  BY <1>0, <1>1, <1>2, <1>5, <1>6, WakeOther
<1> QED
  BY <1>2, <1>3, <1>4, <1>7 DEF TaskInv

\* The current task parks where it waits for neither a task nor a Condition.
LEMMA ParkStep ==
    ASSUME TaskInv, S!Active, NEW p, Moves(p), UNCHANGED taskVars, ~Completing,
           p \notin {"wait", "condition"}, ParkCurrent
    PROVE  TaskInv'
<1>0. SchedInv /\ TypeInv /\ EntryInv /\ WaitInv /\ LiveInv
  BY DEF TaskInv
<1>1. /\ UNCHANGED <<waiters, waitq, on, obj, refused, current, timed>> /\ ~idle /\ idle'
      /\ status' = [status EXCEPT ![current] = "Blocked"]
      /\ cause' = [cause EXCEPT ![current] = "none"] /\ S!Park
  BY DEF taskVars, Moves, S!Active, ParkCurrent, S!Park, S!Leave
<1>2. SchedInv' /\ status[current] = "Running" /\ current \in Task /\ current \notin timed
  BY <1>0, <1>1, LeaveSched DEF SchedInv
<1>3. TypeInv'
  <2>1. cause' = [t \in Task |-> cause'[t]]
    BY <1>0, <1>1 DEF TypeInv
  <2> QED
    BY <1>0, <1>1, <2>1, MovesType DEF TypeInv
<1>4. EntryInv'
  <2>1. \A t \in Task : status'[t] = "Absent" => status[t] = "Absent"
    BY <1>0, <1>1 DEF SchedInv
  <2> QED
    BY <1>0, <1>1, <2>1, MovesEntry DEF Moves
<1>5. Undisturbed /\ pc'[current] = p
  BY <1>0, <1>1, <1>2 DEF Undisturbed, Moves, SchedInv, TypeInv
<1>6. ~refused => /\ \A t \in Task : Distinct(waiters[t]) /\ ~Has(waiters[t], current)
                  /\ Distinct(waitq) /\ ~Has(waitq, current)
  BY <1>0, <1>2 DEF LiveInv, Parked
<1>7. WaitInv' /\ LiveInv'
  BY <1>0, <1>1, <1>2, <1>5, <1>6, ParkSelf
<1> QED
  BY <1>2, <1>3, <1>4, <1>7 DEF TaskInv

-----------------------------------------------------------------------------
(***************************************************************************)
(* The actions.                                                            *)
(***************************************************************************)
\* schedule makes a task ready that has not entered its function.
LEMMA ScheduleInv ==
    ASSUME TaskInv, NEW t \in Task, Schedule(t)
    PROVE  TaskInv'
<1>0. SchedInv /\ TypeInv /\ EntryInv /\ WaitInv /\ LiveInv
  BY DEF TaskInv
<1>1. /\ SchedInv' /\ ~idle /\ ~idle' /\ current' = current /\ timed' = timed
      /\ status[t] = "Absent" /\ status' = [status EXCEPT ![t] = "Runnable"]
  BY <1>0, SpawnSched DEF Schedule, S!Spawn, S!Active
<1>2. /\ pc[current] = "body" /\ pc' = [pc EXCEPT ![current] = "body"]
      /\ obj[t] = NewTask /\ obj' = [obj EXCEPT ![t].queued = TRUE]
      /\ calls > 0 /\ calls' = calls - 1
      /\ UNCHANGED <<waiters, waitq, on, cause, refused>>
  BY DEF Schedule, Call, At, GoTo, histVars
<1>3. calls' \in 0..MaxCalls
  BY <1>0, <1>2, ProgramAssumption DEF TypeInv
<1>4. pc' = pc /\ current \in Task
  BY <1>0, <1>2 DEF TypeInv, SchedInv
<1>5. /\ obj'[t] = [state |-> "runnable", started |-> FALSE, queued |-> TRUE]
      /\ \A u \in Task \ {t} : obj'[u] = obj[u]
  <2>1. obj'[t] = [obj[t] EXCEPT !.queued = TRUE] /\ \A u \in Task \ {t} : obj'[u] = obj[u]
    BY <1>0, <1>2 DEF TypeInv
  <2>2. [obj[t] EXCEPT !.queued = TRUE] = [NewTask EXCEPT !.queued = TRUE]
    BY <1>2
  <2> QED
    BY <2>1, <2>2 DEF NewTask
<1>6. obj' \in [Task -> Fields]
  <2>1. \A u \in Task : obj'[u] \in Fields
    <3>1. obj'[t] \in Fields
      BY <1>5 DEF Fields
    <3> QED
      BY <1>0, <1>5, <3>1 DEF TypeInv
  <2>2. obj' = [u \in Task |-> obj'[u]]
    BY <1>0, <1>2 DEF TypeInv
  <2> QED
    BY <2>1, <2>2
<1>7. TypeInv'
  BY <1>0, <1>2, <1>3, <1>4, <1>6 DEF TypeInv
<1>8. \A u \in Task : IsTaskDone(u)' <=> IsTaskDone(u)
  BY <1>2, <1>5 DEF IsTaskDone, NewTask
<1>9. EntryInv'
  <2>1. pc[t] = "entry"
    BY <1>0, <1>1 DEF EntryInv
  <2>2. \A u \in Task : status'[u] = "Absent" => status[u] = "Absent"
    BY <1>0, <1>1 DEF SchedInv
  <2>3. ~IsTaskDone(t)
    BY <1>2 DEF IsTaskDone, NewTask
  <2> QED
    BY <1>0, <1>1, <1>4, <1>5, <1>8, <2>1, <2>2, <2>3 DEF EntryInv
<1>10. WaitInv' /\ LiveInv'
  <2>1. Undisturbed
    BY <1>2, <1>4 DEF Undisturbed
  <2>2. \A u \in Task : status'[u] = "Blocked" <=> status[u] = "Blocked"
    BY <1>0, <1>1 DEF SchedInv
  <2>3. ~Completing
    BY <1>2 DEF Completing
  <2> QED
    BY <1>0, <1>1, <1>2, <1>8, <2>1, <2>2, <2>3, GoOn
<1> QED
  BY <1>1, <1>7, <1>9, <1>10 DEF TaskInv

\* The object of a task changes, and its completion starts.
LEMMA CompletionStarts ==
    ASSUME TaskInv, S!Active, pc[current] = "body", NEW t \in Task,
           NEW o \in Fields, o.state # "runnable", o.started, ~o.queued,
           obj' = [obj EXCEPT ![t] = o], on' = [on EXCEPT ![current] = t],
           pc' = [pc EXCEPT ![current] = "exit"], calls' \in 0..MaxCalls,
           UNCHANGED <<schedVars, waiters, waitq, histVars>>
    PROVE  TaskInv'
<1>0. SchedInv /\ TypeInv /\ EntryInv /\ WaitInv /\ LiveInv
  BY DEF TaskInv
<1>1. /\ ~idle /\ UNCHANGED <<status, ready, timed, current, idle, up, waiters, waitq, cause, refused>>
  BY DEF schedVars, histVars, S!Active
<1>2. SchedInv' /\ current \in Task
  BY <1>0, <1>1 DEF SchedInv
<1>3. /\ on' \in [Task -> Task] /\ on'[current] = t
      /\ \A u \in Task \ {current} : on'[u] = on[u] /\ pc'[u] = pc[u]
      /\ pc'[current] = "exit" /\ pc' = [u \in Task |-> pc'[u]]
  BY <1>0, <1>2 DEF TypeInv
<1>4. /\ obj' \in [Task -> Fields] /\ obj'[t] = o
      /\ \A u \in Task \ {t} : obj'[u] = obj[u]
  BY <1>0 DEF TypeInv
<1>5. TypeInv'
  BY <1>0, <1>1, <1>3, <1>4 DEF TypeInv
<1>6. EntryInv'
  <2>1. status[current] # "Absent"
    BY <1>0, <1>1 DEF SchedInv
  <2>2. \A u \in Task : pc'[u] # "entry" => pc[u] # "entry" 
    BY <1>3
  <2>3. ~idle' /\ \A u \in Task : status'[u] = "Absent" => pc'[u] = "entry"
    BY <1>0, <1>1, <1>3, <2>1 DEF EntryInv
  <2>4. ASSUME NEW u \in Task
        PROVE  /\ obj'[u].queued => obj'[u].state = "runnable" /\ ~obj'[u].started
               /\ pc'[u] # "entry" => obj'[u].started /\ ~obj'[u].queued
               /\ IsTaskDone(u)' => obj'[u].started
    BY <1>0, <1>4, <2>2 DEF EntryInv, IsTaskDone
  <2> QED
    BY <2>3, <2>4 DEF EntryInv
<1>7. Undisturbed
  BY <1>0, <1>1, <1>3 DEF Undisturbed, SchedInv
<1>8. \A u \in Task : IsTaskDone(u)' => u = t \/ IsTaskDone(u)
  BY <1>4 DEF IsTaskDone
<1>9. ~Completing /\ Completing' /\ on'[current'] = t
  BY <1>1, <1>3 DEF Completing
<1>10. WaitInv' /\ LiveInv'
  BY <1>0, <1>1, <1>7, <1>8, <1>9, GoOn
<1> QED
  BY <1>2, <1>5, <1>6, <1>10 DEF TaskInv

\* A task that is marked as failed has its completion run by the one that did it.
LEMMA ScheduleErrorInv ==
    ASSUME TaskInv, NEW t \in Task, ScheduleError(t)
    PROVE  TaskInv'
<1> DEFINE o == [state |-> "failed", started |-> TRUE, queued |-> FALSE]
<1>1. o \in Fields /\ o.state # "runnable" /\ o.started /\ ~o.queued
  BY DEF Fields
<1>2. /\ S!Active /\ pc[current] = "body" /\ pc' = [pc EXCEPT ![current] = "exit"]
      /\ obj' = [obj EXCEPT ![t] = o] /\ on' = [on EXCEPT ![current] = t]
      /\ UNCHANGED <<schedVars, waiters, waitq, histVars>>
      /\ calls > 0 /\ calls' = calls - 1
  BY DEF ScheduleError, Call, At, GoTo
<1>3. calls' \in 0..MaxCalls
  BY <1>2, ProgramAssumption DEF TaskInv, TypeInv
<1> HIDE DEF o
<1> QED
  BY <1>1, <1>2, <1>3, CompletionStarts

\* The function of a task returns or throws.
LEMMA BodyEndsInv ==
    ASSUME TaskInv, NEW result \in {"done", "failed"}, BodyEnds(result)
    PROVE  TaskInv'
<1> DEFINE o == [obj[current] EXCEPT !.state = result]
<1>1. obj \in [Task -> Fields] /\ current \in Task /\ calls \in 0..MaxCalls
  BY DEF TaskInv, TypeInv, SchedInv
<1>2. /\ S!Active /\ pc[current] = "body" /\ pc' = [pc EXCEPT ![current] = "exit"]
      /\ obj' = [obj EXCEPT ![current] = o] /\ on' = [on EXCEPT ![current] = current]
      /\ UNCHANGED <<schedVars, waiters, waitq, histVars>> /\ calls' = calls
  BY DEF BodyEnds, At, GoTo
<1>3. obj[current].started /\ ~obj[current].queued
  BY <1>1, <1>2 DEF TaskInv, EntryInv
<1>4. o \in Fields /\ o.state # "runnable" /\ o.started /\ ~o.queued
  BY <1>1, <1>3 DEF Fields
<1> HIDE DEF o
<1> QED
  BY <1>1, <1>2, <1>4, CompletionStarts

\* A task enters its function, unless it was marked as failed before its turn.
LEMMA TaskEntryInv ==
    ASSUME TaskInv, TaskEntry
    PROVE  TaskInv'
<1>0. SchedInv /\ TypeInv /\ EntryInv /\ WaitInv /\ LiveInv
  BY DEF TaskInv
<1>1. /\ ~idle /\ UNCHANGED <<status, ready, timed, current, idle, up>>
      /\ UNCHANGED <<waiters, waitq, on, calls, cause, refused>> /\ pc[current] = "entry"
  BY DEF TaskEntry, At, schedVars, histVars, S!Active
<1>2. SchedInv' /\ current \in Task
  BY <1>0, <1>1 DEF SchedInv
<1>3. PICK p \in {"return", "body"} :
         /\ pc' = [pc EXCEPT ![current] = p]
         /\ \/ p = "return" /\ IsTaskDone(current) /\ obj' = obj
            \/ /\ p = "body" /\ ~IsTaskDone(current)
               /\ obj' = [obj EXCEPT ![current].started = TRUE, ![current].queued = FALSE]
  BY DEF TaskEntry, GoTo, RunFunction
<1>4. /\ pc'[current] = p /\ pc' = [u \in Task |-> pc'[u]]
      /\ \A u \in Task \ {current} : pc'[u] = pc[u]
  BY <1>0, <1>2, <1>3 DEF TypeInv
<1>5. /\ obj' \in [Task -> Fields]
      /\ \A u \in Task \ {current} : obj'[u] = obj[u]
      /\ obj'[current].state = obj[current].state
  <2> DEFINE o == [obj[current] EXCEPT !.started = TRUE, !.queued = FALSE]
  <2>1. CASE p = "return"
    BY <1>0, <1>3, <2>1 DEF TypeInv
  <2>2. CASE p = "body"
    <3>1. obj' = [obj EXCEPT ![current] = o]
      BY <1>0, <1>2, <1>3, <2>2 DEF TypeInv
    <3>2. o \in Fields /\ o.state = obj[current].state
      BY <1>0, <1>2 DEF TypeInv, Fields
    <3> HIDE DEF o
    <3> QED
      BY <1>0, <1>2, <3>1, <3>2 DEF TypeInv
  <2> QED
    BY <2>1, <2>2
<1>6. obj'[current].started /\ ~obj'[current].queued
  <2>1. CASE p = "return"
    <3>1. IsTaskDone(current) /\ obj' = obj
      BY <1>3, <2>1
    <3> QED
      BY <1>0, <1>2, <3>1 DEF EntryInv, IsTaskDone
  <2>2. CASE p = "body"
    BY <1>0, <1>2, <1>3, <2>2 DEF TypeInv, Fields
  <2> QED
    BY <2>1, <2>2
<1>7. TypeInv'
  BY <1>0, <1>1, <1>4, <1>5 DEF TypeInv
<1>8. \A u \in Task : IsTaskDone(u)' <=> IsTaskDone(u)
  BY <1>5 DEF IsTaskDone
<1>9. EntryInv'
  <2>1. status[current] # "Absent"
    BY <1>0 DEF SchedInv
  <2> QED
    BY <1>0, <1>1, <1>2, <1>4, <1>5, <1>6, <1>8, <2>1 DEF EntryInv
<1>10. WaitInv' /\ LiveInv'
  <2>1. Undisturbed
    BY <1>0, <1>1, <1>4 DEF Undisturbed, SchedInv
  <2>2. ~Completing
    BY <1>1 DEF Completing
  <2> QED
    BY <1>0, <1>1, <1>8, <2>1, <2>2, GoOn
<1> QED
  BY <1>2, <1>7, <1>9, <1>10 DEF TaskInv

\* A completion wakes its waiters one after the other.
LEMMA WakeWaiterInv ==
    ASSUME TaskInv, WakeWaiter
    PROVE  TaskInv'
<1>0. SchedInv /\ TypeInv /\ EntryInv /\ WaitInv /\ LiveInv
  BY DEF TaskInv
<1> DEFINE u == on[current]
           h == Head(waiters[u])
<1>1. /\ S!Active /\ ~idle /\ pc[current] = "wake" /\ waiters[u] # <<>>
      /\ waiters' = [waiters EXCEPT ![u] = Tail(waiters[u])] /\ WakeTask(h, "exit")
      /\ UNCHANGED <<obj, waitq, on, pc, calls, refused>>
  BY DEF WakeWaiter, At, S!Active, progVars
<1>2. current \in Task /\ u \in Task /\ waiters[u] \in Seq(Task)
  BY <1>0 DEF SchedInv, TypeInv
<1>3. /\ h \in Task /\ Tail(waiters[u]) \in Seq(Task) /\ Has(waiters[u], h)
      /\ \A w : Has(waiters[u], w) <=> Has(Tail(waiters[u]), w) \/ w = h
      /\ Distinct(waiters[u]) => Distinct(Tail(waiters[u])) /\ ~Has(Tail(waiters[u]), h)
  BY <1>1, <1>2, QueueTail
<1> HIDE DEF u, h
<1>4. /\ SchedInv' /\ UNCHANGED <<current, idle, up>>
      /\ status' = [status EXCEPT ![h] = IF @ = "Blocked" THEN "Runnable" ELSE @]
      /\ timed' = timed \ {h}
      /\ cause' = IF status[h] = "Blocked" THEN [cause EXCEPT ![h] = "exit"] ELSE cause
  BY <1>0, <1>1, <1>3, WakeSched
<1>5. /\ waiters' \in [Task -> Seq(Task)] /\ waiters'[u] = Tail(waiters[u])
      /\ \A t \in Task \ {u} : waiters'[t] = waiters[t]
  BY <1>0, <1>1, <1>2, <1>3 DEF TypeInv
<1>6. TypeInv'
  <2>1. cause' = [t \in Task |-> cause'[t]]
    BY <1>0, <1>4 DEF TypeInv
  <2> QED
    BY <1>0, <1>1, <1>5, <2>1 DEF TypeInv
<1>7. EntryInv'
  <2>1. \A t \in Task : status'[t] = "Absent" => status[t] = "Absent"
    BY <1>0, <1>3, <1>4 DEF SchedInv
  <2>2. \A t \in Task : IsTaskDone(t)' <=> IsTaskDone(t)
    BY <1>1 DEF IsTaskDone
  <2> QED
    BY <1>0, <1>1, <1>4, <2>1, <2>2 DEF EntryInv
<1>8. Undisturbed
  BY <1>1 DEF Undisturbed
<1>9. Completing /\ Completing' /\ on'[current'] = on[current]
  BY <1>1, <1>4 DEF Completing
<1>10. \A t \in Task : \A w \in Task \ {h} : Has(waiters'[t], w) <=> Has(waiters[t], w)
  BY <1>3, <1>5
<1>11. ~refused => /\ \A t \in Task : Distinct(waiters'[t]) /\ ~Has(waiters'[t], h)
                   /\ Distinct(waitq') /\ ~Has(waitq', h)
  <2> SUFFICES ASSUME ~refused
               PROVE  /\ \A t \in Task : Distinct(waiters'[t]) /\ ~Has(waiters'[t], h)
                      /\ Distinct(waitq') /\ ~Has(waitq', h)
    OBVIOUS
  <2>1. Parked(h, "wait") /\ on[h] = u
    BY <1>0, <1>2, <1>3 DEF LiveInv
  <2>2. ~Has(waitq, h) /\ \A t \in Task \ {u} : ~Has(waiters[t], h)
    BY <1>0, <1>3, <2>1 DEF LiveInv, Parked
  <2> QED
    BY <1>0, <1>1, <1>2, <1>3, <1>5, <2>2 DEF LiveInv
<1>12. WaitInv' /\ LiveInv'
  BY <1>0, <1>1, <1>3, <1>4, <1>8, <1>9, <1>10, <1>11, WakeOther
<1> QED
  BY <1>4, <1>6, <1>7, <1>12 DEF TaskInv

\* notify wakes the first task of the queue, with a call or inside of one.
LEMMA NotifyInv ==
    ASSUME TaskInv, S!Active, NotifyHead, NEW p, Moves(p), ~Completing
    PROVE  TaskInv'
<1>0. SchedInv /\ TypeInv /\ EntryInv /\ WaitInv /\ LiveInv
  BY DEF TaskInv
<1> DEFINE h == Head(waitq)
<1>1. /\ ~idle /\ waitq # <<>> /\ waitq' = Tail(waitq) /\ WakeTask(h, "notify")
      /\ UNCHANGED <<obj, waiters, on, refused>>
  BY DEF NotifyHead, S!Active
<1>2. waitq \in Seq(Task) /\ current \in Task
  BY <1>0 DEF TypeInv, SchedInv
<1>3. /\ h \in Task /\ waitq' \in Seq(Task) /\ Has(waitq, h)
      /\ \A w : Has(waitq, w) <=> Has(waitq', w) \/ w = h
      /\ Distinct(waitq) => Distinct(waitq') /\ ~Has(waitq', h)
  BY <1>1, <1>2, QueueTail
<1> HIDE DEF h
<1>4. /\ SchedInv' /\ UNCHANGED <<current, idle, up>>
      /\ status' = [status EXCEPT ![h] = IF @ = "Blocked" THEN "Runnable" ELSE @]
      /\ timed' = timed \ {h}
      /\ cause' = IF status[h] = "Blocked" THEN [cause EXCEPT ![h] = "notify"] ELSE cause
  BY <1>0, <1>1, <1>3, WakeSched
<1>5. TypeInv'
  <2>1. cause' = [t \in Task |-> cause'[t]]
    BY <1>0, <1>4 DEF TypeInv
  <2> QED
    BY <1>0, <1>1, <1>3, <2>1, MovesType DEF TypeInv
<1>6. EntryInv'
  <2>1. \A t \in Task : status'[t] = "Absent" => status[t] = "Absent"
    BY <1>0, <1>3, <1>4 DEF SchedInv
  <2> QED
    BY <1>0, <1>1, <1>4, <2>1, MovesEntry
<1>7. Undisturbed
  BY <1>0, <1>1 DEF Undisturbed, Moves, SchedInv, TypeInv
<1>8. ~refused => /\ \A t \in Task : Distinct(waiters'[t]) /\ ~Has(waiters'[t], h)
                  /\ Distinct(waitq') /\ ~Has(waitq', h)
  <2> SUFFICES ASSUME ~refused
               PROVE  /\ \A t \in Task : Distinct(waiters'[t]) /\ ~Has(waiters'[t], h)
                      /\ Distinct(waitq') /\ ~Has(waitq', h)
    OBVIOUS
  <2>1. Parked(h, "condition")
    BY <1>0, <1>3 DEF LiveInv
  <2>2. \A t \in Task : ~Has(waiters[t], h)
    BY <1>0, <1>3, <2>1 DEF LiveInv, Parked
  <2> QED
    BY <1>0, <1>1, <1>3, <2>2 DEF LiveInv
<1>9. WaitInv' /\ LiveInv'
  BY <1>0, <1>1, <1>3, <1>4, <1>7, <1>8, WakeOther
<1> QED
  BY <1>4, <1>5, <1>6, <1>9 DEF TaskInv

\* wait(t), at the call and after every wake-up: t is not done, and an entry is
\* made before the task parks.
LEMMA WaitParks ==
    ASSUME TaskInv, S!Active, NEW t \in Task, ParkInWait(t), Moves("wait"), ~Completing,
           on' = [on EXCEPT ![current] = t]
    PROVE  TaskInv'
<1>0. SchedInv /\ TypeInv /\ EntryInv /\ WaitInv /\ LiveInv
  BY DEF TaskInv
<1>1. /\ ~IsTaskDone(t) /\ waiters' = [waiters EXCEPT ![t] = Append(waiters[t], current)]
      /\ UNCHANGED <<obj, waitq, refused, current, timed>> /\ ~idle /\ idle'
      /\ status' = [status EXCEPT ![current] = "Blocked"]
      /\ cause' = [cause EXCEPT ![current] = "none"] /\ S!Park
  BY DEF ParkInWait, ParkCurrent, S!Park, S!Leave, S!Active
<1>2. SchedInv' /\ status[current] = "Running" /\ current \in Task /\ current \notin timed
  BY <1>0, <1>1, LeaveSched DEF SchedInv
<1>3. /\ Append(waiters[t], current) \in Seq(Task)
      /\ \A w : Has(Append(waiters[t], current), w) <=> Has(waiters[t], w) \/ w = current
      /\ Distinct(waiters[t]) /\ ~Has(waiters[t], current)
            => Distinct(Append(waiters[t], current))
  BY <1>0, <1>2, QueueAppend DEF TypeInv
<1>4. /\ waiters' \in [Task -> Seq(Task)] /\ waiters'[t] = Append(waiters[t], current)
      /\ \A u \in Task \ {t} : waiters'[u] = waiters[u]
  BY <1>0, <1>1, <1>3 DEF TypeInv
<1>5. on' \in [Task -> Task] /\ on'[current] = t
  BY <1>0, <1>2 DEF TypeInv
<1>6. TypeInv'
  <2>1. cause' = [u \in Task |-> cause'[u]]
    BY <1>0, <1>1 DEF TypeInv
  <2> QED
    BY <1>0, <1>1, <1>4, <1>5, <2>1, MovesType DEF TypeInv
<1>7. EntryInv'
  <2>1. \A u \in Task : status'[u] = "Absent" => status[u] = "Absent"
    BY <1>0, <1>1 DEF SchedInv
  <2> QED
    BY <1>0, <1>1, <2>1, MovesEntry
<1>8. Undisturbed /\ pc'[current] = "wait"
  BY <1>0, <1>1, <1>2 DEF Undisturbed, Moves, SchedInv, TypeInv
<1>9. ~refused => /\ \A u \in Task : Distinct(waiters[u]) /\ ~Has(waiters[u], current)
                  /\ Distinct(waitq) /\ ~Has(waitq, current)
  BY <1>0, <1>2 DEF LiveInv, Parked
<1>10. WaitInv' /\ LiveInv'
  <2>1. \A u \in Task : \A w \in Task \ {current} : Has(waiters'[u], w) <=> Has(waiters[u], w)
    BY <1>3, <1>4
  <2>2. Has(waiters'[on'[current]], current)
    <3>1. Has(Append(waiters[t], current), current)
      BY <1>3
    <3>2. waiters'[on'[current]] = Append(waiters[t], current)
      BY <1>4, <1>5
    <3> HIDE DEF Has
    <3> QED
      BY <3>1, <3>2, Zenon
  <2>3. ~refused =>
           /\ \A u \in Task :
                 /\ Distinct(waiters'[u])
                 /\ Has(waiters'[u], current) => pc'[current] = "wait" /\ on'[current] = u
           /\ Distinct(waitq') /\ (Has(waitq', current) => pc'[current] = "condition")
    BY <1>1, <1>3, <1>4, <1>5, <1>8, <1>9
  <2> QED
    BY <1>0, <1>1, <1>2, <1>5, <1>8, <2>1, <2>2, <2>3, ParkSelf
<1> QED
  BY <1>2, <1>6, <1>7, <1>10 DEF TaskInv

\* wait(c) for a Condition.
LEMMA WaitConditionInv ==
    ASSUME TaskInv, WaitCondition
    PROVE  TaskInv'
<1>0. SchedInv /\ TypeInv /\ EntryInv /\ WaitInv /\ LiveInv
  BY DEF TaskInv
<1>1. /\ Call("wait_condition", "condition") /\ waitq' = Append(waitq, current)
      /\ UNCHANGED <<obj, waiters, on, refused, current, timed>> /\ idle'
      /\ status' = [status EXCEPT ![current] = "Blocked"]
      /\ cause' = [cause EXCEPT ![current] = "none"] /\ S!Park
  BY DEF WaitCondition, ParkCurrent, S!Park, S!Leave
<1>a. Moves("condition") /\ ~Completing /\ ~idle
  BY <1>0, <1>1, CallMoves DEF S!Active
<1>2. SchedInv' /\ status[current] = "Running" /\ current \in Task /\ current \notin timed
  BY <1>0, <1>1, <1>a, LeaveSched DEF SchedInv
<1>3. /\ waitq' \in Seq(Task)
      /\ \A w : Has(waitq', w) <=> Has(waitq, w) \/ w = current
      /\ Distinct(waitq) /\ ~Has(waitq, current) => Distinct(waitq')
  BY <1>0, <1>1, <1>2, QueueAppend DEF TypeInv
<1>4. TypeInv'
  <2>1. cause' = [u \in Task |-> cause'[u]]
    BY <1>0, <1>1 DEF TypeInv
  <2> QED
    BY <1>0, <1>1, <1>3, <1>a, <2>1, MovesType DEF TypeInv
<1>5. EntryInv'
  <2>1. \A u \in Task : status'[u] = "Absent" => status[u] = "Absent"
    BY <1>0, <1>1 DEF SchedInv
  <2> QED
    BY <1>0, <1>1, <1>a, <2>1, MovesEntry
<1>6. Undisturbed /\ pc'[current] = "condition"
  BY <1>0, <1>1, <1>2, <1>a DEF Undisturbed, Moves, SchedInv, TypeInv
<1>7. ~refused => /\ \A u \in Task : Distinct(waiters[u]) /\ ~Has(waiters[u], current)
                  /\ Distinct(waitq) /\ ~Has(waitq, current)
  BY <1>0, <1>2 DEF LiveInv, Parked
<1>8. WaitInv' /\ LiveInv'
  <2>1. \A w \in Task \ {current} : Has(waitq', w) <=> Has(waitq, w)
    BY <1>3
  <2>2. ~refused =>
           /\ \A u \in Task :
                 /\ Distinct(waiters'[u])
                 /\ Has(waiters'[u], current) => pc'[current] = "wait" /\ on'[current] = u
           /\ Distinct(waitq') /\ (Has(waitq', current) => pc'[current] = "condition")
    BY <1>1, <1>3, <1>6, <1>7
  <2> QED
    BY <1>0, <1>1, <1>2, <1>6, <1>a, <2>1, <2>2, ParkSelf
<1> QED
  BY <1>2, <1>4, <1>5, <1>8 DEF TaskInv

\* A library call of wait(t) parks, and so does its loop.
LEMMA WaitInvSteps ==
    ASSUME TaskInv, WaitAgain \/ \E t \in Task : WaitCall(t)
    PROVE  TaskInv'
<1>0. SchedInv /\ TypeInv /\ current \in Task /\ on[current] \in Task
  BY DEF TaskInv, SchedInv, TypeInv
<1>1. ASSUME NEW t \in Task, WaitCall(t) PROVE TaskInv'
  <2>1. /\ Call("wait", "wait") /\ ParkInWait(t) /\ on' = [on EXCEPT ![current] = t]
        /\ UNCHANGED <<obj, refused>>
    BY <1>1 DEF WaitCall, ParkInWait
  <2>2. Moves("wait") /\ S!Active /\ ~Completing
    BY <1>0, <2>1, CallMoves
  <2> QED
    BY <2>1, <2>2, WaitParks
<1>2. CASE WaitAgain
  <2>1. /\ S!Active /\ pc[current] = "wait" /\ ParkInWait(on[current])
        /\ UNCHANGED <<on, pc, calls, obj, refused>>
    BY <1>2 DEF WaitAgain, At, ParkInWait, progVars
  <2>2. pc' = [pc EXCEPT ![current] = "wait"] /\ on' = [on EXCEPT ![current] = on[current]]
    BY <1>0, <2>1 DEF TypeInv
  <2>3. Moves("wait") /\ ~Completing
    BY <1>0, <2>1, <2>2 DEF Moves, Completing, TypeInv
  <2> QED
    BY <1>0, <2>1, <2>2, <2>3, WaitParks
<1> QED
  BY <1>1, <1>2

\* notify, at the call and in its loop.
LEMMA NotifyInvSteps ==
    ASSUME TaskInv, NotifyCall \/ NotifyNext
    PROVE  TaskInv'
<1>0. TypeInv /\ current \in Task
  BY DEF TaskInv, SchedInv
<1>1. CASE NotifyCall
  <2>1. PICK p \in {"body", "notify"} : Call("notify", p) /\ NotifyHead
    BY <1>1 DEF NotifyCall
  <2>2. Moves(p) /\ S!Active /\ ~Completing
    BY <1>0, <2>1, CallMoves DEF NotifyHead
  <2> QED
    BY <2>1, <2>2, NotifyInv
<1>2. CASE NotifyNext
  <2>1. /\ S!Active /\ pc[current] = "notify" /\ NotifyHead
        /\ UNCHANGED <<pc, calls, obj, refused>>
    BY <1>2 DEF NotifyNext, At, NotifyHead, progVars
  <2>2. Moves("notify") /\ ~Completing
    BY <1>0, <2>1 DEF Moves, Completing, TypeInv
  <2> QED
    BY <2>1, <2>2, NotifyInv
<1> QED
  BY <1>1, <1>2

\* The ends of the blocking calls, and of a completion.
LEMMA PlaceInvSteps ==
    ASSUME TaskInv,
           \/ WakeWaitersDone \/ SleepEnds \/ WaitEnds \/ WaitConditionEnds
           \/ NotifyEnds \/ ExitUnbound
    PROVE  TaskInv'
<1>0. TypeInv /\ current \in Task
  BY DEF TaskInv, SchedInv
<1>1. PICK p \in {"body", "return", "wake"} :
         pc' = [pc EXCEPT ![current] = p] /\ (pc[current] = "exit" => p = "wake")
  BY DEF WakeWaitersDone, SleepEnds, WaitEnds, WaitConditionEnds, NotifyEnds, ExitUnbound,
         At, GoTo
<1>2. S!Active /\ UNCHANGED <<schedVars, taskVars, calls, cause, refused, obj>>
  BY DEF WakeWaitersDone, SleepEnds, WaitEnds, WaitConditionEnds, NotifyEnds, ExitUnbound,
         At, histVars, taskVars
<1>3. /\ pc[current] \in {"wake", "sleep", "wait", "condition", "notify", "exit"}
      /\ pc[current] = "wake" => waiters[on[current]] = <<>>
  BY DEF WakeWaitersDone, SleepEnds, WaitEnds, WaitConditionEnds, NotifyEnds, ExitUnbound, At
<1>4. Moves(p)
  BY <1>0, <1>1, <1>2, <1>3 DEF Moves, TypeInv
<1>5. Completing => Completing' \/ waiters[on[current]] = <<>>
  <2>1. idle' = idle /\ current' = current /\ pc'[current] = p
    BY <1>0, <1>1, <1>2 DEF schedVars, TypeInv
  <2> QED
    BY <1>1, <1>3, <2>1 DEF Completing
<1> QED
  BY <1>2, <1>4, <1>5, PlaceStep

\* The task in control gives it up without waiting: it yields or returns.
LEMMA LeaveInvSteps ==
    ASSUME TaskInv, YieldCall \/ RootReturn
    PROVE  TaskInv'
<1>0. SchedInv /\ TypeInv /\ EntryInv /\ WaitInv /\ LiveInv
  BY DEF TaskInv
<1>1. S!Yield \/ S!Finish
  BY DEF YieldCall, RootReturn
<1>2. /\ SchedInv' /\ ~idle /\ idle' /\ UNCHANGED <<current, timed>>
      /\ status' = [status EXCEPT ![current] = status'[current]]
      /\ status'[current] \in {"Runnable", "Done"}
  BY <1>0, <1>1, LeaveSched DEF S!Yield, S!Finish, S!Leave, S!Active, SchedInv
<1>3. UNCHANGED <<obj, waiters, waitq, on, cause, refused>>
  BY DEF YieldCall, RootReturn, taskVars, histVars
<1>4. pc' = pc /\ calls' \in 0..MaxCalls /\ pc[current] \in {"body", "return"}
  <2>1. CASE YieldCall
    <3>1. Call("yield", "body")
      BY <2>1 DEF YieldCall
    <3> QED
      BY <1>0, <1>3, <3>1, CallMoves DEF Moves, TypeInv
  <2>2. CASE RootReturn
    BY <1>0, <2>2 DEF RootReturn, At, progVars, TypeInv
  <2> QED
    BY <2>1, <2>2
<1>5. TypeInv'
  BY <1>0, <1>3, <1>4 DEF TypeInv
<1>6. current \in Task /\ status[current] = "Running"
  BY <1>0, <1>2 DEF SchedInv
<1>7. \A t \in Task : /\ status'[t] = "Absent" => status[t] = "Absent"
                      /\ status'[t] = "Blocked" <=> status[t] = "Blocked"
  BY <1>0, <1>2, <1>6 DEF SchedInv
<1>8. \A t \in Task : IsTaskDone(t)' <=> IsTaskDone(t)
  BY <1>3 DEF IsTaskDone
<1>9. EntryInv'
  BY <1>0, <1>2, <1>3, <1>4, <1>7, <1>8 DEF EntryInv
<1>10. Undisturbed /\ ~Completing
  BY <1>3, <1>4 DEF Undisturbed, Completing
<1>11. WaitInv' /\ LiveInv'
  BY <1>0, <1>2, <1>3, <1>7, <1>8, <1>10, GoOn
<1> QED
  BY <1>2, <1>5, <1>9, <1>11 DEF TaskInv

\* sleep parks with a timer.
LEMMA SleepInv ==
    ASSUME TaskInv, SleepCall
    PROVE  TaskInv'
<1>0. SchedInv /\ TypeInv /\ EntryInv /\ WaitInv /\ LiveInv
  BY DEF TaskInv
<1>1. /\ Call("sleep", "sleep") /\ timed' = timed \cup {current}
      /\ UNCHANGED <<obj, waiters, waitq, on, refused, current>> /\ idle'
      /\ status' = [status EXCEPT ![current] = "Blocked"]
      /\ cause' = [cause EXCEPT ![current] = "none"] /\ S!Sleep
  BY DEF SleepCall, S!Sleep, S!Leave, taskVars
<1>2. Moves("sleep") /\ ~Completing /\ ~idle
  BY <1>0, <1>1, CallMoves DEF S!Active
<1>3. SchedInv' /\ status[current] = "Running" /\ current \in Task
  BY <1>0, <1>1, <1>2, LeaveSched DEF SchedInv
<1>4. TypeInv'
  <2>1. cause' = [u \in Task |-> cause'[u]]
    BY <1>0, <1>1 DEF TypeInv
  <2> QED
    BY <1>0, <1>1, <1>2, <2>1, MovesType DEF TypeInv
<1>5. EntryInv'
  <2>1. \A u \in Task : status'[u] = "Absent" => status[u] = "Absent"
    BY <1>0, <1>1 DEF SchedInv
  <2> QED
    BY <1>0, <1>1, <1>2, <2>1, MovesEntry
<1>6. Undisturbed /\ pc'[current] = "sleep"
  BY <1>0, <1>1, <1>2, <1>3 DEF Undisturbed, Moves, SchedInv, TypeInv
<1>7. ~refused => /\ \A u \in Task : Distinct(waiters[u]) /\ ~Has(waiters[u], current)
                  /\ Distinct(waitq) /\ ~Has(waitq, current)
  BY <1>0, <1>3 DEF LiveInv, Parked
<1>8. WaitInv' /\ LiveInv'
  BY <1>0, <1>1, <1>2, <1>3, <1>6, <1>7, ParkSelf
<1> QED
  BY <1>3, <1>4, <1>5, <1>8 DEF TaskInv

\* A timer makes a sleeper ready.
LEMMA TimerInv ==
    ASSUME TaskInv, TimerExpires
    PROVE  TaskInv'
<1>0. SchedInv /\ TypeInv /\ EntryInv /\ WaitInv /\ LiveInv
  BY DEF TaskInv
<1>1. PICK h \in Task : /\ S!Expire(h) /\ cause' = [cause EXCEPT ![h] = "timer"]
                        /\ UNCHANGED <<taskVars, progVars, refused>>
  BY DEF TimerExpires
<1>2. /\ idle /\ UNCHANGED <<obj, waiters, waitq, on, pc, calls, refused, current, idle>>
      /\ h \in timed /\ timed' = timed \ {h}
      /\ status' = [status EXCEPT ![h] = "Runnable"]
  BY <1>1 DEF S!Expire, S!Between, taskVars, progVars
<1>3. SchedInv'
  BY <1>0, <1>1, BetweenSched
<1>4. status[h] = "Blocked" /\ \A t \in Task : status'[t] = "Absent" => status[t] = "Absent"
  BY <1>0, <1>2 DEF SchedInv
<1>5. TypeInv'
  <2>1. cause' = [u \in Task |-> cause'[u]]
    BY <1>0, <1>1 DEF TypeInv
  <2> QED
    BY <1>0, <1>2, <2>1 DEF TypeInv
<1>6. \A t \in Task : IsTaskDone(t)' <=> IsTaskDone(t)
  BY <1>2 DEF IsTaskDone
<1>7. EntryInv'
  BY <1>0, <1>2, <1>4, <1>6 DEF EntryInv
<1>8. Undisturbed /\ ~Completing
  BY <1>2 DEF Undisturbed, Completing
<1>9. ~refused => /\ \A u \in Task : Distinct(waiters[u]) /\ ~Has(waiters[u], h)
                  /\ Distinct(waitq) /\ ~Has(waitq, h)
  BY <1>0, <1>2 DEF LiveInv, Parked
<1>10. status' = [status EXCEPT ![h] = IF @ = "Blocked" THEN "Runnable" ELSE @]
  BY <1>2, <1>4
<1>11. WaitInv' /\ LiveInv'
  BY <1>0, <1>2, <1>8, <1>9, <1>10, WakeOther
<1> QED
  BY <1>3, <1>5, <1>7, <1>11 DEF TaskInv

\* Control passes to the first ready task, or the run ends.
LEMMA DispatchInv ==
    ASSUME TaskInv, Dispatch \/ MainEnds \/ DeadlockEndsRun
    PROVE  TaskInv'
<1>0. SchedInv /\ TypeInv /\ EntryInv /\ WaitInv /\ LiveInv
  BY DEF TaskInv
<1>1. UNCHANGED <<obj, waiters, waitq, on, pc, calls, cause, refused>>
  BY DEF Dispatch, MainEnds, DeadlockEndsRun, taskVars, progVars, histVars
<1>2. SchedInv' /\ timed' = timed
  <2>1. S!Dispatch \/ S!Stop
    BY DEF Dispatch, MainEnds, DeadlockEndsRun
  <2> QED
    BY <1>0, <2>1, BetweenSched DEF S!Dispatch, S!Stop
<1>3. \A t \in Task : /\ status'[t] = "Absent" => status[t] = "Absent"
                      /\ status'[t] = "Blocked" <=> status[t] = "Blocked"
  <2>1. CASE Dispatch
    <3> DEFINE h == Head(ready)
    <3>1. ready \in Seq(Task) /\ ready # <<>> /\ status' = [status EXCEPT ![h] = "Running"]
      BY <1>0, <2>1 DEF Dispatch, S!Dispatch, SchedInv
    <3>2. h \in Task /\ Has(ready, h)
      BY <3>1, QueueTail
    <3>3. status[h] = "Runnable"
      BY <1>0, <3>2 DEF SchedInv
    <3> HIDE DEF h
    <3> QED
      BY <1>0, <3>1, <3>2, <3>3 DEF SchedInv
  <2>2. CASE MainEnds \/ DeadlockEndsRun
    BY <2>2 DEF MainEnds, DeadlockEndsRun, S!Stop
  <2> QED
    BY <2>1, <2>2
<1>4. (idle' => idle /\ current' = current) /\ ~Completing
  BY DEF Dispatch, MainEnds, DeadlockEndsRun, S!Dispatch, S!Stop, S!Between, At, S!Active,
         Completing
<1>5. \A t \in Task : IsTaskDone(t)' <=> IsTaskDone(t)
  BY <1>1 DEF IsTaskDone
<1>6. TypeInv'
  BY <1>0, <1>1 DEF TypeInv
<1>7. EntryInv'
  BY <1>0, <1>1, <1>3, <1>4, <1>5 DEF EntryInv
<1>8. Undisturbed
  BY <1>1 DEF Undisturbed
<1>9. WaitInv' /\ LiveInv'
  BY <1>0, <1>1, <1>2, <1>3, <1>4, <1>5, <1>8, GoOn
<1> QED
  BY <1>2, <1>6, <1>7, <1>9 DEF TaskInv

\* The deadlock error: the task that parked last has control again, and what it
\* entered in a queue stays there.
LEMMA DeadlockErrorInv ==
    ASSUME TaskInv, DeadlockError
    PROVE  TaskInv'
<1>0. SchedInv /\ TypeInv /\ EntryInv /\ WaitInv /\ LiveInv
  BY DEF TaskInv
<1>1. /\ idle /\ ~idle' /\ refused' = TRUE /\ pc' = [pc EXCEPT ![current] = "body"]
      /\ UNCHANGED <<obj, waiters, waitq, on, calls, cause, current>>
      /\ status' = [status EXCEPT ![current] = "Running"] /\ S!Refuse /\ ready = <<>>
  BY DEF DeadlockError, GoTo, taskVars, S!Refuse, S!Between
<1>2. SchedInv' /\ current \in Task
  BY <1>0, <1>1, BetweenSched DEF SchedInv
<1>3. \A t \in Task : pc'[t] = IF t = current THEN "body" ELSE pc[t]
  BY <1>0, <1>1, <1>2 DEF TypeInv
<1>4. TypeInv'
  <2>1. pc' = [t \in Task |-> pc'[t]]
    BY <1>0, <1>1 DEF TypeInv
  <2> QED
    BY <1>0, <1>1, <2>1 DEF TypeInv
<1>5. \A t \in Task : IsTaskDone(t)' <=> IsTaskDone(t)
  BY <1>1 DEF IsTaskDone
<1>6. \A t \in Task : status'[t] = IF t = current THEN "Running" ELSE status[t]
  BY <1>0, <1>1, <1>2 DEF SchedInv
<1>7. EntryInv'
  BY <1>0, <1>1, <1>2, <1>3, <1>5, <1>6 DEF EntryInv
<1>8. WaitInv'
  <2>1. \A w \in Task : Parked(w, "wait")' => Parked(w, "wait") /\ w # current
    BY <1>3, <1>6 DEF Parked
  <2>2. ~Completing
    BY <1>1 DEF Completing
  <2> QED
    BY <1>0, <1>1, <1>5, <2>1, <2>2 DEF WaitInv, TypeInv
<1>9. LiveInv'
  BY <1>1 DEF LiveInv
<1> QED
  BY <1>2, <1>4, <1>7, <1>8, <1>9 DEF TaskInv

\* Every step of a task, of its completion and of the scheduler preserves the
\* invariant.
LEMMA TaskInvStep ==
    ASSUME TaskInv, TaskSteps \/ ExitUnbound \/ SchedulerSteps \/ UNCHANGED taskSpecVars
    PROVE  TaskInv'
<1>1. ASSUME NEW t \in Task, Schedule(t) \/ ScheduleError(t) \/ WaitCall(t) PROVE TaskInv'
  BY <1>1, ScheduleInv, ScheduleErrorInv, WaitInvSteps
<1>2. CASE BodyReturns \/ BodyFails
  BY <1>2, BodyEndsInv DEF BodyReturns, BodyFails
<1>3. CASE Ended \/ UNCHANGED taskSpecVars
  <2>1. UNCHANGED <<status, ready, timed, current, idle, up, obj, waiters, waitq, on, pc,
                    calls, cause, refused>>
    BY <1>3 DEF Ended, taskSpecVars, schedVars, taskVars, progVars, histVars
  <2>2. SchedInv' /\ TypeInv'
    BY <2>1 DEF TaskInv, SchedInv, TypeInv
  <2>3. EntryInv' /\ WaitInv' /\ LiveInv'
    BY <2>1 DEF TaskInv, EntryInv, WaitInv, LiveInv, Parked, Completing, IsTaskDone
  <2> QED
    BY <2>2, <2>3 DEF TaskInv
<1>4. CASE TaskEntry
  BY <1>4, TaskEntryInv
<1>5. CASE WakeWaiter
  BY <1>5, WakeWaiterInv
<1>6. CASE WakeWaitersDone \/ SleepEnds \/ WaitEnds \/ WaitConditionEnds \/ NotifyEnds
           \/ ExitUnbound
  BY <1>6, PlaceInvSteps
<1>7. CASE YieldCall \/ RootReturn
  BY <1>7, LeaveInvSteps
<1>8. CASE SleepCall
  BY <1>8, SleepInv
<1>9. CASE WaitAgain
  BY <1>9, WaitInvSteps
<1>10. CASE WaitCondition
  BY <1>10, WaitConditionInv
<1>11. CASE NotifyCall \/ NotifyNext
  BY <1>11, NotifyInvSteps
<1>12. CASE Dispatch \/ MainEnds \/ DeadlockEndsRun
  BY <1>12, DispatchInv
<1>13. CASE TimerExpires
  BY <1>13, TimerInv
<1>14. CASE DeadlockError
  BY <1>14, DeadlockErrorInv
<1> QED
  BY <1>1, <1>2, <1>3, <1>4, <1>5, <1>6, <1>7, <1>8, <1>9, <1>10, <1>11, <1>12, <1>13, <1>14
     DEF TaskSteps, SchedulerSteps

\* A program is at a place of the library.
PlacesInv == pc \in [Task -> Places]

\* Every step leads to one.
LEMMA PlacesStep ==
    ASSUME PlacesInv,
           TaskSteps \/ ExitUnbound \/ SchedulerSteps \/ UNCHANGED taskSpecVars
    PROVE  PlacesInv'
<1>1. CASE pc' = pc
  BY <1>1 DEF PlacesInv
<1>2. CASE \E p \in Places : pc' = [pc EXCEPT ![current] = p]
  BY <1>2 DEF PlacesInv
<1>3. ASSUME NEW t \in Task, Schedule(t) \/ ScheduleError(t) \/ WaitCall(t)
      PROVE  \E p \in Places : pc' = [pc EXCEPT ![current] = p]
  BY <1>3 DEF Schedule, ScheduleError, WaitCall, Call, GoTo, Places
<1>4. CASE \/ BodyReturns \/ BodyFails \/ TaskEntry \/ WakeWaitersDone \/ SleepEnds
           \/ WaitEnds \/ WaitConditionEnds \/ NotifyEnds \/ ExitUnbound \/ DeadlockError
  BY <1>2, <1>4 DEF BodyReturns, BodyFails, BodyEnds, TaskEntry, WakeWaitersDone, SleepEnds,
     WaitEnds, WaitConditionEnds, NotifyEnds, ExitUnbound, DeadlockError, RunFunction, GoTo, Places
<1>5. CASE YieldCall \/ SleepCall \/ WaitCondition \/ NotifyCall
  BY <1>2, <1>5 DEF YieldCall, SleepCall, WaitCondition, NotifyCall, Call, GoTo, Places
<1>6. CASE \/ WakeWaiter \/ RootReturn \/ MainEnds \/ WaitAgain \/ NotifyNext \/ Dispatch
           \/ TimerExpires \/ DeadlockEndsRun \/ Ended \/ UNCHANGED taskSpecVars
  BY <1>1, <1>6 DEF WakeWaiter, RootReturn, MainEnds, WaitAgain, NotifyNext, Dispatch,
     TimerExpires, DeadlockEndsRun, Ended, taskSpecVars, progVars
<1> QED
  BY <1>2, <1>3, <1>4, <1>5, <1>6 DEF TaskSteps, SchedulerSteps

-----------------------------------------------------------------------------
(***************************************************************************)
(* Theorems.                                                               *)
(***************************************************************************)
\* The invariant always holds.
LEMMA TaskInvAlways == TaskSpec => [](TaskInv /\ PlacesInv)
<1>1. TaskInit => TaskInv /\ PlacesInv
  BY TaskInitInv DEF TaskInit, Places, PlacesInv
<1>2. ASSUME TaskInv, PlacesInv, [TaskNext]_taskSpecVars
      PROVE  TaskInv' /\ PlacesInv'
  BY <1>2, TaskInvStep, PlacesStep DEF TaskNext
<1> QED
  BY <1>1, <1>2, PTL DEF TaskSpec

\* Every variable has its type, and a Task object counts as queued only between
\* `schedule` and the entry of the task.
THEOREM TaskTypeCorrect == TaskSpec => []TaskTypeOK
<1>1. ASSUME TaskInv, PlacesInv PROVE TaskTypeOK
  <2>1. obj \in [Task -> Fields]
    BY <1>1 DEF TaskInv, TypeInv
  <2>2. ASSUME NEW t \in Task, obj[t].queued PROVE obj[t] = [NewTask EXCEPT !.queued = TRUE]
    <3>1. obj[t] \in Fields /\ obj[t].state = "runnable" /\ ~obj[t].started
      BY <1>1, <2>1, <2>2 DEF TaskInv, EntryInv
    <3>2. /\ obj[t] = [state |-> obj[t].state, started |-> obj[t].started,
                       queued |-> obj[t].queued]
          /\ obj[t].started \in BOOLEAN /\ obj[t].queued \in BOOLEAN
      BY <3>1 DEF Fields
    <3>3. obj[t].started = FALSE /\ obj[t].queued = TRUE
      BY <2>2, <3>1, <3>2, Zenon
    <3>4. obj[t] = [state |-> "runnable", started |-> FALSE, queued |-> TRUE]
      BY <3>1, <3>2, <3>3
    <3> DEFINE r == [NewTask EXCEPT !.queued = TRUE]
    <3>5. r = [NewTask EXCEPT !.queued = TRUE]
      OBVIOUS
    <3> HIDE DEF r
    <3>6. r = [state |-> "runnable", started |-> FALSE, queued |-> TRUE]
      BY <3>5 DEF NewTask
    <3> QED
      BY <3>4, <3>5, <3>6
  <2> QED
    BY <1>1, <2>1, <2>2 DEF TaskTypeOK, TaskInv, TypeInv, PlacesInv
<1> QED
  BY <1>1, TaskInvAlways, PTL

\* No completion is missed: whoever is parked in wait(t) when t is done is about
\* to be woken by the completion of t, __sjulia_finish_task, that is under way.
THEOREM ExitNotMissed == TaskSpec => []NoMissedExit
<1>1. ASSUME TaskInv, PlacesInv PROVE NoMissedExit
  <2>1. current \in Task /\ "exit_close" \notin Places
    BY <1>1 DEF TaskInv, SchedInv, Places
  <2>2. pc[current] # "exit_close"
    BY <1>1, <2>1 DEF PlacesInv
  <2> QED
    BY <1>1, <2>2 DEF TaskInv, WaitInv, NoMissedExit, Completing
<1> QED
  BY <1>1, TaskInvAlways, PTL

\* NoSpuriousWake for one task: who is awake inside a blocking call was woken by
\* what the call waits for.
Awake(t) == status[t] \in {"Runnable", "Running"}

Blocking == {"wait", "condition", "sleep"}

RightCause(t) ==
    /\ pc[t] = "wait" => cause[t] = "exit"
    /\ pc[t] = "condition" => cause[t] = "notify"
    /\ pc[t] = "sleep" => cause[t] = "timer"

\* Whoever else is awake in a blocking call after the step was so before.
LEMMA CauseKept ==
    ASSUME NoSpuriousWake, refused' = refused, NEW h \in Task,
           ~refused /\ status'[h] \in {"Runnable", "Running"} => RightCause(h)',
           \A t \in Task \ {h} : Awake(t)' /\ pc'[t] \in Blocking =>
               Awake(t) /\ pc'[t] = pc[t] /\ cause'[t] = cause[t]
    PROVE  NoSpuriousWake'
<1> SUFFICES ASSUME ~refused, NEW t \in Task, Awake(t)' PROVE RightCause(t)'
  BY DEF NoSpuriousWake, RightCause, Awake
<1>1. CASE t = h
  BY <1>1 DEF Awake
<1>2. CASE t # h /\ pc'[t] \in Blocking
  BY <1>2 DEF NoSpuriousWake, RightCause, Awake
<1>3. CASE pc'[t] \notin Blocking
  BY <1>3 DEF RightCause, Blocking
<1> QED
  BY <1>1, <1>2, <1>3

\* The program of the current task goes on where nothing is waited for.
LEMMA CauseMoves ==
    ASSUME TaskInv, NoSpuriousWake, NEW p, p \notin Blocking, pc' = [pc EXCEPT ![current] = p],
           UNCHANGED <<cause, refused>>,
           \A t \in Task \ {current} : Awake(t)' => Awake(t) \/ status[t] = "Absent"
    PROVE  NoSpuriousWake'
<1>1. current \in Task /\ \A t \in Task : pc'[t] = IF t = current THEN p ELSE pc[t]
  BY DEF TaskInv, SchedInv, TypeInv
<1>3. \A t \in Task \ {current} : Awake(t)' /\ pc'[t] \in Blocking =>
          Awake(t) /\ pc'[t] = pc[t] /\ cause'[t] = cause[t]
  BY <1>1 DEF TaskInv, EntryInv, Blocking
<1>4. ASSUME NEW t \in Task, t = current PROVE RightCause(t)'
  BY <1>1, <1>4 DEF RightCause, Blocking
<1>5. \E t \in Task : t = current
  BY <1>1
<1> QED
  BY <1>3, <1>4, <1>5, CauseKept

\* A step wakes h for what it waits for, and the current task gets into no
\* blocking call.
LEMMA CauseWakes ==
    ASSUME TaskInv, NoSpuriousWake, NEW p, p \notin Blocking \/ p = pc[current],
           pc' = [pc EXCEPT ![current] = p], refused' = refused,
           NEW h \in Task, status[h] # "Blocked" => cause' = cause,
           NEW why, status[h] = "Blocked" => cause' = [cause EXCEPT ![h] = why],
           status' = [status EXCEPT ![h] = IF @ = "Blocked" THEN "Runnable" ELSE @],
           ~refused => \/ why = "exit" /\ Parked(h, "wait")
                       \/ why = "notify" /\ Parked(h, "condition")
                       \/ why = "timer" /\ Parked(h, "sleep")
    PROVE  NoSpuriousWake'
<1>1. current \in Task /\ \A t \in Task : pc'[t] = IF t = current THEN p ELSE pc[t]
  BY DEF TaskInv, SchedInv, TypeInv
<1>2. \A t \in Task : status'[t] = IF t = h /\ status[t] = "Blocked" THEN "Runnable" ELSE status[t]
  BY DEF TaskInv, SchedInv
<1>3. \A t \in Task \ {h} : Awake(t)' /\ pc'[t] \in Blocking =>
          Awake(t) /\ pc'[t] = pc[t] /\ cause'[t] = cause[t]
  BY <1>1, <1>2 DEF TaskInv, TypeInv, Awake
<1>4. ASSUME ~refused PROVE RightCause(h)'
  <2>1. status[h] = "Blocked" /\ cause'[h] = why
    BY <1>4 DEF Parked, TaskInv, TypeInv
  <2>2. pc'[h] = pc[h] \/ pc'[h] \notin Blocking
    BY <1>1
  <2> QED
    BY <1>4, <2>1, <2>2 DEF RightCause, Parked, Blocking
<1> QED
  BY <1>3, <1>4, CauseKept

\* Every step preserves it.
LEMMA CauseStep ==
    ASSUME TaskInv, TaskInv', NoSpuriousWake, [TaskNext]_taskSpecVars
    PROVE  NoSpuriousWake'
<1>0. SchedInv /\ TypeInv /\ EntryInv /\ LiveInv /\ current \in Task
  BY DEF TaskInv, SchedInv
<1>1. CASE \/ TaskEntry \/ BodyReturns \/ BodyFails \/ WakeWaitersDone \/ SleepEnds \/ WaitEnds
           \/ WaitConditionEnds \/ NotifyEnds \/ ExitUnbound
           \/ \E t \in Task : ScheduleError(t)
  <2>1. PICK p \in {"body", "return", "exit", "wake"} : pc' = [pc EXCEPT ![current] = p]
    BY <1>1 DEF BodyReturns, BodyFails, BodyEnds, TaskEntry, WakeWaitersDone, SleepEnds,
       WaitEnds, WaitConditionEnds, NotifyEnds, ExitUnbound, ScheduleError, Call, RunFunction, GoTo
  <2>2. UNCHANGED <<status, cause, refused>>
    BY <1>1 DEF BodyReturns, BodyFails, BodyEnds, TaskEntry, WakeWaitersDone, SleepEnds,
       WaitEnds, WaitConditionEnds, NotifyEnds, ExitUnbound, ScheduleError, schedVars, histVars
  <2>3. p \notin Blocking
    BY DEF Blocking
  <2> QED
    BY <2>1, <2>2, <2>3, CauseMoves DEF Awake
<1>2. CASE YieldCall \/ \E t \in Task : Schedule(t)
  <2>1. pc' = [pc EXCEPT ![current] = "body"] /\ UNCHANGED <<cause, refused>>
    BY <1>2 DEF YieldCall, Schedule, Call, GoTo, histVars
  <2>2. \A u \in Task \ {current} : Awake(u)' => Awake(u) \/ status[u] = "Absent"
    BY <1>0, <1>2 DEF YieldCall, Schedule, S!Yield, S!Leave, S!Spawn, SchedInv, Awake
  <2>3. "body" \notin Blocking
    BY DEF Blocking
  <2> QED
    BY <2>1, <2>2, <2>3, CauseMoves
<1>3. CASE RootReturn \/ MainEnds \/ Dispatch \/ DeadlockEndsRun \/ Ended \/ UNCHANGED taskSpecVars
  <2>1. UNCHANGED <<pc, cause, refused>>
    BY <1>3 DEF RootReturn, MainEnds, Dispatch, DeadlockEndsRun, Ended, taskSpecVars, progVars, histVars
  <2>2. \A t \in Task : Awake(t)' => Awake(t)
    <3>1. CASE Dispatch
      <4> DEFINE h == Head(ready)
      <4>1. ready \in Seq(Task) /\ ready # <<>> /\ status' = [status EXCEPT ![h] = "Running"]
        BY <1>0, <3>1 DEF Dispatch, S!Dispatch, SchedInv
      <4>2. h \in Task /\ Has(ready, h)
        BY <4>1, QueueTail
      <4>3. status[h] = "Runnable"
        BY <1>0, <4>2 DEF SchedInv
      <4> HIDE DEF h
      <4> QED
        BY <1>0, <4>1, <4>2, <4>3 DEF SchedInv, Awake
    <3>2. CASE RootReturn
      BY <1>0, <3>2 DEF RootReturn, S!Finish, S!Leave, SchedInv, Awake
    <3>3. CASE MainEnds \/ DeadlockEndsRun \/ Ended \/ UNCHANGED taskSpecVars
      BY <3>3 DEF MainEnds, DeadlockEndsRun, Ended, S!Stop, taskSpecVars, schedVars, Awake
    <3> QED
      BY <1>3, <3>1, <3>2, <3>3
  <2> QED
    BY <2>1, <2>2 DEF NoSpuriousWake, Awake
<1>4. CASE SleepCall \/ WaitAgain \/ WaitCondition \/ \E t \in Task : WaitCall(t)
  <2>1. /\ status' = [status EXCEPT ![current] = "Blocked"]
        /\ cause' = [cause EXCEPT ![current] = "none"] /\ refused' = refused
    BY <1>4 DEF SleepCall, WaitAgain, WaitCondition, WaitCall, ParkInWait, ParkCurrent,
                S!Park, S!Sleep, S!Leave
  <2>2. \A t \in Task \ {current} : pc'[t] = pc[t]
    BY <1>0, <1>4 DEF SleepCall, WaitAgain, WaitCondition, WaitCall, Call, GoTo, progVars, TypeInv
  <2>3. status'[current] = "Blocked"
    BY <1>0, <2>1 DEF SchedInv
  <2>4. \A t \in Task \ {current} : Awake(t)' => Awake(t) /\ pc'[t] = pc[t] /\ cause'[t] = cause[t]
    BY <1>0, <2>1, <2>2 DEF SchedInv, TypeInv, Awake
  <2> QED
    BY <1>0, <2>1, <2>3, <2>4, CauseKept
<1>5. CASE TimerExpires
  <2>1. PICK h \in Task : S!Expire(h) /\ cause' = [cause EXCEPT ![h] = "timer"]
                          /\ UNCHANGED <<pc, refused>>
    BY <1>5 DEF TimerExpires, progVars
  <2>2. status[h] = "Blocked" /\ (~refused => Parked(h, "sleep"))
    BY <1>0, <2>1 DEF S!Expire, SchedInv, LiveInv
  <2>3. status' = [status EXCEPT ![h] = IF @ = "Blocked" THEN "Runnable" ELSE @]
    BY <2>1, <2>2 DEF S!Expire
  <2>4. pc' = [pc EXCEPT ![current] = pc[current]]
    BY <1>0, <2>1 DEF TypeInv
  <2> QED
    BY <2>1, <2>2, <2>3, <2>4, CauseWakes
<1>6. CASE WakeWaiter
  <2> DEFINE u == on[current]
             h == Head(waiters[u])
  <2>1. /\ S!Active /\ waiters[u] # <<>> /\ WakeTask(h, "exit") /\ UNCHANGED <<pc, refused>>
        /\ u \in Task /\ waiters[u] \in Seq(Task)
    BY <1>0, <1>6 DEF WakeWaiter, At, progVars, TypeInv
  <2>2. h \in Task /\ Has(waiters[u], h)
    BY <2>1, QueueTail
  <2> HIDE DEF u, h
  <2>3. ~refused => Parked(h, "wait")
    BY <1>0, <2>1, <2>2 DEF LiveInv
  <2>4. pc' = [pc EXCEPT ![current] = pc[current]]
    BY <1>0, <2>1 DEF TypeInv
  <2>5. /\ status' = [status EXCEPT ![h] = IF @ = "Blocked" THEN "Runnable" ELSE @]
        /\ cause' = IF status[h] = "Blocked" THEN [cause EXCEPT ![h] = "exit"] ELSE cause
    BY <1>0, <2>1, <2>2, WakeSched
  <2> QED
    BY <2>1, <2>2, <2>3, <2>4, <2>5, CauseWakes
<1>7. CASE NotifyCall \/ NotifyNext
  <2> DEFINE h == Head(waitq)
  <2>1. S!Active /\ waitq # <<>> /\ WakeTask(h, "notify") /\ refused' = refused /\ waitq \in Seq(Task)
    BY <1>0, <1>7 DEF NotifyCall, NotifyNext, NotifyHead, Call, At, TypeInv
  <2>2. h \in Task /\ Has(waitq, h)
    BY <2>1, QueueTail
  <2> HIDE DEF h
  <2>3. ~refused => Parked(h, "condition")
    BY <1>0, <2>1, <2>2 DEF LiveInv
  <2>4. PICK p : pc' = [pc EXCEPT ![current] = p] /\ p \in {"body", "notify"}
    BY <1>0, <1>7 DEF NotifyCall, NotifyNext, Call, At, GoTo, progVars, TypeInv
  <2>5. /\ status' = [status EXCEPT ![h] = IF @ = "Blocked" THEN "Runnable" ELSE @]
        /\ cause' = IF status[h] = "Blocked" THEN [cause EXCEPT ![h] = "notify"] ELSE cause
    BY <1>0, <2>1, <2>2, WakeSched
  <2>6. p \notin Blocking
    BY <2>4 DEF Blocking
  <2> QED
    BY <2>1, <2>2, <2>3, <2>4, <2>5, <2>6, CauseWakes
<1>8. CASE DeadlockError
  BY <1>8 DEF DeadlockError, NoSpuriousWake
<1> QED
  BY <1>1, <1>2, <1>3, <1>4, <1>5, <1>6, <1>7, <1>8 DEF TaskNext, TaskSteps, SchedulerSteps

\* A task resumes only for what it waits for, until a deadlock error has left a
\* stale entry in a queue of waiters (__sjulia_finish_task, notify, the timers).
THEOREM WakesAreDue == TaskSpec => []NoSpuriousWake
<1>1. TaskInit => NoSpuriousWake
  BY DEF TaskInit, NoSpuriousWake
<1>2. TaskInv /\ TaskInv' /\ NoSpuriousWake /\ [TaskNext]_taskSpecVars => NoSpuriousWake'
  BY CauseStep
<1> QED
  BY <1>1, <1>2, TaskInvAlways, PTL DEF TaskSpec

\* A task that is done stays done: neither schedule nor a late entry revives one
\* that was marked as failed while it was queued.
THEOREM DoneStaysDone == TaskSpec => DoneIsFinal
<1>1. ASSUME TaskInv, [TaskNext]_taskSpecVars
      PROVE  [\A t \in Task : IsTaskDone(t) => IsTaskDone(t)']_obj
  <2>0. obj \in [Task -> Fields] /\ current \in Task
    BY <1>1 DEF TaskInv, TypeInv, SchedInv
  <2>1. ASSUME NEW t \in Task, Schedule(t)
        PROVE  \A u \in Task : IsTaskDone(u) => IsTaskDone(u)'
    <3>1. obj[t].state = "runnable" /\ \A u \in Task \ {t} : obj'[u] = obj[u]
      BY <2>0, <2>1 DEF Schedule, NewTask
    <3> QED
      BY <3>1 DEF IsTaskDone
  <2>2. ASSUME NEW t \in Task, ScheduleError(t)
        PROVE  \A u \in Task : IsTaskDone(u) => IsTaskDone(u)'
    <3>1. ~IsTaskDone(t) /\ \A u \in Task \ {t} : obj'[u] = obj[u]
      BY <2>0, <2>2 DEF ScheduleError
    <3> QED
      BY <3>1 DEF IsTaskDone
  <2>3. ASSUME TaskEntry PROVE \A u \in Task : IsTaskDone(u) => IsTaskDone(u)'
    <3>1. CASE IsTaskDone(current)
      BY <2>3, <3>1 DEF TaskEntry, IsTaskDone
    <3>2. CASE ~IsTaskDone(current)
      <4>1. \A u \in Task \ {current} : obj'[u] = obj[u]
        BY <2>0, <2>3, <3>2 DEF TaskEntry, RunFunction
      <4> QED
        BY <3>2, <4>1 DEF IsTaskDone
    <3> QED
      BY <3>1, <3>2
  <2>4. ASSUME NEW r \in {"done", "failed"}, BodyEnds(r)
        PROVE  \A u \in Task : IsTaskDone(u) => IsTaskDone(u)'
    <3>1. \A u \in Task \ {current} : obj'[u] = obj[u]
      BY <2>0, <2>4 DEF BodyEnds
    <3>2. obj'[current].state = r
      BY <2>0, <2>4 DEF BodyEnds, Fields
    <3> QED
      BY <2>0, <3>1, <3>2 DEF IsTaskDone
  <2>5. CASE UNCHANGED obj
    BY <2>5
  <2>6. ASSUME \/ WakeWaiter \/ WakeWaitersDone \/ RootReturn \/ MainEnds \/ YieldCall
               \/ SleepCall \/ SleepEnds \/ WaitAgain \/ WaitEnds \/ WaitCondition
               \/ WaitConditionEnds \/ NotifyCall \/ NotifyNext \/ NotifyEnds \/ ExitUnbound
               \/ SchedulerSteps \/ UNCHANGED taskSpecVars \/ \E t \in Task : WaitCall(t)
        PROVE  UNCHANGED obj
    BY <2>6 DEF WakeWaiter, WakeWaitersDone, RootReturn, MainEnds, YieldCall, SleepCall,
       SleepEnds, WaitAgain, WaitEnds, WaitCondition, WaitConditionEnds, NotifyCall, NotifyNext,
       NotifyEnds, NotifyHead, ExitUnbound, SchedulerSteps, Dispatch, TimerExpires,
       DeadlockError, DeadlockEndsRun, Ended, WaitCall, ParkInWait, taskSpecVars, taskVars
  <2> QED
    BY <1>1, <2>1, <2>2, <2>3, <2>4, <2>5, <2>6 DEF TaskNext, TaskSteps, BodyReturns, BodyFails
<1> QED
  BY <1>1, TaskInvAlways, PTL DEF TaskSpec, DoneIsFinal

=============================================================================
