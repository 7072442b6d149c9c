---------------------------- MODULE ChannelsProofs ----------------------------
(***************************************************************************)
(* That a channel keeps its capacity, lets nobody down when it is closed,  *)
(* keeps the handshake of an unbuffered channel and loses no wake-up, for  *)
(* any number of tasks, capacity and library calls.                        *)
(***************************************************************************)
EXTENDS Channels, JuliaTasksProofs, FiniteSetTheorems

-----------------------------------------------------------------------------
(***************************************************************************)
(* The inductive invariant.                                                *)
(***************************************************************************)
\* A put! that waits for room is about a value.
ItemInv == \A t \in Task : pc[t] = "put" => item[t] \in 1..MaxCalls

\* Whoever is parked in the channel has an entry in the queue that is woken.
QueuedInv ==
    \A t \in Task : /\ ParkedIn(t, PutPlaces) => Has(putters, t)
                    /\ ParkedIn(t, TakePlaces) => Has(takers, t)

\* A value that is offered is still in the channel, or has left it.
OfferInv ==
    \A t \in Task : pc[t] = "offer" =>
        /\ ~IsBuffered
        /\ item[t] \in taken \cup dropped \/ Has(data, item[t])

\* Until a deadlock error, every entry of a queue is of a task that is parked
\* there, and the only one.
EntriesInv ==
    ~refused =>
        /\ Distinct(putters) /\ Distinct(takers)
        /\ \A t \in Task : /\ Has(putters, t) => ParkedIn(t, PutPlaces)
                           /\ Has(takers, t) => ParkedIn(t, TakePlaces)

ChanInv ==
    /\ ChannelTypeOK /\ ItemInv /\ QueuedInv /\ ClosedReleases
    /\ OfferInv /\ Rendezvous /\ EntriesInv

\* The invariant holds at first.
LEMMA ChanInitInv == ChannelInit => TaskInv /\ ChanInv
<1> SUFFICES ASSUME ChannelInit PROVE TaskInv /\ ChanInv
  OBVIOUS
<1>1. TaskInv
  BY TaskInitInv DEF ChannelInit
<1>2. /\ status = [t \in Task |-> IF t = Main THEN "Running" ELSE "Absent"]
      /\ pc = [t \in Task |-> IF t = Main THEN "body" ELSE "entry"]
      /\ open = TRUE /\ data = <<>> /\ putters = <<>> /\ takers = <<>> /\ bound = {}
      /\ item = [t \in Task |-> 0] /\ returned = {} /\ sz_max \in Capacities
  BY DEF ChannelInit, TaskInit, S!Init, S!Fresh
<1>3. ChannelTypeOK
  <2>1. Len(data) <= IF IsBuffered THEN sz_max ELSE 1
    BY <1>2, CapacitiesAssumption DEF IsBuffered
  <2>2. data \in Seq(1..MaxCalls) /\ putters \in Seq(Task) /\ takers \in Seq(Task)
    BY <1>2, QueueEmpty
  <2>3. item \in [Task -> 0..MaxCalls]
    BY <1>2, ProgramAssumption
  <2>4. pc \in [Task -> ChannelPlaces]
    BY <1>2 DEF ChannelPlaces, Places
  <2> QED
    BY <1>2, <2>1, <2>2, <2>3, <2>4 DEF ChannelTypeOK
<1>4. \A t \in Task : pc[t] \in {"body", "entry"} /\ status[t] # "Blocked"
  BY <1>2
<1>5. ItemInv /\ QueuedInv /\ OfferInv /\ ClosedReleases
  BY <1>4 DEF ItemInv, QueuedInv, OfferInv, ClosedReleases, ParkedIn
<1>6. EntriesInv /\ Rendezvous
  BY <1>2, QueueEmpty DEF EntriesInv, Rendezvous
<1> QED
  BY <1>1, <1>3, <1>5, <1>6 DEF ChanInv

-----------------------------------------------------------------------------
(***************************************************************************)
(* The steps of JuliaTasks, seen from the channel.                         *)
(***************************************************************************)
\* What the channel may rely on: the current program moves between places of
\* JuliaTasks, parks in one of them, and until a deadlock error only whoever is
\* parked in one of them is woken.
Elsewhere ==
    /\ \A t \in Task : pc'[t] = pc[t] \/ (/\ t = current /\ pc'[t] \in Places
                                          /\ S!Active \/ refused'
                                          /\ status[t] # "Done")
    /\ \A t \in Task : status'[t] = "Blocked" => status[t] = "Blocked" \/ pc'[t] \in Places
    /\ \A t \in Task : status'[t] = "Done" => status[t] = "Done" \/ pc'[t] = "return"
    /\ S!Active => pc[current] \in Places
    /\ ~refused' => /\ ~refused
                    /\ \A t \in Task : status[t] = "Blocked" /\ status'[t] # "Blocked"
                                          => pc[t] \in Places

\* The current program goes on elsewhere, and nobody parks or is woken.
LEMMA ElsewhereMoves ==
    ASSUME TaskInv, S!Active, pc[current] \in Places, NEW p \in Places,
           pc' = [pc EXCEPT ![current] = p], refused' = refused,
           \A t \in Task : /\ status'[t] = "Blocked" <=> status[t] = "Blocked"
                           /\ status'[t] = "Done" => status[t] = "Done"
    PROVE  Elsewhere
<1>1. current \in Task /\ status[current] = "Running" /\ refused \in BOOLEAN
  BY DEF TaskInv, SchedInv, TypeInv, S!Active
<1>2. \A t \in Task : pc'[t] = IF t = current THEN p ELSE pc[t]
  BY <1>1 DEF TaskInv, TypeInv
<1> QED
  BY <1>1, <1>2 DEF Elsewhere

\* A task is woken that waits elsewhere.
LEMMA ElsewhereWakes ==
    ASSUME TaskInv, S!Active, pc[current] \in Places, NEW p \in Places,
           pc' = [pc EXCEPT ![current] = p], refused' = refused, NEW h \in Task,
           status' = [status EXCEPT ![h] = IF @ = "Blocked" THEN "Runnable" ELSE @],
           ~refused => pc[h] \in Places
    PROVE  Elsewhere
<1>1. current \in Task /\ status[current] = "Running" /\ refused \in BOOLEAN
  BY DEF TaskInv, SchedInv, TypeInv, S!Active
<1>2. \A t \in Task : pc'[t] = IF t = current THEN p ELSE pc[t]
  BY <1>1 DEF TaskInv, TypeInv
<1>3. \A t \in Task : status'[t] = IF t = h /\ status[t] = "Blocked" THEN "Runnable" ELSE status[t]
  BY DEF TaskInv, SchedInv
<1> QED
  BY <1>1, <1>2, <1>3 DEF Elsewhere

\* Every step of JuliaTasks is of this kind.
LEMMA TaskElsewhere ==
    ASSUME TaskInv, TaskSteps \/ SchedulerSteps
    PROVE  Elsewhere
<1>0. SchedInv /\ TypeInv /\ EntryInv /\ LiveInv /\ current \in Task
  BY DEF TaskInv, SchedInv
<1>1. CASE \/ TaskEntry \/ BodyReturns \/ BodyFails \/ WakeWaitersDone \/ SleepEnds \/ WaitEnds
           \/ WaitConditionEnds \/ NotifyEnds
           \/ \E t \in Task : ScheduleError(t)
  <2>1. PICK p \in Places : pc' = [pc EXCEPT ![current] = p]
    BY <1>1 DEF BodyReturns, BodyFails, BodyEnds, TaskEntry, WakeWaitersDone, SleepEnds,
       WaitEnds, WaitConditionEnds, NotifyEnds, ScheduleError, Call, RunFunction, GoTo, Places
  <2>2. UNCHANGED <<status, refused>>
    BY <1>1 DEF BodyReturns, BodyFails, BodyEnds, TaskEntry, WakeWaitersDone, SleepEnds,
       WaitEnds, WaitConditionEnds, NotifyEnds, ScheduleError, schedVars, histVars
  <2>3. S!Active /\ pc[current] \in Places
    BY <1>1 DEF BodyReturns, BodyFails, BodyEnds, TaskEntry, WakeWaitersDone, SleepEnds,
       WaitEnds, WaitConditionEnds, NotifyEnds, ScheduleError, Call, At, Places
  <2> QED
    BY <2>1, <2>2, <2>3, ElsewhereMoves
<1>2. CASE YieldCall \/ \E t \in Task : Schedule(t)
  <2>1. /\ pc' = [pc EXCEPT ![current] = "body"] /\ refused' = refused /\ S!Active
        /\ pc[current] = "body"
    BY <1>2 DEF YieldCall, Schedule, Call, At, GoTo, histVars
  <2>2. \A t \in Task : /\ status'[t] = "Blocked" <=> status[t] = "Blocked"
                        /\ status'[t] = "Done" => status[t] = "Done"
    <3>1. CASE YieldCall
      BY <1>0, <3>1 DEF YieldCall, S!Yield, S!Leave, S!Active, SchedInv
    <3>2. ASSUME NEW u \in Task, Schedule(u)
          PROVE  \A t \in Task : /\ status'[t] = "Blocked" <=> status[t] = "Blocked"
                                 /\ status'[t] = "Done" => status[t] = "Done"
      BY <1>0, <3>2 DEF Schedule, S!Spawn, SchedInv
    <3> QED
      BY <1>2, <3>1, <3>2
  <2>3. "body" \in Places
    BY DEF Places
  <2> QED
    BY <2>1, <2>2, <2>3, ElsewhereMoves
<1>3. CASE MainEnds \/ DeadlockEndsRun \/ Ended
  <2>1. UNCHANGED <<status, pc, refused>> /\ (S!Active => pc[current] = "body")
    BY <1>3 DEF MainEnds, DeadlockEndsRun, Ended, S!Stop, S!Active, S!Between, At, schedVars,
                progVars, histVars
  <2> QED
    BY <1>0, <2>1 DEF Elsewhere, Places, TypeInv
<1>4. CASE RootReturn
  <2>1. /\ UNCHANGED <<pc, refused>> /\ S!Active /\ pc[current] = "return"
        /\ status' = [status EXCEPT ![current] = "Done"] /\ status[current] = "Running"
    BY <1>0, <1>4 DEF RootReturn, At, S!Finish, S!Leave, S!Active, progVars, histVars, SchedInv
  <2>2. \A t \in Task : status'[t] = IF t = current THEN "Done" ELSE status[t]
    BY <1>0, <2>1 DEF SchedInv
  <2> QED
    BY <1>0, <2>1, <2>2 DEF Elsewhere, Places, TypeInv
<1>5. CASE Dispatch
  <2> DEFINE h == Head(ready)
  <2>1. /\ ready \in Seq(Task) /\ ready # <<>> /\ status' = [status EXCEPT ![h] = "Running"]
        /\ UNCHANGED <<pc, refused>> /\ ~S!Active
    BY <1>0, <1>5 DEF Dispatch, S!Dispatch, S!Between, S!Active, SchedInv, progVars, histVars
  <2>2. h \in Task /\ Has(ready, h)
    BY <2>1, QueueTail
  <2>3. status[h] = "Runnable"
    BY <1>0, <2>2 DEF SchedInv
  <2> HIDE DEF h
  <2>4. \A t \in Task : status'[t] = IF t = h THEN "Running" ELSE status[t]
    BY <1>0, <2>1, <2>2 DEF SchedInv
  <2> QED
    BY <1>0, <2>1, <2>2, <2>3, <2>4 DEF Elsewhere, TypeInv
<1>6. CASE SleepCall \/ WaitAgain \/ WaitCondition \/ \E t \in Task : WaitCall(t)
  <2>1. status' = [status EXCEPT ![current] = "Blocked"] /\ refused' = refused /\ S!Active
    BY <1>6 DEF SleepCall, WaitAgain, WaitCondition, WaitCall, ParkInWait, ParkCurrent,
                S!Park, S!Sleep, S!Leave
  <2>2. PICK p \in Places : pc' = [pc EXCEPT ![current] = p]
    BY <1>0, <1>6 DEF SleepCall, WaitAgain, WaitCondition, WaitCall, Call, At, GoTo, progVars,
                      TypeInv, Places
  <2>3. pc[current] \in Places
    BY <1>6 DEF SleepCall, WaitAgain, WaitCondition, WaitCall, Call, At, Places
  <2>4. \A t \in Task : status'[t] = IF t = current THEN "Blocked" ELSE status[t]
    BY <1>0, <2>1 DEF SchedInv
  <2>5. \A t \in Task : pc'[t] = IF t = current THEN p ELSE pc[t]
    BY <1>0, <2>2 DEF TypeInv
  <2>6. status[current] = "Running"
    BY <1>0, <2>1 DEF SchedInv, S!Active
  <2> QED
    BY <1>0, <2>1, <2>3, <2>4, <2>5, <2>6 DEF Elsewhere, TypeInv
<1>7. CASE TimerExpires
  <2>1. PICK h \in Task : S!Expire(h) /\ UNCHANGED <<pc, refused>>
    BY <1>7 DEF TimerExpires, progVars
  <2>2. /\ ~S!Active /\ status' = [status EXCEPT ![h] = "Runnable"]
        /\ ~refused => pc[h] \in Places
    BY <1>0, <2>1 DEF S!Expire, S!Between, S!Active, LiveInv, Parked, Places
  <2>3. \A t \in Task : status'[t] = IF t = h THEN "Runnable" ELSE status[t]
    BY <1>0, <2>2 DEF SchedInv
  <2> QED
    BY <1>0, <2>1, <2>2, <2>3 DEF Elsewhere, TypeInv
<1>8. CASE WakeWaiter
  <2> DEFINE u == on[current]
             h == Head(waiters[u])
  <2>1. /\ S!Active /\ waiters[u] # <<>> /\ WakeTask(h, "exit") /\ UNCHANGED <<pc, refused>>
        /\ u \in Task /\ waiters[u] \in Seq(Task) /\ pc[current] \in Places
    BY <1>0, <1>8 DEF WakeWaiter, At, progVars, TypeInv, Places
  <2>2. h \in Task /\ Has(waiters[u], h)
    BY <2>1, QueueTail
  <2> HIDE DEF u, h
  <2>3. ~refused => pc[h] \in Places
    BY <1>0, <2>1, <2>2 DEF LiveInv, Parked, Places
  <2>4. pc' = [pc EXCEPT ![current] = pc[current]]
    BY <1>0, <2>1 DEF TypeInv
  <2>5. status' = [status EXCEPT ![h] = IF @ = "Blocked" THEN "Runnable" ELSE @]
    BY <1>0, <2>1, <2>2, WakeSched
  <2> QED
    BY <2>1, <2>2, <2>3, <2>4, <2>5, ElsewhereWakes
<1>9. CASE NotifyCall \/ NotifyNext
  <2> DEFINE h == Head(waitq)
  <2>1. /\ S!Active /\ waitq # <<>> /\ WakeTask(h, "notify") /\ refused' = refused
        /\ waitq \in Seq(Task) /\ pc[current] \in Places
    BY <1>0, <1>9 DEF NotifyCall, NotifyNext, NotifyHead, Call, At, TypeInv, Places
  <2>2. h \in Task /\ Has(waitq, h)
    BY <2>1, QueueTail
  <2> HIDE DEF h
  <2>3. ~refused => pc[h] \in Places
    BY <1>0, <2>1, <2>2 DEF LiveInv, Parked, Places
  <2>4. PICK p \in Places : pc' = [pc EXCEPT ![current] = p]
    BY <1>0, <1>9 DEF NotifyCall, NotifyNext, Call, At, GoTo, progVars, TypeInv, Places
  <2>5. status' = [status EXCEPT ![h] = IF @ = "Blocked" THEN "Runnable" ELSE @]
    BY <1>0, <2>1, <2>2, WakeSched
  <2> QED
    BY <2>1, <2>2, <2>3, <2>4, <2>5, ElsewhereWakes
<1>10. CASE DeadlockError
  <2>1. /\ refused' /\ pc' = [pc EXCEPT ![current] = "body"] /\ ~S!Active
        /\ status' = [status EXCEPT ![current] = "Running"] /\ status[current] # "Done"
    BY <1>10 DEF DeadlockError, GoTo, S!Refuse, S!Between, S!Active
  <2>2. \A t \in Task : pc'[t] = IF t = current THEN "body" ELSE pc[t]
    BY <1>0, <2>1 DEF TypeInv
  <2>3. \A t \in Task : status'[t] = IF t = current THEN "Running" ELSE status[t]
    BY <1>0, <2>1 DEF SchedInv
  <2> QED
    BY <2>1, <2>2, <2>3 DEF Elsewhere, Places
<1> QED
  BY <1>1, <1>2, <1>3, <1>4, <1>5, <1>6, <1>7, <1>8, <1>9, <1>10 DEF TaskSteps, SchedulerSteps

\* No place of the channel is one of JuliaTasks.
LEMMA PlacesApart ==
    /\ Places \subseteq ChannelPlaces
    /\ \A p \in Places : p \notin PutPlaces /\ p \notin TakePlaces
                         /\ p \notin {"close", "exit_close", "empty"}
BY DEF Places, PutPlaces, TakePlaces, ChannelPlaces

\* Until a deadlock error, a step of JuliaTasks leaves whoever is in the channel
\* where it is, parked or not.
LEMMA ElsewhereInside ==
    ASSUME TaskInv, Elsewhere, ~refused', NEW t \in Task, pc[t] \notin Places \/ pc'[t] \notin Places
    PROVE  pc'[t] = pc[t] /\ (status'[t] = "Blocked" <=> status[t] = "Blocked")
BY DEF Elsewhere

\* A step of JuliaTasks does not disturb the channel.
LEMMA TaskChanInv ==
    ASSUME TaskInv, TaskInv', ChanInv, Elsewhere, UNCHANGED <<sz_max, chanVars, chanHist>>
    PROVE  ChanInv'
<1>1. UNCHANGED <<sz_max, open, data, putters, takers, bound, item, taken, dropped, returned>>
  BY DEF chanVars, chanHist
<1>2. current \in Task /\ pc' = [t \in Task |-> pc'[t]]
  BY DEF TaskInv, SchedInv, TypeInv
<1>3. \A t \in Task : pc'[t] \notin Places => pc'[t] = pc[t]
  BY DEF Elsewhere
<1>4. \A t \in Task : \A P : ParkedIn(t, P)' /\ pc'[t] \notin Places => ParkedIn(t, P)
  BY <1>3 DEF Elsewhere, ParkedIn
<1>5. ChannelTypeOK'
  <2>1. \A t \in Task : pc'[t] \in ChannelPlaces
    BY <1>3, PlacesApart DEF ChanInv, ChannelTypeOK
  <2>2. pc' \in [Task -> ChannelPlaces]
    BY <1>2, <2>1
  <2> QED
    BY <1>1, <2>2 DEF ChanInv, ChannelTypeOK, IsBuffered
<1>6. ItemInv'
  <2>1. "put" \notin Places
    BY DEF Places
  <2> QED
    BY <1>1, <1>3, <2>1 DEF ChanInv, ItemInv
<1>7. QueuedInv'
  <2>1. \A t \in Task : \A P \in {PutPlaces, TakePlaces} : ParkedIn(t, P)' => ParkedIn(t, P)
    BY <1>4, PlacesApart DEF ParkedIn
  <2> QED
    BY <1>1, <2>1 DEF ChanInv, QueuedInv
<1>8. ClosedReleases'
  <2>1. ~Closing
    BY PlacesApart DEF Closing, At, Elsewhere
  <2>2. \A t \in Task : ParkedIn(t, PutPlaces \cup TakePlaces)' => ParkedIn(t, PutPlaces \cup TakePlaces)
    BY <1>4, PlacesApart DEF ParkedIn
  <2> QED
    BY <1>1, <2>1, <2>2 DEF ChanInv, ClosedReleases
<1>9. OfferInv' /\ Rendezvous'
  <2>1. "offer" \notin Places
    BY DEF Places
  <2> QED
    BY <1>1, <1>3, <2>1 DEF ChanInv, OfferInv, Rendezvous, IsBuffered
<1>10. EntriesInv'
  <2> SUFFICES ASSUME ~refused' PROVE EntriesInv'
    BY DEF EntriesInv
  <2>1. ~refused
    BY DEF Elsewhere
  <2>2. \A t \in Task : \A P \in {PutPlaces, TakePlaces} : ParkedIn(t, P) => ParkedIn(t, P)'
    BY ElsewhereInside, PlacesApart DEF ParkedIn
  <2> QED
    BY <1>1, <2>1, <2>2 DEF ChanInv, EntriesInv
<1> QED
  BY <1>5, <1>6, <1>7, <1>8, <1>9, <1>10 DEF ChanInv

-----------------------------------------------------------------------------
(***************************************************************************)
(* The steps of the channel, of three kinds: nobody parks or is woken, the *)
(* first task of a queue is woken, the current task parks.                 *)
(***************************************************************************)
\* Values leave the channel through take! and empty! only, and an unbuffered put!
\* returns when its value has.
ValuesKept ==
    /\ sz_max' = sz_max
    /\ data' \in Seq(1..MaxCalls) /\ Len(data') <= IF IsBuffered THEN sz_max ELSE 1
    /\ taken \subseteq taken' /\ dropped \subseteq dropped'
    /\ \A v : Has(data, v) => v \in taken' \cup dropped' \/ Has(data', v)
    /\ ~IsBuffered => returned' \subseteq returned \cup taken' \cup dropped'

\* The channel is open as before, or is closed by a step that goes on to wake
\* everybody; nobody stops before the queues are empty.
ClosesWell ==
    /\ open' \in BOOLEAN
    /\ ~open' => ~open \/ Closing'
    /\ Closing => Closing' \/ (putters = <<>> /\ takers = <<>>)

\* Where a program goes inside the channel, with its value.
EntersAt(p) ==
    /\ p \in ChannelPlaces /\ bound' \subseteq Task
    /\ item' \in [Task -> 0..MaxCalls]
    /\ \A t \in Task \ {current} : item'[t] = item[t]
    /\ p = "put" => item'[current] \in 1..MaxCalls
    /\ p = "offer" => \/ pc[current] = "offer" /\ item'[current] = item[current]
                      \/ ~IsBuffered /\ Has(data', item'[current])

\* What does not depend on who is parked.
LEMMA ChanValues ==
    ASSUME TaskInv, ChanInv, NEW p, Moves(p), ValuesKept, EntersAt(p), open' \in BOOLEAN,
           putters' \in Seq(Task), takers' \in Seq(Task)
    PROVE  ChannelTypeOK' /\ ItemInv' /\ OfferInv' /\ Rendezvous'
<1>1. current \in Task
  BY DEF TaskInv, SchedInv
<1>2. \A t \in Task : pc'[t] = IF t = current THEN p ELSE pc[t]
  BY <1>1 DEF TaskInv, TypeInv, Moves
<1>3. ChannelTypeOK'
  <2>1. pc' \in [Task -> ChannelPlaces]
    BY DEF ChanInv, ChannelTypeOK, Moves, EntersAt
  <2> QED
    BY <2>1 DEF ChanInv, ChannelTypeOK, ValuesKept, EntersAt, IsBuffered
<1>4. ItemInv'
  BY <1>2 DEF ChanInv, ItemInv, EntersAt
<1>5. OfferInv'
  BY <1>1, <1>2 DEF ChanInv, OfferInv, ValuesKept, EntersAt, IsBuffered
<1>6. Rendezvous'
  BY DEF ChanInv, Rendezvous, ValuesKept, IsBuffered
<1> QED
  BY <1>3, <1>4, <1>5, <1>6

\* The program of the current task goes on in another place.
LEMMA ChanPlaceStep ==
    ASSUME TaskInv, ChanInv, S!Active, NEW p, Moves(p), UNCHANGED <<schedVars, taskVars, cause>>,
           Completing => Completing' \/ waiters[on[current]] = <<>>,
           UNCHANGED <<putters, takers>>, ValuesKept, ClosesWell, EntersAt(p)
    PROVE  TaskInv' /\ ChanInv'
<1>1. TaskInv'
  BY PlaceStep
<1>2. current \in Task /\ status[current] = "Running"
  BY DEF TaskInv, SchedInv, S!Active
<1>3. UNCHANGED <<status, up, idle, current, refused>>
  BY DEF schedVars, Moves
<1>4. \A t \in Task : pc'[t] = IF t = current THEN p ELSE pc[t]
  BY <1>2 DEF TaskInv, TypeInv, Moves
<1>5. ChannelTypeOK' /\ ItemInv' /\ OfferInv' /\ Rendezvous'
  BY ChanValues DEF ChanInv, ChannelTypeOK, ClosesWell
<1>7. \A t \in Task : \A P : ParkedIn(t, P)' <=> ParkedIn(t, P)
  BY <1>2, <1>3, <1>4 DEF ParkedIn
<1>8. QueuedInv' /\ EntriesInv'
  BY <1>3, <1>7 DEF ChanInv, QueuedInv, EntriesInv
<1>9. ClosedReleases'
  <2>1. CASE ~open /\ ~Closing
    BY <1>7, <2>1 DEF ChanInv, ClosedReleases
  <2>2. CASE open
    BY <2>2 DEF ClosedReleases, ClosesWell
  <2>3. CASE Closing
    <3>1. putters = <<>> /\ takers = <<>> => \A t \in Task : ~Has(putters, t) /\ ~Has(takers, t)
      BY QueueEmpty
    <3> QED
      BY <1>7, <2>3, <3>1 DEF ChanInv, QueuedInv, ClosedReleases, ClosesWell, ParkedIn
  <2> QED
    BY <2>1, <2>2, <2>3
<1> QED
  BY <1>1, <1>5, <1>8, <1>9 DEF ChanInv

\* What it means for a queue q, which becomes qn, that its first task is woken.
Served(q, qn) ==
    /\ UNCHANGED <<current, idle, up>>
    /\ qn \in Seq(Task) /\ (qn # <<>> => q # <<>>)
    /\ \A t \in Task : Has(qn, t) => Has(q, t)
    /\ \A t \in Task : status'[t] = "Blocked" =>
                           status[t] = "Blocked" /\ (Has(q, t) => Has(qn, t))
    /\ \A t \in Task : status[t] = "Blocked" /\ status'[t] # "Blocked" => Has(q, t)
    /\ \A t \in Task : status'[t] = "Done" => status[t] = "Done"
    /\ ~refused => /\ Distinct(qn)
                   /\ \A t \in Task : Has(qn, t) => status'[t] = "Blocked"
                   /\ q # <<>> => \E h \in Task :
                         /\ Has(q, h) /\ status'[h] # "Blocked"
                         /\ \A t \in Task \ {h} : status'[t] = "Blocked" <=> status[t] = "Blocked"

\* _wake_channel_takers and _wake_channel_putters serve a queue of the channel.
LEMMA QueueServed ==
    ASSUME TaskInv, S!Active, NEW p, Moves(p), UNCHANGED taskVars, NEW q \in Seq(Task), NEW qn,
           \/ q = <<>> /\ qn = q /\ UNCHANGED <<schedVars, cause>>
           \/ q # <<>> /\ qn = Tail(q) /\ WakeTask(Head(q), "channel"),
           ~refused => Distinct(q) /\ \A t \in Task : Has(q, t) => status[t] = "Blocked" /\ pc[t] \notin Places,
           Completing => p = pc[current]
    PROVE  TaskInv' /\ Served(q, qn)
<1>0. SchedInv /\ TypeInv /\ current \in Task /\ refused \in BOOLEAN
  BY DEF TaskInv, SchedInv, TypeInv
<1>1. pc'[current] = p
  BY <1>0 DEF TypeInv, Moves
<1>2. CASE q = <<>> /\ qn = q /\ UNCHANGED <<schedVars, cause>>
  <2>1. UNCHANGED <<status, current, idle, up>>
    BY <1>2 DEF schedVars
  <2>2. TaskInv'
    <3>1. Completing => Completing'
      BY <1>1, <2>1 DEF Completing
    <3> QED
      BY <1>2, <3>1, PlaceStep
  <2>3. Served(q, qn)
    BY <1>2, <2>1, QueueEmpty DEF Served
  <2> QED
    BY <2>2, <2>3
<1>3. CASE q # <<>> /\ qn = Tail(q) /\ WakeTask(Head(q), "channel")
  <2> DEFINE h == Head(q)
  <2>1. /\ h \in Task /\ qn \in Seq(Task)
        /\ \A t : Has(q, t) <=> Has(qn, t) \/ t = h
        /\ Distinct(q) => Distinct(qn) /\ ~Has(qn, h)
    BY <1>3, QueueTail
  <2>2. WakeTask(h, "channel")
    BY <1>3
  <2> HIDE DEF h
  <2>3. /\ UNCHANGED <<current, idle, up>>
        /\ status' = [status EXCEPT ![h] = IF @ = "Blocked" THEN "Runnable" ELSE @]
    BY <1>0, <2>1, <2>2, WakeSched
  <2>4. TaskInv'
    <3>1. Completing => Completing'
      BY <1>1, <2>3 DEF Completing
    <3>2. ~refused => ~Parked(h, "wait") /\ ~Parked(h, "condition")
      BY <2>1 DEF Parked, Places
    <3> QED
      BY <2>1, <2>2, <3>1, <3>2, WakeStep
  <2>5. \A t \in Task : status'[t] = IF t = h /\ status[t] = "Blocked" THEN "Runnable" ELSE status[t]
    BY <1>0, <2>3 DEF SchedInv
  <2>6. ~refused => status[h] = "Blocked"
    BY <2>1
  <2>7. Served(q, qn)
    <3>1. ~refused => /\ Distinct(qn)
                      /\ \A t \in Task : Has(qn, t) => status'[t] = "Blocked"
      BY <2>1, <2>5
    <3>2. ~refused => Has(q, h) /\ status'[h] # "Blocked"
                      /\ \A t \in Task \ {h} : status'[t] = "Blocked" <=> status[t] = "Blocked"
      BY <2>1, <2>5, <2>6
    <3>3. \A t \in Task : /\ Has(qn, t) => Has(q, t)
                          /\ status'[t] = "Blocked" => status[t] = "Blocked" /\ (Has(q, t) => Has(qn, t))
                          /\ status[t] = "Blocked" /\ status'[t] # "Blocked" => Has(q, t)
                          /\ status'[t] = "Done" => status[t] = "Done"
      BY <2>1, <2>5
    <3> QED
      BY <1>3, <2>1, <2>3, <3>1, <3>2, <3>3 DEF Served
  <2> QED
    BY <2>4, <2>7
<1> QED
  BY <1>2, <1>3

\* A step that wakes a putter or a taker.
LEMMA ChanWakeStep ==
    ASSUME TaskInv, ChanInv, S!Active, NEW p, Moves(p), UNCHANGED taskVars,
           (WakePutter /\ takers' = takers) \/ (WakeTaker /\ putters' = putters),
           Completing \/ Closing => p = pc[current],
           open' = open, ValuesKept, EntersAt(p)
    PROVE  /\ TaskInv' /\ ChanInv'
           /\ WakePutter /\ takers' = takers => Served(putters, putters')
           /\ WakeTaker /\ putters' = putters => Served(takers, takers')
<1>0. current \in Task /\ status[current] = "Running"
  BY DEF TaskInv, SchedInv, S!Active
<1>1. putters \in Seq(Task) /\ takers \in Seq(Task)
  BY DEF ChanInv, ChannelTypeOK
<1>2. ASSUME WakePutter, takers' = takers PROVE TaskInv' /\ Served(putters, putters')
  <2>1. \/ putters = <<>> /\ putters' = putters /\ UNCHANGED <<schedVars, cause>>
        \/ putters # <<>> /\ putters' = Tail(putters) /\ WakeTask(Head(putters), "channel")
    BY <1>2 DEF WakePutter
  <2>2. ~refused => /\ Distinct(putters)
                    /\ \A t \in Task : Has(putters, t) => status[t] = "Blocked" /\ pc[t] \notin Places
    BY PlacesApart DEF ChanInv, EntriesInv, ParkedIn
  <2> QED
    BY <1>1, <2>1, <2>2, QueueServed
<1>3. ASSUME WakeTaker, putters' = putters PROVE TaskInv' /\ Served(takers, takers')
  <2>1. \/ takers = <<>> /\ takers' = takers /\ UNCHANGED <<schedVars, cause>>
        \/ takers # <<>> /\ takers' = Tail(takers) /\ WakeTask(Head(takers), "channel")
    BY <1>3 DEF WakeTaker
  <2>2. ~refused => /\ Distinct(takers)
                    /\ \A t \in Task : Has(takers, t) => status[t] = "Blocked" /\ pc[t] \notin Places
    BY PlacesApart DEF ChanInv, EntriesInv, ParkedIn
  <2> QED
    BY <1>1, <2>1, <2>2, QueueServed
<1>4. /\ \A t \in Task : pc'[t] = IF t = current THEN p ELSE pc[t]
      /\ refused' = refused
  BY <1>0 DEF TaskInv, TypeInv, Moves
<1>5. \A t \in Task : PutPlaces \cap TakePlaces = {}
  BY DEF PutPlaces, TakePlaces
<1>6. /\ putters' \in Seq(Task) /\ takers' \in Seq(Task) /\ UNCHANGED <<current, idle, up>>
      /\ \A t \in Task : status'[t] = "Blocked" => status[t] = "Blocked"
  BY <1>1, <1>2, <1>3 DEF Served
<1>7. ChannelTypeOK' /\ ItemInv' /\ OfferInv' /\ Rendezvous'
  BY <1>6, ChanValues DEF ChanInv, ChannelTypeOK
<1>8. \A t \in Task : \A P : ParkedIn(t, P)' => ParkedIn(t, P) /\ t # current
  BY <1>0, <1>4, <1>6 DEF ParkedIn
<1>9. QueuedInv'
  <2>1. CASE WakePutter /\ takers' = takers
    BY <1>2, <1>8, <2>1 DEF ChanInv, QueuedInv, ParkedIn, Served
  <2>2. CASE WakeTaker /\ putters' = putters
    BY <1>3, <1>8, <2>2 DEF ChanInv, QueuedInv, ParkedIn, Served
  <2> QED
    BY <2>1, <2>2
<1>10. ClosedReleases'
  <2>1. Closing => Closing'
    BY <1>0, <1>4, <1>6 DEF Closing, At, S!Active
  <2> QED
    BY <1>8, <2>1 DEF ChanInv, ClosedReleases
<1>11. EntriesInv'
  <2> SUFFICES ASSUME ~refused PROVE EntriesInv'
    BY <1>4 DEF EntriesInv
  <2>1. \A t \in Task : \A P : ParkedIn(t, P) /\ status'[t] = "Blocked" => ParkedIn(t, P)'
    BY <1>0, <1>4 DEF ParkedIn
  <2>2. /\ Distinct(putters) /\ Distinct(takers)
        /\ \A t \in Task : /\ Has(putters, t) => ParkedIn(t, PutPlaces)
                           /\ Has(takers, t) => ParkedIn(t, TakePlaces)
    BY DEF ChanInv, EntriesInv
  <2>3. CASE WakePutter /\ takers' = takers
    <3>1. \A t \in Task : Has(takers, t) => status'[t] = "Blocked"
      BY <1>2, <1>5, <2>2, <2>3 DEF Served, ParkedIn
    <3> QED
      BY <1>2, <2>1, <2>2, <2>3, <3>1 DEF EntriesInv, Served
  <2>4. CASE WakeTaker /\ putters' = putters
    <3>1. \A t \in Task : Has(putters, t) => status'[t] = "Blocked"
      BY <1>3, <1>5, <2>2, <2>4 DEF Served, ParkedIn
    <3> QED
      BY <1>3, <2>1, <2>2, <2>4, <3>1 DEF EntriesInv, Served
  <2> QED
    BY <2>3, <2>4
<1> QED
  BY <1>2, <1>3, <1>7, <1>9, <1>10, <1>11 DEF ChanInv

\* A loop of the library parks the current task, which makes its entry first.
LEMMA ChanParkStep ==
    ASSUME TaskInv, ChanInv, S!Active, open, sz_max' = sz_max,
           \/ pc[current] \in PutPlaces /\ ParkAsPutter
           \/ pc[current] \in TakePlaces /\ ParkAsTaker
    PROVE  /\ TaskInv' /\ ChanInv' /\ UNCHANGED <<pc, current, refused, open, data>>
           /\ \A t \in Task : status'[t] = IF t = current THEN "Blocked" ELSE status[t]
<1>0. SchedInv /\ TypeInv /\ current \in Task /\ status[current] = "Running"
  BY DEF TaskInv, SchedInv, S!Active
<1>1. /\ ParkCurrent /\ UNCHANGED <<taskVars, obj, pc, calls, refused, open, data, bound, item>>
      /\ UNCHANGED <<taken, dropped, returned>>
  BY DEF ParkAsPutter, ParkAsTaker, taskVars, progVars, chanHist
<1>2. /\ status' = [status EXCEPT ![current] = "Blocked"] /\ current' = current
  BY <1>1 DEF ParkCurrent, S!Park, S!Leave
<1>3. \A t \in Task : status'[t] = IF t = current THEN "Blocked" ELSE status[t]
  BY <1>0, <1>2 DEF SchedInv
<1> DEFINE p == pc[current]
<1>4. p \notin Places /\ p \notin {"exit", "exit_close", "wake", "close", "entry", "wait", "condition"}
  BY DEF PutPlaces, TakePlaces, Places
<1>5. Moves(p)
  <2>1. pc' = [pc EXCEPT ![current] = p]
    BY <1>0, <1>1 DEF TypeInv
  <2> QED
    BY <1>0, <1>1, <1>4, <2>1 DEF Moves, TypeInv
<1>6. TaskInv'
  <2>1. ~Completing
    BY <1>4 DEF Completing
  <2>2. p \notin {"wait", "condition"}
    BY <1>4
  <2> HIDE DEF p
  <2> QED
    BY <1>1, <1>5, <2>1, <2>2, ParkStep
<1>7. /\ putters \in Seq(Task) /\ takers \in Seq(Task) /\ item \in [Task -> 0..MaxCalls]
      /\ pc \in [Task -> ChannelPlaces]
  BY DEF ChanInv, ChannelTypeOK
<1>8. ValuesKept
  BY <1>1 DEF ValuesKept, ChanInv, ChannelTypeOK
<1>9. EntersAt(p)
  BY <1>0, <1>1, <1>7 DEF EntersAt, ChanInv, ChannelTypeOK, ItemInv
<1>10. \/ /\ p \in PutPlaces /\ putters' = Append(putters, current) /\ takers' = takers
       \/ /\ p \in TakePlaces /\ takers' = Append(takers, current) /\ putters' = putters
  BY DEF ParkAsPutter, ParkAsTaker
<1>a. /\ Append(putters, current) \in Seq(Task)
      /\ \A t : Has(Append(putters, current), t) <=> Has(putters, t) \/ t = current
      /\ Distinct(putters) /\ ~Has(putters, current) => Distinct(Append(putters, current))
  BY <1>0, <1>7, QueueAppend
<1>b. /\ Append(takers, current) \in Seq(Task)
      /\ \A t : Has(Append(takers, current), t) <=> Has(takers, t) \/ t = current
      /\ Distinct(takers) /\ ~Has(takers, current) => Distinct(Append(takers, current))
  BY <1>0, <1>7, QueueAppend
<1>11. /\ putters' \in Seq(Task) /\ takers' \in Seq(Task)
  BY <1>7, <1>10, <1>a, <1>b
<1>12. ChannelTypeOK' /\ ItemInv' /\ OfferInv' /\ Rendezvous'
  <2>1. open' \in BOOLEAN
    BY <1>1 DEF ChanInv, ChannelTypeOK
  <2> HIDE DEF p
  <2> QED
    BY <1>5, <1>8, <1>9, <1>11, <2>1, ChanValues
<1>13. ClosedReleases'
  BY <1>1 DEF ClosedReleases
<1>14. \A t \in Task \ {current} : \A P : ParkedIn(t, P)' <=> ParkedIn(t, P)
  BY <1>1, <1>3 DEF ParkedIn
<1>15. \A P : (status'[current] = "Blocked" /\ pc'[current] \in P) <=> p \in P
  BY <1>0, <1>1, <1>3
<1>16. PutPlaces \cap TakePlaces = {}
  BY DEF PutPlaces, TakePlaces
<1>17. \A t : /\ Has(putters', t) <=> Has(putters, t) \/ (t = current /\ p \in PutPlaces)
              /\ Has(takers', t) <=> Has(takers, t) \/ (t = current /\ p \in TakePlaces)
  <2>1. CASE /\ p \in PutPlaces /\ putters' = Append(putters, current) /\ takers' = takers
    BY <1>16, <1>a, <2>1
  <2>2. CASE /\ p \in TakePlaces /\ takers' = Append(takers, current) /\ putters' = putters
    BY <1>16, <1>b, <2>2
  <2> QED
    BY <1>10, <2>1, <2>2
<1>18. QueuedInv'
  <2> HIDE DEF p
  <2> QED
    BY <1>14, <1>15, <1>17 DEF ChanInv, QueuedInv, ParkedIn
<1>19. EntriesInv'
  <2> SUFFICES ASSUME ~refused PROVE EntriesInv'
    BY <1>1 DEF EntriesInv
  <2>1. ~Has(putters, current) /\ ~Has(takers, current) /\ Distinct(putters) /\ Distinct(takers)
    BY <1>0 DEF ChanInv, EntriesInv, ParkedIn
  <2>2. Distinct(putters') /\ Distinct(takers')
    BY <1>10, <1>a, <1>b, <2>1
  <2> HIDE DEF p
  <2>3. \A t \in Task : /\ Has(putters', t) => ParkedIn(t, PutPlaces)'
                        /\ Has(takers', t) => ParkedIn(t, TakePlaces)'
    BY <1>14, <1>15, <1>17, <2>1 DEF ChanInv, EntriesInv, ParkedIn
  <2> QED
    BY <2>2, <2>3 DEF EntriesInv
<1> QED
  BY <1>1, <1>2, <1>3, <1>6, <1>12, <1>13, <1>18, <1>19 DEF ChanInv

-----------------------------------------------------------------------------
(***************************************************************************)
(* The actions of the channel.                                             *)
(***************************************************************************)
\* Nothing happens to the values of the channel.
LEMMA SameValues ==
    ASSUME ChanInv, UNCHANGED <<sz_max, data, taken, dropped, returned>>
    PROVE  ValuesKept
BY DEF ChanInv, ChannelTypeOK, ValuesKept

\* put! starts with a value that nobody has put before.
LEMMA PutCallInv ==
    ASSUME TaskInv, ChanInv, PutCall, sz_max' = sz_max
    PROVE  TaskInv' /\ ChanInv'
<1>0. TypeInv /\ current \in Task
  BY DEF TaskInv, SchedInv
<1>1. /\ Call("put", "put") /\ item' = [item EXCEPT ![current] = calls]
      /\ UNCHANGED <<schedVars, taskVars, cause, refused, obj>>
      /\ UNCHANGED <<open, data, putters, takers, bound, taken, dropped, returned>>
  BY DEF PutCall, histVars, chanHist, taskVars
<1>2. Moves("put") /\ S!Active /\ pc[current] = "body" /\ ~Completing
  BY <1>0, <1>1, CallMoves
<1>3. ValuesKept
  BY <1>1, SameValues
<1>4. ClosesWell
  BY <1>1, <1>2 DEF ClosesWell, Closing, At, ChanInv, ChannelTypeOK
<1>5. calls \in 1..MaxCalls
  BY <1>0, <1>1, ProgramAssumption DEF Call, TypeInv
<1>6. EntersAt("put")
  <2>1. item \in [Task -> 0..MaxCalls] /\ bound \subseteq Task
    BY DEF ChanInv, ChannelTypeOK
  <2>2. item' \in [Task -> 0..MaxCalls] /\ item'[current] = calls
    BY <1>0, <1>1, <1>5, <2>1
  <2> QED
    BY <1>0, <1>1, <1>5, <2>1, <2>2 DEF EntersAt, ChannelPlaces, PutPlaces
<1> QED
  BY <1>1, <1>2, <1>3, <1>4, <1>6, ChanPlaceStep

\* Calls and returns that change nothing of the channel but, maybe, its state and
\* the tasks it is bound to.
LEMMA QuietInv ==
    ASSUME TaskInv, ChanInv, S!Active, NEW p, Moves(p), p \in ChannelPlaces \ PutPlaces,
           UNCHANGED <<schedVars, taskVars, cause>>,
           UNCHANGED <<sz_max, data, putters, takers, item, taken, dropped, returned>>,
           bound' \subseteq Task, open' \in BOOLEAN,
           ~open' => ~open \/ p \in {"close", "exit_close"},
           pc[current] \in {"close", "exit_close"} => putters = <<>> /\ takers = <<>>,
           pc[current] \in {"exit", "exit_close"} => p \in {"exit_close", "wake"},
           pc[current] # "wake"
    PROVE  TaskInv' /\ ChanInv'
<1>1. current \in Task /\ pc'[current] = p
  BY DEF TaskInv, SchedInv, TypeInv, Moves
<1>2. UNCHANGED <<current, idle, up>>
  BY DEF schedVars
<1>3. Completing => Completing'
  BY <1>1, <1>2 DEF Completing
<1>4. ClosesWell
  <2>1. ~open' => ~open \/ Closing'
    BY <1>1, <1>2 DEF Closing, At, S!Active
  <2>2. Closing => putters = <<>> /\ takers = <<>>
    BY DEF Closing, At
  <2> QED
    BY <2>1, <2>2 DEF ClosesWell
<1>5. ValuesKept
  BY SameValues
<1>6. EntersAt(p)
  BY DEF EntersAt, ChanInv, ChannelTypeOK, PutPlaces
<1> QED
  BY <1>3, <1>4, <1>5, <1>6, ChanPlaceStep

\* Returns and exceptions.
LEMMA ReturnsInv ==
    ASSUME TaskInv, ChanInv, sz_max' = sz_max,
           PutThrows \/ TakeThrows \/ FetchValue \/ CloseEnds \/ EmptyEnds \/ ExitLeavesChannel
    PROVE  TaskInv' /\ ChanInv'
<1>0. TypeInv /\ current \in Task
  BY DEF TaskInv, SchedInv
<1>1. /\ S!Active
      /\ pc[current] \in {"put", "offer", "take", "iterate", "fetch", "close", "exit_close",
                          "empty", "exit"}
      /\ pc[current] \in {"close", "exit_close"} => putters = <<>> /\ takers = <<>>
  BY DEF PutThrows, TakeThrows, FetchValue, CloseEnds, EmptyEnds, ExitLeavesChannel, ExitUnbound,
         Closing, AtTake, At
<1>2. PICK p \in {"body", "wake"} : /\ pc' = [pc EXCEPT ![current] = p]
                                    /\ pc[current] \in {"exit", "exit_close"} => p = "wake"
  BY DEF PutThrows, TakeThrows, FetchValue, CloseEnds, EmptyEnds, ExitLeavesChannel, ExitUnbound,
         Closing, AtTake, At, GoTo
<1>3. /\ UNCHANGED <<schedVars, taskVars, cause, refused, calls, obj>>
      /\ UNCHANGED <<open, bound, data, putters, takers, item, taken, dropped, returned>>
  BY DEF PutThrows, TakeThrows, FetchValue, CloseEnds, EmptyEnds, ExitLeavesChannel, ExitUnbound,
         chanVars, chanHist, histVars, taskVars
<1>4. Moves(p)
  BY <1>0, <1>1, <1>2, <1>3 DEF Moves, TypeInv
<1>5. p \in ChannelPlaces \ PutPlaces
  BY DEF ChannelPlaces, Places, PutPlaces
<1>6. bound' \subseteq Task /\ open' \in BOOLEAN
  BY <1>3 DEF ChanInv, ChannelTypeOK
<1> QED
  BY <1>1, <1>2, <1>3, <1>4, <1>5, <1>6, QuietInv

\* Calls.
LEMMA CallsInv ==
    ASSUME TaskInv, ChanInv, sz_max' = sz_max,
           TakeCall \/ CloseCall \/ \E t \in Task : BindCall(t)
    PROVE  TaskInv' /\ ChanInv'
<1>0. TypeInv /\ current \in Task
  BY DEF TaskInv, SchedInv
<1>1. /\ UNCHANGED <<schedVars, taskVars, cause, refused, obj>>
      /\ UNCHANGED <<data, putters, takers, item, taken, dropped, returned>>
  BY DEF TakeCall, CloseCall, BindCall, chanVars, chanHist, histVars, taskVars
<1>2. \E name, p : /\ p \in {"take", "fetch", "iterate", "close", "body"} /\ Call(name, p)
                   /\ (open' = FALSE /\ p = "close") \/ open' = open
  BY DEF TakeCall, CloseCall, BindCall, chanVars
<1>3. PICK name, p : /\ p \in {"take", "fetch", "iterate", "close", "body"} /\ Call(name, p)
                     /\ (open' = FALSE /\ p = "close") \/ open' = open
  BY <1>2
<1>4. bound' \subseteq Task
  BY DEF TakeCall, CloseCall, BindCall, chanVars, ChanInv, ChannelTypeOK
<1>5. open' \in BOOLEAN /\ (~open' => ~open \/ p \in {"close", "exit_close"})
  <2>1. open \in BOOLEAN
    BY DEF ChanInv, ChannelTypeOK
  <2>2. CASE open' = FALSE /\ p = "close"
    BY <2>2
  <2>3. CASE open' = open
    BY <2>1, <2>3, Zenon
  <2> QED
    BY <1>3, <2>2, <2>3
<1>6. Moves(p) /\ S!Active /\ pc[current] = "body"
  BY <1>0, <1>1, <1>3, CallMoves
<1>7. p \in ChannelPlaces \ PutPlaces
  BY <1>3 DEF ChannelPlaces, Places, PutPlaces, TakePlaces
<1> QED
  BY <1>1, <1>4, <1>5, <1>6, <1>7, QuietInv

\* The completion of a task closes the channel it is bound to.
LEMMA ExitClosesInv ==
    ASSUME TaskInv, ChanInv, sz_max' = sz_max, ExitCloses
    PROVE  TaskInv' /\ ChanInv'
<1>0. TypeInv /\ current \in Task
  BY DEF TaskInv, SchedInv
<1>1. /\ S!Active /\ pc[current] = "exit" /\ pc' = [pc EXCEPT ![current] = "exit_close"]
      /\ UNCHANGED <<schedVars, taskVars, cause, refused, calls, obj>> /\ open' = FALSE
      /\ UNCHANGED <<bound, data, putters, takers, item, taken, dropped, returned>>
  BY DEF ExitCloses, At, GoTo, chanHist, histVars, taskVars
<1>2. Moves("exit_close")
  BY <1>0, <1>1 DEF Moves, TypeInv
<1>3. "exit_close" \in ChannelPlaces \ PutPlaces /\ bound' \subseteq Task
  BY <1>1 DEF ChannelPlaces, PutPlaces, ChanInv, ChannelTypeOK
<1> QED
  BY <1>1, <1>2, <1>3, QuietInv

\* A value is published only where there is room.
LEMMA PublishKeeps ==
    ASSUME ChanInv, NEW v \in 1..MaxCalls, ~NoRoom, data' = Append(data, v),
           UNCHANGED <<sz_max, taken, dropped>>, ~IsBuffered => returned' = returned
    PROVE  ValuesKept /\ Has(data', v)
<1>1. sz_max \in Nat /\ data \in Seq(1..MaxCalls)
  BY CapacitiesAssumption DEF ChanInv, ChannelTypeOK
<1> DEFINE n == Len(data)
<1>2. n \in Nat /\ Len(data') = n + 1 /\ (data = <<>> => n = 0)
  BY <1>1
<1>3. IF IsBuffered THEN n < sz_max ELSE n = 0
  <2>1. IF IsBuffered THEN ~(n >= sz_max) ELSE data = <<>>
    BY DEF NoRoom
  <2> HIDE DEF n
  <2> QED
    BY <1>1, <1>2, <2>1
<1>4. Len(data') <= IF IsBuffered THEN sz_max ELSE 1
  <2> HIDE DEF n
  <2> QED
    BY <1>1, <1>2, <1>3
<1>5. /\ data' \in Seq(1..MaxCalls)
      /\ \A w : Has(data', w) <=> Has(data, w) \/ w = v
  <2> DEFINE D == 1..MaxCalls
  <2>1. data \in Seq(D) /\ v \in D
    BY <1>1
  <2> HIDE DEF D
  <2>2. Append(data, v) \in Seq(D) /\ \A w : Has(Append(data, v), w) <=> Has(data, w) \/ w = v
    BY <2>1, QueueAppend
  <2> QED
    BY <2>2 DEF D
<1> QED
  BY <1>4, <1>5 DEF ValuesKept

\* put! publishes its value and wakes the first consumer.
LEMMA PutPublishInv ==
    ASSUME TaskInv, ChanInv, sz_max' = sz_max, PutPublish
    PROVE  TaskInv' /\ ChanInv' /\ Served(takers, takers')
<1>0. TypeInv /\ current \in Task
  BY DEF TaskInv, SchedInv
<1> DEFINE p == IF IsBuffered THEN "body" ELSE "offer"
<1>1. /\ S!Active /\ pc[current] = "put" /\ ~NoRoom /\ data' = Append(data, item[current])
      /\ WakeTaker /\ pc' = [pc EXCEPT ![current] = p] /\ (~IsBuffered => returned' = returned)
      /\ UNCHANGED <<taskVars, calls, refused, obj, open, putters, bound, item, taken, dropped>>
  BY DEF PutPublish, At, GoTo, taskVars
<1>2. p \in {"body", "offer"} /\ (p = "offer" => ~IsBuffered)
  OBVIOUS
<1> HIDE DEF p
<1>3. Moves(p)
  BY <1>0, <1>1, <1>2 DEF Moves, TypeInv
<1>4. item[current] \in 1..MaxCalls
  BY <1>0, <1>1 DEF ChanInv, ItemInv
<1>5. ValuesKept /\ Has(data', item[current])
  BY <1>1, <1>4, PublishKeeps
<1>6. EntersAt(p)
  BY <1>1, <1>2, <1>5 DEF EntersAt, ChanInv, ChannelTypeOK, ChannelPlaces, PutPlaces, Places
<1>7. ~Completing /\ ~Closing
  BY <1>1 DEF Completing, Closing, At
<1> QED
  BY <1>1, <1>3, <1>5, <1>6, <1>7, ChanWakeStep

\* take! removes the first value and wakes the first producer.
LEMMA TakeValueInv ==
    ASSUME TaskInv, ChanInv, sz_max' = sz_max, TakeValue
    PROVE  TaskInv' /\ ChanInv' /\ Served(putters, putters')
<1>0. TypeInv /\ current \in Task
  BY DEF TaskInv, SchedInv
<1>1. /\ S!Active /\ pc[current] \in {"take", "iterate"} /\ data # <<>> /\ data' = Tail(data)
      /\ WakePutter /\ pc' = [pc EXCEPT ![current] = "body"] /\ taken' = taken \cup {Head(data)}
      /\ UNCHANGED <<taskVars, calls, refused, obj, open, takers, bound, item, dropped, returned>>
  BY DEF TakeValue, AtTake, At, GoTo, taskVars
<1>2. Moves("body")
  BY <1>0, <1>1 DEF Moves, TypeInv
<1>3. ValuesKept
  <2>1. sz_max \in Nat /\ data \in Seq(1..MaxCalls) /\ Len(data) <= IF IsBuffered THEN sz_max ELSE 1
    BY CapacitiesAssumption DEF ChanInv, ChannelTypeOK
  <2>2. /\ data' \in Seq(1..MaxCalls)
        /\ \A w : Has(data, w) <=> Has(data', w) \/ w = Head(data)
    BY <1>1, <2>1, QueueTail
  <2>3. Len(data') <= IF IsBuffered THEN sz_max ELSE 1
    <3> DEFINE n == Len(data)
    <3>1. n \in Nat /\ Len(data') = n - 1
      BY <1>1, <2>1
    <3> HIDE DEF n
    <3> QED
      BY <2>1, <3>1 DEF n
  <2> QED
    BY <1>1, <2>2, <2>3 DEF ValuesKept
<1>4. EntersAt("body")
  BY <1>1 DEF EntersAt, ChanInv, ChannelTypeOK, ChannelPlaces, Places
<1>5. ~Completing /\ ~Closing
  BY <1>1 DEF Completing, Closing, At
<1> QED
  BY <1>1, <1>2, <1>3, <1>4, <1>5, ChanWakeStep

\* The handshake of an unbuffered put! is over: the next producer is woken.
LEMMA OfferTakenInv ==
    ASSUME TaskInv, ChanInv, sz_max' = sz_max, OfferTaken
    PROVE  TaskInv' /\ ChanInv' /\ Served(putters, putters')
<1>0. TypeInv /\ current \in Task
  BY DEF TaskInv, SchedInv
<1>1. /\ S!Active /\ pc[current] = "offer" /\ data = <<>> /\ WakePutter
      /\ pc' = [pc EXCEPT ![current] = "body"] /\ returned' = returned \cup {item[current]}
      /\ UNCHANGED <<taskVars, calls, refused, obj, open, data, takers, bound, item, taken, dropped>>
  BY DEF OfferTaken, OfferReturns, At, GoTo, taskVars
<1>2. Moves("body")
  BY <1>0, <1>1 DEF Moves, TypeInv
<1>3. ValuesKept
  <2>1. item[current] \in taken \cup dropped
    BY <1>0, <1>1, QueueEmpty DEF ChanInv, OfferInv
  <2> QED
    BY <1>1, <2>1 DEF ValuesKept, ChanInv, ChannelTypeOK
<1>4. EntersAt("body")
  BY <1>1 DEF EntersAt, ChanInv, ChannelTypeOK, ChannelPlaces, Places
<1>5. ~Completing /\ ~Closing
  BY <1>1 DEF Completing, Closing, At
<1> QED
  BY <1>1, <1>2, <1>3, <1>4, <1>5, ChanWakeStep

\* The loops of close and empty! wake one task after the other.
LEMMA WakeLoopsInv ==
    ASSUME TaskInv, ChanInv, sz_max' = sz_max,
           CloseWakesPutter \/ CloseWakesTaker \/ EmptyWakesPutter
    PROVE  /\ TaskInv' /\ ChanInv'
           /\ \/ Served(putters, putters') /\ UNCHANGED takers
              \/ Served(takers, takers') /\ UNCHANGED putters /\ ~EmptyWakesPutter
<1>0. TypeInv /\ current \in Task
  BY DEF TaskInv, SchedInv
<1>1. /\ S!Active /\ pc[current] \in {"close", "exit_close", "empty"}
      /\ \/ WakePutter /\ takers' = takers
         \/ WakeTaker /\ putters' = putters /\ pc[current] # "empty"
      /\ UNCHANGED <<taskVars, pc, calls, refused, obj, open, data, bound, item>>
      /\ UNCHANGED <<taken, dropped, returned>>
      /\ EmptyWakesPutter => pc[current] = "empty"
      /\ pc[current] = "empty" => WakePutter /\ takers' = takers
  BY DEF CloseWakesPutter, CloseWakesTaker, EmptyWakesPutter, Closing, At, taskVars, progVars, chanHist
<1> DEFINE p == pc[current]
<1>2. Moves(p)
  <2>1. pc' = [pc EXCEPT ![current] = p]
    BY <1>0, <1>1 DEF TypeInv
  <2> QED
    BY <1>0, <1>1, <2>1 DEF Moves, TypeInv
<1>3. ValuesKept
  BY <1>1, SameValues
<1>4. EntersAt(p)
  BY <1>1 DEF EntersAt, ChanInv, ChannelTypeOK, ChannelPlaces
<1> HIDE DEF p
<1>5. p = pc[current]
  BY DEF p
<1> QED
  BY <1>1, <1>2, <1>3, <1>4, <1>5, ChanWakeStep

\* empty! drops the values.
LEMMA EmptyCallInv ==
    ASSUME TaskInv, ChanInv, sz_max' = sz_max, EmptyCall
    PROVE  TaskInv' /\ ChanInv'
<1>0. TypeInv /\ current \in Task
  BY DEF TaskInv, SchedInv
<1>1. /\ Call("empty", "empty") /\ data' = <<>>
      /\ dropped' = dropped \cup {data[i] : i \in DOMAIN data}
      /\ UNCHANGED <<schedVars, taskVars, cause, refused, obj, open, putters, takers, bound, item>>
      /\ UNCHANGED <<taken, returned>>
  BY DEF EmptyCall, taskVars, histVars
<1>2. Moves("empty") /\ S!Active /\ pc[current] = "body" /\ ~Completing
  BY <1>0, <1>1, CallMoves
<1>3. ValuesKept
  <2>1. sz_max \in Nat /\ data' \in Seq(1..MaxCalls) /\ Len(data') = 0
    BY <1>1, CapacitiesAssumption DEF ChanInv, ChannelTypeOK
  <2>2. \A v : Has(data, v) => v \in dropped'
    BY <1>1 DEF Has
  <2> QED
    BY <1>1, <2>1, <2>2 DEF ValuesKept
<1>4. ClosesWell
  BY <1>1, <1>2 DEF ClosesWell, Closing, At, ChanInv, ChannelTypeOK
<1>5. EntersAt("empty")
  BY <1>1 DEF EntersAt, ChanInv, ChannelTypeOK, ChannelPlaces
<1> QED
  BY <1>1, <1>2, <1>3, <1>4, <1>5, ChanPlaceStep

\* put! and take! park.
LEMMA WaitsInv ==
    ASSUME TaskInv, ChanInv, sz_max' = sz_max, PutWait \/ OfferWait \/ TakeWait
    PROVE  /\ TaskInv' /\ ChanInv' /\ UNCHANGED <<pc, current, refused, open, data>>
           /\ \A t \in Task : status'[t] = IF t = current THEN "Blocked" ELSE status[t]
<1>1. /\ S!Active /\ open
      /\ \/ pc[current] \in PutPlaces /\ ParkAsPutter
         \/ pc[current] \in TakePlaces /\ ParkAsTaker
  BY DEF PutWait, OfferWait, TakeWait, AtTake, At, PutPlaces, TakePlaces
<1> QED
  BY <1>1, ChanParkStep

\* Every step preserves the invariant.
LEMMA ChanInvStep ==
    ASSUME TaskInv, ChanInv, [ChannelNext]_channelSpecVars
    PROVE  TaskInv' /\ ChanInv'
<1>1. CASE UNCHANGED channelSpecVars
  <2>1. /\ UNCHANGED taskSpecVars /\ UNCHANGED <<sz_max, open, data, putters, takers, bound, item>>
        /\ UNCHANGED <<taken, dropped, returned, status, pc, current, idle, up, refused>>
    BY <1>1 DEF channelSpecVars, chanVars, chanHist, taskSpecVars, schedVars, progVars, histVars
  <2>2. TaskInv'
    BY <2>1, TaskInvStep
  <2>3. ChannelTypeOK' /\ ItemInv' /\ QueuedInv' /\ EntriesInv'
    BY <2>1 DEF ChanInv, ChannelTypeOK, ItemInv, QueuedInv, EntriesInv, ParkedIn, IsBuffered
  <2>4. ClosedReleases' /\ OfferInv' /\ Rendezvous'
    BY <2>1 DEF ChanInv, ClosedReleases, OfferInv, Rendezvous, ParkedIn, IsBuffered, Closing, At, S!Active
  <2> QED
    BY <2>2, <2>3, <2>4 DEF ChanInv
<1>2. CASE (TaskSteps \/ SchedulerSteps) /\ UNCHANGED <<sz_max, chanVars, chanHist>>
  BY <1>2, TaskInvStep, TaskElsewhere, TaskChanInv
<1>3. CASE ChannelSteps /\ UNCHANGED sz_max
  BY <1>3, PutCallInv, ReturnsInv, CallsInv, ExitClosesInv, PutPublishInv, TakeValueInv,
     OfferTakenInv, WakeLoopsInv, EmptyCallInv, WaitsInv DEF ChannelSteps
<1> QED
  BY <1>1, <1>2, <1>3 DEF ChannelNext

-----------------------------------------------------------------------------
(***************************************************************************)
(* Theorems: capacity, close and handshake.                                *)
(***************************************************************************)
\* The invariant always holds.
LEMMA ChanInvAlways == ChannelSpec => [](TaskInv /\ ChanInv)
<1>1. TaskInv /\ ChanInv /\ [ChannelNext]_channelSpecVars => (TaskInv /\ ChanInv)'
  BY ChanInvStep
<1> QED
  BY <1>1, ChanInitInv, PTL DEF ChannelSpec

\* Every variable has its type, and the channel never holds more values than its
\* capacity, or the one of an unbuffered handshake.
THEOREM ChannelTypeCorrect == ChannelSpec => []ChannelTypeOK
<1>1. ChanInv => ChannelTypeOK
  BY DEF ChanInv
<1> QED
  BY <1>1, ChanInvAlways, PTL

\* A closed channel holds nobody once close has gone through its queues, whatever
\* stale entries deadlock errors have left in them.
THEOREM CloseReleasesAll == ChannelSpec => []ClosedReleases
<1>1. ChanInv => ClosedReleases
  BY DEF ChanInv
<1> QED
  BY <1>1, ChanInvAlways, PTL

\* put! of an unbuffered channel returns only when its value has left the channel,
\* whatever other producers publish in between.
THEOREM HandshakeKept == ChannelSpec => []Rendezvous
<1>1. ChanInv => Rendezvous
  BY DEF ChanInv
<1> QED
  BY <1>1, ChanInvAlways, PTL

-----------------------------------------------------------------------------
(***************************************************************************)
(* No wake-up is lost, in programs that do not call fetch.  One wake-up is *)
(* enough for one value, or for one place that is free: as long as anybody *)
(* is parked, the tasks that were woken are as many as there is to do.     *)
(***************************************************************************)
\* The consumers, and the producers that wait for room, that are not parked.
TakersUp == {t \in Task : status[t] # "Blocked" /\ pc[t] \in TakePlaces}
PuttersUp == {t \in Task : status[t] # "Blocked" /\ pc[t] = "put"}

\* Every value that is left for parked consumers has one on its way.
TakersServed == open /\ takers # <<>> => Len(data) <= Cardinality(TakersUp)

\* Every place that is free for parked producers has one on its way, unless empty!
\* is still waking them; the end of a handshake has one on its way.
PuttersServed ==
    open /\ putters # <<>> /\ ~At("empty") =>
        IF IsBuffered
        THEN sz_max <= Len(data) + Cardinality(PuttersUp)
        ELSE data = <<>> => \E t \in Task : status[t] # "Blocked" /\ pc[t] \in PutPlaces

\* Nobody is in fetch; a task that is done has returned; whoever wakes everybody
\* has closed the channel.
ProgramsInv ==
    \A t \in Task : /\ pc[t] # "fetch"
                    /\ status[t] = "Done" => pc[t] = "return"
                    /\ pc[t] \in {"close", "exit_close"} => ~open

ServeInv ==
    /\ ProgramsInv
    /\ ~refused => /\ IsFiniteSet(TakersUp) /\ IsFiniteSet(PuttersUp)
                   /\ TakersServed /\ PuttersServed

\* What one step adds to a finite set or takes from it, in numbers.
LEMMA CardStep ==
    ASSUME NEW X, NEW Y, IsFiniteSet(X), IsFiniteSet(Y)
    PROVE  /\ Cardinality(X) \in Nat /\ Cardinality(Y) \in Nat
           /\ X \subseteq Y => Cardinality(X) <= Cardinality(Y)
           /\ \A c : X \ {c} \subseteq Y => Cardinality(X) <= Cardinality(Y) + 1
           /\ \A h : h \notin X /\ X \cup {h} \subseteq Y => Cardinality(X) + 1 <= Cardinality(Y)
<1>1. Cardinality(X) \in Nat /\ Cardinality(Y) \in Nat
  BY FS_CardinalityType
<1>2. ASSUME NEW Z, IsFiniteSet(Z), Z \subseteq Y PROVE Cardinality(Z) <= Cardinality(Y)
  BY <1>2, FS_Subset
<1>3. ASSUME NEW c, X \ {c} \subseteq Y PROVE Cardinality(X) <= Cardinality(Y) + 1
  <2>1. /\ IsFiniteSet(X \ {c})
        /\ Cardinality(X \ {c}) = IF c \in X THEN Cardinality(X) - 1 ELSE Cardinality(X)
    BY FS_RemoveElement
  <2>2. Cardinality(X \ {c}) <= Cardinality(Y) /\ Cardinality(X \ {c}) \in Nat
    BY <1>2, <1>3, <2>1, FS_CardinalityType
  <2> QED
    BY <1>1, <2>1, <2>2
<1>4. ASSUME NEW h, h \notin X, X \cup {h} \subseteq Y PROVE Cardinality(X) + 1 <= Cardinality(Y)
  <2>1. IsFiniteSet(X \cup {h}) /\ Cardinality(X \cup {h}) = Cardinality(X) + 1
    BY <1>4, FS_AddElement
  <2> QED
    BY <1>2, <1>4, <2>1
<1> QED
  BY <1>1, <1>2, <1>3, <1>4

\* At most two more tasks are up.
LEMMA UpFinite ==
    ASSUME NEW X, NEW Y, NEW a, NEW b, IsFiniteSet(X), Y \subseteq X \cup {a, b}
    PROVE  IsFiniteSet(Y)
<1>1. IsFiniteSet((X \cup {a}) \cup {b})
  BY FS_AddElement
<1>2. Y \in SUBSET ((X \cup {a}) \cup {b})
  OBVIOUS
<1> QED
  BY <1>1, <1>2, FS_Subset

\* Nobody is parked or waits at first.
LEMMA ServeInitInv == ChannelInit => ServeInv
<1> SUFFICES ASSUME ChannelInit PROVE ServeInv
  OBVIOUS
<1>1. /\ status = [t \in Task |-> IF t = Main THEN "Running" ELSE "Absent"]
      /\ pc = [t \in Task |-> IF t = Main THEN "body" ELSE "entry"]
      /\ putters = <<>> /\ takers = <<>>
  BY DEF ChannelInit, TaskInit, S!Init, S!Fresh
<1>2. \A t \in Task : pc[t] \in {"body", "entry"} /\ status[t] # "Done"
  BY <1>1
<1>3. ProgramsInv /\ TakersUp = {} /\ PuttersUp = {}
  BY <1>2 DEF ProgramsInv, TakersUp, PuttersUp, TakePlaces
<1> QED
  BY <1>1, <1>3, FS_EmptySet DEF ServeInv, TakersServed, PuttersServed

\* A step of JuliaTasks wakes and parks nobody in the channel.
LEMMA ServeElsewhere ==
    ASSUME TaskInv, ServeInv, Elsewhere, UNCHANGED <<sz_max, chanVars, chanHist>>
    PROVE  ServeInv'
<1>1. UNCHANGED <<sz_max, open, data, putters, takers>>
  BY DEF chanVars
<1>2. ProgramsInv'
  <2>1. "fetch" \notin Places /\ "close" \notin Places /\ "exit_close" \notin Places
    BY DEF Places
  <2> QED
    BY <1>1, <2>1 DEF ServeInv, ProgramsInv, Elsewhere
<1>3. ASSUME ~refused'
      PROVE  /\ TakersUp' = TakersUp /\ PuttersUp' = PuttersUp
             /\ TakersServed' /\ PuttersServed' /\ ~refused
  <2>1. ~refused /\ ~At("empty")
    BY <1>3, PlacesApart DEF Elsewhere, At
  <2>2. \A t \in Task : \A P : (\A p \in P : p \notin Places) =>
            (status'[t] # "Blocked" /\ pc'[t] \in P <=> status[t] # "Blocked" /\ pc[t] \in P)
    BY <1>3, ElsewhereInside
  <2>3. /\ \A p \in TakePlaces : p \notin Places
        /\ \A p \in PutPlaces : p \notin Places
        /\ \A p \in {"put"} : p \notin Places
    BY DEF PutPlaces, TakePlaces, Places
  <2>4. /\ \A t \in Task : status'[t] # "Blocked" /\ pc'[t] \in TakePlaces
                               <=> status[t] # "Blocked" /\ pc[t] \in TakePlaces
        /\ \A t \in Task : status'[t] # "Blocked" /\ pc'[t] \in PutPlaces
                               <=> status[t] # "Blocked" /\ pc[t] \in PutPlaces
        /\ \A t \in Task : status'[t] # "Blocked" /\ pc'[t] \in {"put"}
                               <=> status[t] # "Blocked" /\ pc[t] \in {"put"}
    BY <2>2, <2>3
  <2>5. TakersUp' = TakersUp /\ PuttersUp' = PuttersUp
    BY <2>4 DEF TakersUp, PuttersUp
  <2>6. TakersServed'
    BY <1>1, <2>1, <2>5 DEF ServeInv, TakersServed
  <2>7. PuttersServed'
    BY <1>1, <2>1, <2>4, <2>5 DEF ServeInv, PuttersServed, IsBuffered
  <2> QED
    BY <2>1, <2>5, <2>6, <2>7
<1> QED
  BY <1>2, <1>3 DEF ServeInv

\* Programs stay where they are, but for the current one, which is not done.
LEMMA ProgramsStep ==
    ASSUME TaskInv, ServeInv, S!Active, NEW p, Moves(p), p # "fetch",
           open' => open, p \in {"close", "exit_close"} => ~open',
           \A t \in Task : status'[t] = "Done" => status[t] = "Done"
    PROVE  /\ ProgramsInv' /\ refused' = refused /\ current \in Task
           /\ \A t \in Task : pc'[t] = IF t = current THEN p ELSE pc[t]
<1>1. current \in Task /\ status[current] = "Running"
  BY DEF TaskInv, SchedInv, S!Active
<1>2. /\ refused' = refused
      /\ \A t \in Task : pc'[t] = IF t = current THEN p ELSE pc[t]
  BY <1>1 DEF TaskInv, TypeInv, Moves
<1> QED
  BY <1>1, <1>2 DEF ServeInv, ProgramsInv

\* The program of the current task goes on: it leaves a blocking call only when
\* the channel is closed, and empty! ends when there is nobody left to wake.
LEMMA ServePlace ==
    ASSUME TaskInv, ChanInv, ServeInv, S!Active, NEW p, Moves(p), UNCHANGED schedVars,
           UNCHANGED <<sz_max, putters, takers>>, p # "fetch",
           p \in {"close", "exit_close"} => ~open',
           \/ ~open'
           \/ /\ open' = open /\ pc[current] \notin PutPlaces \cup TakePlaces
              /\ \/ data' = data /\ (pc[current] = "empty" => putters = <<>>)
                 \/ data' = <<>> /\ p = "empty"
    PROVE  ServeInv'
<1>1. UNCHANGED <<status, current, idle, up>>
  BY DEF schedVars
<1>2. /\ ProgramsInv' /\ refused' = refused /\ current \in Task
      /\ \A t \in Task : pc'[t] = IF t = current THEN p ELSE pc[t]
  BY <1>1, ProgramsStep
<1> SUFFICES ASSUME ~refused
             PROVE  /\ IsFiniteSet(TakersUp') /\ IsFiniteSet(PuttersUp')
                    /\ TakersServed' /\ PuttersServed'
  BY <1>2 DEF ServeInv
<1>3. IsFiniteSet(TakersUp) /\ IsFiniteSet(PuttersUp) /\ TakersServed /\ PuttersServed
  BY DEF ServeInv
<1>4. TakersUp' \subseteq TakersUp \cup {current, current}
      /\ PuttersUp' \subseteq PuttersUp \cup {current, current}
  BY <1>1, <1>2 DEF TakersUp, PuttersUp
<1>5. IsFiniteSet(TakersUp') /\ IsFiniteSet(PuttersUp')
  BY <1>3, <1>4, UpFinite
<1>6. CASE ~open'
  BY <1>5, <1>6 DEF TakersServed, PuttersServed
<1>7. CASE /\ open' = open /\ pc[current] \notin PutPlaces \cup TakePlaces
           /\ \/ data' = data /\ (pc[current] = "empty" => putters = <<>>)
              \/ data' = <<>> /\ p = "empty"
  <2>1. TakersUp \subseteq TakersUp' /\ PuttersUp \subseteq PuttersUp'
    BY <1>1, <1>2, <1>7 DEF TakersUp, PuttersUp, PutPlaces
  <2>2. /\ Cardinality(TakersUp) \in Nat /\ Cardinality(TakersUp') \in Nat
        /\ Cardinality(PuttersUp) \in Nat /\ Cardinality(PuttersUp') \in Nat
        /\ Cardinality(TakersUp) <= Cardinality(TakersUp')
        /\ Cardinality(PuttersUp) <= Cardinality(PuttersUp')
    BY <1>3, <1>5, <2>1, CardStep
  <2>3. data \in Seq(1..MaxCalls) /\ Len(data) \in Nat /\ sz_max \in Nat
    BY CapacitiesAssumption DEF ChanInv, ChannelTypeOK
  <2>4. TakersServed'
    <3>1. CASE data' = data
      <4>1. open' /\ takers' # <<>> => Len(data) <= Cardinality(TakersUp)
        BY <1>3, <1>7 DEF TakersServed
      <4> QED
        BY <2>2, <2>3, <3>1, <4>1 DEF TakersServed
    <3>2. CASE data' = <<>>
      BY <2>2, <3>2 DEF TakersServed
    <3> QED
      BY <1>7, <3>1, <3>2
  <2>5. PuttersServed'
    <3>1. CASE data' = data /\ (pc[current] = "empty" => putters = <<>>)
      <4> SUFFICES ASSUME open, putters # <<>>
                   PROVE  PuttersServed'
        BY <1>7 DEF PuttersServed
      <4>1. ~At("empty")
        BY <3>1 DEF At
      <4>2. CASE IsBuffered
        <5>1. sz_max <= Len(data) + Cardinality(PuttersUp)
          BY <1>3, <4>1, <4>2 DEF PuttersServed
        <5>2. sz_max <= Len(data) + Cardinality(PuttersUp')
          BY <2>2, <2>3, <5>1
        <5> QED
          BY <3>1, <4>2, <5>2 DEF PuttersServed, IsBuffered
      <4>3. CASE ~IsBuffered
        <5>1. data = <<>> => \E t \in Task : status[t] # "Blocked" /\ pc[t] \in PutPlaces
          BY <1>3, <4>1, <4>3 DEF PuttersServed
        <5>2. data = <<>> => \E t \in Task : status'[t] # "Blocked" /\ pc'[t] \in PutPlaces
          BY <1>1, <1>2, <1>7, <5>1
        <5> QED
          BY <3>1, <4>3, <5>2 DEF PuttersServed, IsBuffered
      <4> QED
        BY <4>2, <4>3
    <3>2. CASE data' = <<>> /\ p = "empty"
      <4>1. At("empty")'
        BY <1>1, <1>2, <3>2 DEF At, S!Active
      <4> QED
        BY <4>1 DEF PuttersServed
    <3> QED
      BY <1>7, <3>1, <3>2
  <2> QED
    BY <1>5, <2>4, <2>5
<1> QED
  BY <1>6, <1>7

\* The current task parks, where there is nothing for it to do.
LEMMA ServeParks ==
    ASSUME TaskInv, ChanInv, ServeInv, sz_max' = sz_max, PutWait \/ OfferWait \/ TakeWait
    PROVE  ServeInv'
<1>1. /\ UNCHANGED <<pc, current, refused, open, data>> /\ current \in Task
      /\ \A t \in Task : status'[t] = IF t = current THEN "Blocked" ELSE status[t]
  BY WaitsInv DEF TaskInv, SchedInv
<1>2. ProgramsInv'
  BY <1>1 DEF ServeInv, ProgramsInv
<1> SUFFICES ASSUME ~refused
             PROVE  /\ IsFiniteSet(TakersUp') /\ IsFiniteSet(PuttersUp')
                    /\ TakersServed' /\ PuttersServed'
  BY <1>1, <1>2 DEF ServeInv
<1>3. IsFiniteSet(TakersUp) /\ IsFiniteSet(PuttersUp) /\ TakersServed /\ PuttersServed
  BY DEF ServeInv
<1>4. TakersUp' = TakersUp \ {current} /\ PuttersUp' = PuttersUp \ {current}
  BY <1>1 DEF TakersUp, PuttersUp
<1>5. /\ IsFiniteSet(TakersUp') /\ IsFiniteSet(PuttersUp')
      /\ Cardinality(TakersUp') \in Nat /\ Cardinality(PuttersUp') \in Nat
  BY <1>3, <1>4, FS_RemoveElement, FS_CardinalityType
<1>6. data \in Seq(1..MaxCalls) /\ Len(data) \in Nat /\ sz_max \in Nat
  BY CapacitiesAssumption DEF ChanInv, ChannelTypeOK
<1>7. CASE TakeWait
  <2>1. data = <<>> /\ putters' = putters /\ pc[current] \in TakePlaces
    BY <1>7 DEF TakeWait, AtTake, At, ParkAsTaker, TakePlaces
  <2>2. pc[current] # "put" /\ pc[current] \notin PutPlaces /\ ~At("empty")
    BY <2>1 DEF PutPlaces, TakePlaces, At
  <2>3. PuttersUp' = PuttersUp
    BY <1>4, <2>2 DEF PuttersUp
  <2>4. TakersServed'
    BY <1>1, <1>5, <2>1 DEF TakersServed
  <2>5. (\E t \in Task : status[t] # "Blocked" /\ pc[t] \in PutPlaces)
           => \E t \in Task : status'[t] # "Blocked" /\ pc'[t] \in PutPlaces
    BY <1>1, <2>2
  <2>6. PuttersServed'
    BY <1>1, <1>3, <2>1, <2>2, <2>3, <2>5 DEF PuttersServed, IsBuffered
  <2> QED
    BY <1>5, <2>4, <2>6
<1>8. CASE PutWait \/ OfferWait
  <2>1. /\ takers' = takers /\ pc[current] \in {"put", "offer"}
        /\ NoRoom \/ (pc[current] = "offer" /\ data # <<>>)
    BY <1>8 DEF PutWait, OfferWait, At, ParkAsPutter
  <2>2. TakersUp' = TakersUp
    BY <1>4, <2>1 DEF TakersUp, TakePlaces
  <2>3. TakersServed'
    BY <1>1, <1>3, <2>1, <2>2 DEF TakersServed
  <2>4. IF IsBuffered THEN Len(data) >= sz_max ELSE data # <<>>
    <3>1. pc[current] = "offer" => ~IsBuffered
      BY <1>1 DEF ChanInv, OfferInv
    <3> QED
      BY <2>1, <3>1 DEF NoRoom
  <2>5. PuttersServed'
    <3>1. IsBuffered => sz_max <= Len(data) + Cardinality(PuttersUp')
      BY <1>5, <1>6, <2>4
    <3> QED
      BY <1>1, <2>4, <3>1 DEF PuttersServed, IsBuffered
  <2> QED
    BY <1>5, <2>3, <2>5
<1> QED
  BY <1>7, <1>8

\* Who is up after a queue was served: whoever was, but for the current task, and
\* whoever was woken.
LEMMA ServedUp ==
    ASSUME TaskInv, ServeInv, ~refused, NEW q \in Seq(Task), NEW qn, Served(q, qn), NEW p, Moves(p)
    PROVE  /\ IsFiniteSet(TakersUp') /\ IsFiniteSet(PuttersUp')
           /\ TakersUp \ {current} \subseteq TakersUp' /\ PuttersUp \ {current} \subseteq PuttersUp'
<1>1. current \in Task /\ \A t \in Task : pc'[t] = IF t = current THEN p ELSE pc[t]
  BY DEF TaskInv, SchedInv, TypeInv, Moves
<1>2. \A t \in Task : status'[t] = "Blocked" => status[t] = "Blocked"
  BY DEF Served
<1>3. PICK h \in Task : \A t \in Task \ {h} : status'[t] = "Blocked" <=> status[t] = "Blocked"
  <2>1. CASE q = <<>>
    BY <1>1, <2>1, QueueEmpty DEF Served
  <2>2. CASE q # <<>>
    BY <2>2 DEF Served
  <2> QED
    BY <2>1, <2>2
<1>4. TakersUp' \subseteq TakersUp \cup {current, h} /\ PuttersUp' \subseteq PuttersUp \cup {current, h}
  BY <1>1, <1>3 DEF TakersUp, PuttersUp
<1>5. IsFiniteSet(TakersUp') /\ IsFiniteSet(PuttersUp')
  BY <1>4, UpFinite DEF ServeInv
<1> QED
  BY <1>1, <1>2, <1>5 DEF TakersUp, PuttersUp

\* A value is published: a parked consumer, if there is one, is on its way to it.
LEMMA ServePublish ==
    ASSUME TaskInv, ChanInv, ServeInv, sz_max' = sz_max, PutPublish
    PROVE  ServeInv'
<1>0. TypeInv /\ SchedInv /\ current \in Task
  BY DEF TaskInv, SchedInv
<1>1. Served(takers, takers')
  BY PutPublishInv
<1> DEFINE p == IF IsBuffered THEN "body" ELSE "offer"
<1>2. /\ S!Active /\ pc[current] = "put" /\ data' = Append(data, item[current])
      /\ pc' = [pc EXCEPT ![current] = p]
      /\ UNCHANGED <<calls, refused, obj, open, putters>>
  BY DEF PutPublish, At, GoTo, taskVars
<1>3. Moves(p) /\ p \in {"body", "offer"}
  BY <1>0, <1>2 DEF Moves, TypeInv
<1> HIDE DEF p
<1>4. /\ ProgramsInv' /\ refused' = refused
      /\ \A t \in Task : pc'[t] = IF t = current THEN p ELSE pc[t]
  BY <1>1, <1>2, <1>3, ProgramsStep DEF Served
<1> SUFFICES ASSUME ~refused
             PROVE  /\ IsFiniteSet(TakersUp') /\ IsFiniteSet(PuttersUp')
                    /\ TakersServed' /\ PuttersServed'
  BY <1>4 DEF ServeInv
<1>5. IsFiniteSet(TakersUp) /\ IsFiniteSet(PuttersUp) /\ TakersServed /\ PuttersServed
  BY DEF ServeInv
<1>6. /\ data \in Seq(1..MaxCalls) /\ Len(data) \in Nat /\ Len(data') = Len(data) + 1
      /\ data' # <<>> /\ sz_max \in Nat /\ takers \in Seq(Task)
  <2>1. data \in Seq(1..MaxCalls) /\ sz_max \in Nat /\ takers \in Seq(Task)
    BY CapacitiesAssumption DEF ChanInv, ChannelTypeOK
  <2>2. item[current] \in 1..MaxCalls
    BY <1>0, <1>2 DEF ChanInv, ItemInv
  <2>3. /\ Len(data) \in Nat /\ Len(Append(data, item[current])) = Len(data) + 1
        /\ Append(data, item[current]) # <<>>
    BY <2>1, <2>2
  <2> QED
    BY <1>2, <2>1, <2>3
<1>7. /\ IsFiniteSet(TakersUp') /\ IsFiniteSet(PuttersUp')
      /\ TakersUp \ {current} \subseteq TakersUp' /\ PuttersUp \ {current} \subseteq PuttersUp'
  BY <1>1, <1>3, <1>6, ServedUp
<1>8. TakersServed'
  <2> SUFFICES ASSUME open, takers' # <<>> PROVE Len(data') <= Cardinality(TakersUp')
    BY <1>2 DEF TakersServed
  <2>1. takers # <<>> /\ Len(data) <= Cardinality(TakersUp)
    BY <1>1, <1>5 DEF TakersServed, Served
  <2>2. PICK h \in Task : Has(takers, h) /\ status'[h] # "Blocked"
    BY <1>1, <2>1 DEF Served
  <2>3. status[h] = "Blocked" /\ pc[h] \in TakePlaces
    BY <2>2 DEF ChanInv, EntriesInv, ParkedIn
  <2>4. h \notin TakersUp /\ h \in TakersUp' /\ current \notin TakersUp
    <3>1. h # current
      BY <1>2, <2>3 DEF TakePlaces
    <3> QED
      BY <1>2, <1>4, <2>2, <2>3, <3>1 DEF TakersUp, TakePlaces
  <2>5. TakersUp \cup {h} \subseteq TakersUp'
    BY <1>7, <2>4
  <2>6. Cardinality(TakersUp) \in Nat /\ Cardinality(TakersUp') \in Nat
        /\ Cardinality(TakersUp) + 1 <= Cardinality(TakersUp')
    BY <1>5, <1>7, <2>4, <2>5, CardStep
  <2> QED
    BY <1>6, <2>1, <2>6
<1>9. PuttersServed'
  <2> SUFFICES ASSUME open, putters # <<>>, IsBuffered
               PROVE  sz_max <= Len(data') + Cardinality(PuttersUp')
    BY <1>2, <1>6 DEF PuttersServed, IsBuffered
  <2>1. sz_max <= Len(data) + Cardinality(PuttersUp)
    BY <1>2, <1>5 DEF PuttersServed, At
  <2>2. Cardinality(PuttersUp) \in Nat /\ Cardinality(PuttersUp') \in Nat
        /\ Cardinality(PuttersUp) <= Cardinality(PuttersUp') + 1
    BY <1>5, <1>7, CardStep
  <2> QED
    BY <1>6, <2>1, <2>2
<1> QED
  BY <1>7, <1>8, <1>9

\* A value leaves the channel, or a handshake ends: a parked producer, if there is
\* one, is on its way to the room.
LEMMA ServeTake ==
    ASSUME TaskInv, ChanInv, ServeInv, sz_max' = sz_max, TakeValue \/ OfferTaken
    PROVE  ServeInv'
<1>0. TypeInv /\ SchedInv /\ current \in Task
  BY DEF TaskInv, SchedInv
<1>1. Served(putters, putters')
  BY TakeValueInv, OfferTakenInv
<1>2. /\ S!Active /\ pc[current] \in {"take", "iterate", "offer"}
      /\ pc' = [pc EXCEPT ![current] = "body"]
      /\ UNCHANGED <<calls, refused, obj, open, takers>>
      /\ \/ pc[current] = "offer" /\ data = <<>> /\ data' = data
         \/ pc[current] # "offer" /\ data # <<>> /\ data' = Tail(data)
  BY DEF TakeValue, OfferTaken, OfferReturns, AtTake, At, GoTo, taskVars
<1>3. Moves("body")
  BY <1>0, <1>2 DEF Moves, TypeInv
<1>4. /\ ProgramsInv' /\ refused' = refused
      /\ \A t \in Task : pc'[t] = IF t = current THEN "body" ELSE pc[t]
  BY <1>1, <1>2, <1>3, ProgramsStep DEF Served
<1> SUFFICES ASSUME ~refused
             PROVE  /\ IsFiniteSet(TakersUp') /\ IsFiniteSet(PuttersUp')
                    /\ TakersServed' /\ PuttersServed'
  BY <1>4 DEF ServeInv
<1>5. IsFiniteSet(TakersUp) /\ IsFiniteSet(PuttersUp) /\ TakersServed /\ PuttersServed
  BY DEF ServeInv
<1>6. /\ data \in Seq(1..MaxCalls) /\ Len(data) \in Nat /\ Len(data') \in Nat
      /\ pc[current] # "offer" => Len(data') = Len(data) - 1
      /\ pc[current] = "offer" => Len(data') = 0
      /\ sz_max \in Nat /\ putters \in Seq(Task)
  <2>1. data \in Seq(1..MaxCalls) /\ sz_max \in Nat /\ putters \in Seq(Task)
    BY CapacitiesAssumption DEF ChanInv, ChannelTypeOK
  <2>2. CASE pc[current] = "offer"
    BY <1>2, <2>1, <2>2
  <2>3. CASE pc[current] # "offer"
    BY <1>2, <2>1, <2>3
  <2> QED
    BY <2>1, <2>2, <2>3
<1>7. /\ IsFiniteSet(TakersUp') /\ IsFiniteSet(PuttersUp')
      /\ TakersUp \ {current} \subseteq TakersUp' /\ PuttersUp \ {current} \subseteq PuttersUp'
  BY <1>1, <1>3, <1>6, ServedUp
<1>8. /\ Cardinality(TakersUp) \in Nat /\ Cardinality(TakersUp') \in Nat
      /\ Cardinality(PuttersUp) \in Nat /\ Cardinality(PuttersUp') \in Nat
  BY <1>5, <1>7, CardStep
<1>9. TakersServed'
  <2> SUFFICES ASSUME open, takers # <<>> PROVE Len(data') <= Cardinality(TakersUp')
    BY <1>2 DEF TakersServed
  <2>1. CASE pc[current] = "offer"
    BY <1>6, <1>8, <2>1
  <2>2. CASE pc[current] # "offer"
    <3>1. Len(data) <= Cardinality(TakersUp)
      BY <1>5 DEF TakersServed
    <3>2. Cardinality(TakersUp) <= Cardinality(TakersUp') + 1
      BY <1>5, <1>7, CardStep
    <3> QED
      BY <1>6, <1>8, <2>2, <3>1, <3>2
  <2> QED
    BY <2>1, <2>2
<1>10. PuttersServed'
  <2> SUFFICES ASSUME open, putters' # <<>> PROVE PuttersServed'
    BY <1>2 DEF PuttersServed
  <2>1. putters # <<>>
    BY <1>1 DEF Served
  <2>2. PICK h \in Task : Has(putters, h) /\ status'[h] # "Blocked"
    BY <1>1, <2>1 DEF Served
  <2>3. status[h] = "Blocked" /\ pc[h] \in PutPlaces
    BY <2>2 DEF ChanInv, EntriesInv, ParkedIn
  <2>4. h # current /\ pc'[h] = pc[h]
    <3>1. status[current] = "Running"
      BY <1>0, <1>2 DEF SchedInv, S!Active
    <3> QED
      BY <1>4, <2>3, <3>1
  <2>5. CASE ~IsBuffered
    BY <2>2, <2>3, <2>4, <2>5 DEF PuttersServed, IsBuffered
  <2>6. CASE IsBuffered
    <3>1. pc[h] = "put" /\ pc[current] # "offer"
      BY <1>0, <2>3, <2>6 DEF ChanInv, OfferInv, PutPlaces
    <3>2. sz_max <= Len(data) + Cardinality(PuttersUp)
      BY <1>2, <1>5, <2>1, <2>6 DEF PuttersServed, At
    <3>3. h \notin PuttersUp /\ h \in PuttersUp' /\ current \notin PuttersUp
      BY <1>2, <2>2, <2>3, <2>4, <3>1 DEF PuttersUp
    <3>4. PuttersUp \cup {h} \subseteq PuttersUp'
      BY <1>7, <3>3
    <3>5. Cardinality(PuttersUp) + 1 <= Cardinality(PuttersUp')
      BY <1>5, <1>7, <3>3, <3>4, CardStep
    <3>6. sz_max <= Len(data') + Cardinality(PuttersUp')
      BY <1>6, <1>8, <3>1, <3>2, <3>5
    <3> QED
      BY <2>6, <3>6 DEF PuttersServed, IsBuffered
  <2> QED
    BY <2>5, <2>6
<1> QED
  BY <1>7, <1>9, <1>10

\* The loops of close and empty!: nothing is left to do for whoever is parked, or
\* the loop is not over.
LEMMA ServeLoops ==
    ASSUME TaskInv, ChanInv, ServeInv, sz_max' = sz_max,
           CloseWakesPutter \/ CloseWakesTaker \/ EmptyWakesPutter
    PROVE  ServeInv'
<1>0. TypeInv /\ SchedInv /\ current \in Task
  BY DEF TaskInv, SchedInv
<1>1. \/ Served(putters, putters') /\ UNCHANGED takers
      \/ Served(takers, takers') /\ UNCHANGED putters /\ ~EmptyWakesPutter
  BY WakeLoopsInv
<1>2. /\ S!Active /\ pc[current] \in {"close", "exit_close", "empty"}
      /\ UNCHANGED <<pc, calls, refused, obj, open, data>>
      /\ pc[current] = "empty" => EmptyWakesPutter
  BY DEF CloseWakesPutter, CloseWakesTaker, EmptyWakesPutter, Closing, At, taskVars, progVars
<1> DEFINE p == pc[current]
<1>3. Moves(p) /\ p # "fetch"
  <2>1. pc' = [pc EXCEPT ![current] = p]
    BY <1>0, <1>2 DEF TypeInv
  <2> QED
    BY <1>0, <1>2, <2>1 DEF Moves, TypeInv
<1>4. p \in {"close", "exit_close"} => ~open
  BY <1>0 DEF ServeInv, ProgramsInv
<1> HIDE DEF p
<1>5. ProgramsInv' /\ refused' = refused
  BY <1>1, <1>2, <1>3, <1>4, ProgramsStep DEF Served
<1> SUFFICES ASSUME ~refused
             PROVE  /\ IsFiniteSet(TakersUp') /\ IsFiniteSet(PuttersUp')
                    /\ TakersServed' /\ PuttersServed'
  BY <1>5 DEF ServeInv
<1>6. putters \in Seq(Task) /\ takers \in Seq(Task)
  BY DEF ChanInv, ChannelTypeOK
<1>7. /\ IsFiniteSet(TakersUp') /\ IsFiniteSet(PuttersUp')
      /\ TakersUp \ {current} \subseteq TakersUp'
  BY <1>1, <1>3, <1>6, ServedUp
<1>8. CASE p \in {"close", "exit_close"}
  BY <1>2, <1>4, <1>7, <1>8 DEF TakersServed, PuttersServed
<1>9. CASE p = "empty"
  <2>1. At("empty")' /\ takers' = takers
    BY <1>1, <1>2, <1>9 DEF At, S!Active, Served, p
  <2>2. PuttersServed'
    BY <2>1 DEF PuttersServed
  <2>3. IsFiniteSet(TakersUp) /\ TakersServed
    BY DEF ServeInv
  <2>4. TakersUp \subseteq TakersUp'
    <3>1. current \notin TakersUp
      BY <1>9 DEF TakersUp, TakePlaces, p
    <3> QED
      BY <1>7, <3>1
  <2>5. /\ Cardinality(TakersUp) \in Nat /\ Cardinality(TakersUp') \in Nat
        /\ Cardinality(TakersUp) <= Cardinality(TakersUp')
    BY <1>7, <2>3, <2>4, CardStep
  <2>6. data \in Seq(1..MaxCalls) /\ Len(data) \in Nat
    BY DEF ChanInv, ChannelTypeOK
  <2>7. TakersServed'
    <3> SUFFICES ASSUME open, takers # <<>> PROVE Len(data) <= Cardinality(TakersUp')
      BY <1>2, <2>1 DEF TakersServed
    <3>1. Len(data) <= Cardinality(TakersUp)
      BY <2>3 DEF TakersServed
    <3> QED
      BY <2>5, <2>6, <3>1
  <2> QED
    BY <1>7, <2>2, <2>7
<1> QED
  BY <1>2, <1>8, <1>9 DEF p

\* The library calls.
LEMMA ServeCalls ==
    ASSUME TaskInv, ChanInv, ServeInv, sz_max' = sz_max, "fetch" \notin Calls,
           PutCall \/ TakeCall \/ CloseCall \/ EmptyCall \/ \E t \in Task : BindCall(t)
    PROVE  ServeInv'
<1>0. TypeInv
  BY DEF TaskInv
<1>1. UNCHANGED <<schedVars, obj, refused, putters, takers>>
  BY DEF PutCall, TakeCall, CloseCall, EmptyCall, BindCall, chanVars, histVars, taskVars
<1>2. \E name, p :
         /\ Call(name, p) /\ p \in {"put", "take", "iterate", "close", "empty", "body"}
         /\ p = "close" => open' = FALSE
         /\ p # "close" => open' = open
         /\ data' = data \/ (data' = <<>> /\ p = "empty")
  BY DEF PutCall, TakeCall, CloseCall, EmptyCall, BindCall, Call, chanVars
<1>3. PICK name, p :
         /\ Call(name, p) /\ p \in {"put", "take", "iterate", "close", "empty", "body"}
         /\ p = "close" => open' = FALSE
         /\ p # "close" => open' = open
         /\ data' = data \/ (data' = <<>> /\ p = "empty")
  BY <1>2
<1>4. Moves(p) /\ S!Active /\ pc[current] = "body"
  BY <1>0, <1>1, <1>3, CallMoves
<1>5. pc[current] \notin PutPlaces \cup TakePlaces /\ pc[current] # "empty"
  BY <1>4 DEF PutPlaces, TakePlaces
<1>6. p # "fetch" /\ (p \in {"close", "exit_close"} => ~open')
  BY <1>3
<1> QED
  BY <1>1, <1>3, <1>4, <1>5, <1>6, ServePlace

\* The returns and exceptions, and the completion of a task.
LEMMA ServeReturns ==
    ASSUME TaskInv, ChanInv, ServeInv, sz_max' = sz_max,
           \/ PutThrows \/ TakeThrows \/ FetchValue \/ CloseEnds \/ EmptyEnds
           \/ ExitLeavesChannel \/ ExitCloses
    PROVE  ServeInv'
<1>0. TypeInv /\ current \in Task
  BY DEF TaskInv, SchedInv
<1>1. /\ S!Active /\ pc[current] # "entry"
      /\ UNCHANGED <<schedVars, obj, refused, calls, data, putters, takers>>
  BY DEF PutThrows, TakeThrows, FetchValue, CloseEnds, EmptyEnds, ExitLeavesChannel, ExitUnbound,
         ExitCloses, Closing, AtTake, At, chanVars, histVars, taskVars
<1>2. PICK p \in {"body", "wake", "exit_close"} :
         /\ pc' = [pc EXCEPT ![current] = p] /\ (p = "exit_close" => ~open')
  BY DEF PutThrows, TakeThrows, FetchValue, CloseEnds, EmptyEnds, ExitLeavesChannel, ExitUnbound,
         ExitCloses, GoTo
<1>3. Moves(p)
  BY <1>0, <1>1, <1>2 DEF Moves, TypeInv
<1>4. \/ ~open'
      \/ /\ open' = open /\ pc[current] \notin PutPlaces \cup TakePlaces
         /\ pc[current] = "empty" => putters = <<>>
  <2>1. CASE PutThrows \/ TakeThrows \/ ExitCloses
    BY <2>1 DEF PutThrows, TakeThrows, ExitCloses, chanVars
  <2>2. CASE FetchValue
    BY <1>0, <2>2 DEF FetchValue, At, ServeInv, ProgramsInv
  <2>3. CASE CloseEnds \/ EmptyEnds \/ ExitLeavesChannel
    BY <2>3 DEF CloseEnds, EmptyEnds, ExitLeavesChannel, ExitUnbound, Closing, At, chanVars,
                PutPlaces, TakePlaces
  <2> QED
    BY <2>1, <2>2, <2>3
<1> QED
  BY <1>1, <1>2, <1>3, <1>4, ServePlace

\* Every step preserves the counts.
LEMMA ServeInvStep ==
    ASSUME TaskInv, ChanInv, ServeInv, "fetch" \notin Calls, [ChannelNext]_channelSpecVars
    PROVE  ServeInv'
<1>1. CASE UNCHANGED channelSpecVars
  <2>1. UNCHANGED <<sz_max, open, data, putters, takers, status, pc, current, idle, up, refused>>
    BY <1>1 DEF channelSpecVars, chanVars, taskSpecVars, schedVars, progVars, histVars
  <2>2. TakersUp' = TakersUp /\ PuttersUp' = PuttersUp
    BY <2>1 DEF TakersUp, PuttersUp
  <2>3. ProgramsInv' /\ (TakersServed' <=> TakersServed)
    BY <2>1, <2>2 DEF ServeInv, ProgramsInv, TakersServed
  <2>4. PuttersServed => PuttersServed'
    BY <2>1, <2>2 DEF PuttersServed, IsBuffered, At, S!Active
  <2> QED
    BY <2>1, <2>2, <2>3, <2>4 DEF ServeInv
<1>2. CASE (TaskSteps \/ SchedulerSteps) /\ UNCHANGED <<sz_max, chanVars, chanHist>>
  BY <1>2, TaskElsewhere, ServeElsewhere
<1>3. CASE ChannelSteps /\ UNCHANGED sz_max
  BY <1>3, ServeCalls, ServeReturns, ServePublish, ServeTake, ServeLoops, ServeParks
     DEF ChannelSteps
<1> QED
  BY <1>1, <1>2, <1>3 DEF ChannelNext

\* When nobody can run, nobody is up in the channel, so nothing is left to do.
LEMMA NothingLeft == TaskInv /\ ChanInv /\ ServeInv => NoLostWakeup
<1> SUFFICES ASSUME TaskInv, ChanInv, ServeInv, ~refused, Quiescent, NEW t \in Task
             PROVE  /\ ParkedIn(t, TakePlaces) => open /\ data = <<>>
                    /\ ParkedIn(t, {"put"}) => open /\ NoRoom
                    /\ ParkedIn(t, {"offer"}) => open /\ data # <<>>
  BY DEF NoLostWakeup, OperationsServed
<1>1. idle /\ ready = <<>> /\ SchedInv /\ EntryInv
  BY DEF Quiescent, S!Between, TaskInv
<1>2. \A u \in Task : status[u] # "Blocked" => pc[u] \in {"entry", "return"}
  <2>1. \A u \in Task : status[u] \notin {"Runnable", "Running"}
    BY <1>1, QueueEmpty DEF SchedInv
  <2> QED
    BY <1>1, <2>1 DEF SchedInv, Statuses, EntryInv, ServeInv, ProgramsInv
<1>3. /\ TakersUp = {} /\ PuttersUp = {}
      /\ ~\E u \in Task : status[u] # "Blocked" /\ pc[u] \in PutPlaces
  BY <1>2 DEF TakersUp, PuttersUp, TakePlaces, PutPlaces
<1>4. Cardinality(TakersUp) = 0 /\ Cardinality(PuttersUp) = 0
  BY <1>3, FS_EmptySet
<1>5. data \in Seq(1..MaxCalls) /\ Len(data) \in Nat /\ sz_max \in Nat /\ (Len(data) = 0 => data = <<>>)
  BY CapacitiesAssumption DEF ChanInv, ChannelTypeOK
<1>6. ~Closing /\ ~At("empty")
  BY <1>1 DEF Closing, At, S!Active
<1>7. ParkedIn(t, PutPlaces \cup TakePlaces) => open
  BY <1>6 DEF ChanInv, ClosedReleases
<1>8. TakersServed /\ PuttersServed
  BY DEF ServeInv
<1>9. ASSUME ParkedIn(t, TakePlaces) PROVE open /\ data = <<>>
  <2>1. open /\ takers # <<>>
    BY <1>7, <1>9, QueueEmpty DEF ChanInv, QueuedInv, ParkedIn
  <2>2. Len(data) <= 0
    BY <1>4, <1>8, <2>1 DEF TakersServed
  <2> QED
    BY <1>5, <2>1, <2>2
<1>10. ASSUME ParkedIn(t, PutPlaces)
       PROVE  open /\ (IF IsBuffered THEN sz_max <= Len(data) ELSE data # <<>>)
  <2>1. open /\ putters # <<>>
    BY <1>7, <1>10, QueueEmpty DEF ChanInv, QueuedInv, ParkedIn
  <2>2. IF IsBuffered THEN sz_max <= Len(data) + 0 ELSE data # <<>>
    BY <1>3, <1>4, <1>6, <1>8, <2>1 DEF PuttersServed
  <2> QED
    BY <1>5, <2>1, <2>2
<1>11. ASSUME ParkedIn(t, {"put"}) PROVE open /\ NoRoom
  <2>1. open /\ (IF IsBuffered THEN sz_max <= Len(data) ELSE data # <<>>)
    BY <1>10, <1>11 DEF ParkedIn, PutPlaces
  <2> QED
    BY <1>5, <2>1 DEF NoRoom
<1>12. ASSUME ParkedIn(t, {"offer"}) PROVE open /\ data # <<>>
  <2>1. open /\ (IF IsBuffered THEN sz_max <= Len(data) ELSE data # <<>>)
    BY <1>10, <1>12 DEF ParkedIn, PutPlaces
  <2>2. ~IsBuffered
    BY <1>12 DEF ChanInv, OfferInv, ParkedIn
  <2> QED
    BY <2>1, <2>2
<1> QED
  BY <1>9, <1>11, <1>12

\* No wake-up of put! and take! is lost, as long as nobody calls fetch, which
\* consumes a wake-up and leaves the value, and no deadlock error has left a stale
\* entry in a queue of waiters.
THEOREM WakeupsKept ==
    ASSUME "fetch" \notin Calls
    PROVE  ChannelSpec => []NoLostWakeup
<1>1. TaskInv /\ ChanInv /\ ServeInv /\ [ChannelNext]_channelSpecVars => ServeInv'
  BY ServeInvStep
<1> QED
  BY <1>1, ServeInitInv, ChanInvAlways, NothingLeft, PTL DEF ChannelSpec

=============================================================================
