------------------------------ MODULE Channels ------------------------------
(***************************************************************************)
(* One Channel of the Julia library (base/channels.jl), shared by the      *)
(* tasks of JuliaTasks.  Its blocking operations are loops that test the   *)
(* channel, enter the current task in a queue of waiters and park it; the  *)
(* operations that make a test false wake one task of a queue, or all.     *)
(*                                                                         *)
(* A value is the number of library calls left when it was put, so no two  *)
(* values are equal.  The exception a channel is closed with (excp) is     *)
(* left out: a closed channel throws.  An operation of a closed channel    *)
(* that changes nothing is not a step.                                     *)
(***************************************************************************)
EXTENDS JuliaTasks

CONSTANT Capacities   \* the values of sz_max; 0 is an unbuffered channel

ASSUME CapacitiesAssumption == Capacities \subseteq Nat

VARIABLES
    sz_max,    \* c.sz_max, which never changes
    open,      \* c.state
    data,      \* c.data
    putters,   \* c.waiters[1]
    takers,    \* c.waiters[2]
    bound,     \* the tasks the channel is bound to
    item,      \* the value each task's put! is about
    taken,     \* history: the values take! returned
    dropped,   \* history: the values empty! removed
    returned,  \* history: the values whose put! returned
    threw      \* history: has an iterate thrown?

chanVars == <<open, data, putters, takers, bound, item>>
chanHist == <<taken, dropped, returned, threw>>
channelSpecVars == <<taskSpecVars, sz_max, chanVars, chanHist>>

ChannelInit ==
    /\ TaskInit
    /\ sz_max \in Capacities
    /\ open = TRUE
    /\ data = <<>>
    /\ putters = <<>>
    /\ takers = <<>>
    /\ bound = {}
    /\ item = [t \in Task |-> 0]
    /\ taken = {}
    /\ dropped = {}
    /\ returned = {}
    /\ threw = FALSE

IsBuffered == sz_max > 0

\* Mutant: one value more than the buffer has room for.
NoRoomOffByOne ==
    IF IsBuffered THEN Len(data) > sz_max ELSE data # <<>>

\* The test of the first loop of put!.
NoRoom ==
    IF IsBuffered THEN Len(data) >= sz_max ELSE data # <<>>

\* A loop of the library parks the current task once more.
ParkAsPutter ==
    /\ putters' = Append(putters, current)
    /\ ParkCurrent
    /\ UNCHANGED <<taskVars, progVars, refused>>
    /\ UNCHANGED <<open, data, takers, bound, item, chanHist>>

ParkAsTaker ==
    /\ takers' = Append(takers, current)
    /\ ParkCurrent
    /\ UNCHANGED <<taskVars, progVars, refused>>
    /\ UNCHANGED <<open, data, putters, bound, item, chanHist>>

\* _wake_channel_takers and _wake_channel_putters: the first waiter, if any.
WakeTaker ==
    IF takers = <<>>
    THEN UNCHANGED <<schedVars, cause, takers>>
    ELSE takers' = Tail(takers) /\ WakeTask(Head(takers), "channel")

WakeNoPutter == UNCHANGED <<schedVars, cause, putters>>

WakePutter ==
    IF putters = <<>>
    THEN UNCHANGED <<schedVars, cause, putters>>
    ELSE putters' = Tail(putters) /\ WakeTask(Head(putters), "channel")

-----------------------------------------------------------------------------
(* put!: wait for room, publish the value and, in an unbuffered channel,   *)
(* wait until nothing is published any more.                               *)

PutCall ==
    /\ Call("put", "put")
    /\ open
    /\ item' = [item EXCEPT ![current] = calls]
    /\ UNCHANGED <<schedVars, taskVars, histVars>>
    /\ UNCHANGED <<open, data, putters, takers, bound, chanHist>>

PutWait == At("put") /\ open /\ NoRoom /\ ParkAsPutter

PutPublish ==
    /\ At("put")
    /\ open
    /\ ~NoRoom
    /\ data' = Append(data, item[current])
    /\ WakeTaker
    /\ GoTo(IF IsBuffered THEN "body" ELSE "offer")
    /\ returned' = IF IsBuffered THEN returned \cup {item[current]} ELSE returned
    /\ UNCHANGED <<taskVars, calls, refused>>
    /\ UNCHANGED <<open, putters, bound, item, taken, dropped, threw>>

PutThrows ==
    /\ \E where \in {"put", "offer"} : At(where)
    /\ ~open
    /\ GoTo("body")
    /\ UNCHANGED <<schedVars, taskVars, calls, histVars, chanVars, chanHist>>

OfferWait == At("offer") /\ open /\ data # <<>> /\ ParkAsPutter

\* The handshake is over: the next putter may publish.
OfferReturns ==
    /\ WakePutter
    /\ GoTo("body")
    /\ returned' = returned \cup {item[current]}
    /\ UNCHANGED <<taskVars, calls, refused>>
    /\ UNCHANGED <<open, data, takers, bound, item, taken, dropped, threw>>

OfferAfterWake == At("offer") /\ open /\ ~Has(putters, current) /\ OfferReturns

OfferTaken == At("offer") /\ open /\ data = <<>> /\ OfferReturns

-----------------------------------------------------------------------------
(* take!, fetch and iterate: wait for a value.  iterate ends at once when  *)
(* the channel is closed and empty, and calls take! otherwise.             *)

TakeCall ==
    /\ \E name \in {"take", "fetch", "iterate"} : Call(name, name)
    /\ open \/ data # <<>>
    /\ UNCHANGED <<schedVars, taskVars, histVars, chanVars, chanHist>>

AtTake == \E where \in {"take", "iterate"} : At(where)

TakeWait == (AtTake \/ At("fetch")) /\ open /\ data = <<>> /\ ParkAsTaker

TakeWakesNobody ==
    /\ AtTake
    /\ data # <<>>
    /\ data' = Tail(data)
    /\ WakeNoPutter
    /\ GoTo("body")
    /\ taken' = taken \cup {Head(data)}
    /\ UNCHANGED <<taskVars, calls, refused>>
    /\ UNCHANGED <<open, takers, bound, item, dropped, returned, threw>>

TakeValue ==
    /\ AtTake
    /\ data # <<>>
    /\ data' = Tail(data)
    /\ WakePutter
    /\ GoTo("body")
    /\ taken' = taken \cup {Head(data)}
    /\ UNCHANGED <<taskVars, calls, refused>>
    /\ UNCHANGED <<open, takers, bound, item, dropped, returned, threw>>

FetchValue ==
    /\ At("fetch")
    /\ data # <<>>
    /\ GoTo("body")
    /\ UNCHANGED <<schedVars, taskVars, calls, histVars, chanVars, chanHist>>

TakeThrows ==
    /\ AtTake \/ At("fetch")
    /\ ~open
    /\ data = <<>>
    /\ GoTo("body")
    /\ threw' = (threw \/ At("iterate"))
    /\ UNCHANGED <<schedVars, taskVars, calls, histVars, chanVars>>
    /\ UNCHANGED <<taken, dropped, returned>>

-----------------------------------------------------------------------------
(* close, bind and empty!.                                                 *)

CloseCall ==
    /\ Call("close", "close")
    /\ open
    /\ open' = FALSE
    /\ UNCHANGED <<schedVars, taskVars, histVars>>
    /\ UNCHANGED <<data, putters, takers, bound, item, chanHist>>

BindCall(t) ==
    /\ Call("bind", IF IsTaskDone(t) THEN "close" ELSE "body")
    /\ open
    /\ IF IsTaskDone(t)
       THEN open' = FALSE /\ UNCHANGED bound
       ELSE bound' = bound \cup {t} /\ UNCHANGED open
    /\ UNCHANGED <<schedVars, taskVars, histVars>>
    /\ UNCHANGED <<data, putters, takers, item, chanHist>>

\* _close_bound_channels in the completion of a task.
ExitCloses ==
    /\ At("exit")
    /\ on[current] \in bound
    /\ open
    /\ open' = FALSE
    /\ GoTo("exit_close")
    /\ UNCHANGED <<schedVars, taskVars, calls, histVars>>
    /\ UNCHANGED <<data, putters, takers, bound, item, chanHist>>

ExitLeavesChannel ==
    /\ ~(on[current] \in bound /\ open)
    /\ ExitUnbound
    /\ UNCHANGED <<chanVars, chanHist>>

\* _wake_all_channel_waiters, for a close and for a completion.
Closing == \E where \in {"close", "exit_close"} : At(where)

CloseWakesPutter ==
    /\ Closing
    /\ putters # <<>>
    /\ WakePutter
    /\ UNCHANGED <<taskVars, progVars, refused>>
    /\ UNCHANGED <<open, data, takers, bound, item, chanHist>>

CloseForgetsTakers ==
    /\ Closing
    /\ putters = <<>> /\ takers # <<>>
    /\ takers' = <<>>
    /\ UNCHANGED <<schedVars, taskVars, progVars, histVars>>
    /\ UNCHANGED <<open, data, putters, bound, item, chanHist>>

CloseWakesTaker ==
    /\ Closing
    /\ putters = <<>> /\ takers # <<>>
    /\ WakeTaker
    /\ UNCHANGED <<taskVars, progVars, refused>>
    /\ UNCHANGED <<open, data, putters, bound, item, chanHist>>

CloseEnds ==
    /\ Closing
    /\ putters = <<>> /\ takers = <<>>
    /\ GoTo(IF At("close") THEN "body" ELSE "wake")
    /\ UNCHANGED <<schedVars, taskVars, calls, histVars, chanVars, chanHist>>

EmptyCall ==
    /\ Call("empty", "empty")
    /\ data' = <<>>
    /\ dropped' = dropped \cup {data[i] : i \in DOMAIN data}
    /\ UNCHANGED <<schedVars, taskVars, histVars>>
    /\ UNCHANGED <<open, putters, takers, bound, item, taken, returned, threw>>

EmptyWakesPutter ==
    /\ At("empty")
    /\ putters # <<>>
    /\ WakePutter
    /\ UNCHANGED <<taskVars, progVars, refused>>
    /\ UNCHANGED <<open, data, takers, bound, item, chanHist>>

EmptyEnds ==
    /\ At("empty")
    /\ putters = <<>>
    /\ GoTo("body")
    /\ UNCHANGED <<schedVars, taskVars, calls, histVars, chanVars, chanHist>>

-----------------------------------------------------------------------------
ChannelSteps ==
    \/ PutCall \/ PutWait \/ PutPublish \/ PutThrows \/ OfferWait \/ OfferTaken
    \/ TakeCall \/ TakeWait \/ TakeValue \/ FetchValue \/ TakeThrows
    \/ CloseCall \/ \E t \in Task : BindCall(t)
    \/ ExitCloses \/ ExitLeavesChannel
    \/ CloseWakesPutter \/ CloseWakesTaker \/ CloseEnds
    \/ EmptyCall \/ EmptyWakesPutter \/ EmptyEnds

ChannelNext ==
    \/ ChannelSteps /\ UNCHANGED sz_max
    \/ (TaskSteps \/ SchedulerSteps) /\ UNCHANGED <<sz_max, chanVars, chanHist>>

ChannelSpec == ChannelInit /\ [][ChannelNext]_channelSpecVars

\* The VM's one thread keeps executing until run() returns.
ChannelFairSpec == ChannelSpec /\ WF_channelSpecVars(ChannelNext)

-----------------------------------------------------------------------------
(* Properties.                                                             *)

PutPlaces == {"put", "offer"}
TakePlaces == {"take", "fetch", "iterate"}
ChannelPlaces ==
    Places \cup PutPlaces \cup TakePlaces \cup {"close", "exit_close", "empty"}

ParkedIn(t, where) == status[t] = "Blocked" /\ pc[t] \in where

\* Every variable has its type, and the channel never holds more values than its
\* capacity, or the one value of an unbuffered handshake, however many producers
\* were woken for the same room.
ChannelTypeOK ==
    /\ sz_max \in Capacities
    /\ open \in BOOLEAN
    /\ data \in Seq(1 .. MaxCalls)
    /\ Len(data) <= IF IsBuffered THEN sz_max ELSE 1
    /\ putters \in Seq(Task) /\ takers \in Seq(Task)
    /\ bound \subseteq Task
    /\ item \in [Task -> 0 .. MaxCalls]
    /\ pc \in [Task -> ChannelPlaces]

\* Everybody is parked, and no timer is pending: the next thing to happen is a
\* deadlock error.
Quiescent == S!Between /\ ready = <<>> /\ timed = {}

\* take! parks "until one is available", put! until "a `take!` makes room": when
\* everybody is parked, nobody is parked in an operation that could go on.
OperationsServed ==
    Quiescent => \A t \in Task :
        /\ ParkedIn(t, TakePlaces) => open /\ data = <<>>
        /\ ParkedIn(t, {"put"}) => open /\ NoRoom
        /\ ParkedIn(t, {"offer"}) => open /\ data # <<>>

\* No wake-up of put! and take! is lost, as long as no deadlock error has left a
\* stale entry in a queue of waiters.
NoLostWakeup == ~refused => OperationsServed

\* A closed channel holds nobody: once close or the exit of the bound task has
\* gone through the queues of waiters, no task is parked in the channel, and
\* stale entries or deadlock errors make no difference.
ClosedReleases ==
    ~open /\ ~Closing => \A t \in Task : ~ParkedIn(t, PutPlaces \cup TakePlaces)

\* "the producer resumes only after a consumer takes the value": a put! of an
\* unbuffered channel returns only when its value has left the channel, through a
\* consumer or through empty!, whatever other producers publish in between.
Rendezvous == ~IsBuffered => returned \subseteq taken \cup dropped

\* "consuming the Channel drives it to completion": iterating over a channel ends
\* without an exception.
IterationEnds == ~threw

\* Whoever is parked in a channel that gets closed leaves it, unless the main
\* program ends before its turn.
CloseFrees ==
    \A t \in Task :
        ParkedIn(t, PutPlaces \cup TakePlaces) /\ ~open
            ~> pc[t] \notin PutPlaces \cup TakePlaces \/ (~up /\ current = Main)
=============================================================================
