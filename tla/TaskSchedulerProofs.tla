------------------------- MODULE TaskSchedulerProofs -------------------------
(***************************************************************************)
(* Proofs that the task scheduler keeps its table, its ready queue and its *)
(* timers in step, for any number of tasks and any bounds.                 *)
(***************************************************************************)
EXTENDS TaskScheduler, TLAPS

\* What the scheduler relies on between the steps of one switch.
SwitchInv ==
    /\ mode # "drain" => pending = <<>>
    /\ InSwitch => leaving # "none"
    /\ InSwitch /\ leaving = "finish" => state[current] = "Done"
    /\ InSwitch /\ leaving # "finish" =>
          context[current].live /\ state[current] \in {"Runnable", "Blocked"}
    /\ InSwitch /\ leaving = "yield" => state[current] = "Runnable"
    /\ InSwitch /\ leaving = "park" => ~HasTimer(current)
    /\ mode = "activate" /\ outcome = "running" => state[next] = "Runnable"

\* Handler depths h that a stack of depth n can serve, innermost last.
ValidAt(h, n) ==
    /\ \A i \in DOMAIN h : h[i] <= n
    /\ \A i, j \in DOMAIN h : i < j => h[i] <= h[j]

\* Handlers fit the stack they belong to; those of a suspended task fit it even
\* without the result value its primitive pushed, which a failed switch pops.
StackInv ==
    /\ ValidAt(handlers, Len(stack))
    /\ \A t \in TaskId : ValidAt(context[t].handlers, Len(context[t].stack) - 1)

\* Task ids are natural numbers; the main task and every free slot has one.
LEMMA TaskIds ==
    /\ 0 \in TaskId
    /\ TaskId \subseteq Nat
    /\ \A n \in 1 .. MaxTasks : n < MaxTasks => n \in TaskId
BY BoundsAssumption DEF TaskId

\* What a timer is made of, and that time passing keeps it a timer.
LEMMA Timers ==
    /\ \A t \in TaskId, d \in 0 .. MaxSleep : [id |-> t, left |-> d] \in Timer
    /\ \A e \in Timer : e.id \in TaskId /\ e.left \in 0 .. MaxSleep
    /\ \A e \in Timer, d \in Nat :
          LET f == [e EXCEPT !.left = IF @ < d THEN 0 ELSE @ - d] IN
          f \in Timer /\ f.id = e.id
BY BoundsAssumption DEF Timer

(* Sequence facts the provers need spelled out.                            *)

\* Appending an element to a sequence.
LEMMA AppendFacts ==
    ASSUME NEW S, NEW s \in Seq(S), NEW x \in S
    PROVE  /\ Append(s, x) \in Seq(S)
           /\ Len(Append(s, x)) = Len(s) + 1
           /\ Append(s, x)[Len(s) + 1] = x
           /\ \A i \in 1 .. Len(s) : Append(s, x)[i] = s[i]
OBVIOUS

\* A prefix of a sequence.
LEMMA PrefixFacts ==
    ASSUME NEW S, NEW s \in Seq(S), NEW n \in Nat, n <= Len(s)
    PROVE  /\ SubSeq(s, 1, n) \in Seq(S)
           /\ Len(SubSeq(s, 1, n)) = n
           /\ \A i \in 1 .. n : SubSeq(s, 1, n)[i] = s[i]
OBVIOUS

\* A sequence without its last element.
LEMMA FrontType ==
    ASSUME NEW S, NEW s \in Seq(S)
    PROVE  SubSeq(s, 1, Len(s) - 1) \in Seq(S)
OBVIOUS

\* A suffix of a sequence.
LEMMA SuffixFacts ==
    ASSUME NEW S, NEW s \in Seq(S), NEW n \in 1 .. Len(s)
    PROVE  /\ SubSeq(s, n + 1, Len(s)) \in Seq(S)
           /\ Len(SubSeq(s, n + 1, Len(s))) = Len(s) - n
           /\ \A i \in 1 .. Len(s) - n : SubSeq(s, n + 1, Len(s))[i] = s[n + i]
OBVIOUS

\* Head and tail of a non-empty sequence.
LEMMA TailFacts ==
    ASSUME NEW S, NEW s \in Seq(S), s # <<>>
    PROVE  /\ Len(s) \in Nat /\ Len(s) > 0
           /\ Head(s) = s[1] /\ Head(s) \in S
           /\ Tail(s) \in Seq(S)
           /\ Len(Tail(s)) = Len(s) - 1
           /\ \A i \in 1 .. Len(s) - 1 : Tail(s)[i] = s[i + 1]
OBVIOUS

\* Putting an element in front of a sequence (push_front).
LEMMA ConsFacts ==
    ASSUME NEW S, NEW s \in Seq(S), NEW x \in S
    PROVE  /\ <<x>> \o s \in Seq(S)
           /\ Len(<<x>> \o s) = Len(s) + 1
           /\ (<<x>> \o s)[1] = x
           /\ \A i \in 1 .. Len(s) : (<<x>> \o s)[i + 1] = s[i]
OBVIOUS

\* The domain and the elements of a sequence.
LEMMA SeqDomain ==
    ASSUME NEW S, NEW s \in Seq(S)
    PROVE  /\ Len(s) \in Nat /\ DOMAIN s = 1 .. Len(s)
           /\ \A i \in 1 .. Len(s) : s[i] \in S
           /\ s = <<>> <=> Len(s) = 0
OBVIOUS

\* A fresh VM has the right types.
LEMMA InitType == Init => TypeOK
BY TaskIds, BoundsAssumption DEF Init, TypeOK, States, Modes, Primitives,
      Errors, Context, NoContext, Nothing, NoFloor

\* Closing the gap after one entry keeps a sequence.
LEMMA DropAtType ==
    ASSUME NEW S, NEW s \in Seq(S), NEW i \in DOMAIN s
    PROVE  /\ DropAt(s, i) \in Seq(S)
           /\ Len(DropAt(s, i)) = Len(s) - 1
           /\ \A j \in 1 .. Len(s) - 1 :
                 DropAt(s, i)[j] = IF j < i THEN s[j] ELSE s[j + 1]
<1>1. Len(s) \in Nat /\ i \in 1 .. Len(s) /\ Len(s) - 1 \in Nat
  OBVIOUS
<1>2. DropAt(s, i) \in [1 .. Len(s) - 1 -> S]
  BY <1>1 DEF DropAt
<1> QED
  BY <1>1, <1>2 DEF DropAt

\* retain on the ready queue drops the entry of one task and no other.
LEMMA RetainType ==
    ASSUME NEW S, NEW s \in Seq(S), NEW id
    PROVE  /\ RetainOther(s, id) \in Seq(S)
           /\ Distinct(s) => Distinct(RetainOther(s, id))
           /\ Distinct(s) => \A t : Has(RetainOther(s, id), t) <=> Has(s, t) /\ t # id
<1>1. CASE Has(s, id)
  <2> DEFINE k == CHOOSE i \in DOMAIN s : s[i] = id
             r == DropAt(s, k)
  <2>1. k \in DOMAIN s /\ s[k] = id
    BY <1>1 DEF Has
  <2>2. Len(s) \in Nat /\ k \in 1 .. Len(s) /\ DOMAIN s = 1 .. Len(s)
    BY <2>1
  <2>3. RetainOther(s, id) = r
    BY <1>1 DEF RetainOther
  <2> HIDE DEF k
  <2>4. /\ r \in Seq(S) /\ Len(r) = Len(s) - 1
        /\ \A j \in 1 .. Len(s) - 1 : r[j] = IF j < k THEN s[j] ELSE s[j + 1]
    BY <2>1, DropAtType
  <2> HIDE DEF r
  <2>5. DOMAIN r = 1 .. Len(s) - 1
    BY <2>2, <2>4, SeqDomain
  <2>6. \A j \in 1 .. Len(s) - 1 : j < k => r[j] = s[j] /\ j \in DOMAIN s
    BY <2>2, <2>4
  <2>7. \A j \in 1 .. Len(s) - 1 : j >= k => r[j] = s[j + 1] /\ j + 1 \in DOMAIN s
    BY <2>2, <2>4
  <2>8. Distinct(s) => Distinct(r)
    BY <2>2, <2>5, <2>6, <2>7, SMTT(30) DEF Distinct
  <2>9. ASSUME Distinct(s), NEW t PROVE Has(r, t) <=> Has(s, t) /\ t # id
    <3>1. ASSUME Has(r, t) PROVE Has(s, t) /\ t # id
      <4>1. PICK j \in 1 .. Len(s) - 1 : r[j] = t
        BY <3>1, <2>5 DEF Has
      <4>2. CASE j < k
        BY <4>1, <4>2, <2>1, <2>2, <2>6, <2>9 DEF Has, Distinct
      <4>3. CASE j >= k
        BY <4>1, <4>3, <2>1, <2>2, <2>7, <2>9 DEF Has, Distinct
      <4> QED
        BY <4>1, <4>2, <4>3, <2>2
    <3>2. ASSUME Has(s, t), t # id PROVE Has(r, t)
      <4>1. PICK j \in 1 .. Len(s) : s[j] = t
        BY <3>2, <2>2 DEF Has
      <4>2. CASE j < k
        BY <4>1, <4>2, <2>2, <2>5, <2>6 DEF Has
      <4>3. CASE j > k
        <5>1. j - 1 \in 1 .. Len(s) - 1 /\ j - 1 >= k /\ (j - 1) + 1 = j
          BY <4>1, <4>3, <2>2
        <5>2. r[j - 1] = s[j]
          BY <5>1, <2>7
        <5> QED
          BY <4>1, <5>1, <5>2, <2>5 DEF Has
      <4> QED
        BY <4>1, <4>2, <4>3, <2>1, <2>2, <3>2
    <3> QED
      BY <3>1, <3>2
  <2> QED
    BY <2>3, <2>4, <2>8, <2>9
<1>2. CASE ~Has(s, id)
  BY <1>2 DEF RetainOther
<1> QED
  BY <1>1, <1>2

\* retain on the timers drops the timer of one task and no other.
LEMMA CancelType ==
    ASSUME NEW S, NEW s \in Seq(S), NEW id
    PROVE  /\ CancelTimer(s, id) \in Seq(S)
           /\ DistinctOwners(s) => DistinctOwners(CancelTimer(s, id))
           /\ DistinctOwners(s) => \A t : Owns(CancelTimer(s, id), t) <=> Owns(s, t) /\ t # id
<1>1. CASE Owns(s, id)
  <2> DEFINE k == CHOOSE i \in DOMAIN s : s[i].id = id
             r == DropAt(s, k)
  <2>1. k \in DOMAIN s /\ s[k].id = id
    BY <1>1 DEF Owns
  <2>2. Len(s) \in Nat /\ k \in 1 .. Len(s) /\ DOMAIN s = 1 .. Len(s)
    BY <2>1
  <2>3. CancelTimer(s, id) = r
    BY <1>1 DEF CancelTimer
  <2> HIDE DEF k
  <2>4. /\ r \in Seq(S) /\ Len(r) = Len(s) - 1
        /\ \A j \in 1 .. Len(s) - 1 : r[j] = IF j < k THEN s[j] ELSE s[j + 1]
    BY <2>1, DropAtType
  <2> HIDE DEF r
  <2>5. DOMAIN r = 1 .. Len(s) - 1
    BY <2>2, <2>4, SeqDomain
  <2>6. \A j \in 1 .. Len(s) - 1 : j < k => r[j] = s[j] /\ j \in DOMAIN s
    BY <2>2, <2>4
  <2>7. \A j \in 1 .. Len(s) - 1 : j >= k => r[j] = s[j + 1] /\ j + 1 \in DOMAIN s
    BY <2>2, <2>4
  <2>8. DistinctOwners(s) => DistinctOwners(r)
    <3> SUFFICES ASSUME DistinctOwners(s), NEW i \in 1 .. Len(s) - 1,
                        NEW j \in 1 .. Len(s) - 1, r[i].id = r[j].id
                 PROVE  i = j
      BY <2>5 DEF DistinctOwners
    <3>1. CASE i < k /\ j < k
      BY <3>1, <2>6 DEF DistinctOwners
    <3>2. CASE i < k /\ j >= k
      BY <3>2, <2>2, <2>6, <2>7 DEF DistinctOwners
    <3>3. CASE i >= k /\ j < k
      BY <3>3, <2>2, <2>6, <2>7 DEF DistinctOwners
    <3>4. CASE i >= k /\ j >= k
      BY <3>4, <2>2, <2>7 DEF DistinctOwners
    <3> QED
      BY <3>1, <3>2, <3>3, <3>4, <2>2
  <2>9. ASSUME DistinctOwners(s), NEW t PROVE Owns(r, t) <=> Owns(s, t) /\ t # id
    <3>1. ASSUME Owns(r, t) PROVE Owns(s, t) /\ t # id
      <4>1. PICK j \in 1 .. Len(s) - 1 : r[j].id = t
        BY <3>1, <2>5 DEF Owns
      <4>2. CASE j < k
        BY <4>1, <4>2, <2>1, <2>2, <2>6, <2>9 DEF Owns, DistinctOwners
      <4>3. CASE j >= k
        BY <4>1, <4>3, <2>1, <2>2, <2>7, <2>9 DEF Owns, DistinctOwners
      <4> QED
        BY <4>1, <4>2, <4>3, <2>2
    <3>2. ASSUME Owns(s, t), t # id PROVE Owns(r, t)
      <4>1. PICK j \in 1 .. Len(s) : s[j].id = t
        BY <3>2, <2>2 DEF Owns
      <4>2. CASE j < k
        BY <4>1, <4>2, <2>2, <2>5, <2>6 DEF Owns
      <4>3. CASE j > k
        <5>1. j - 1 \in 1 .. Len(s) - 1 /\ j - 1 >= k /\ (j - 1) + 1 = j
          BY <4>1, <4>3, <2>2
        <5>2. r[j - 1] = s[j]
          BY <5>1, <2>7
        <5> QED
          BY <4>1, <5>1, <5>2, <2>5 DEF Owns
      <4> QED
        BY <4>1, <4>2, <4>3, <2>1, <2>2, <3>2
    <3> QED
      BY <3>1, <3>2
  <2> QED
    BY <2>3, <2>4, <2>8, <2>9
<1>2. CASE ~Owns(s, id)
  BY <1>2 DEF CancelTimer
<1> QED
  BY <1>1, <1>2

\* Time passing changes what is left of each timer, nothing else.
LEMMA ElapseType ==
    ASSUME sleeping \in Seq(Timer), NEW d \in Nat
    PROVE  /\ Elapse(d) \in Seq(Timer)
           /\ Len(Elapse(d)) = Len(sleeping)
           /\ \A i \in 1 .. Len(sleeping) : Elapse(d)[i].id = sleeping[i].id
<1>1. /\ Len(sleeping) \in Nat /\ DOMAIN sleeping = 1 .. Len(sleeping)
      /\ \A i \in 1 .. Len(sleeping) : sleeping[i] \in Timer
  BY SeqDomain
<1> DEFINE f(i) == [sleeping[i] EXCEPT !.left = IF @ < d THEN 0 ELSE @ - d]
<1>2. \A i \in 1 .. Len(sleeping) : f(i) \in Timer /\ f(i).id = sleeping[i].id
  BY <1>1, Timers
<1>3. Elapse(d) = [i \in 1 .. Len(sleeping) |-> f(i)]
  BY <1>1 DEF Elapse
<1> HIDE DEF f
<1> QED
  BY <1>1, <1>2, <1>3

\* A reachable handler is the last of the handler stack.
LEMMA ReachableLast ==
    ASSUME handlers \in Seq(Nat), floor \in Nat \cup {NoFloor}, HandlerReachable
    PROVE  Len(handlers) \in DOMAIN handlers
<1>1. Len(handlers) \in Nat /\ DOMAIN handlers = 1 .. Len(handlers)
  OBVIOUS
<1>2. Len(handlers) > 0
  BY <1>1 DEF HandlerReachable, NoFloor
<1> QED
  BY <1>1, <1>2

\* Every step keeps the types; catching an error needs valid handler depths.
LEMMA TypeStep == TypeOK /\ StackInv /\ [Next]_vars => TypeOK'
<1> SUFFICES ASSUME TypeOK, StackInv, [Next]_vars PROVE TypeOK'
  OBVIOUS
<1> USE TaskIds DEF TypeOK, tableVars, queueVars, activeVars, switchVars,
            schedVars, controlVars, Running, Switching, StartRaise, ClearActive,
            States, Modes, Primitives, Errors, Context, NoContext, Nothing,
            NoFloor
<1>1. CASE Compute
  <2>1. CASE PushValue
    <3>1. stack' \in Seq(TaskId)
      BY <2>1, AppendFacts DEF PushValue
    <3> QED
      BY <1>1, <2>1, <3>1 DEF Compute, PushValue
  <2>2. CASE PopValue
    <3>1. stack' \in Seq(TaskId)
      BY <2>2, FrontType DEF PopValue
    <3> QED
      BY <1>1, <2>2, <3>1 DEF Compute, PopValue
  <2>3. CASE PushHandler
    <3>1. handlers' \in Seq(Nat)
      BY <2>3, AppendFacts, SeqDomain DEF PushHandler
    <3> QED
      BY <1>1, <2>3, <3>1 DEF Compute, PushHandler
  <2>4. CASE PopHandler
    <3>1. handlers' \in Seq(Nat)
      BY <2>4, FrontType DEF PopHandler
    <3> QED
      BY <1>1, <2>4, <3>1 DEF Compute, PopHandler
  <2>5. CASE EnterNative \/ LeaveNative
    <3>1. floor' \in Nat \cup {NoFloor}
      BY <2>5, SeqDomain DEF EnterNative, LeaveNative
    <3> QED
      BY <1>1, <2>5, <3>1 DEF Compute, EnterNative, LeaveNative
  <2> QED
    BY <1>1, <2>1, <2>2, <2>3, <2>4, <2>5 DEF Compute
<1>2. CASE Throw
  BY <1>2 DEF Throw
<1>3. CASE Raise
  <2>1. CASE RaiseCaught
    <3>1. Len(handlers) \in DOMAIN handlers
      BY <2>1, ReachableLast DEF RaiseCaught
    <3>2. handlers[Len(handlers)] \in Nat
      BY <3>1, SMTT(30)
    <3>2a. handlers[Len(handlers)] <= Len(stack)
      BY <3>1 DEF StackInv, ValidAt
    <3>3. stack' \in Seq(TaskId)
      BY <2>1, <3>2, <3>2a, PrefixFacts DEF RaiseCaught
    <3>4. handlers' \in Seq(Nat)
      BY <2>1, FrontType DEF RaiseCaught
    <3>5. before' \in [stack : Seq(TaskId), handlers : Seq(Nat)]
      BY <2>1 DEF RaiseCaught
    <3> QED
      BY <2>1, <3>3, <3>4, <3>5 DEF RaiseCaught
  <2>2. CASE RaiseOutOfNative
    BY <2>2 DEF RaiseOutOfNative
  <2>3. CASE RaiseUncaught
    BY <2>3 DEF RaiseUncaught
  <2> QED
    BY <1>3, <2>1, <2>2, <2>3 DEF Raise
<1>4. CASE TaskSchedule
  <2>1. count \in TaskId /\ count' \in 1 .. MaxTasks
    BY <1>4, BoundsAssumption DEF TaskSchedule
  <2>2. runnable' \in Seq(TaskId) /\ stack' \in Seq(TaskId)
    BY <1>4, <2>1, AppendFacts DEF TaskSchedule
  <2> QED
    BY <1>4, <2>1, <2>2 DEF TaskSchedule
<1>5. CASE \E id \in TaskId : TaskWake(id)
  <2> PICK id \in TaskId : TaskWake(id)
    BY <1>5
  <2>1. stack' \in Seq(TaskId)
    BY AppendFacts DEF TaskWake
  <2>2. runnable' \in Seq(TaskId)
    <3>1. Append(runnable, id) \in Seq(TaskId)
      BY AppendFacts
    <3> QED
      BY <3>1 DEF TaskWake
  <2>3. sleeping' \in Seq(Timer)
    <3>1. CancelTimer(sleeping, id) \in Seq(Timer)
      BY CancelType
    <3> QED
      BY <3>1 DEF TaskWake
  <2>4. state' \in [TaskId -> States]
    BY DEF TaskWake
  <2> QED
    BY <2>1, <2>2, <2>3, <2>4 DEF TaskWake
<1>6. CASE TaskWakeUnknown
  BY <1>6 DEF TaskWakeUnknown
<1>7. CASE RejectSuspend
  BY <1>7 DEF RejectSuspend
<1>8. CASE TaskYield
  <2>1. Append(stack, current) \in Seq(TaskId)
    BY AppendFacts
  <2>2. context' \in [TaskId -> Context]
    BY <1>8, <2>1 DEF TaskYield, SaveCurrent
  <2>3. stack' \in Seq(TaskId) /\ handlers' \in Seq(Nat)
    BY <1>8 DEF TaskYield, SaveCurrent
  <2>4. runnable' \in Seq(TaskId)
    BY <1>8, AppendFacts DEF TaskYield
  <2> QED
    BY <1>8, <2>2, <2>3, <2>4 DEF TaskYield, SaveCurrent
<1>9. CASE TaskPark
  <2>1. Append(stack, current) \in Seq(TaskId)
    BY AppendFacts
  <2>2. context' \in [TaskId -> Context]
    BY <1>9, <2>1 DEF TaskPark, SaveCurrent
  <2>3. stack' \in Seq(TaskId) /\ handlers' \in Seq(Nat)
    BY <1>9 DEF TaskPark, SaveCurrent
  <2> QED
    BY <1>9, <2>2, <2>3 DEF TaskPark, SaveCurrent
<1>10. CASE \E d \in 0 .. MaxSleep : Sleep(d)
  <2>1. Append(stack, current) \in Seq(TaskId)
    BY AppendFacts
  <2>2. context' \in [TaskId -> Context]
    BY <1>10, <2>1 DEF Sleep, SaveCurrent
  <2>3. stack' \in Seq(TaskId) /\ handlers' \in Seq(Nat)
    BY <1>10 DEF Sleep, SaveCurrent
  <2>4. sleeping' \in Seq(Timer)
    BY <1>10, AppendFacts, Timers DEF Sleep
  <2> PICK d \in 0 .. MaxSleep : Sleep(d)
    BY <1>10
  <2> QED
    BY <2>2, <2>3, <2>4 DEF Sleep, SaveCurrent
<1>11. CASE SleepDomainError
  BY <1>11 DEF SleepDomainError
<1>12. CASE FinishTask
  BY <1>12, SMTT(30) DEF FinishTask, TakeContext
<1>13. CASE MainExit
  BY <1>13 DEF MainExit
<1>14. CASE DrainTimer
  <2> DEFINE timer == Head(sleeping)
  <2>1. timer \in Timer /\ timer.id \in TaskId /\ sleeping' \in Seq(Timer)
    BY <1>14, TailFacts, Timers DEF DrainTimer
  <2> HIDE DEF timer
  <2>2. pending' \in Seq(Timer)
    <3>1. Append(pending, timer) \in Seq(Timer)
      BY <2>1, AppendFacts
    <3> QED
      BY <1>14, <3>1 DEF DrainTimer, timer
  <2>3. runnable' \in Seq(TaskId)
    <3>1. Append(runnable, timer.id) \in Seq(TaskId)
      BY <2>1, AppendFacts
    <3> QED
      BY <1>14, <3>1 DEF DrainTimer, timer
  <2>4. state' \in [TaskId -> States]
    BY <1>14, <2>1 DEF DrainTimer, timer
  <2> QED
    BY <1>14, <2>1, <2>2, <2>3, <2>4 DEF DrainTimer
<1>15. CASE DrainDone
  BY <1>15 DEF DrainDone
<1>16. CASE PickTask
  <2>1. next' \in TaskId /\ runnable' \in Seq(TaskId)
    <3>1. PICK i \in DOMAIN runnable :
              next' = runnable[i] /\ runnable' = SubSeq(runnable, i + 1, Len(runnable))
      BY <1>16 DEF PickTask
    <3>2. i \in 1 .. Len(runnable) /\ runnable[i] \in TaskId
      BY SeqDomain, SMTT(30)
    <3> QED
      BY <3>1, <3>2, SuffixFacts
  <2> QED
    BY <1>16, <2>1 DEF PickTask
<1>17. CASE WaitForTimer
  <2>1. sleeping' \in Seq(Timer)
    <3>1. PICK i \in DOMAIN sleeping : sleeping' = Elapse(sleeping[i].left)
      BY <1>17 DEF WaitForTimer
    <3>2. sleeping[i] \in Timer
      BY SeqDomain
    <3>3. sleeping[i].left \in Nat
      <4>1. sleeping[i].left \in 0 .. MaxSleep
        BY <3>2, Timers
      <4> QED
        BY <4>1, BoundsAssumption, SMTT(30)
    <3> QED
      BY <3>1, <3>3, ElapseType
  <2>2. runnable' \in Seq(TaskId)
    BY <1>17 DEF WaitForTimer
  <2> QED
    BY <1>17, <2>1, <2>2 DEF WaitForTimer
<1>18. CASE DeadlockInPrimitive
  <2>1. context[current].stack \in Seq(TaskId) /\ context[current].handlers \in Seq(Nat)
    OBVIOUS
  <2>2. StackAfterFailure \in Seq(TaskId)
    BY <2>1, FrontType DEF StackAfterFailure
  <2>3. TakeContext(current) \in [TaskId -> Context]
    BY DEF TakeContext
  <2>4. sleeping' \in Seq(Timer)
    BY <1>18, CancelType DEF DeadlockInPrimitive, Reinstate
  <2>5. runnable' \in Seq(TaskId)
    BY <1>18, RetainType, ConsFacts DEF DeadlockInPrimitive, Reinstate
  <2> QED
    BY <1>18, <2>1, <2>2, <2>3, <2>4, <2>5 DEF DeadlockInPrimitive, Reinstate, StateAfterFailure
<1>19. CASE DeadlockAtFinish
  BY <1>19 DEF DeadlockAtFinish
<1>20. CASE ResumeTask
  <2>1. context[next].stack \in Seq(TaskId) /\ context[next].handlers \in Seq(Nat)
    OBVIOUS
  <2>2. context' \in [TaskId -> Context]
    BY <1>20 DEF ResumeTask, TakeContext
  <2>3. before' \in [stack : Seq(TaskId), handlers : Seq(Nat)]
    BY <1>20 DEF ResumeTask, Activated
  <2> QED
    BY <1>20, <2>1, <2>2, <2>3 DEF ResumeTask, Activated
<1>21. CASE StartTask
  BY <1>21 DEF StartTask, Activated
<1>22. CASE ActivationFailsInPrimitive
  <2>1. context[current].stack \in Seq(TaskId) /\ context[current].handlers \in Seq(Nat)
    OBVIOUS
  <2>2. StackAfterFailure \in Seq(TaskId)
    BY <2>1, FrontType DEF StackAfterFailure
  <2>3. TakeContext(current) \in [TaskId -> Context]
    BY DEF TakeContext
  <2>4. sleeping' \in Seq(Timer)
    BY <1>22, CancelType DEF ActivationFailsInPrimitive, Reinstate
  <2>5. runnable' \in Seq(TaskId)
    <3>1. <<next>> \o runnable \in Seq(TaskId)
      BY ConsFacts
    <3>2. RetainOther(<<next>> \o runnable, current) \in Seq(TaskId)
      BY <3>1, RetainType
    <3> QED
      BY <1>22, <3>2 DEF ActivationFailsInPrimitive, Reinstate
  <2> QED
    BY <1>22, <2>1, <2>2, <2>3, <2>4, <2>5 DEF ActivationFailsInPrimitive, Reinstate, StateAfterFailure
<1>23. CASE ActivationFailsAtFinish
  <2>1. runnable' \in Seq(TaskId)
    BY <1>23, ConsFacts DEF ActivationFailsAtFinish
  <2> QED
    BY <1>23, <2>1 DEF ActivationFailsAtFinish
<1>24. CASE Tick
  <2>1. sleeping' \in Seq(Timer)
    BY <1>24, ElapseType DEF Tick
  <2> QED
    BY <1>24, <2>1 DEF Tick
<1>25. CASE ReplReset
  BY <1>25, BoundsAssumption DEF ReplReset
<1>26. CASE UNCHANGED vars
  BY <1>26, SMTT(30) DEF vars
<1> QED
  BY <1>1, <1>2, <1>3, <1>4, <1>5, <1>6, <1>7, <1>8, <1>9, <1>10, <1>11,
     <1>12, <1>13, <1>14, <1>15, <1>16, <1>17, <1>18, <1>19, <1>20, <1>21,
     <1>22, <1>23, <1>24, <1>25, <1>26 DEF Next, Suspend, Switch

(* Facts about ValidAt.                                                    *)

\* No handlers fit every stack.
LEMMA ValidEmpty == \A n \in Int : ValidAt(<<>>, n)
BY DEF ValidAt

\* A handler pushed at the current depth fits.
LEMMA ValidPush ==
    ASSUME NEW h \in Seq(Nat), NEW n \in Nat, ValidAt(h, n)
    PROVE  ValidAt(Append(h, n), n)
BY AppendFacts, SeqDomain DEF ValidAt

\* A deeper stack serves the same handlers.
LEMMA ValidGrow ==
    ASSUME NEW h \in Seq(Nat), NEW n \in Int, NEW m \in Int, ValidAt(h, n), n <= m
    PROVE  ValidAt(h, m)
<1>1. \A i \in DOMAIN h : h[i] \in Nat
  OBVIOUS
<1> QED
  BY <1>1 DEF ValidAt

\* A stack cut no lower than the innermost handler serves the same handlers.
LEMMA ValidShrink ==
    ASSUME NEW h \in Seq(Nat), NEW n \in Int, NEW m \in Int, ValidAt(h, n),
           h # <<>> => h[Len(h)] <= m
    PROVE  ValidAt(h, m)
<1>1. SUFFICES ASSUME NEW i \in DOMAIN h PROVE h[i] <= m
  BY DEF ValidAt
<1>2. Len(h) \in DOMAIN h /\ i <= Len(h) /\ h # <<>>
  BY SeqDomain
<1>3. h[i] \in Nat /\ h[Len(h)] \in Nat
  BY <1>2
<1>4. h[i] <= h[Len(h)]
  BY <1>2, <1>3 DEF ValidAt
<1> QED
  BY <1>2, <1>3, <1>4

\* Without the innermost handler the others fit its depth.
LEMMA ValidPop ==
    ASSUME NEW h \in Seq(Nat), NEW n \in Int, ValidAt(h, n), h # <<>>
    PROVE  /\ ValidAt(SubSeq(h, 1, Len(h) - 1), n)
           /\ ValidAt(SubSeq(h, 1, Len(h) - 1), h[Len(h)])
           /\ h[Len(h)] \in Nat /\ h[Len(h)] <= n
<1> DEFINE k == Len(h) - 1
           g == SubSeq(h, 1, k)
<1>1. Len(h) \in DOMAIN h /\ k \in Nat /\ k <= Len(h)
  BY SeqDomain
<1>2. g \in Seq(Nat) /\ Len(g) = k /\ \A i \in 1 .. k : g[i] = h[i]
  BY <1>1, PrefixFacts
<1>3. DOMAIN g = 1 .. k /\ \A i \in 1 .. k : i \in DOMAIN h /\ i < Len(h)
  BY <1>1, <1>2, SeqDomain
<1> HIDE DEF g, k
<1>4. ValidAt(g, n)
  BY <1>2, <1>3 DEF ValidAt
<1>5. ValidAt(g, h[Len(h)])
  BY <1>1, <1>2, <1>3 DEF ValidAt
<1>6. h[Len(h)] \in Nat /\ h[Len(h)] <= n
  BY <1>1 DEF ValidAt
<1> QED
  BY <1>4, <1>5, <1>6 DEF g, k

\* The stacks a step starts from, as the lemmas above want them.
LEMMA StackTypes ==
    ASSUME TypeOK
    PROVE  /\ handlers \in Seq(Nat) /\ Len(stack) \in Nat
           /\ stack \in Seq(TaskId)
           /\ \A t \in TaskId : /\ context[t].handlers \in Seq(Nat)
                                /\ context[t].stack \in Seq(TaskId)
                                /\ Len(context[t].stack) \in Nat
<1>1. \A t \in TaskId : context[t].handlers \in Seq(Nat)
                          /\ context[t].stack \in Seq(TaskId)
  BY DEF TypeOK, Context
<1> QED
  BY <1>1, SeqDomain DEF TypeOK

\* A task's context may be taken at any time.
LEMMA StackTake ==
    ASSUME TypeOK, StackInv, NEW id \in TaskId, context' = TakeContext(id)
    PROVE  \A t \in TaskId :
              ValidAt(context'[t].handlers, Len(context'[t].stack) - 1)
<1>1. Len(<<>>) - 1 \in Int
  OBVIOUS
<1>2. ValidAt(<<>>, Len(<<>>) - 1)
  BY <1>1, ValidEmpty
<1> QED
  BY <1>2 DEF TakeContext, StackInv, TypeOK, NoContext

\* What a failed switch reinstates fits, without the popped result.
LEMMA StackReinstate ==
    ASSUME TypeOK, StackInv, NEW queue, NEW e, Reinstate(queue, e)
    PROVE  StackInv'
<1>1. \A t \in TaskId : ValidAt(context'[t].handlers, Len(context'[t].stack) - 1)
  BY StackTake DEF Reinstate, TypeOK
<1> DEFINE c == context[current]
<1>2. c.handlers \in Seq(Nat) /\ c.stack \in Seq(TaskId) /\ Len(c.stack) \in Nat
      /\ ValidAt(c.handlers, Len(c.stack) - 1)
  BY StackTypes DEF StackInv, TypeOK
<1> HIDE DEF c
<1>3. Len(SubSeq(c.stack, 1, Len(c.stack) - 1)) \in Nat
      /\ Len(SubSeq(c.stack, 1, Len(c.stack) - 1)) >= Len(c.stack) - 1
  <2>1. CASE Len(c.stack) = 0
    BY <1>2, <2>1, FrontType, SeqDomain
  <2>2. CASE Len(c.stack) > 0
    <3>1. Len(c.stack) - 1 \in Nat /\ Len(c.stack) - 1 <= Len(c.stack)
      BY <1>2, <2>2
    <3> QED
      BY <1>2, <3>1, PrefixFacts
  <2> QED
    BY <1>2, <2>1, <2>2
<1>4. ValidAt(handlers', Len(stack'))
  <2>1. handlers' = c.handlers /\ stack' = SubSeq(c.stack, 1, Len(c.stack) - 1)
    BY DEF Reinstate, StackAfterFailure, c
  <2>2. Len(c.stack) - 1 \in Int /\ Len(stack') \in Int
    BY <1>2, <1>3, <2>1
  <2> QED
    BY <1>2, <1>3, <2>1, <2>2, ValidGrow
<1> QED
  BY <1>1, <1>4 DEF StackInv

\* Saving the current task keeps its handlers within its stack.
LEMMA StackSave ==
    ASSUME TypeOK, StackInv, NEW p, NEW st, SaveCurrent(p, st)
    PROVE  StackInv'
<1>1. ValidAt(handlers', Len(stack'))
  BY ValidEmpty DEF SaveCurrent
<1>2. Len(Append(stack, current)) - 1 = Len(stack)
  BY StackTypes, AppendFacts DEF TypeOK
<1>3. \A t \in TaskId : ValidAt(context'[t].handlers, Len(context'[t].stack) - 1)
  BY <1>2 DEF SaveCurrent, StackInv, TypeOK
<1> QED
  BY <1>1, <1>3 DEF StackInv

\* Every step keeps handlers within the stack they belong to.
LEMMA StackStep == TypeOK /\ StackInv /\ [Next]_vars => StackInv'
<1> SUFFICES ASSUME TypeOK, StackInv, [Next]_vars PROVE StackInv'
  OBVIOUS
<1>a. UNCHANGED <<stack, handlers, context>> => StackInv'
  BY DEF StackInv
<1>b. stack' = Append(stack, current) /\ UNCHANGED <<handlers, context>> => StackInv'
  <2> SUFFICES ASSUME stack' = Append(stack, current), UNCHANGED <<handlers, context>>
               PROVE  StackInv'
    OBVIOUS
  <2>1. Len(stack') = Len(stack) + 1
    BY StackTypes, AppendFacts DEF TypeOK
  <2>2. ValidAt(handlers, Len(stack) + 1)
    <3>1. Len(stack) \in Int /\ Len(stack) + 1 \in Int /\ Len(stack) <= Len(stack) + 1
      BY StackTypes
    <3>2. ValidAt(handlers, Len(stack)) /\ handlers \in Seq(Nat)
      BY StackTypes DEF StackInv
    <3> QED
      BY <3>1, <3>2, ValidGrow
  <2> QED
    BY <2>1, <2>2 DEF StackInv
<1> USE DEF tableVars, queueVars, activeVars, switchVars, schedVars, controlVars
<1>1. CASE Compute
  <2>1. CASE PushValue
    BY <1>1, <1>b, <2>1 DEF Compute, PushValue
  <2>2. CASE PopValue
    <3>1. handlers # <<>> => handlers[Len(handlers)] <= Len(stack) - 1
      <4>1. SUFFICES ASSUME handlers # <<>>
                     PROVE  handlers[Len(handlers)] <= Len(stack) - 1
        OBVIOUS
      <4>2. handlers[Len(handlers)] \in Nat
        BY <4>1, StackTypes, SeqDomain
      <4> QED
        BY <4>1, <4>2, <2>2, StackTypes DEF PopValue, Base
    <3>2. Len(stack) > 0
      <4>1. CASE handlers = <<>>
        BY <4>1, <2>2 DEF PopValue, Base
      <4>2. CASE handlers # <<>>
        <5>1. handlers[Len(handlers)] \in Nat
          BY <4>2, StackTypes, SeqDomain
        <5> QED
          BY <5>1, <4>2, <3>1, StackTypes
      <4> QED
        BY <4>1, <4>2
    <3>3. Len(stack) - 1 \in Nat /\ Len(stack) - 1 <= Len(stack)
      BY <3>2, StackTypes
    <3>4. Len(stack') = Len(stack) - 1
      BY <2>2, <3>3, StackTypes, PrefixFacts DEF PopValue
    <3>5. ValidAt(handlers, Len(stack) - 1)
      <4>1. ValidAt(handlers, Len(stack)) /\ handlers \in Seq(Nat)
              /\ Len(stack) \in Int /\ Len(stack) - 1 \in Int
        BY <3>3, StackTypes DEF StackInv
      <4> QED
        BY <4>1, <3>1, ValidShrink
    <3> QED
      BY <1>1, <2>2, <3>4, <3>5 DEF Compute, PopValue, StackInv
  <2>3. CASE PushHandler
    <3>1. ValidAt(handlers', Len(stack))
      BY <2>3, StackTypes, ValidPush DEF PushHandler, StackInv
    <3> QED
      BY <1>1, <2>3, <3>1 DEF Compute, PushHandler, StackInv
  <2>4. CASE PopHandler
    <3>1. handlers # <<>>
      BY <2>4, ReachableLast DEF PopHandler, TypeOK
    <3>2. ValidAt(handlers', Len(stack))
      <4>1. ValidAt(handlers, Len(stack)) /\ handlers \in Seq(Nat) /\ Len(stack) \in Int
        BY StackTypes DEF StackInv
      <4> QED
        BY <2>4, <3>1, <4>1, ValidPop DEF PopHandler
    <3> QED
      BY <1>1, <2>4, <3>2 DEF Compute, PopHandler, StackInv
  <2>5. CASE EnterNative \/ LeaveNative
    BY <1>1, <1>a, <2>5 DEF Compute, EnterNative, LeaveNative
  <2> QED
    BY <1>1, <2>1, <2>2, <2>3, <2>4, <2>5 DEF Compute
<1>2. CASE RaiseCaught
  <2>1. handlers # <<>>
    BY <1>2, ReachableLast DEF RaiseCaught, TypeOK
  <2>2. ValidAt(handlers, Len(stack)) /\ handlers \in Seq(Nat) /\ Len(stack) \in Int
    BY StackTypes DEF StackInv
  <2> DEFINE n == handlers[Len(handlers)]
  <2>3. n \in Nat /\ n <= Len(stack) /\ ValidAt(handlers', n)
    BY <1>2, <2>1, <2>2, ValidPop DEF RaiseCaught
  <2>4. Len(stack') = n
    BY <1>2, <2>3, StackTypes, PrefixFacts DEF RaiseCaught
  <2> QED
    BY <1>2, <2>3, <2>4 DEF RaiseCaught, StackInv
<1>3. CASE TaskYield \/ TaskPark \/ \E d \in 0 .. MaxSleep : Sleep(d)
  BY <1>3, StackSave DEF TaskYield, TaskPark, Sleep
<1>4. CASE FinishTask
  <2>1. ValidAt(handlers', Len(stack'))
    BY <1>4, ValidEmpty DEF FinishTask, ClearActive
  <2> QED
    BY <1>4, <2>1, StackTake DEF FinishTask, StackInv, TypeOK
<1>5. CASE DeadlockInPrimitive
  BY <1>5, StackReinstate DEF DeadlockInPrimitive
<1>6. CASE ActivationFailsInPrimitive
  BY <1>6, StackReinstate DEF ActivationFailsInPrimitive
<1>7. CASE ResumeTask
  <2>1. \A t \in TaskId : ValidAt(context'[t].handlers, Len(context'[t].stack) - 1)
    BY <1>7, StackTake DEF ResumeTask, TypeOK
  <2>2. next \in TaskId
    BY DEF TypeOK
  <2>3. context[next].handlers \in Seq(Nat) /\ Len(context[next].stack) \in Nat
          /\ ValidAt(context[next].handlers, Len(context[next].stack) - 1)
    BY <2>2, StackTypes DEF StackInv
  <2>4. Len(context[next].stack) - 1 \in Int /\ Len(context[next].stack) \in Int
          /\ Len(context[next].stack) - 1 <= Len(context[next].stack)
    BY <2>3
  <2>5. ValidAt(handlers', Len(stack'))
    BY <1>7, <2>3, <2>4, ValidGrow DEF ResumeTask
  <2> QED
    BY <2>1, <2>5 DEF StackInv
<1>8. CASE StartTask
  <2>1. ValidAt(handlers', Len(stack'))
    BY <1>8, ValidEmpty DEF StartTask, ClearActive
  <2> QED
    BY <1>8, <2>1 DEF StartTask, StackInv
<1>9. CASE ReplReset
  <2>1. ValidAt(<<>>, Len(<<>>)) /\ ValidAt(<<>>, Len(<<>>) - 1)
    BY ValidEmpty
  <2> QED
    BY <1>9, <2>1 DEF ReplReset, StackInv, NoContext
<1>10. CASE TaskSchedule \/ \E id \in TaskId : TaskWake(id)
  BY <1>10, <1>b DEF TaskSchedule, TaskWake
<1>11. CASE UNCHANGED vars
  BY <1>11, <1>a DEF vars
<1>12. CASE Throw \/ RaiseOutOfNative \/ RaiseUncaught \/ TaskWakeUnknown
              \/ RejectSuspend \/ SleepDomainError \/ MainExit \/ Tick
  BY <1>12, <1>a DEF Throw, RaiseOutOfNative, RaiseUncaught, TaskWakeUnknown,
        RejectSuspend, SleepDomainError, MainExit, Tick
<1>13. CASE DrainTimer \/ DrainDone \/ PickTask \/ WaitForTimer
              \/ DeadlockAtFinish \/ ActivationFailsAtFinish
  BY <1>13, <1>a DEF DrainTimer, DrainDone, PickTask, WaitForTimer,
        DeadlockAtFinish, ActivationFailsAtFinish
<1> QED
  BY <1>1, <1>2, <1>3, <1>4, <1>5, <1>6, <1>7, <1>8, <1>9, <1>10, <1>11,
     <1>12, <1>13 DEF Next, Raise, Suspend, Switch

\* A fresh VM has no handlers.
LEMMA InitStack == Init => StackInv
<1>1. ValidAt(<<>>, Len(<<>>)) /\ ValidAt(<<>>, Len(<<>>) - 1)
  BY ValidEmpty
<1> QED
  BY <1>1 DEF Init, StackInv, NoContext

(* How the queue operations change membership.                             *)

\* The empty queue.
LEMMA QueueEmpty == Distinct(<<>>) /\ \A t : ~Has(<<>>, t)
BY DEF Distinct, Has

\* push_back of a task that is not queued.
LEMMA QueueAppend ==
    ASSUME NEW S, NEW q \in Seq(S), NEW x \in S, Distinct(q), ~Has(q, x)
    PROVE  /\ Distinct(Append(q, x))
           /\ \A t : Has(Append(q, x), t) <=> Has(q, t) \/ t = x
<1> DEFINE r == Append(q, x)
<1>1. /\ DOMAIN q = 1 .. Len(q) /\ Len(q) \in Nat /\ DOMAIN r = 1 .. Len(q) + 1
      /\ r[Len(q) + 1] = x /\ \A i \in 1 .. Len(q) : r[i] = q[i]
  BY AppendFacts, SeqDomain
<1> HIDE DEF r
<1>2. \A i \in DOMAIN r : i \in DOMAIN q \/ i = Len(q) + 1
  BY <1>1
<1>3. Distinct(r)
  BY <1>1, <1>2 DEF Distinct, Has
<1>4. \A t : Has(r, t) <=> Has(q, t) \/ t = x
  BY <1>1, <1>2 DEF Has
<1> QED
  BY <1>3, <1>4 DEF r

\* push_front of a task that is not queued.
LEMMA QueueCons ==
    ASSUME NEW S, NEW q \in Seq(S), NEW x \in S, Distinct(q), ~Has(q, x)
    PROVE  /\ Distinct(<<x>> \o q)
           /\ \A t : Has(<<x>> \o q, t) <=> Has(q, t) \/ t = x
<1> DEFINE r == <<x>> \o q
<1>1. /\ DOMAIN q = 1 .. Len(q) /\ Len(q) \in Nat /\ DOMAIN r = 1 .. Len(q) + 1
      /\ r[1] = x /\ \A i \in 1 .. Len(q) : r[i + 1] = q[i]
  BY ConsFacts, SeqDomain
<1> HIDE DEF r
<1>2. \A i \in DOMAIN r : i = 1 \/ (i - 1 \in DOMAIN q /\ r[i] = q[i - 1])
  <2> TAKE i \in DOMAIN r
  <2>1. CASE i = 1
    BY <2>1
  <2>2. CASE i # 1
    <3>1. i - 1 \in 1 .. Len(q) /\ (i - 1) + 1 = i
      BY <1>1, <2>2
    <3> QED
      BY <1>1, <3>1
  <2> QED
    BY <2>1, <2>2
<1>3. Distinct(r)
  BY <1>1, <1>2 DEF Distinct, Has
<1>4. ASSUME NEW t PROVE Has(r, t) <=> Has(q, t) \/ t = x
  <2>1. Has(r, t) => Has(q, t) \/ t = x
    BY <1>1, <1>2 DEF Has
  <2>2. ASSUME Has(q, t) PROVE Has(r, t)
    <3>1. PICK i \in 1 .. Len(q) : q[i] = t
      BY <1>1, <2>2 DEF Has
    <3>2. i + 1 \in DOMAIN r
      BY <1>1
    <3> QED
      BY <1>1, <3>1, <3>2 DEF Has
  <2>3. t = x => Has(r, t)
    <3>1. 1 \in DOMAIN r
      BY <1>1
    <3> QED
      BY <1>1, <3>1 DEF Has
  <2> QED
    BY <2>1, <2>2, <2>3
<1> QED
  BY <1>3, <1>4 DEF r

\* pop_front removes exactly the task it returns.
LEMMA QueuePop ==
    ASSUME NEW S, NEW q \in Seq(S), 1 \in DOMAIN q, Distinct(q)
    PROVE  /\ Distinct(SubSeq(q, 2, Len(q)))
           /\ \A t : Has(SubSeq(q, 2, Len(q)), t) <=> Has(q, t) /\ t # q[1]
<1> DEFINE r == SubSeq(q, 1 + 1, Len(q))
<1>0. Len(q) \in Nat /\ DOMAIN q = 1 .. Len(q) /\ 1 \in 1 .. Len(q)
  BY SeqDomain
<1>1. /\ DOMAIN r = 1 .. Len(q) - 1 /\ \A i \in 1 .. Len(q) - 1 : r[i] = q[1 + i]
  BY <1>0, SuffixFacts, SeqDomain
<1> HIDE DEF r
<1>2. \A i \in 1 .. Len(q) - 1 : 1 + i \in DOMAIN q /\ 1 + i # 1
  BY <1>0
<1>3. Distinct(r)
  BY <1>0, <1>1, <1>2 DEF Distinct
<1>4. ASSUME NEW t PROVE Has(r, t) <=> Has(q, t) /\ t # q[1]
  <2>1. ASSUME Has(r, t) PROVE Has(q, t) /\ t # q[1]
    <3>1. PICK i \in 1 .. Len(q) - 1 : r[i] = t
      BY <1>1, <2>1 DEF Has
    <3> QED
      BY <1>0, <1>1, <1>2, <3>1 DEF Has, Distinct
  <2>2. ASSUME Has(q, t), t # q[1] PROVE Has(r, t)
    <3>1. PICK i \in 1 .. Len(q) : q[i] = t
      BY <1>0, <2>2 DEF Has
    <3>2. i - 1 \in 1 .. Len(q) - 1 /\ 1 + (i - 1) = i
      BY <1>0, <2>2, <3>1
    <3> QED
      BY <1>1, <3>1, <3>2 DEF Has
  <2> QED
    BY <2>1, <2>2
<1>5. r = SubSeq(q, 2, Len(q))
  BY DEF r
<1> QED
  BY <1>3, <1>4, <1>5

\* No timers.
LEMMA TimersEmpty == DistinctOwners(<<>>) /\ \A t : ~Owns(<<>>, t)
BY DEF DistinctOwners, Owns

\* A timer for a task that has none.
LEMMA TimersAppend ==
    ASSUME NEW q \in Seq(Timer), NEW e \in Timer, DistinctOwners(q), ~Owns(q, e.id)
    PROVE  /\ DistinctOwners(Append(q, e))
           /\ \A t : Owns(Append(q, e), t) <=> Owns(q, t) \/ t = e.id
<1> DEFINE r == Append(q, e)
<1>1. /\ DOMAIN q = 1 .. Len(q) /\ Len(q) \in Nat /\ DOMAIN r = 1 .. Len(q) + 1
      /\ r[Len(q) + 1] = e /\ \A i \in 1 .. Len(q) : r[i] = q[i]
  BY AppendFacts, SeqDomain
<1> HIDE DEF r
<1>2. \A i \in DOMAIN r : i \in DOMAIN q \/ i = Len(q) + 1
  BY <1>1
<1>3. DistinctOwners(r)
  BY <1>1, <1>2 DEF DistinctOwners, Owns
<1>4. \A t : Owns(r, t) <=> Owns(q, t) \/ t = e.id
  BY <1>1, <1>2 DEF Owns
<1> QED
  BY <1>3, <1>4 DEF r

\* Draining the first timer removes the timer of its task.
LEMMA TimersTail ==
    ASSUME NEW q \in Seq(Timer), q # <<>>, DistinctOwners(q)
    PROVE  /\ DistinctOwners(Tail(q))
           /\ Owns(q, Head(q).id)
           /\ \A t : Owns(Tail(q), t) <=> Owns(q, t) /\ t # Head(q).id
<1> DEFINE r == Tail(q)
<1>1. /\ DOMAIN q = 1 .. Len(q) /\ Len(q) \in Nat /\ Len(q) > 0 /\ Head(q) = q[1]
      /\ DOMAIN r = 1 .. Len(q) - 1
      /\ \A i \in 1 .. Len(q) - 1 : r[i] = q[i + 1]
  BY TailFacts, SeqDomain
<1> HIDE DEF r
<1>2. 1 \in DOMAIN q /\ \A i \in 1 .. Len(q) - 1 : i + 1 \in DOMAIN q /\ i + 1 # 1
  BY <1>1
<1>3. DistinctOwners(r)
  BY <1>1, <1>2 DEF DistinctOwners
<1>4. Owns(q, Head(q).id)
  BY <1>1, <1>2 DEF Owns
<1>5. ASSUME NEW t PROVE Owns(r, t) <=> Owns(q, t) /\ t # Head(q).id
  <2>1. ASSUME Owns(r, t) PROVE Owns(q, t) /\ t # Head(q).id
    <3>1. PICK i \in 1 .. Len(q) - 1 : r[i].id = t
      BY <1>1, <2>1 DEF Owns
    <3> QED
      BY <1>1, <1>2, <3>1 DEF Owns, DistinctOwners
  <2>2. ASSUME Owns(q, t), t # Head(q).id PROVE Owns(r, t)
    <3>1. PICK i \in 1 .. Len(q) : q[i].id = t
      BY <1>1, <2>2 DEF Owns
    <3>2. i - 1 \in 1 .. Len(q) - 1 /\ (i - 1) + 1 = i
      BY <1>1, <2>2, <3>1
    <3> QED
      BY <1>1, <3>1, <3>2 DEF Owns
  <2> QED
    BY <2>1, <2>2
<1> QED
  BY <1>3, <1>4, <1>5 DEF r

\* Time passing keeps the owners of the timers.
LEMMA TimersElapse ==
    ASSUME sleeping \in Seq(Timer), NEW d \in Nat, DistinctOwners(sleeping)
    PROVE  /\ DistinctOwners(Elapse(d))
           /\ \A t : Owns(Elapse(d), t) <=> Owns(sleeping, t)
<1> DEFINE r == Elapse(d)
<1>1. DOMAIN r = 1 .. Len(sleeping) /\ DOMAIN sleeping = 1 .. Len(sleeping)
      /\ \A i \in 1 .. Len(sleeping) : r[i].id = sleeping[i].id
  BY ElapseType, SeqDomain
<1> HIDE DEF r
<1> QED
  BY <1>1 DEF DistinctOwners, Owns, r

(* The table, the queue and the timers.                                    *)

TableInv == OneRunning /\ QueueExact /\ ContextExact /\ TimersExact /\ SwitchInv

\* A fresh table is consistent.
LEMMA InitTable == Init => TableInv
<1> SUFFICES ASSUME Init PROVE TableInv
  OBVIOUS
<1>1. OneRunning /\ ContextExact
  BY TaskIds DEF Init, OneRunning, ContextExact, InSwitch, NoContext
<1>2. QueueExact
  BY QueueEmpty DEF Init, QueueExact
<1>3. TimersExact
  BY TimersEmpty DEF Init, TimersExact, HasTimer
<1>4. SwitchInv
  BY DEF Init, SwitchInv, InSwitch
<1> QED
  BY <1>1, <1>2, <1>3, <1>4 DEF TableInv

\* The rollback of a failed switch leaves a consistent table.
LEMMA TableReinstate ==
    ASSUME TypeOK, TableInv, NEW queue, NEW e, Reinstate(queue, e), InSwitch,
           mode # "drain", leaving # "finish", Distinct(queue),
           \A t \in TaskId : Has(queue, t) <=> (state[t] = "Runnable" /\ t # current)
    PROVE  TableInv'
<1> USE DEF TableInv
<1>1. current \in TaskId /\ state \in [TaskId -> States]
        /\ context \in [TaskId -> Context] /\ sleeping \in Seq(Timer)
  BY DEF TypeOK
<1>2. context[current].live /\ state[current] \in {"Runnable", "Blocked"}
  BY DEF SwitchInv
<1>3. /\ state' = [state EXCEPT ![current] = "Running"]
      /\ context' = [context EXCEPT ![current] = NoContext]
      /\ mode' = "raise" /\ leaving' = "none"
      /\ runnable' = queue
      /\ UNCHANGED <<count, entry, pending, current, outcome>>
  BY DEF Reinstate, StateAfterFailure, TakeContext, StartRaise
<1>4. OneRunning'
  BY <1>1, <1>3 DEF OneRunning, InSwitch
<1>5. QueueExact'
  BY <1>1, <1>3 DEF QueueExact, Picked
<1>6. ContextExact'
  BY <1>1, <1>2, <1>3 DEF ContextExact, NoContext
<1>7. /\ DistinctOwners(sleeping')
      /\ \A t \in TaskId : Owns(sleeping', t) => Owns(sleeping, t)
      /\ ~Owns(sleeping', current)
  <2>1. CASE leaving = "sleep"
    <3>1. sleeping' = CancelTimer(sleeping, current)
      BY <2>1 DEF Reinstate
    <3> QED
      BY <1>1, <3>1, CancelType DEF TimersExact
  <2>2. CASE leaving # "sleep"
    <3>1. sleeping' = sleeping
      BY <2>2 DEF Reinstate
    <3>2. leaving \in {"yield", "park"}
      BY <2>2 DEF TypeOK, Primitives, SwitchInv
    <3>3. ~HasTimer(current)
      <4>1. CASE leaving = "park"
        BY <4>1 DEF SwitchInv
      <4>2. CASE leaving = "yield"
        BY <4>2, <1>1 DEF SwitchInv, TimersExact
      <4> QED
        BY <3>2, <4>1, <4>2
    <3> QED
      BY <1>1, <3>1, <3>3 DEF TimersExact, HasTimer
  <2> QED
    BY <2>1, <2>2
<1>8. pending' = <<>>
  BY <1>3 DEF SwitchInv
<1>9. TimersExact'
  BY <1>1, <1>3, <1>7, <1>8, TimersEmpty DEF TimersExact, HasTimer
<1>10. SwitchInv'
  BY <1>3, <1>8 DEF SwitchInv, InSwitch
<1> QED
  BY <1>4, <1>5, <1>6, <1>9, <1>10

\* Saving the outgoing task leaves a consistent table.
LEMMA TableSave ==
    ASSUME TypeOK, TableInv, NEW p \in {"yield", "park", "sleep"},
           SaveCurrent(p, IF p = "yield" THEN "Runnable" ELSE "Blocked"),
           runnable' = IF p = "yield" THEN Append(runnable, current) ELSE runnable,
           IF p = "sleep"
           THEN \E d \in 0 .. MaxSleep :
                   sleeping' = Append(sleeping, [id |-> current, left |-> d])
           ELSE sleeping' = sleeping
    PROVE  TableInv'
<1> USE DEF TableInv
<1>1. current \in TaskId /\ state \in [TaskId -> States] /\ runnable \in Seq(TaskId)
        /\ context \in [TaskId -> Context] /\ sleeping \in Seq(Timer)
  BY DEF TypeOK
<1>2. mode = "run" /\ outcome = "running" /\ ~InSwitch /\ pending = <<>>
  BY DEF SaveCurrent, Running, InSwitch, SwitchInv
<1>3. state[current] = "Running" /\ \A t \in TaskId \ {current} : state[t] # "Running"
  BY <1>1, <1>2 DEF OneRunning
<1> DEFINE new == IF p = "yield" THEN "Runnable" ELSE "Blocked"
<1>4. /\ state' = [state EXCEPT ![current] = new]
      /\ mode' = "drain" /\ leaving' = p
      /\ UNCHANGED <<count, entry, pending, current, outcome>>
      /\ \A t \in TaskId \ {current} : context'[t] = context[t]
      /\ context'[current].live
  BY <1>1 DEF SaveCurrent
<1>5. ~Has(runnable, current) /\ ~Owns(sleeping, current) /\ Distinct(runnable)
        /\ DistinctOwners(sleeping)
  BY <1>1, <1>3 DEF QueueExact, TimersExact, HasTimer
<1>6. OneRunning'
  BY <1>1, <1>3, <1>4 DEF OneRunning, InSwitch
<1>7. QueueExact'
  <2>1. CASE p = "yield"
    <3>1. Distinct(runnable') /\ \A t : Has(runnable', t) <=> Has(runnable, t) \/ t = current
      BY <1>1, <1>5, <2>1, QueueAppend
    <3> QED
      BY <1>1, <1>2, <1>3, <1>4, <2>1, <3>1 DEF QueueExact, Picked
  <2>2. CASE p # "yield"
    BY <1>1, <1>2, <1>3, <1>4, <2>2 DEF QueueExact, Picked
  <2> QED
    BY <2>1, <2>2
<1>8. ContextExact'
  BY <1>1, <1>3, <1>4 DEF ContextExact
<1>9. /\ DistinctOwners(sleeping')
      /\ \A t \in TaskId : Owns(sleeping', t) <=>
                              Owns(sleeping, t) \/ (p = "sleep" /\ t = current)
  <2>1. CASE p = "sleep"
    <3>1. PICK d \in 0 .. MaxSleep :
                  sleeping' = Append(sleeping, [id |-> current, left |-> d])
      BY <2>1
    <3>2. [id |-> current, left |-> d] \in Timer
      BY <1>1, Timers
    <3> QED
      BY <1>1, <1>5, <2>1, <3>1, <3>2, TimersAppend
  <2>2. CASE p # "sleep"
    BY <1>5, <2>2
  <2> QED
    BY <2>1, <2>2
<1>10. TimersExact'
  BY <1>1, <1>2, <1>3, <1>4, <1>9, TimersEmpty DEF TimersExact, HasTimer
<1>11. SwitchInv'
  <2>1. p = "park" => ~Owns(sleeping', current) /\ ~Owns(pending', current)
    BY <1>1, <1>2, <1>4, <1>5, <1>9, TimersEmpty
  <2> QED
    BY <1>1, <1>4, <2>1 DEF SwitchInv, InSwitch, HasTimer
<1> QED
  BY <1>6, <1>7, <1>8, <1>10, <1>11

\* Activating the picked task leaves a consistent table.
LEMMA TableActivated ==
    ASSUME TypeOK, TableInv, Switching("activate"), Activated,
           \A t \in TaskId \ {next} : context'[t] = context[t],
           ~context'[next].live
    PROVE  TableInv'
<1> USE DEF TableInv
<1>1. next \in TaskId /\ current \in TaskId /\ state \in [TaskId -> States]
        /\ context \in [TaskId -> Context]
  BY DEF TypeOK
<1>2. mode = "activate" /\ outcome = "running" /\ InSwitch /\ state[next] = "Runnable"
        /\ pending = <<>>
  BY DEF Switching, InSwitch, SwitchInv
<1>3. /\ state' = [state EXCEPT ![next] = "Running"]
      /\ current' = next /\ mode' = "run" /\ leaving' = "none"
      /\ UNCHANGED <<count, entry, runnable, sleeping, pending, outcome>>
  BY DEF Activated, queueVars
<1>4. OneRunning'
  BY <1>1, <1>2, <1>3 DEF OneRunning, InSwitch
<1>5. QueueExact'
  BY <1>1, <1>2, <1>3 DEF QueueExact, Picked
<1>6. ContextExact'
  BY <1>1, <1>2, <1>3 DEF ContextExact, NoContext
<1>7. TimersExact'
  BY <1>1, <1>2, <1>3 DEF TimersExact, HasTimer
<1>8. SwitchInv'
  BY <1>2, <1>3 DEF SwitchInv, InSwitch
<1> QED
  BY <1>4, <1>5, <1>6, <1>7, <1>8

\* Every step keeps table, queue, timers and contexts consistent.
LEMMA TableStep == TypeOK /\ TableInv /\ [Next]_vars => TableInv'
<1> SUFFICES ASSUME TypeOK, TableInv, [Next]_vars PROVE TableInv'
  OBVIOUS
<1> USE DEF TableInv, tableVars, queueVars, activeVars, switchVars, schedVars,
            controlVars
<1>t. /\ count \in 1 .. MaxTasks /\ state \in [TaskId -> States]
      /\ entry \in [TaskId -> BOOLEAN] /\ context \in [TaskId -> Context]
      /\ runnable \in Seq(TaskId) /\ sleeping \in Seq(Timer) /\ pending \in Seq(Timer)
      /\ current \in TaskId /\ next \in TaskId
  BY DEF TypeOK
<1>a. ASSUME UNCHANGED schedVars, mode \in {"run", "raise"},
             mode' \in {"run", "raise"}
      PROVE  TableInv'
  <2>1. OneRunning' /\ ContextExact'
    BY <1>a DEF OneRunning, ContextExact, InSwitch
  <2>2. QueueExact'
    BY <1>a DEF QueueExact, Picked
  <2>3. TimersExact'
    BY <1>a DEF TimersExact, HasTimer
  <2>4. SwitchInv'
    BY <1>a DEF SwitchInv, InSwitch
  <2> QED
    BY <2>1, <2>2, <2>3, <2>4
<1>1. CASE Compute \/ Throw \/ Raise \/ TaskWakeUnknown \/ RejectSuspend
             \/ SleepDomainError \/ MainExit
  BY <1>1, <1>a DEF Compute, Throw, Raise, RaiseCaught, RaiseOutOfNative,
        RaiseUncaught, TaskWakeUnknown, RejectSuspend, SleepDomainError,
        MainExit, Running, Switching, StartRaise
<1>2. CASE TaskSchedule
  <2>1. mode = "run" /\ mode' = "run" /\ pending = <<>> /\ ~InSwitch
    BY <1>2 DEF TaskSchedule, Running, SwitchInv, InSwitch
  <2>2. count \in TaskId /\ count \in Nat /\ state[count] = "Absent"
    <3>1. count \in TaskId /\ count \in Nat
      BY <1>2, <1>t, TaskIds DEF TaskSchedule
    <3> QED
      BY <3>1 DEF ContextExact
  <2>3. /\ ~Has(runnable, count) /\ Distinct(runnable)
        /\ count # current /\ ~HasTimer(count) /\ ~context[count].live
    BY <1>t, <2>1, <2>2 DEF QueueExact, OneRunning, TimersExact, ContextExact
  <2>4. /\ Distinct(runnable')
        /\ \A t : Has(runnable', t) <=> Has(runnable, t) \/ t = count
    BY <1>2, <1>t, <2>2, <2>3, QueueAppend DEF TaskSchedule
  <2>5. /\ state' = [state EXCEPT ![count] = "Runnable"]
        /\ entry' = [entry EXCEPT ![count] = TRUE] /\ count' = count + 1
        /\ UNCHANGED <<context, sleeping, pending, current, mode, leaving, next,
                       outcome>>
    BY <1>2 DEF TaskSchedule
  <2>6. OneRunning'
    BY <1>t, <2>1, <2>2, <2>5 DEF OneRunning, InSwitch
  <2>7. QueueExact'
    BY <1>t, <2>1, <2>2, <2>4, <2>5 DEF QueueExact, Picked
  <2>8. ContextExact'
    <3> SUFFICES ASSUME NEW t \in TaskId
                 PROVE  /\ state'[t] = "Blocked" => context[t].live
                        /\ state'[t] = "Runnable" => context[t].live \/ entry'[t]
                        /\ context[t].live => state'[t] \in {"Runnable", "Blocked"}
                        /\ state'[t] = "Absent" <=> t >= count + 1
      BY <2>5 DEF ContextExact
    <3>1. CASE t = count
      BY <3>1, <1>t, <2>2, <2>5
    <3>2. CASE t # count
      <4>1. state'[t] = state[t] /\ entry'[t] = entry[t]
        BY <3>2, <1>t, <2>2, <2>5
      <4>2. t >= count + 1 <=> t >= count
        BY <3>2, <2>2, TaskIds
      <4> QED
        BY <4>1, <4>2 DEF ContextExact
    <3> QED
      BY <3>1, <3>2
  <2>9. TimersExact'
    BY <1>t, <2>2, <2>3, <2>5 DEF TimersExact, HasTimer
  <2>10. SwitchInv'
    BY <2>1, <2>5 DEF SwitchInv, InSwitch
  <2> QED
    BY <2>6, <2>7, <2>8, <2>9, <2>10
<1>3. ASSUME NEW id \in TaskId, TaskWake(id) PROVE TableInv'
  <2>1. mode = "run" /\ mode' = "run" /\ pending = <<>> /\ ~InSwitch
    BY <1>3 DEF TaskWake, Running, SwitchInv, InSwitch
  <2>2. CASE state[id] # "Blocked"
    <3>1. UNCHANGED schedVars
      BY <1>3, <2>2 DEF TaskWake
    <3> QED
      BY <3>1, <2>1, <1>a
  <2>3. CASE state[id] = "Blocked"
    <3>1. /\ state' = [state EXCEPT ![id] = "Runnable"]
          /\ runnable' = Append(runnable, id)
          /\ sleeping' = CancelTimer(sleeping, id)
          /\ UNCHANGED <<count, entry, context, pending, current, mode, leaving,
                         next, outcome>>
      BY <1>3, <2>3 DEF TaskWake
    <3>2. ~Has(runnable, id) /\ Distinct(runnable) /\ DistinctOwners(sleeping)
            /\ id # current
      BY <1>t, <2>1, <2>3 DEF QueueExact, TimersExact, OneRunning
    <3>3. /\ Distinct(runnable')
          /\ \A t : Has(runnable', t) <=> Has(runnable, t) \/ t = id
      BY <1>t, <3>1, <3>2, QueueAppend
    <3>4. /\ DistinctOwners(sleeping')
          /\ \A t : Owns(sleeping', t) <=> Owns(sleeping, t) /\ t # id
      BY <1>t, <3>1, <3>2, CancelType
    <3>5. OneRunning'
      BY <1>t, <2>1, <2>3, <3>1 DEF OneRunning, InSwitch
    <3>6. QueueExact'
      BY <1>t, <2>1, <3>1, <3>3 DEF QueueExact, Picked
    <3>7. ContextExact'
      BY <1>t, <2>3, <3>1 DEF ContextExact
    <3>8. TimersExact'
      BY <1>t, <2>1, <3>1, <3>4, TimersEmpty DEF TimersExact, HasTimer
    <3>9. SwitchInv'
      BY <2>1, <3>1 DEF SwitchInv, InSwitch
    <3> QED
      BY <3>5, <3>6, <3>7, <3>8, <3>9
  <2> QED
    BY <2>2, <2>3
<1>4. CASE TaskYield
  BY <1>4, TableSave DEF TaskYield
<1>5. CASE TaskPark
  BY <1>5, TableSave DEF TaskPark
<1>6. CASE \E d \in 0 .. MaxSleep : Sleep(d)
  BY <1>6, TableSave DEF Sleep
<1>7. CASE FinishTask
  <2>1. mode = "run" /\ ~InSwitch /\ pending = <<>> /\ mode' = "drain"
          /\ leaving' = "finish"
    BY <1>7 DEF FinishTask, Running, SwitchInv, InSwitch
  <2>2. state[current] = "Running" /\ \A t \in TaskId \ {current} : state[t] # "Running"
    BY <1>t, <2>1 DEF OneRunning
  <2>3. /\ state' = [state EXCEPT ![current] = "Done"]
        /\ entry' = [entry EXCEPT ![current] = FALSE]
        /\ context' = [context EXCEPT ![current] = NoContext]
        /\ UNCHANGED <<count, runnable, sleeping, pending, current, next, outcome>>
    BY <1>7 DEF FinishTask, TakeContext
  <2>4. OneRunning'
    BY <1>t, <2>1, <2>2, <2>3 DEF OneRunning, InSwitch
  <2>5. QueueExact'
    BY <1>t, <2>1, <2>2, <2>3 DEF QueueExact, Picked
  <2>6. ContextExact'
    BY <1>t, <2>2, <2>3 DEF ContextExact, NoContext
  <2>7. TimersExact'
    BY <1>t, <2>2, <2>3 DEF TimersExact, HasTimer
  <2>8. SwitchInv'
    BY <1>t, <2>1, <2>3 DEF SwitchInv, InSwitch
  <2> QED
    BY <2>4, <2>5, <2>6, <2>7, <2>8
<1>8. CASE DrainTimer
  <2> DEFINE e == Head(sleeping)
  <2>1. mode = "drain" /\ mode' = "drain" /\ InSwitch /\ sleeping # <<>>
    BY <1>8 DEF DrainTimer, Switching, InSwitch
  <2>2. e \in Timer /\ e.id \in TaskId /\ sleeping' = Tail(sleeping)
    BY <1>8, <1>t, <2>1, TailFacts, Timers DEF DrainTimer
  <2>3. /\ DistinctOwners(sleeping') /\ Owns(sleeping, e.id)
        /\ \A t : Owns(sleeping', t) <=> Owns(sleeping, t) /\ t # e.id
    BY <1>t, <2>1, <2>2, TimersTail DEF TimersExact
  <2>4. state[e.id] = "Blocked" /\ ~Owns(pending, e.id)
    BY <2>2, <2>3 DEF TimersExact, HasTimer
  <2>5. UNCHANGED <<count, entry, context, current, mode, leaving, next, outcome>>
    BY <1>8 DEF DrainTimer
  <2>6. CASE e.left = 0
    <3>1. /\ state' = [state EXCEPT ![e.id] = "Runnable"]
          /\ runnable' = Append(runnable, e.id) /\ pending' = pending
      BY <1>8, <2>4, <2>6 DEF DrainTimer
    <3> HIDE DEF e
    <3>2. ~Has(runnable, e.id) /\ Distinct(runnable)
      BY <1>t, <2>2, <2>4 DEF QueueExact
    <3>3. /\ Distinct(runnable')
          /\ \A t : Has(runnable', t) <=> Has(runnable, t) \/ t = e.id
      BY <1>t, <2>2, <3>1, <3>2, QueueAppend
    <3>4. OneRunning'
      BY <1>t, <2>2, <2>5, <3>1, <2>1 DEF OneRunning, InSwitch
    <3>5. QueueExact'
      BY <1>t, <2>1, <2>2, <2>5, <3>1, <3>3 DEF QueueExact, Picked
    <3>6. ContextExact'
      BY <1>t, <2>2, <2>4, <2>5, <3>1 DEF ContextExact
    <3>7. TimersExact'
      BY <1>t, <2>2, <2>3, <2>4, <3>1 DEF TimersExact, HasTimer
    <3>8. SwitchInv'
      BY <1>t, <2>1, <2>2, <2>3, <2>4, <2>5, <3>1 DEF SwitchInv, InSwitch, HasTimer
    <3> QED
      BY <3>4, <3>5, <3>6, <3>7, <3>8
  <2>7. CASE e.left # 0
    <3>1. UNCHANGED <<state, runnable>> /\ pending' = Append(pending, e)
      BY <1>8, <2>7 DEF DrainTimer
    <3> HIDE DEF e
    <3>2. /\ DistinctOwners(pending')
          /\ \A t : Owns(pending', t) <=> Owns(pending, t) \/ t = e.id
      BY <1>t, <2>2, <2>4, <3>1, TimersAppend DEF TimersExact
    <3>3. OneRunning' /\ ContextExact'
      BY <2>1, <2>5, <3>1 DEF OneRunning, ContextExact, InSwitch
    <3>4. QueueExact'
      BY <2>1, <2>5, <3>1 DEF QueueExact, Picked
    <3>5. TimersExact'
      BY <1>t, <2>2, <2>3, <2>4, <3>1, <3>2 DEF TimersExact, HasTimer
    <3>6. SwitchInv'
      BY <1>t, <2>1, <2>2, <2>3, <2>5, <3>1, <3>2 DEF SwitchInv, InSwitch, HasTimer
    <3> QED
      BY <3>3, <3>4, <3>5, <3>6
  <2> QED
    BY <2>6, <2>7
<1>9. CASE DrainDone
  <2>1. mode = "drain" /\ mode' = "pick" /\ sleeping = <<>> /\ sleeping' = pending
          /\ pending' = <<>>
          /\ UNCHANGED <<tableVars, runnable, current, leaving, next, outcome>>
    BY <1>9 DEF DrainDone, Switching
  <2>2. OneRunning' /\ ContextExact'
    BY <2>1 DEF OneRunning, ContextExact, InSwitch
  <2>3. QueueExact'
    BY <2>1 DEF QueueExact, Picked
  <2>4. TimersExact'
    BY <2>1, TimersEmpty DEF TimersExact, HasTimer
  <2>5. SwitchInv'
    BY <2>1, TimersEmpty DEF SwitchInv, InSwitch, HasTimer
  <2> QED
    BY <2>2, <2>3, <2>4, <2>5
<1>10. CASE PickTask
  <2>1. mode = "pick" /\ outcome = "running" /\ mode' = "activate"
          /\ UNCHANGED <<tableVars, sleeping, pending, current, leaving, outcome>>
    BY <1>10 DEF PickTask, Switching
  <2>2. PICK i \in DOMAIN runnable :
              /\ FirstRunnable(i) /\ next' = runnable[i]
              /\ runnable' = SubSeq(runnable, i + 1, Len(runnable))
    BY <1>10 DEF PickTask
  <2>3. DOMAIN runnable = 1 .. Len(runnable) /\ Len(runnable) \in Nat
          /\ \A j \in 1 .. Len(runnable) : runnable[j] \in TaskId
    BY <1>t, SeqDomain
  <2>4. i = 1
    <3>1. \A j \in DOMAIN runnable : state[runnable[j]] = "Runnable"
      BY <2>3 DEF QueueExact, Has
    <3>2. 1 \in DOMAIN runnable
      BY <2>3
    <3> QED
      BY <2>2, <2>3, <3>1, <3>2 DEF FirstRunnable
  <2>5. runnable' = SubSeq(runnable, 2, Len(runnable)) /\ next' = runnable[1]
          /\ next' \in TaskId /\ 1 \in DOMAIN runnable
    BY <2>2, <2>3, <2>4
  <2>6. /\ Distinct(runnable')
        /\ \A t : Has(runnable', t) <=> Has(runnable, t) /\ t # next'
    BY <1>t, <2>5, QueuePop DEF QueueExact
  <2>7. state[next'] = "Runnable"
    BY <2>2 DEF FirstRunnable
  <2>8. OneRunning' /\ ContextExact'
    BY <2>1 DEF OneRunning, ContextExact, InSwitch
  <2>9. QueueExact'
    BY <2>1, <2>6 DEF QueueExact, Picked
  <2>10. TimersExact'
    BY <2>1 DEF TimersExact, HasTimer
  <2>11. SwitchInv'
    BY <2>1, <2>7 DEF SwitchInv, InSwitch, HasTimer
  <2> QED
    BY <2>8, <2>9, <2>10, <2>11
<1>11. CASE WaitForTimer
  <2>1. mode = "pick" /\ outcome = "running" /\ mode' = "drain" /\ runnable' = <<>>
          /\ UNCHANGED <<tableVars, pending, current, leaving, next, outcome>>
          /\ NoneRunnable
    BY <1>11 DEF WaitForTimer, Switching
  <2>2. PICK i \in DOMAIN sleeping : sleeping' = Elapse(sleeping[i].left)
    BY <1>11 DEF WaitForTimer
  <2>3. sleeping[i].left \in Nat
    <3>1. sleeping[i] \in Timer
      BY <1>t, SeqDomain
    <3>2. sleeping[i].left \in 0 .. MaxSleep
      BY <3>1, Timers
    <3> QED
      BY <3>2, BoundsAssumption
  <2>4. DistinctOwners(sleeping') /\ \A t : Owns(sleeping', t) <=> Owns(sleeping, t)
    BY <1>t, <2>2, <2>3, TimersElapse DEF TimersExact
  <2>5. \A t \in TaskId : state[t] # "Runnable"
    BY <2>1 DEF QueueExact, Picked, NoneRunnable, Has
  <2>6. OneRunning' /\ ContextExact'
    BY <2>1 DEF OneRunning, ContextExact, InSwitch
  <2>7. QueueExact'
    BY <2>1, <2>5, QueueEmpty DEF QueueExact
  <2>8. TimersExact'
    BY <2>1, <2>4 DEF TimersExact, HasTimer
  <2>9. SwitchInv'
    BY <2>1, <2>4 DEF SwitchInv, InSwitch, HasTimer
  <2> QED
    BY <2>6, <2>7, <2>8, <2>9
<1>12. CASE DeadlockInPrimitive
  <2>1. mode = "pick" /\ InSwitch /\ NoneRunnable /\ leaving # "finish"
          /\ Reinstate(<<>>, "deadlock")
    BY <1>12 DEF DeadlockInPrimitive, Switching, InSwitch
  <2>2. \A t \in TaskId : state[t] # "Runnable"
    BY <2>1 DEF QueueExact, Picked, NoneRunnable, Has
  <2> QED
    BY <2>1, <2>2, QueueEmpty, TableReinstate
<1>13. CASE DeadlockAtFinish
  <2>1. mode = "pick" /\ mode' = "pick" /\ NoneRunnable /\ runnable' = <<>>
          /\ UNCHANGED <<tableVars, sleeping, pending, current, leaving, next>>
    BY <1>13 DEF DeadlockAtFinish, Switching
  <2>2. \A t \in TaskId : state[t] # "Runnable"
    BY <2>1 DEF QueueExact, Picked, NoneRunnable, Has
  <2>3. OneRunning' /\ ContextExact'
    BY <2>1 DEF OneRunning, ContextExact, InSwitch
  <2>4. QueueExact'
    BY <2>1, <2>2, QueueEmpty DEF QueueExact
  <2>5. TimersExact' /\ SwitchInv'
    BY <2>1 DEF TimersExact, HasTimer, SwitchInv, InSwitch
  <2> QED
    BY <2>3, <2>4, <2>5
<1>14. CASE ResumeTask
  <2>1. \A t \in TaskId \ {next} : context'[t] = context[t]
    BY <1>14, <1>t DEF ResumeTask, TakeContext
  <2>2. ~context'[next].live
    BY <1>14, <1>t DEF ResumeTask, TakeContext, NoContext
  <2> QED
    BY <1>14, <2>1, <2>2, TableActivated DEF ResumeTask
<1>15. CASE StartTask
  BY <1>15, TableActivated DEF StartTask
<1>16. ASSUME EntryFails
       PROVE  /\ mode = "activate" /\ outcome = "running" /\ state[next] = "Runnable"
              /\ ~context[next].live /\ ~Has(runnable, next) /\ Distinct(runnable)
              /\ <<next>> \o runnable \in Seq(TaskId) /\ Distinct(<<next>> \o runnable)
              /\ \A t \in TaskId : Has(<<next>> \o runnable, t) <=> state[t] = "Runnable"
  <2>1. mode = "activate" /\ outcome = "running" /\ state[next] = "Runnable"
          /\ ~context[next].live
    BY <1>16 DEF EntryFails, Switching, SwitchInv
  <2>2. ~Has(runnable, next) /\ Distinct(runnable)
    BY <1>t, <2>1 DEF QueueExact, Picked
  <2>3. /\ <<next>> \o runnable \in Seq(TaskId) /\ Distinct(<<next>> \o runnable)
        /\ \A t : Has(<<next>> \o runnable, t) <=> Has(runnable, t) \/ t = next
    BY <1>t, <2>2, QueueCons, ConsFacts
  <2>4. \A t \in TaskId : Has(<<next>> \o runnable, t) <=> state[t] = "Runnable"
    BY <2>1, <2>3 DEF QueueExact, Picked
  <2> QED
    BY <2>1, <2>2, <2>3, <2>4
<1>17. CASE ActivationFailsInPrimitive
  <2> DEFINE q == <<next>> \o runnable
  <2>1. EntryFails /\ leaving # "finish" /\ InSwitch /\ mode # "drain"
    BY <1>17, <1>16 DEF ActivationFailsInPrimitive, InSwitch
  <2>2. PICK e : Reinstate(RetainOther(q, current), e)
    BY <1>17 DEF ActivationFailsInPrimitive
  <2>3. q \in Seq(TaskId) /\ Distinct(q)
          /\ \A t \in TaskId : Has(q, t) <=> state[t] = "Runnable"
    BY <1>16, <2>1
  <2> HIDE DEF q
  <2>4. /\ Distinct(RetainOther(q, current))
        /\ \A t : Has(RetainOther(q, current), t) <=> Has(q, t) /\ t # current
    BY <2>3, RetainType
  <2> QED
    BY <2>1, <2>2, <2>3, <2>4, TableReinstate
<1>18. CASE ActivationFailsAtFinish
  <2>1. EntryFails /\ runnable' = <<next>> \o runnable /\ outcome' = "error"
          /\ UNCHANGED <<tableVars, sleeping, pending, current, mode, leaving, next>>
    BY <1>18 DEF ActivationFailsAtFinish
  <2>2. OneRunning' /\ ContextExact'
    BY <2>1 DEF OneRunning, ContextExact, InSwitch
  <2>3. QueueExact'
    BY <1>16, <2>1 DEF QueueExact, Picked
  <2>4. TimersExact' /\ SwitchInv'
    BY <2>1 DEF TimersExact, HasTimer, SwitchInv, InSwitch
  <2> QED
    BY <2>2, <2>3, <2>4
<1>19. CASE Tick
  <2>1. mode = "run" /\ UNCHANGED <<tableVars, runnable, pending, current, mode,
                                    leaving, next, outcome>>
    BY <1>19 DEF Tick, Running
  <2>2. DistinctOwners(sleeping') /\ \A t : Owns(sleeping', t) <=> Owns(sleeping, t)
    BY <1>19, <1>t, TimersElapse DEF Tick, TimersExact
  <2>3. OneRunning' /\ ContextExact'
    BY <2>1 DEF OneRunning, ContextExact, InSwitch
  <2>4. QueueExact'
    BY <2>1 DEF QueueExact, Picked
  <2>5. TimersExact' /\ SwitchInv'
    BY <2>1, <2>2 DEF TimersExact, HasTimer, SwitchInv, InSwitch
  <2> QED
    BY <2>3, <2>4, <2>5
<1>20. CASE ReplReset
  <2>1. OneRunning' /\ ContextExact'
    BY <1>20, TaskIds DEF ReplReset, OneRunning, ContextExact, InSwitch, NoContext
  <2>2. QueueExact'
    BY <1>20, QueueEmpty DEF ReplReset, QueueExact
  <2>3. TimersExact' /\ SwitchInv'
    BY <1>20, TimersEmpty DEF ReplReset, TimersExact, HasTimer, SwitchInv, InSwitch
  <2> QED
    BY <2>1, <2>2, <2>3
<1>21. CASE UNCHANGED vars
  <2>1. OneRunning' /\ ContextExact'
    BY <1>21 DEF vars, OneRunning, ContextExact, InSwitch
  <2>2. QueueExact'
    BY <1>21 DEF vars, QueueExact, Picked
  <2>3. TimersExact' /\ SwitchInv'
    BY <1>21 DEF vars, TimersExact, HasTimer, SwitchInv, InSwitch
  <2> QED
    BY <2>1, <2>2, <2>3
<1> QED
  BY <1>1, <1>2, <1>3, <1>4, <1>5, <1>6, <1>7, <1>8, <1>9, <1>10, <1>11, <1>12,
     <1>13, <1>14, <1>15, <1>17, <1>18, <1>19, <1>20, <1>21 DEF Next, Suspend, Switch

(* Isolation: whose values a stack holds.                                  *)

\* A sequence of t's values, for the active stack and the saved ones alike.
AllBy(s, t) == \A i \in DOMAIN s : s[i] = t

\* A value pushed by the owner of a stack.
LEMMA AllByPush ==
    ASSUME NEW t \in TaskId, NEW s \in Seq(TaskId), AllBy(s, t)
    PROVE  AllBy(Append(s, t), t)
<1> DEFINE r == Append(s, t)
<1>1. r \in Seq(TaskId) /\ Len(r) = Len(s) + 1 /\ r[Len(s) + 1] = t
        /\ \A i \in 1 .. Len(s) : r[i] = s[i]
  BY AppendFacts
<1>2. DOMAIN r = 1 .. Len(r) /\ DOMAIN s = 1 .. Len(s) /\ Len(s) \in Nat
  BY <1>1, SeqDomain
<1> HIDE DEF r
<1>3. AllBy(r, t)
  BY <1>1, <1>2 DEF AllBy
<1> QED
  BY <1>3 DEF r

\* A stack that is cut still belongs to its owner.
LEMMA AllByPrefix ==
    ASSUME NEW t \in TaskId, NEW s \in Seq(TaskId), AllBy(s, t),
           NEW n \in Int, n <= Len(s)
    PROVE  AllBy(SubSeq(s, 1, n), t)
<1>1. CASE n \in Nat
  <2> DEFINE r == SubSeq(s, 1, n)
  <2>1. r \in Seq(TaskId) /\ Len(r) = n /\ \A i \in 1 .. n : r[i] = s[i]
    BY <1>1, PrefixFacts
  <2>2. DOMAIN r = 1 .. n /\ DOMAIN s = 1 .. Len(s) /\ Len(s) \in Nat
    BY <2>1, SeqDomain
  <2> HIDE DEF r
  <2>3. AllBy(r, t)
    BY <1>1, <2>1, <2>2 DEF AllBy
  <2> QED
    BY <2>3 DEF r
<1>2. CASE n < 0
  <2>1. SubSeq(s, 1, n) = <<>>
    BY <1>2
  <2> QED
    BY <2>1 DEF AllBy
<1> QED
  BY <1>1, <1>2

\* The empty stack belongs to anybody.
LEMMA AllByEmpty == \A t : AllBy(<<>>, t)
BY DEF AllBy

\* Isolation in terms of AllBy.
LEMMA IsolationForm ==
    Isolation <=> AllBy(stack, current) /\ \A t \in TaskId : AllBy(context[t].stack, t)
BY DEF Isolation, AllBy

\* The same in the next state.
LEMMA IsolationFormPrime ==
    Isolation' <=> AllBy(stack', current') /\ \A t \in TaskId : AllBy(context'[t].stack, t)
BY DEF Isolation, AllBy

\* Taking a context leaves the others as they were.
LEMMA IsolationTake ==
    ASSUME TypeOK, Isolation, NEW id \in TaskId, context' = TakeContext(id)
    PROVE  \A t \in TaskId : AllBy(context'[t].stack, t)
BY IsolationForm, AllByEmpty DEF TakeContext, TypeOK, NoContext

\* The rollback of a failed switch gives the task its own values back.
LEMMA IsolationReinstate ==
    ASSUME TypeOK, Isolation, NEW queue, NEW e, Reinstate(queue, e)
    PROVE  Isolation'
<1> DEFINE saved == context[current].stack
<1>1. current \in TaskId /\ saved \in Seq(TaskId) /\ AllBy(saved, current)
        /\ Len(saved) \in Nat
  BY StackTypes, IsolationForm DEF TypeOK
<1>2. stack' = SubSeq(saved, 1, Len(saved) - 1) /\ current' = current
        /\ context' = TakeContext(current)
  BY DEF Reinstate, StackAfterFailure
<1> HIDE DEF saved
<1>3. AllBy(stack', current)
  BY <1>1, <1>2, AllByPrefix
<1> QED
  BY <1>1, <1>2, <1>3, IsolationTake, IsolationFormPrime

\* Saving the outgoing task keeps the stacks apart.
LEMMA IsolationSave ==
    ASSUME TypeOK, Isolation, NEW p, NEW st, SaveCurrent(p, st)
    PROVE  Isolation'
<1>1. AllBy(Append(stack, current), current)
  BY AllByPush, IsolationForm DEF TypeOK
<1>2. \A t \in TaskId : AllBy(context'[t].stack, t)
  BY <1>1, IsolationForm DEF SaveCurrent, TypeOK
<1> QED
  BY <1>2, AllByEmpty, IsolationFormPrime DEF SaveCurrent

\* No step puts a value of one task on the stack of another.
LEMMA IsolationStep == TypeOK /\ StackInv /\ Isolation /\ [Next]_vars => Isolation'
<1> SUFFICES ASSUME TypeOK, StackInv, Isolation, [Next]_vars PROVE Isolation'
  OBVIOUS
<1>a. UNCHANGED <<stack, current, context>> => Isolation'
  BY DEF Isolation
<1>b. stack' = Append(stack, current) /\ UNCHANGED <<current, context>> => Isolation'
  BY AllByPush, IsolationForm, IsolationFormPrime DEF TypeOK
<1>c. ASSUME NEW n \in Int, n <= Len(stack), stack' = SubSeq(stack, 1, n),
             UNCHANGED <<current, context>>
      PROVE  Isolation'
  BY <1>c, AllByPrefix, IsolationForm, IsolationFormPrime DEF TypeOK
<1> USE DEF tableVars, queueVars, activeVars, switchVars, schedVars, controlVars
<1>1. CASE Compute
  <2>1. CASE PopValue
    <3>1. Len(stack) - 1 \in Int /\ Len(stack) - 1 <= Len(stack)
      BY StackTypes
    <3> QED
      BY <1>1, <1>c, <2>1, <3>1 DEF Compute, PopValue
  <2> QED
    BY <1>1, <1>a, <1>b, <2>1 DEF Compute, PushValue, PushHandler, PopHandler,
          EnterNative, LeaveNative
<1>2. CASE RaiseCaught
  <2>1. handlers # <<>>
    BY <1>2, ReachableLast DEF RaiseCaught, TypeOK
  <2>2. handlers[Len(handlers)] \in Nat /\ handlers[Len(handlers)] <= Len(stack)
    BY <2>1, StackTypes, SeqDomain DEF StackInv, ValidAt
  <2> QED
    BY <1>2, <1>c, <2>2 DEF RaiseCaught
<1>3. CASE Suspend
  BY <1>3, IsolationSave DEF Suspend, TaskYield, TaskPark, Sleep
<1>4. CASE FinishTask
  BY <1>4, IsolationTake, AllByEmpty, IsolationFormPrime
     DEF FinishTask, ClearActive, TypeOK
<1>5. CASE DeadlockInPrimitive \/ ActivationFailsInPrimitive
  BY <1>5, IsolationReinstate DEF DeadlockInPrimitive, ActivationFailsInPrimitive
<1>6. CASE ResumeTask
  <2>1. next \in TaskId /\ current' = next /\ context' = TakeContext(next)
          /\ stack' = context[next].stack
    BY <1>6 DEF ResumeTask, Activated, TypeOK
  <2> QED
    BY <2>1, IsolationTake, IsolationForm, IsolationFormPrime
<1>7. CASE StartTask
  BY <1>7, AllByEmpty, IsolationForm, IsolationFormPrime DEF StartTask, ClearActive
<1>8. CASE ReplReset
  BY <1>8, AllByEmpty, IsolationFormPrime DEF ReplReset, NoContext
<1>9. CASE TaskSchedule \/ \E id \in TaskId : TaskWake(id)
  BY <1>9, <1>b DEF TaskSchedule, TaskWake
<1>10. CASE Throw \/ RaiseOutOfNative \/ RaiseUncaught \/ TaskWakeUnknown
              \/ RejectSuspend \/ SleepDomainError \/ MainExit \/ Tick
  BY <1>10, <1>a DEF Throw, RaiseOutOfNative, RaiseUncaught, TaskWakeUnknown,
        RejectSuspend, SleepDomainError, MainExit, Tick
<1>11. CASE DrainTimer \/ DrainDone \/ PickTask \/ WaitForTimer
              \/ DeadlockAtFinish \/ ActivationFailsAtFinish
  BY <1>11, <1>a DEF DrainTimer, DrainDone, PickTask, WaitForTimer,
        DeadlockAtFinish, ActivationFailsAtFinish
<1>12. CASE UNCHANGED vars
  BY <1>12, <1>a DEF vars
<1> QED
  BY <1>1, <1>2, <1>3, <1>4, <1>5, <1>6, <1>7, <1>8, <1>9, <1>10, <1>11,
     <1>12 DEF Next, Raise, Switch

(* What a failed switch restores, and when the deadlock error is raised.   *)

\* While a primitive's switch is under way the outgoing task's context is the
\* state it had before the primitive, plus the primitive's result value.
SavedInv ==
    InSwitch /\ leaving # "finish" =>
        /\ context[current].stack = Append(before.stack, current)
        /\ context[current].handlers = before.handlers

RestoreInv == SavedInv /\ FailedSwitchRestores

\* Popping what was just pushed.
LEMMA FrontOfAppend ==
    ASSUME NEW S, NEW s \in Seq(S), NEW x \in S
    PROVE  SubSeq(Append(s, x), 1, Len(Append(s, x)) - 1) = s
OBVIOUS

\* The rollback restores what the task had before its primitive.
LEMMA RestoreReinstate ==
    ASSUME TypeOK, SavedInv, InSwitch, leaving # "finish",
           NEW queue, NEW e, Reinstate(queue, e)
    PROVE  RestoreInv'
<1>1. before.stack \in Seq(TaskId) /\ current \in TaskId
  BY DEF TypeOK
<1>2. stack' = before.stack /\ handlers' = before.handlers /\ before' = before
  BY <1>1, FrontOfAppend, ZenonT(40) DEF SavedInv, Reinstate, StackAfterFailure
<1>3. mode' = "raise"
  BY DEF Reinstate, StartRaise
<1> QED
  BY <1>2, <1>3 DEF RestoreInv, SavedInv, FailedSwitchRestores, InSwitch

\* What is saved is the state before the primitive and its result.
LEMMA RestoreSave ==
    ASSUME TypeOK, NEW p, NEW st, SaveCurrent(p, st)
    PROVE  RestoreInv'
BY DEF SaveCurrent, RestoreInv, SavedInv, FailedSwitchRestores, InSwitch, TypeOK

\* Every step keeps the saved state equal to the state before the primitive.
LEMMA RestoreStep == TypeOK /\ RestoreInv /\ [Next]_vars => RestoreInv'
<1> SUFFICES ASSUME TypeOK, RestoreInv, [Next]_vars PROVE RestoreInv'
  OBVIOUS
<1> USE DEF tableVars, queueVars, activeVars, switchVars, schedVars, controlVars
<1>a. mode' = "run" => RestoreInv'
  BY DEF RestoreInv, SavedInv, FailedSwitchRestores, InSwitch
<1>b. ASSUME mode' = "raise", err' \in {"user", "argument"} PROVE RestoreInv'
  BY <1>b DEF RestoreInv, SavedInv, FailedSwitchRestores, InSwitch
<1>c. ASSUME InSwitch, mode' \in {"drain", "pick", "activate"},
             UNCHANGED <<context, current, before, leaving>>
      PROVE  RestoreInv'
  BY <1>c DEF RestoreInv, SavedInv, FailedSwitchRestores, InSwitch
<1>1. CASE Compute
  BY <1>1, <1>a DEF Compute, Running
<1>2. CASE RaiseCaught \/ ReplReset \/ ResumeTask \/ StartTask
  BY <1>2, <1>a DEF RaiseCaught, ReplReset, ResumeTask, StartTask, Activated
<1>3. CASE TaskSchedule \/ (\E id \in TaskId : TaskWake(id)) \/ MainExit \/ Tick
  BY <1>3, <1>a DEF TaskSchedule, TaskWake, MainExit, Tick, Running
<1>4. CASE Throw \/ TaskWakeUnknown \/ SleepDomainError
  BY <1>4, <1>b DEF Throw, TaskWakeUnknown, SleepDomainError, StartRaise
<1>5. CASE RejectSuspend
  BY <1>5 DEF RejectSuspend, StartRaise, RestoreInv, SavedInv,
        FailedSwitchRestores, InSwitch
<1>6. CASE RaiseOutOfNative \/ RaiseUncaught
  <2>1. mode' = "raise" /\ UNCHANGED <<stack, handlers, before, err, mode>>
    BY <1>6 DEF RaiseOutOfNative, RaiseUncaught, Switching
  <2> QED
    BY <2>1 DEF RestoreInv, SavedInv, FailedSwitchRestores, InSwitch
<1>7. CASE Suspend
  BY <1>7, RestoreSave DEF Suspend, TaskYield, TaskPark, Sleep
<1>8. CASE FinishTask
  BY <1>8 DEF FinishTask, RestoreInv, SavedInv, FailedSwitchRestores
<1>9. CASE DrainTimer \/ DrainDone \/ PickTask \/ WaitForTimer
              \/ DeadlockAtFinish \/ ActivationFailsAtFinish
  <2>1. InSwitch /\ mode' \in {"drain", "pick", "activate"}
          /\ UNCHANGED <<context, current, before, leaving>>
    BY <1>9 DEF DrainTimer, DrainDone, PickTask, WaitForTimer, DeadlockAtFinish,
          ActivationFailsAtFinish, EntryFails, Switching, InSwitch
  <2> QED
    BY <2>1, <1>c
<1>10. CASE DeadlockInPrimitive \/ ActivationFailsInPrimitive
  <2>1. InSwitch /\ leaving # "finish" /\ \E q, e : Reinstate(q, e)
    BY <1>10 DEF DeadlockInPrimitive, ActivationFailsInPrimitive, EntryFails,
          Switching, InSwitch
  <2> QED
    BY <2>1, RestoreReinstate DEF RestoreInv
<1>11. CASE UNCHANGED vars
  BY <1>11 DEF vars, RestoreInv, SavedInv, FailedSwitchRestores, InSwitch
<1> QED
  BY <1>1, <1>2, <1>3, <1>4, <1>5, <1>6, <1>7, <1>8, <1>9, <1>10, <1>11
     DEF Next, Raise, Switch

\* An error is recorded only while it is being raised or once it ended run().
ErrorInv ==
    /\ outcome = "running" /\ mode # "raise" => err = "none"
    /\ DeadlockGenuine

\* No queue entry, no Runnable task (the queue misses none).
LEMMA NobodyRunnable ==
    ASSUME TypeOK, TableInv, NoneRunnable, mode = "pick"
    PROVE  \A t \in TaskId \ {current} : state[t] \in {"Blocked", "Done", "Absent"}
<1> SUFFICES ASSUME NEW t \in TaskId PROVE state[t] \in {"Blocked", "Done", "Absent"}
  OBVIOUS
<1>1. state[t] # "Runnable"
  <2> SUFFICES ASSUME state[t] = "Runnable" PROVE FALSE
    OBVIOUS
  <2>1. Has(runnable, t)
    BY DEF TableInv, QueueExact, Picked
  <2> QED
    BY <2>1 DEF Has, NoneRunnable
<1>2. state[t] # "Running"
  BY DEF TableInv, OneRunning, InSwitch
<1> QED
  BY <1>1, <1>2 DEF TypeOK, States

\* The deadlock error starts only when nothing can run, and nothing moves
\* until it is caught or has ended run().
LEMMA ErrorStep == TypeOK /\ TableInv /\ ErrorInv /\ [Next]_vars => ErrorInv'
<1> SUFFICES ASSUME TypeOK, TableInv, ErrorInv, [Next]_vars PROVE ErrorInv'
  OBVIOUS
<1> USE DEF tableVars, queueVars, activeVars, switchVars, schedVars, controlVars
<1>a. err' = "none" => ErrorInv'
  BY DEF ErrorInv, DeadlockGenuine
<1>b. ASSUME mode' = "raise", err' # "deadlock" PROVE ErrorInv'
  BY <1>b DEF ErrorInv, DeadlockGenuine
<1>c. UNCHANGED <<err, sleeping, state, current, mode>> /\ mode = "raise" => ErrorInv'
  BY DEF ErrorInv, DeadlockGenuine
<1>1. CASE \/ Compute \/ TaskSchedule \/ (\E id \in TaskId : TaskWake(id))
           \/ Suspend \/ FinishTask \/ MainExit \/ Tick
  <2>1. Running /\ err' = err
    BY <1>1 DEF Compute, TaskSchedule, TaskWake, Suspend, TaskYield, TaskPark,
          Sleep, SaveCurrent, FinishTask, MainExit, Tick
  <2>2. err = "none"
    BY <2>1 DEF ErrorInv, Running
  <2> QED
    BY <2>1, <2>2, <1>a
<1>2. CASE RaiseCaught \/ ReplReset
  BY <1>2, <1>a DEF RaiseCaught, ReplReset
<1>3. CASE Throw \/ TaskWakeUnknown \/ SleepDomainError \/ RejectSuspend
  BY <1>3, <1>b DEF Throw, TaskWakeUnknown, SleepDomainError, RejectSuspend,
        StartRaise
<1>4. CASE RaiseOutOfNative \/ RaiseUncaught
  BY <1>4, <1>c DEF RaiseOutOfNative, RaiseUncaught, Switching
<1>5. CASE DrainTimer \/ DrainDone \/ PickTask \/ WaitForTimer
              \/ ResumeTask \/ StartTask
  <2>1. InSwitch /\ outcome = "running" /\ err' = err
    BY <1>5 DEF DrainTimer, DrainDone, PickTask, WaitForTimer, ResumeTask,
          StartTask, Activated, Switching, InSwitch
  <2>2. err = "none"
    BY <2>1 DEF ErrorInv, InSwitch
  <2> QED
    BY <2>1, <2>2, <1>a
<1>6. CASE DeadlockInPrimitive
  <2>1. /\ sleeping' = sleeping \/ sleeping' = CancelTimer(sleeping, current)
        /\ sleeping = <<>> /\ mode = "pick" /\ NoneRunnable
        /\ state' = [state EXCEPT ![current] = "Running"]
        /\ current' = current /\ mode' = "raise"
    BY <1>6 DEF DeadlockInPrimitive, Reinstate, Switching, StartRaise,
          StateAfterFailure
  <2>2. sleeping' = <<>>
    BY <2>1, TimersEmpty DEF CancelTimer
  <2>3. \A t \in TaskId \ {current} : state'[t] \in {"Blocked", "Done", "Absent"}
    BY <2>1, NobodyRunnable DEF TypeOK
  <2> QED
    BY <2>1, <2>2, <2>3 DEF ErrorInv, DeadlockGenuine
<1>7. CASE DeadlockAtFinish
  <2>1. sleeping' = <<>> /\ mode = "pick" /\ NoneRunnable /\ outcome' = "error"
          /\ UNCHANGED <<state, current>>
    BY <1>7 DEF DeadlockAtFinish, Switching
  <2> QED
    BY <2>1, NobodyRunnable DEF ErrorInv, DeadlockGenuine
<1>8. CASE ActivationFailsInPrimitive
  <2>1. mode' = "raise" /\ err' # "deadlock"
    BY <1>8 DEF ActivationFailsInPrimitive, Reinstate, StartRaise
  <2> QED
    BY <2>1, <1>b
<1>9. CASE ActivationFailsAtFinish
  BY <1>9 DEF ActivationFailsAtFinish, ErrorInv, DeadlockGenuine
<1>10. CASE UNCHANGED vars
  BY <1>10 DEF vars, ErrorInv, DeadlockGenuine
<1> QED
  BY <1>1, <1>2, <1>3, <1>4, <1>5, <1>6, <1>7, <1>8, <1>9, <1>10
     DEF Next, Raise, Switch

-----------------------------------------------------------------------------
(* The theorems.                                                           *)

\* The inductive invariant: the four tables agree, stacks fit their handlers,
\* and what the switch under way has saved is what it would restore.
IInv == TypeOK /\ StackInv /\ TableInv /\ Isolation /\ RestoreInv /\ ErrorInv

\* Every reachable state satisfies the inductive invariant.
THEOREM Invariance == Spec => []IInv
<1>1. Init => IInv
  <2> SUFFICES ASSUME Init PROVE IInv
    OBVIOUS
  <2>1. TypeOK /\ StackInv /\ TableInv
    BY InitType, InitStack, InitTable
  <2>2. Isolation
    BY DEF Init, Isolation, NoContext
  <2>3. RestoreInv
    BY DEF Init, RestoreInv, SavedInv, FailedSwitchRestores, InSwitch
  <2>4. ErrorInv
    BY DEF Init, ErrorInv, DeadlockGenuine
  <2> QED
    BY <2>1, <2>2, <2>3, <2>4 DEF IInv
<1>2. IInv /\ [Next]_vars => IInv'
  BY TypeStep, StackStep, TableStep, IsolationStep, RestoreStep, ErrorStep DEF IInv
<1> QED
  BY <1>1, <1>2, PTL DEF Spec

\* Type correctness of the scheduler: no primitive, failed switch or reset
\* leaves a variable outside its type, however many tasks there are.
THEOREM TypeCorrect == Spec => []TypeOK
<1>1. IInv => TypeOK
  BY DEF IInv
<1> QED
  BY <1>1, Invariance, PTL

\* current_task_id and the task states agree: at most one task is Running.
THEOREM RunningUnique == Spec => []OneRunning
<1>1. IInv => OneRunning
  BY DEF IInv, TableInv
<1> QED
  BY <1>1, Invariance, PTL

\* The ready queue is exact: no Runnable task is lost from it and none is
\* queued twice, through wakes, drained timers and rolled-back switches.
THEOREM QueueCorrect == Spec => []QueueExact
<1>1. IInv => QueueExact
  BY DEF IInv, TableInv
<1> QED
  BY <1>1, Invariance, PTL

\* activate_task always finds what it needs, and no context is restored twice.
THEOREM ContextCorrect == Spec => []ContextExact
<1>1. IInv => ContextExact
  BY DEF IInv, TableInv
<1> QED
  BY <1>1, Invariance, PTL

\* No stale deadline: every pending timer is the only one of a parked task.
THEOREM TimersCorrect == Spec => []TimersExact
<1>1. IInv => TimersExact
  BY DEF IInv, TableInv
<1> QED
  BY <1>1, Invariance, PTL

\* Switching never mixes the operand stacks of two tasks.
THEOREM StacksIsolated == Spec => []Isolation
<1>1. IInv => Isolation
  BY DEF IInv
<1> QED
  BY <1>1, Invariance, PTL

\* Handler depths never exceed the stack they truncate, in any task.
THEOREM HandlersCorrect == Spec => []HandlersValid
<1>1. IInv => HandlersValid
  <2> SUFFICES ASSUME TypeOK, StackInv PROVE HandlersValid
    BY DEF IInv
  <2>1. \A t \in TaskId : \A i \in DOMAIN context[t].handlers :
           context[t].handlers[i] <= Len(context[t].stack)
    <3> SUFFICES ASSUME NEW t \in TaskId, NEW i \in DOMAIN context[t].handlers
                 PROVE  context[t].handlers[i] <= Len(context[t].stack)
      OBVIOUS
    <3>1. context[t].handlers[i] \in Nat /\ Len(context[t].stack) \in Nat
      BY StackTypes, SeqDomain
    <3>2. context[t].handlers[i] <= Len(context[t].stack) - 1
      BY DEF StackInv, ValidAt
    <3> QED
      BY <3>1, <3>2
  <2> QED
    BY <2>1 DEF HandlersValid, StackInv, ValidAt
<1> QED
  BY <1>1, Invariance, PTL

\* A failed yield, park or sleep is transactional for the calling task.
THEOREM FailedSwitchCorrect == Spec => []FailedSwitchRestores
<1>1. IInv => FailedSwitchRestores
  BY DEF IInv, RestoreInv
<1> QED
  BY <1>1, Invariance, PTL

\* The deadlock error is raised only when no other task could ever run.
THEOREM DeadlockCorrect == Spec => []DeadlockGenuine
<1>1. IInv => DeadlockGenuine
  BY DEF IInv, ErrorInv
<1> QED
  BY <1>1, Invariance, PTL

-----------------------------------------------------------------------------
(***************************************************************************)
(* TaskScheduler implements CoopScheduler, for every value of the          *)
(* constants.  The simulation is step by step: each step of the detailed   *)
(* scheduler, taken in a state satisfying the inductive invariant IInv, is *)
(* one step of the abstract one or a stutter.                              *)
(***************************************************************************)

\* The abstract queue is the ready queue, unless a task is being activated.
LEMMA ReadyQueue == mode # "activate" => Ready = runnable
BY DEF Ready, Picked

\* Outside of an activation the library sees the ready queue as it is.
LEMMA ReadyQueuePrime == mode' # "activate" => Ready' = runnable'
BY DEF Ready, Picked

\* The tasks with a timer, in the next state.
LEMMA TimedPrime == Timed' = {t \in TaskId : Owns(sleeping', t) \/ Owns(pending', t)}
BY DEF Timed, HasTimer

\* A step that leaves what the library can see alone is a stutter.
LEMMA Stutter ==
    ASSUME UNCHANGED <<state, sleeping, pending, current, outcome>>,
           Ready' = Ready, InSwitch' = InSwitch
    PROVE  UNCHANGED Coop!vars
<1>1. Timed' = Timed
  BY DEF Timed, HasTimer
<1> QED
  BY <1>1 DEF Coop!vars

\* A step in another mode than "activate" before and after it.
LEMMA StutterRun ==
    ASSUME UNCHANGED <<state, sleeping, pending, runnable, current, outcome>>,
           InSwitch' = InSwitch, mode # "activate", mode' # "activate"
    PROVE  UNCHANGED Coop!vars
BY Stutter, ReadyQueue, ReadyQueuePrime

\* With an exact queue nothing Runnable means an empty queue, and the first
\* Runnable entry is the head.
LEMMA ExactQueue ==
    ASSUME TypeOK, QueueExact, mode = "pick"
    PROVE  /\ NoneRunnable => runnable = <<>>
           /\ \A i \in DOMAIN runnable : FirstRunnable(i) => i = 1
<1>1. DOMAIN runnable = 1 .. Len(runnable) /\ Len(runnable) \in Nat
        /\ (runnable = <<>> <=> Len(runnable) = 0)
        /\ \A i \in 1 .. Len(runnable) : runnable[i] \in TaskId
  BY SeqDomain DEF TypeOK
<1>2. \A i \in DOMAIN runnable : state[runnable[i]] = "Runnable"
  BY <1>1 DEF QueueExact, Has, Picked
<1>3. NoneRunnable => runnable = <<>>
  <2> SUFFICES ASSUME NoneRunnable PROVE Len(runnable) = 0
    BY <1>1
  <2>1. 1 \notin DOMAIN runnable
    BY <1>2 DEF NoneRunnable
  <2> QED
    BY <1>1, <2>1
<1>4. ASSUME NEW i \in DOMAIN runnable, FirstRunnable(i) PROVE i = 1
  <2>1. i # 1 => 1 \in 1 .. i - 1 /\ 1 \in DOMAIN runnable
    BY <1>1
  <2> QED
    BY <1>2, <1>4, <2>1 DEF FirstRunnable
<1> QED
  BY <1>3, <1>4

\* A queue is its head in front of its tail.
LEMMA ConsTail ==
    ASSUME NEW S, NEW q \in Seq(S), 1 \in DOMAIN q
    PROVE  <<q[1]>> \o SubSeq(q, 1 + 1, Len(q)) = q
<1> DEFINE x == q[1]
           r == SubSeq(q, 1 + 1, Len(q))
           c == <<x>> \o r
<1>1. Len(q) \in Nat /\ DOMAIN q = 1 .. Len(q) /\ 1 \in 1 .. Len(q) /\ x \in S
  BY SeqDomain
<1>2. r \in Seq(S) /\ Len(r) = Len(q) - 1 /\ \A i \in 1 .. Len(q) - 1 : r[i] = q[1 + i]
  BY <1>1, SuffixFacts
<1> HIDE DEF r, x
<1>3. c \in Seq(S) /\ Len(c) = Len(r) + 1 /\ c[1] = x
        /\ \A i \in 1 .. Len(r) : c[i + 1] = r[i]
  <2>1. r \in Seq(S) /\ x \in S
    BY <1>1, <1>2
  <2> QED
    BY ONLY <2>1, ConsFacts
<1> HIDE DEF c
<1>4. ASSUME NEW i \in 1 .. Len(q) PROVE c[i] = q[i]
  <2>1. CASE i = 1
    BY <1>3, <2>1 DEF x
  <2>2. CASE i # 1
    <3>1. i - 1 \in 1 .. Len(q) - 1 /\ (i - 1) + 1 = i /\ 1 + (i - 1) = i
      BY <1>1, <2>2
    <3> QED
      BY <1>2, <1>3, <3>1
  <2> QED
    BY <2>1, <2>2
<1>5. Len(c) = Len(q)
  BY <1>1, <1>2, <1>3
<1>6. c = q
  BY <1>3, <1>4, <1>5
<1> QED
  BY <1>6 DEF c, r, x

\* Head and tail of a queue after push_front.
LEMMA HeadOfCons ==
    ASSUME NEW S, NEW q \in Seq(S), NEW x \in S
    PROVE  <<x>> \o q # <<>> /\ Head(<<x>> \o q) = x /\ Tail(<<x>> \o q) = q
OBVIOUS

\* Giving up control: the outgoing task is saved and the switch begins.
LEMMA CoopLeave ==
    ASSUME NEW p, NEW st, SaveCurrent(p, st)
    PROVE  Coop!Leave(st)
<1>1. Coop!Active /\ InSwitch' = TRUE
  BY DEF SaveCurrent, Running, Coop!Active, InSwitch
<1> QED
  BY <1>1 DEF SaveCurrent, Coop!Leave

\* The task that was picked gets control.
LEMMA CoopDispatch ==
    ASSUME TypeOK, Switching("activate"), Activated
    PROVE  Coop!Dispatch
<1>1. Ready = <<next>> \o runnable /\ InSwitch = TRUE /\ outcome = "running"
  BY DEF Switching, Ready, Picked, InSwitch
<1>2. Ready # <<>> /\ Head(Ready) = next /\ Tail(Ready) = runnable
  BY <1>1, HeadOfCons DEF TypeOK
<1>3. Ready' = runnable /\ InSwitch' = FALSE
  BY ReadyQueuePrime DEF Activated, queueVars, InSwitch
<1>4. Timed' = Timed
  BY DEF Activated, queueVars, Timed, HasTimer
<1> QED
  BY <1>1, <1>2, <1>3, <1>4 DEF Coop!Dispatch, Coop!Between, Activated

\* A failed switch gives control back to the task that asked for it.
LEMMA CoopRefuse ==
    ASSUME TypeOK, TableInv, mode \in {"pick", "activate"}, outcome = "running",
           leaving # "finish", NEW e, Reinstate(RetainOther(Ready, current), e),
           \/ Ready = <<>> /\ Timed = {}
           \/ Ready # <<>> /\ Head(Ready) # current
    PROVE  Coop!Refuse
<1>1. InSwitch = TRUE /\ InSwitch' = FALSE /\ state[current] # "Done"
  BY DEF InSwitch, Reinstate, StartRaise, TableInv, SwitchInv
<1>2. Ready' = RetainOther(Ready, current)
  BY ReadyQueuePrime DEF Reinstate, StartRaise
<1>3. Timed' = Timed \ {current}
  <2>1. DistinctOwners(sleeping) /\ sleeping \in Seq(Timer) /\ current \in TaskId
          /\ pending' = pending /\ pending = <<>>
    BY <1>1 DEF TableInv, TimersExact, SwitchInv, TypeOK, Reinstate
  <2>2. \A t : ~Owns(pending, t)
    BY <2>1, TimersEmpty
  <2>3. CASE leaving = "sleep"
    <3>1. \A t : Owns(sleeping', t) <=> Owns(sleeping, t) /\ t # current
      BY <2>1, <2>3, CancelType DEF Reinstate
    <3> QED
      BY <2>1, <2>2, <3>1, TimedPrime DEF Timed, HasTimer
  <2>4. CASE leaving # "sleep"
    <3>1. sleeping' = sleeping
      BY <2>4 DEF Reinstate
    <3>2. leaving \in {"yield", "park"}
      BY <1>1, <2>4 DEF TypeOK, Primitives, TableInv, SwitchInv
    <3>3. ~HasTimer(current)
      BY <1>1, <2>1, <3>2 DEF TableInv, SwitchInv, TimersExact
    <3> QED
      BY <2>1, <3>1, <3>3, TimedPrime DEF Timed, HasTimer
  <2> QED
    BY <2>3, <2>4
<1>4. Coop!RetainOther(Ready, current) = RetainOther(Ready, current)
  BY DEF Coop!RetainOther, RetainOther, Coop!Has, Has, Coop!DropAt, DropAt
<1> QED
  BY <1>1, <1>2, <1>3, <1>4
     DEF Coop!Refuse, Coop!Between, Reinstate, StateAfterFailure

\* Every step of the detailed scheduler is an abstract step or a stutter.
LEMMA CoopStep == IInv /\ [Next]_vars => [Coop!Next]_(Coop!vars)
<1> SUFFICES ASSUME TypeOK, TableInv, [Next]_vars
             PROVE  Coop!Next \/ UNCHANGED Coop!vars
  BY DEF IInv
<1> USE DEF tableVars, queueVars, activeVars, switchVars, schedVars, controlVars
<1>1. CASE \/ Compute \/ Throw \/ TaskWakeUnknown \/ RejectSuspend
           \/ SleepDomainError \/ Tick \/ RaiseCaught \/ RaiseOutOfNative
  <2>1. /\ UNCHANGED <<state, pending, runnable, current, outcome>>
        /\ InSwitch' = InSwitch /\ mode # "activate" /\ mode' # "activate"
    BY <1>1 DEF Compute, Throw, TaskWakeUnknown, RejectSuspend, SleepDomainError,
          Tick, RaiseCaught, RaiseOutOfNative, Running, Switching, StartRaise, InSwitch
  <2>2. CASE Tick
    <3>1. \A t : Owns(sleeping', t) <=> Owns(sleeping, t)
      BY <2>2, TimersElapse DEF Tick, TableInv, TimersExact, TypeOK
    <3>2. Timed' = Timed
      BY <2>1, <3>1, TimedPrime DEF Timed, HasTimer
    <3> QED
      BY <2>1, <3>2, ReadyQueue, ReadyQueuePrime DEF Coop!vars
  <2>3. CASE ~Tick
    <3>1. sleeping' = sleeping
      BY <1>1, <2>3 DEF Compute, Throw, TaskWakeUnknown, RejectSuspend,
            SleepDomainError, RaiseCaught, RaiseOutOfNative
    <3> QED
      BY <2>1, <3>1, StutterRun
  <2> QED
    BY <2>2, <2>3
<1>2. CASE RaiseUncaught \/ MainExit
  <2>1. /\ UNCHANGED <<state, sleeping, pending, runnable, current, mode>>
        /\ mode # "activate" /\ outcome = "running" /\ outcome' # "running"
    BY <1>2 DEF RaiseUncaught, MainExit, Running, Switching
  <2>2. Ready' = Ready /\ Timed' = Timed /\ InSwitch' = InSwitch
    BY <2>1, ReadyQueue, ReadyQueuePrime DEF Timed, HasTimer, InSwitch
  <2> QED
    BY <2>1, <2>2 DEF Coop!Next, Coop!Stop
<1>3. CASE TaskSchedule
  <2>1. count \in TaskId
    BY <1>3, TaskIds DEF TaskSchedule, TypeOK
  <2>2. state[count] = "Absent"
    BY <2>1, TaskIds DEF TableInv, ContextExact
  <2>3. /\ mode # "activate" /\ mode' # "activate" /\ outcome = "running"
        /\ InSwitch = FALSE /\ InSwitch' = FALSE /\ Timed' = Timed
    BY <1>3 DEF TaskSchedule, Running, InSwitch, Timed, HasTimer
  <2>4. Coop!Spawn(count)
    BY <1>3, <2>2, <2>3, ReadyQueue, ReadyQueuePrime
       DEF TaskSchedule, Coop!Spawn, Coop!Active
  <2> QED
    BY <2>1, <2>4 DEF Coop!Next
<1>4. CASE \E id \in TaskId : TaskWake(id)
  <2>1. PICK id \in TaskId : TaskWake(id)
    BY <1>4
  <2>2. /\ mode # "activate" /\ mode' # "activate" /\ outcome = "running"
        /\ InSwitch = FALSE /\ InSwitch' = FALSE /\ mode # "drain"
    BY <2>1 DEF TaskWake, Running, InSwitch
  <2>3. CASE state[id] = "Blocked"
    <3>1. \A t : Owns(sleeping', t) <=> Owns(sleeping, t) /\ t # id
      BY <2>1, <2>3, CancelType DEF TaskWake, TableInv, TimersExact, TypeOK
    <3>2. \A t : ~Owns(pending, t) /\ ~Owns(pending', t)
      BY <2>1, <2>2, TimersEmpty DEF TaskWake, TableInv, SwitchInv
    <3>3. Timed' = Timed \ {id}
      BY <3>1, <3>2, TimedPrime DEF Timed, HasTimer
    <3>4. Coop!Wake(id)
      BY <2>1, <2>2, <2>3, <3>3, ReadyQueue, ReadyQueuePrime
         DEF TaskWake, Coop!Wake, Coop!Active
    <3> QED
      BY <3>4 DEF Coop!Next
  <2>4. CASE state[id] # "Blocked"
    BY <2>1, <2>2, <2>4, StutterRun DEF TaskWake
  <2> QED
    BY <2>3, <2>4
<1>5. CASE TaskYield \/ TaskPark
  <2>1. /\ mode # "activate" /\ mode' # "activate"
        /\ UNCHANGED <<sleeping, pending>>
    BY <1>5 DEF TaskYield, TaskPark, SaveCurrent, Running
  <2>2. Timed' = Timed
    BY <2>1 DEF Timed, HasTimer
  <2>3. Coop!Yield \/ Coop!Park
    BY <1>5, <2>1, <2>2, CoopLeave, ReadyQueue, ReadyQueuePrime
       DEF TaskYield, TaskPark, Coop!Yield, Coop!Park
  <2> QED
    BY <2>3 DEF Coop!Next
<1>6. CASE \E d \in 0 .. MaxSleep : Sleep(d)
  <2>1. PICK d \in 0 .. MaxSleep : Sleep(d)
    BY <1>6
  <2>2. /\ mode = "run" /\ mode' # "activate" /\ runnable' = runnable
        /\ SaveCurrent("sleep", "Blocked") /\ pending' = pending
        /\ sleeping' = Append(sleeping, [id |-> current, left |-> d])
    BY <2>1 DEF Sleep, SaveCurrent, Running
  <2>3. current \in TaskId /\ sleeping \in Seq(Timer) /\ DistinctOwners(sleeping)
          /\ ~Owns(sleeping, current) /\ [id |-> current, left |-> d] \in Timer
    BY <2>2, Timers DEF TypeOK, TableInv, TimersExact, OneRunning, InSwitch, HasTimer
  <2>4. \A t : Owns(sleeping', t) <=> Owns(sleeping, t) \/ t = current
    BY <2>2, <2>3, TimersAppend
  <2>5. Timed' = Timed \cup {current}
    BY <2>2, <2>3, <2>4, TimedPrime DEF Timed, HasTimer
  <2>6. Coop!Sleep
    BY <2>2, <2>5, CoopLeave, ReadyQueue, ReadyQueuePrime DEF Coop!Sleep
  <2> QED
    BY <2>6 DEF Coop!Next
<1>7. CASE FinishTask
  <2>1. /\ mode = "run" /\ mode' = "drain" /\ outcome = "running" /\ current # 0
        /\ InSwitch = FALSE /\ InSwitch' = TRUE /\ Timed' = Timed
        /\ state' = [state EXCEPT ![current] = "Done"]
        /\ UNCHANGED <<runnable, current, outcome>>
    BY <1>7 DEF FinishTask, Running, InSwitch, Timed, HasTimer
  <2>2. Coop!Finish
    BY <2>1, ReadyQueue, ReadyQueuePrime DEF Coop!Finish, Coop!Leave, Coop!Active
  <2> QED
    BY <2>2 DEF Coop!Next
<1>8. CASE DrainTimer
  <2> DEFINE timer == Head(sleeping)
  <2>1. /\ mode = "drain" /\ mode' = "drain" /\ outcome = "running" /\ sleeping # <<>>
        /\ sleeping' = Tail(sleeping) /\ UNCHANGED <<current, outcome>>
        /\ InSwitch = TRUE /\ InSwitch' = TRUE
    BY <1>8 DEF DrainTimer, Switching, InSwitch
  <2>2. sleeping \in Seq(Timer) /\ pending \in Seq(Timer)
          /\ DistinctOwners(sleeping) /\ DistinctOwners(pending)
    BY DEF TypeOK, TableInv, TimersExact
  <2>3. timer \in Timer /\ timer.id \in TaskId
    BY <2>1, <2>2, TailFacts, Timers
  <2>4. Owns(sleeping, timer.id)
          /\ \A t : Owns(Tail(sleeping), t) <=> Owns(sleeping, t) /\ t # timer.id
    BY <2>1, <2>2, TimersTail
  <2>5. state[timer.id] = "Blocked" /\ ~Owns(pending, timer.id)
    BY <2>3, <2>4 DEF TableInv, TimersExact, HasTimer
  <2>6. CASE timer.left = 0
    <3>1. /\ pending' = pending /\ runnable' = Append(runnable, timer.id)
          /\ state' = [state EXCEPT ![timer.id] = "Runnable"]
      BY <1>8, <2>5, <2>6 DEF DrainTimer
    <3>2. Timed' = Timed \ {timer.id} /\ timer.id \in Timed
      BY <2>1, <2>3, <2>4, <2>5, <3>1, TimedPrime DEF Timed, HasTimer
    <3>3. Coop!Expire(timer.id)
      BY <2>1, <3>1, <3>2, ReadyQueue, ReadyQueuePrime DEF Coop!Expire, Coop!Between
    <3> QED
      BY <2>3, <3>3 DEF Coop!Next
  <2>7. CASE timer.left # 0
    <3>1. pending' = Append(pending, timer) /\ UNCHANGED <<state, runnable>>
      BY <1>8, <2>7 DEF DrainTimer
    <3>2. \A t : Owns(pending', t) <=> Owns(pending, t) \/ t = timer.id
      BY <2>2, <2>3, <2>5, <3>1, TimersAppend
    <3>3. Timed' = Timed
      BY <2>1, <2>4, <3>2, TimedPrime DEF Timed, HasTimer
    <3> QED
      BY <2>1, <3>1, <3>3, ReadyQueue, ReadyQueuePrime DEF Coop!vars
  <2> QED
    BY <2>6, <2>7
<1>9. CASE DrainDone
  <2>1. /\ mode = "drain" /\ mode' = "pick" /\ sleeping = <<>> /\ sleeping' = pending
        /\ pending' = <<>> /\ UNCHANGED <<state, runnable, current, outcome>>
    BY <1>9 DEF DrainDone, Switching
  <2>2. Timed' = Timed /\ InSwitch' = InSwitch
    BY <2>1, TimersEmpty, TimedPrime DEF Timed, HasTimer, InSwitch
  <2> QED
    BY <2>1, <2>2, ReadyQueue, ReadyQueuePrime DEF Coop!vars
<1>10. CASE PickTask
  <2>1. /\ mode = "pick" /\ mode' = "activate" /\ outcome = "running"
        /\ UNCHANGED <<state, sleeping, pending, current, outcome>>
    BY <1>10 DEF PickTask, Switching
  <2>2. PICK i \in DOMAIN runnable :
           /\ FirstRunnable(i) /\ next' = runnable[i]
           /\ runnable' = SubSeq(runnable, i + 1, Len(runnable))
    BY <1>10 DEF PickTask
  <2>3. i = 1
    BY <2>1, <2>2, ExactQueue DEF TableInv
  <2>4. Ready' = runnable
    BY <2>1, <2>2, <2>3, ConsTail DEF Ready, Picked, TypeOK
  <2> QED
    BY <2>1, <2>4, Stutter, ReadyQueue DEF InSwitch
<1>11. CASE WaitForTimer
  <2>1. /\ mode = "pick" /\ mode' = "drain" /\ NoneRunnable /\ runnable' = <<>>
        /\ UNCHANGED <<state, pending, current, outcome>>
    BY <1>11 DEF WaitForTimer, Switching
  <2>2. PICK i \in DOMAIN sleeping : sleeping' = Elapse(sleeping[i].left)
    BY <1>11 DEF WaitForTimer
  <2>3. sleeping[i].left \in Nat
    BY <2>2, SeqDomain, Timers, BoundsAssumption DEF TypeOK
  <2>4. \A t : Owns(sleeping', t) <=> Owns(sleeping, t)
    BY <2>2, <2>3, TimersElapse DEF TableInv, TimersExact, TypeOK
  <2>5. Timed' = Timed /\ InSwitch' = InSwitch
    BY <2>1, <2>4, TimedPrime DEF Timed, HasTimer, InSwitch
  <2>6. runnable = <<>>
    BY <2>1, ExactQueue DEF TableInv
  <2> QED
    BY <2>1, <2>5, <2>6, ReadyQueue, ReadyQueuePrime DEF Coop!vars
<1>12. CASE DeadlockInPrimitive
  <2>1. /\ mode = "pick" /\ outcome = "running" /\ leaving # "finish"
        /\ NoneRunnable /\ sleeping = <<>> /\ Reinstate(<<>>, "deadlock")
    BY <1>12 DEF DeadlockInPrimitive, Switching
  <2>2. Ready = <<>>
    BY <2>1, ExactQueue, ReadyQueue DEF TableInv
  <2>3. Timed = {}
    BY <2>1, TimersEmpty DEF Timed, HasTimer, TableInv, SwitchInv
  <2>4. RetainOther(Ready, current) = <<>>
    BY <2>2, QueueEmpty DEF RetainOther
  <2>5. Coop!Refuse
    BY <2>1, <2>2, <2>3, <2>4, CoopRefuse
  <2> QED
    BY <2>5 DEF Coop!Next
<1>13. CASE DeadlockAtFinish
  <2>1. /\ mode = "pick" /\ mode' = "pick" /\ NoneRunnable /\ runnable' = <<>>
        /\ outcome = "running" /\ outcome' # "running"
        /\ UNCHANGED <<state, sleeping, pending, current>>
    BY <1>13 DEF DeadlockAtFinish, Switching
  <2>2. Ready' = Ready /\ Timed' = Timed /\ InSwitch' = InSwitch
    BY <2>1, ExactQueue, ReadyQueue, ReadyQueuePrime
       DEF TableInv, Timed, HasTimer, InSwitch
  <2> QED
    BY <2>1, <2>2 DEF Coop!Next, Coop!Stop
<1>14. CASE ResumeTask \/ StartTask
  BY <1>14, CoopDispatch DEF ResumeTask, StartTask, Coop!Next
<1>15. CASE ActivationFailsInPrimitive
  <2>1. /\ mode = "activate" /\ outcome = "running" /\ leaving # "finish"
        /\ ~context[next].live
    BY <1>15 DEF ActivationFailsInPrimitive, EntryFails, Switching
  <2>2. Ready = <<next>> \o runnable
    BY <2>1 DEF Ready, Picked
  <2>3. Ready # <<>> /\ Head(Ready) = next
    BY <2>2, HeadOfCons DEF TypeOK
  <2>4. next # current
    BY <2>1 DEF TableInv, SwitchInv, InSwitch
  <2>5. PICK e : Reinstate(RetainOther(Ready, current), e)
    BY <1>15, <2>2 DEF ActivationFailsInPrimitive
  <2>6. Coop!Refuse
    BY <2>1, <2>3, <2>4, <2>5, CoopRefuse
  <2> QED
    BY <2>6 DEF Coop!Next
<1>16. CASE ActivationFailsAtFinish
  <2>1. /\ mode = "activate" /\ outcome = "running" /\ outcome' = "error"
        /\ runnable' = <<next>> \o runnable
        /\ UNCHANGED <<state, sleeping, pending, current, mode>>
    BY <1>16 DEF ActivationFailsAtFinish, EntryFails, Switching
  <2>2. Ready' = Ready /\ Timed' = Timed /\ InSwitch' = InSwitch
    BY <2>1 DEF Ready, Picked, Timed, HasTimer, InSwitch
  <2> QED
    BY <2>1, <2>2 DEF Coop!Next, Coop!Stop
<1>17. CASE ReplReset
  <2>1. Ready' = <<>> /\ InSwitch' = FALSE
    BY <1>17, ReadyQueuePrime DEF ReplReset, InSwitch
  <2>2. Timed' = {}
    BY <1>17, TimersEmpty, TimedPrime DEF ReplReset
  <2> QED
    BY <1>17, <2>1, <2>2 DEF ReplReset, Coop!Next, Coop!Restart, Coop!Fresh
<1>18. CASE UNCHANGED vars
  BY <1>18, Stutter DEF vars, Ready, Picked, InSwitch
<1> QED
  BY <1>1, <1>2, <1>3, <1>4, <1>5, <1>6, <1>7, <1>8, <1>9, <1>10, <1>11, <1>12,
     <1>13, <1>14, <1>15, <1>16, <1>17, <1>18 DEF Next, Raise, Suspend, Switch

\* The scheduler of builtins_tasks.rs implements the cooperative scheduler the
\* Julia library relies on, however many tasks, timers and stack values it has.
THEOREM SchedulerRefines == Spec => ImplementsCoop
<1>1. Init => Coop!Init
  <2> SUFFICES ASSUME Init PROVE Coop!Init
    OBVIOUS
  <2>1. Ready = <<>> /\ InSwitch = FALSE
    BY ReadyQueue DEF Init, InSwitch
  <2>2. Timed = {}
    BY TimersEmpty DEF Init, Timed, HasTimer
  <2> QED
    BY <2>1, <2>2 DEF Init, Coop!Init, Coop!Fresh
<1> QED
  BY <1>1, CoopStep, Invariance, PTL DEF Spec, ImplementsCoop, Coop!Spec

=============================================================================
