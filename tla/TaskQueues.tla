------------------------------ MODULE TaskQueues ------------------------------
(***************************************************************************)
(* The queues of the scheduler (runnable_tasks, a VecDeque of task ids,    *)
(* and sleeping_tasks, a Vec of deadlines with their task) as sequences,   *)
(* and the `retain` calls that drop the entry of one task.                 *)
(***************************************************************************)
EXTENDS Integers, Sequences

\* Membership and uniqueness, of tasks in a queue and of timers by their task.
Has(q, t) == \E i \in DOMAIN q : q[i] = t
Owns(q, t) == \E i \in DOMAIN q : q[i].id = t
Distinct(q) == \A i, j \in DOMAIN q : q[i] = q[j] => i = j
DistinctOwners(q) == \A i, j \in DOMAIN q : q[i].id = q[j].id => i = j

(***************************************************************************)
(* VecDeque::retain / Vec::retain.  A task has at most one entry in either *)
(* queue (QueueExact and TimersExact of TaskScheduler), so dropping its    *)
(* entries removes one position and closes the gap.                        *)
(***************************************************************************)
DropAt(s, i) == [j \in 1 .. Len(s) - 1 |-> IF j < i THEN s[j] ELSE s[j + 1]]

RetainNothing(s, id) == s

RetainOther(s, id) ==
    IF Has(s, id)
    THEN DropAt(s, CHOOSE i \in DOMAIN s : s[i] = id)
    ELSE s

CancelNothing(s, id) == s

CancelTimer(s, id) ==
    IF Owns(s, id)
    THEN DropAt(s, CHOOSE i \in DOMAIN s : s[i].id = id)
    ELSE s
=============================================================================
