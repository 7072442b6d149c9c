------------------------------ MODULE StructHeap ------------------------------
(***************************************************************************)
(* The heap of mutable structs and its compaction.                         *)
(*                                                                         *)
(* A reference to a struct is an index into struct_heap.  A compaction     *)
(* keeps what it marks from the roots, moves it to the front and rewrites  *)
(* every index it can reach, once.  An index that nobody rewrites goes on  *)
(* to name whatever struct lies there now.                                 *)
(*                                                                         *)
(* The field id of a struct, and of a reference to it, is history: it says *)
(* which struct is meant, and no step of the code looks at it.             *)
(*                                                                         *)
(* There are two task contexts, one of them running; a context has one     *)
(* local and one operand.  One shared Ref cell, one WeakRef and one        *)
(* transient root stand for all of them.                                   *)
(***************************************************************************)
EXTENDS SequencesExt, Integers, Ranks

CONSTANTS
    MaxHeap,        \* bound: structs in the heap
    MaxId,          \* bound: structs ever made
    MaxHeld,        \* bound: values held at once by tasks and native code
    MaxFinalizers,  \* bound: finalizers registered
    MaxObjects,     \* bound: structs ever made and finalizers together
    Shapes          \* program shapes that are allowed, a subset of AllShapes

\* Programs the properties are known to fail for (README, "Struct heap"):
\*   finally   a task is suspended in a finally that an exception entered
\*   captures  a finalizer alone keeps a struct, as a capture or as a field
\*   nested    a finalizer starts a collection while others wait for their turn
\*   throws    a finalizer throws while others wait for their turn
AllShapes == {"finally", "captures", "nested", "throws"}

ASSUME StructHeapAssumption ==
    /\ MaxHeap \in Nat /\ MaxId \in Nat /\ MaxHeld \in Nat
    /\ MaxFinalizers \in Nat /\ MaxObjects \in Nat
    /\ Shapes \subseteq AllShapes

VARIABLES
    heap,       \* Vm::struct_heap
    cell,       \* the content of a Ref, shared by everyone who holds it
    cur,        \* the running context
    parked,     \* the suspended one: VmTask::context
    transient,  \* Vm::transient_roots
    weak,       \* Vm::weak_refs: the content of a WeakRef held by a global
    finalizers, \* Vm::finalizers
    pending,    \* Vm::pending_finalizers, and the callbacks taken from it
    made        \* structs made so far

vars == <<heap, cell, cur, parked, transient, weak, finalizers, pending, made>>

Nothing == [t |-> "nothing"]
Cell == [t |-> "cell"]
Ref(i, d) == [t |-> "ref", idx |-> i, id |-> d]
IsRef(v) == v.t = "ref"
Active(f) == f.status = "active"

\* phase: running normally, in a finally that an exception entered (and that has
\* a handler of its own), in a catch clause.
Fresh(main) ==
    [main |-> main, local |-> Nothing, stack |-> Nothing, phase |-> "normal",
     pval |-> Nothing,      \* pending_exception_value
     caught |-> Nothing,    \* caught_exceptions
     mark |-> Nothing]      \* pending_finally_rethrows

-----------------------------------------------------------------------------
(***************************************************************************)
(* Marking.                                                                *)
(***************************************************************************)
\* mark_value_struct_refs on the value itself.
Direct(v) ==
    LET w == IF v = Cell THEN cell ELSE v
    IN  IF IsRef(w) /\ w.idx <= Len(heap) THEN {w.idx} ELSE {}

\* What is in S points into S.
Closed(S) == \A i \in S : Direct(heap[i].field) \subseteq S

\* Everything that can be reached from a set of values: the least closed set
\* that they point into.
Mark(roots) ==
    LET first == UNION {Direct(v) : v \in roots}
    IN  {i \in 1..Len(heap) :
            \A S \in SUBSET (1..Len(heap)) : i \in S \/ ~(first \subseteq S /\ Closed(S))}

\* mark_task_struct_refs: not the marks of finally clauses.
TaskRoots(c) == {c.local, c.stack, c.pval, c.caught}

FrameRoots == {cur.local} \cup TaskRoots(parked) \cup {transient}
Roots == FrameRoots \cup {cur.stack}

-----------------------------------------------------------------------------
(***************************************************************************)
(* Compaction.                                                             *)
(***************************************************************************)
\* Mutant: the new place counts the structs before it, and places start at 1.
RemapOffByOne(v, live) ==
    IF IsRef(v) /\ v.idx \in live
    THEN Ref(Cardinality({i \in live : i < v.idx}), v.id)
    ELSE v

\* remap_value_struct_refs: an index that was not kept stays as it is.
Remap(v, live) ==
    IF IsRef(v) /\ v.idx \in live
    THEN Ref(Rank(live, v.idx), v.id)
    ELSE v

\* Mutant: a WeakRef to a dead struct is rewritten like a Ref.
WeakAfterStrong(live, strong) == Remap(weak, live)

\* A WeakRef is emptied unless its struct is in strong.
WeakAfter(live, strong) ==
    IF IsRef(weak) /\ weak.idx \notin strong THEN Nothing ELSE Remap(weak, live)

RemapTask(c, live) ==
    [c EXCEPT !.local = Remap(@, live), !.stack = Remap(@, live),
              !.pval = Remap(@, live), !.caught = Remap(@, live)]

\* From where a pass reaches the cell.
Holders(live) ==
    {<<"heap", i>> : i \in {j \in live : heap[j].field = Cell}}
    \cup {<<"cur", p>> : p \in {q \in {"local", "stack"} : cur[q] = Cell}}
    \cup {<<"parked", p>> : p \in {q \in {"local", "stack", "pval", "caught"} : parked[q] = Cell}}
    \cup {<<"transient", p>> : p \in {q \in {"root"} : transient = Cell}}
    \cup {<<"finalizer", i>> : i \in {j \in 1..Len(finalizers) :
              Active(finalizers[j]) /\ Cell \in {finalizers[j].callback, finalizers[j].field}}}

\* Mutant: without the visited set the content is rewritten once per holder.
RemapCellPerHolder(live) ==
    LET times[n \in Nat] == IF n = 0 THEN cell ELSE Remap(times[n - 1], live)
    IN  times[Cardinality(Holders(live))]

\* The visited set: the content of the cell is rewritten once.
RemapCell(live) == IF Holders(live) = {} THEN cell ELSE Remap(cell, live)

\* Mutant: the index of a finalizer is not rewritten.
RemapFinalizerNotTarget(f, live) ==
    IF ~Active(f) THEN f
    ELSE [f EXCEPT !.callback = Remap(@, live), !.field = Remap(@, live),
                   !.status = IF f.target.idx \in live THEN @ ELSE "collected"]

\* update_finalizers_after_compaction
RemapFinalizer(f, live) ==
    IF ~Active(f) THEN f
    ELSE [f EXCEPT !.callback = Remap(@, live), !.field = Remap(@, live),
                   !.status = IF f.target.idx \in live THEN @ ELSE "collected",
                   !.target = Remap(@, live)]

\* The finalizers that a compaction hands to pending_finalizers.
Dead(live) ==
    InOrder({i \in 1..Len(finalizers) :
                Active(finalizers[i]) /\ finalizers[i].target.idx \notin live})

\* compact_struct_heap_at_safe_point_with_return_internal
Compact(strong) ==
    LET live == Mark(Roots)
        kept == InOrder(live)
    IN  /\ heap' = [i \in 1..Len(kept) |->
                        [heap[kept[i]] EXCEPT !.field = Remap(@, live)]]
        /\ cell' = RemapCell(live)
        /\ cur' = [cur EXCEPT !.local = Remap(@, live), !.stack = Remap(@, live)]
        /\ parked' = RemapTask(parked, live)
        /\ transient' = Remap(transient, live)
        /\ weak' = WeakAfter(live, strong)
        /\ finalizers' = [i \in 1..Len(finalizers) |-> RemapFinalizer(finalizers[i], live)]
        /\ pending' = pending \o Dead(live)

\* can_compact_struct_heap_for_explicit_gc: no handler, no pending exception.
CanCompact == cur.phase = "normal"

-----------------------------------------------------------------------------
Init ==
    /\ heap = <<>> /\ cell = Nothing
    /\ cur = Fresh(TRUE) /\ parked = Fresh(FALSE)
    /\ transient = Nothing /\ weak = Nothing
    /\ finalizers = <<>> /\ pending = <<>>
    /\ made = 0

Put(p, v) == cur' = [cur EXCEPT ![p] = v]
others == <<parked, transient, weak, finalizers, pending>>

(***************************************************************************)
(* What a program does between collections.                                *)
(***************************************************************************)
\* What the contexts and the native code hold at present.
Holding(c) == Cardinality({p \in {"local", "stack", "caught", "mark"} : c[p] # Nothing})
Held == Holding(cur) + Holding(parked) + (IF transient = Nothing THEN 0 ELSE 1)

Room == made + Len(finalizers) < MaxObjects

\* A struct is made; its field is a value that the program has.
NewStruct ==
    /\ Len(heap) < MaxHeap /\ Room /\ made < MaxId /\ Held < MaxHeld
    /\ made' = made + 1
    /\ \E v \in {Nothing, cur.local} : heap' = Append(heap, [id |-> made', field |-> v])
    /\ Put("stack", Ref(Len(heap'), made'))
    /\ UNCHANGED <<cell, others>>

StoreLocal ==
    /\ cur.stack # Nothing
    /\ cur' = [cur EXCEPT !.local = cur.stack, !.stack = Nothing]
    /\ UNCHANGED <<heap, cell, made, others>>

LoadLocal ==
    /\ cur.local # Nothing /\ Held < MaxHeld
    /\ Put("stack", cur.local)
    /\ UNCHANGED <<heap, cell, made, others>>

Drop ==
    /\ \E p \in {"local", "stack"} : cur[p] # Nothing /\ Put(p, Nothing)
    /\ UNCHANGED <<heap, cell, made, others>>

GetField ==
    /\ IsRef(cur.stack) /\ cur.stack.idx <= Len(heap)
    /\ Put("stack", heap[cur.stack.idx].field)
    /\ UNCHANGED <<heap, cell, made, others>>

\* Ref(x), when the last Ref has no holder any more.
NewRef ==
    /\ IsRef(cur.stack)
    /\ Cell \notin Roots /\ \A i \in 1..Len(heap) : heap[i].field # Cell
    /\ \A i \in 1..Len(finalizers) : Cell \notin {finalizers[i].callback, finalizers[i].field}
    /\ cell' = cur.stack
    /\ Put("stack", Cell)
    /\ UNCHANGED <<heap, made, others>>

\* push_transient_root; clone_transient_root and end_transient_root_frame.
PushTransientRoot ==
    /\ transient = Nothing /\ cur.stack # Nothing
    /\ transient' = cur.stack
    /\ Put("stack", Nothing)
    /\ UNCHANGED <<heap, cell, parked, weak, finalizers, pending, made>>

EndTransientRootFrame ==
    /\ transient # Nothing
    /\ transient' = Nothing
    /\ Put("stack", transient)
    /\ UNCHANGED <<heap, cell, parked, weak, finalizers, pending, made>>

-----------------------------------------------------------------------------
(***************************************************************************)
(* Exceptions and task switches.                                           *)
(***************************************************************************)
ThrowToFinally ==
    /\ cur.phase = "normal" /\ cur.stack # Nothing
    /\ cur' = [cur EXCEPT !.phase = "finally", !.pval = cur.stack,
                          !.mark = cur.stack, !.stack = Nothing]
    /\ UNCHANGED <<heap, cell, made, others>>

ThrowToCatch ==
    /\ cur.phase = "normal" /\ cur.stack # Nothing
    /\ cur' = [cur EXCEPT !.phase = "catch", !.caught = cur.stack]
    /\ UNCHANGED <<heap, cell, made, others>>

\* Rethrow at the end of a finally: the mark is raised again, and caught.
EndFinally ==
    /\ cur.phase = "finally"
    /\ cur' = [cur EXCEPT !.phase = "catch", !.caught = cur.mark, !.stack = cur.mark,
                          !.pval = Nothing, !.mark = Nothing]
    /\ UNCHANGED <<heap, cell, made, others>>

EndCatch ==
    /\ cur.phase = "catch"
    /\ cur' = [cur EXCEPT !.phase = "normal", !.caught = Nothing]
    /\ UNCHANGED <<heap, cell, made, others>>

\* take_task_context and its restoration: not across a native call.
SwitchTask ==
    /\ transient = Nothing /\ pending = <<>>
    /\ "finally" \in Shapes \/ cur.phase # "finally"
    /\ cur' = parked /\ parked' = cur
    /\ UNCHANGED <<heap, cell, transient, weak, finalizers, pending, made>>

-----------------------------------------------------------------------------
(***************************************************************************)
(* Weak references and finalizers.                                         *)
(***************************************************************************)
\* register_weak_ref, weakref_set_value
SetWeakRef ==
    /\ IsRef(cur.stack)
    /\ weak' = cur.stack
    /\ UNCHANGED <<heap, cell, cur, parked, transient, finalizers, pending, made>>

WeakRefValue ==
    /\ IsRef(weak) /\ Held < MaxHeld
    /\ Put("stack", weak)
    /\ UNCHANGED <<heap, cell, made, others>>

\* register_finalizer: a copy of the struct is kept beside its index.
RegisterFinalizer ==
    /\ Len(finalizers) < MaxFinalizers /\ Room
    /\ IsRef(cur.local) /\ cur.local.idx <= Len(heap)
    /\ \E cb \in {Nothing, cur.stack} :
        LET field == heap[cur.local.idx].field
        IN  /\ "captures" \in Shapes \/ (cb = Nothing /\ field = Nothing)
            /\ finalizers' = Append(finalizers,
                   [target |-> cur.local, callback |-> cb, field |-> field,
                    status |-> "active", runs |-> 0])
    /\ UNCHANGED <<heap, cell, cur, parked, transient, weak, pending, made>>

\* Mutant: the callbacks that wait for the one under way are forgotten.
TakeForgets(S) ==
    /\ S # {}
    /\ finalizers' = [i \in 1..Len(finalizers) |->
                         IF i \in S THEN [finalizers[i] EXCEPT !.status = "called"]
                         ELSE finalizers[i]]
    /\ pending' = InOrder(S)
    /\ UNCHANGED <<heap, cell, cur, parked, transient, weak, made>>

\* The finalizers in S are taken off, to run one after the other, and before
\* those that wait for the callback under way to end.
Take(S) ==
    /\ S # {}
    /\ finalizers' = [i \in 1..Len(finalizers) |->
                         IF i \in S THEN [finalizers[i] EXCEPT !.status = "called"]
                         ELSE finalizers[i]]
    /\ pending' = InOrder(S) \o pending
    /\ UNCHANGED <<heap, cell, cur, parked, transient, weak, made>>

\* finalize_value, which a callback may call too.
Finalize ==
    /\ IsRef(cur.local)
    /\ Take({i \in 1..Len(finalizers) :
               Active(finalizers[i]) /\ finalizers[i].target.idx = cur.local.idx})

\* run_exit_finalizers
ExitFinalizers ==
    /\ cur.main /\ pending = <<>>
    /\ Take({i \in 1..Len(finalizers) : Active(finalizers[i])})

\* What a finalizer is called with: the struct itself, or the field of the copy
\* when a collection has taken the struct.
Object(f) == IF f.status = "called" THEN f.target ELSE f.field

\* run_finalizer_callbacks, one callback at a time: it sees what it captured and
\* its object.  Nobody looks at its entry again.
RunFinalizer ==
    /\ pending # <<>>
    /\ LET f == finalizers[Head(pending)]
       IN  \E v \in {cur.stack, f.callback, Object(f)} :
               /\ v = cur.stack \/ Held < MaxHeld
               /\ Put("stack", v)
    /\ finalizers' = [finalizers EXCEPT ![Head(pending)] =
                         [target |-> Nothing, callback |-> Nothing, field |-> Nothing,
                          status |-> "called", runs |-> @.runs + 1]]
    /\ pending' = Tail(pending)
    /\ UNCHANGED <<heap, cell, parked, transient, weak, made>>

-----------------------------------------------------------------------------
(***************************************************************************)
(* Collections.                                                            *)
(***************************************************************************)
\* gc_collect: a compaction, if there can be one; then the WeakRefs to structs
\* that no frame holds are emptied; then the finalizers run.
Gc ==
    /\ "nested" \in Shapes \/ pending = <<>>
    /\ IF CanCompact THEN Compact(Mark(FrameRoots))
       ELSE /\ weak' = WeakAfter({}, Mark(FrameRoots))
            /\ UNCHANGED <<heap, cell, cur, parked, transient, finalizers, pending>>
    /\ UNCHANGED made

\* compact_struct_heap_at_safe_point_with_return, after an input of the REPL.
CompactAfterInput ==
    /\ cur.main /\ CanCompact /\ pending = <<>> /\ transient = Nothing
    /\ \A f \in Range(finalizers) : ~Active(f)
    /\ Compact(Mark(Roots))
    /\ UNCHANGED made

\* reset_repl_transient_state, before the next input or after an error; the value
\* of the input may have become a global.  pending_finalizers itself is empty by
\* then: what a finalizer that throws leaves waiting are callbacks already taken
\* from it, which go with the run_finalizer_callbacks that is unwound.
ResetForInput ==
    /\ cur.main
    /\ "throws" \in Shapes \/ pending = <<>>
    /\ \E v \in {cur.local, cur.stack} : cur' = [Fresh(TRUE) EXCEPT !.local = v]
    /\ parked' = Fresh(FALSE)
    /\ transient' = Nothing /\ pending' = <<>>
    /\ UNCHANGED <<heap, cell, weak, finalizers, made>>

Next ==
    \/ NewStruct \/ StoreLocal \/ LoadLocal \/ Drop \/ GetField \/ NewRef
    \/ PushTransientRoot \/ EndTransientRootFrame
    \/ ThrowToFinally \/ ThrowToCatch \/ EndFinally \/ EndCatch
    \/ SwitchTask
    \/ SetWeakRef \/ WeakRefValue
    \/ RegisterFinalizer \/ Finalize \/ ExitFinalizers \/ RunFinalizer
    \/ Gc \/ CompactAfterInput \/ ResetForInput

Spec == Init /\ [][Next]_vars

-----------------------------------------------------------------------------
(***************************************************************************)
(* Properties.                                                             *)
(***************************************************************************)
Reference == [t : {"ref"}, idx : 1..MaxHeap, id : 1..MaxId]
Value == Reference \cup {Nothing, Cell}

Context ==
    [main : BOOLEAN, local : Value, stack : Value,
     phase : {"normal", "finally", "catch"},
     pval : Value, caught : Value, mark : Value]

\* Types of the heap and of everything that refers into it.
TypeOK ==
    /\ heap \in Seq([id : 1..MaxId, field : Value])
    /\ cell \in Reference \cup {Nothing}
    /\ cur \in Context /\ parked \in Context
    /\ transient \in Value
    /\ weak \in Reference \cup {Nothing}
    /\ finalizers \in Seq([target : Reference \cup {Nothing}, callback : Value, field : Value,
                           status : {"active", "collected", "called"}, runs : Nat])
    /\ pending \in Seq(1..Len(finalizers))
    /\ made \in 0..MaxId

\* A value names the struct that it meant when it was made.
Sound(v) ==
    LET w == IF v = Cell THEN cell ELSE v
    IN  IsRef(w) => w.idx <= Len(heap) /\ heap[w.idx].id = w.id

\* Every value the program can still get at: locals, operands, exceptions that
\* are caught or wait for the end of a finally, in either task, native roots,
\* and what these hold.
Accessible ==
    LET direct == {cur[p] : p \in {"local", "stack", "pval", "caught", "mark"}}
                  \cup {parked[p] : p \in {"local", "stack", "pval", "caught", "mark"}}
                  \cup {transient}
    IN  direct \cup {heap[i].field : i \in Mark(direct)}

\* No collection, from whichever task, leaves a value that names another struct
\* than before, or none: everything the program can get at was marked, and
\* rewritten exactly once however many hold it.
NoDangling == \A v \in Accessible : Sound(v)

\* A WeakRef never names another struct, and is emptied before its struct's
\* place is used again.
WeakExact == Sound(weak)

\* A finalizer that waits for the death of its struct still names this struct,
\* and one that a collection started has a struct that nobody can get at.
FinalizersExact ==
    \A i \in 1..Len(finalizers) :
        LET f == finalizers[i]
        IN  /\ Active(f) => Sound(f.target)
            /\ f.status = "collected" /\ f.runs = 0 =>
                \A v \in Accessible \cup {weak} : IsRef(v) => v.id # f.target.id

\* Every registered finalizer is waiting for its struct, waiting for its turn or
\* has run: none is lost and none runs twice, whichever of finalize, a
\* collection and the exit comes first.
FinalizersOnce ==
    \A i \in 1..Len(finalizers) :
        LET f == finalizers[i]
            turns == Cardinality({j \in 1..Len(pending) : pending[j] = i})
        IN  f.runs + turns + (IF Active(f) THEN 1 ELSE 0) = 1

=============================================================================
