--------------------------- MODULE StructHeapProofs ---------------------------
(***************************************************************************)
(* That a collection leaves no reference behind, for any number of structs *)
(* and finalizers.                                                         *)
(*                                                                         *)
(* NoDangling speaks of what the program can get at, which no step but a   *)
(* collection shrinks.  The invariant says the same of the whole heap: a   *)
(* struct that nobody can get at still has sound fields, until a           *)
(* collection takes it away.                                               *)
(***************************************************************************)
EXTENDS StructHeap, RankProofs

Struct == [id : 1..MaxId, field : Value]
Finalizer == [target : Reference \cup {Nothing}, callback : Value, field : Value,
              status : {"active", "collected", "called"}, runs : Nat]

Places == {"local", "stack", "pval", "caught", "mark"}

SizeInv == Len(heap) <= MaxHeap

\* What a context keeps for its exceptions it keeps only while they are open.
PhaseOK(c) ==
    /\ c.phase = "normal" => c.caught = Nothing
    /\ c.phase # "finally" => c.pval = Nothing /\ c.mark = Nothing

PhaseInv == PhaseOK(cur) /\ PhaseOK(parked) /\ parked.phase # "finally"

\* No two structs have the same identity, and a new one gets one of its own.
IdInv ==
    /\ \A i \in 1..Len(heap) : heap[i].id <= made
    /\ \A i, j \in 1..Len(heap) : heap[i].id = heap[j].id => i = j
    /\ \A i \in 1..Len(finalizers) : IsRef(finalizers[i].target) => finalizers[i].target.id <= made

SoundInv ==
    /\ \A p \in Places : Sound(cur[p]) /\ Sound(parked[p])
    /\ Sound(transient) /\ Sound(weak)
    /\ \A i \in 1..Len(heap) : Sound(heap[i].field)

Injective(s) == \A j, k \in 1..Len(s) : s[j] = s[k] => j = k
Occurs(i, s) == \E j \in 1..Len(s) : s[j] = i

\* What a finalizer has of its struct until it runs: the struct, or its identity
\* once the struct is gone.
FinalizerInv ==
    \A i \in 1..Len(finalizers) :
        /\ finalizers[i].callback = Nothing /\ finalizers[i].field = Nothing
        /\ Active(finalizers[i]) => IsRef(finalizers[i].target) /\ Sound(finalizers[i].target)
        /\ finalizers[i].status = "called" /\ Occurs(i, pending) => Sound(finalizers[i].target)
        /\ finalizers[i].status = "collected" /\ finalizers[i].runs = 0 =>
              /\ IsRef(finalizers[i].target)
              /\ \A k \in 1..Len(heap) : heap[k].id # finalizers[i].target.id

\* Each entry is registered, waits for its turn once, or has run.
Due(f) == ~Active(f) /\ f.runs = 0
Settled(f) == f.runs = IF Active(f) THEN 0 ELSE 1
TurnInv ==
    /\ Injective(pending)
    /\ \A i \in 1..Len(finalizers) :
          IF Occurs(i, pending) THEN Due(finalizers[i]) ELSE Settled(finalizers[i])

-----------------------------------------------------------------------------
(***************************************************************************)
(* Values and references.                                                  *)
(***************************************************************************)
LEMMA Values ==
    /\ Nothing \in Value /\ Cell \in Value /\ Nothing # Cell
    /\ ~IsRef(Nothing) /\ ~IsRef(Cell)
    /\ \A v \in Value : IsRef(v) => v \in Reference
    /\ \A v \in Reference \cup {Nothing} : v \in Value /\ v # Cell
    /\ \A v \in Reference : IsRef(v) /\ v.idx \in 1..MaxHeap /\ v.id \in 1..MaxId
<1>1. ~IsRef(Nothing) /\ ~IsRef(Cell) /\ Nothing # Cell
  BY DEF IsRef, Nothing, Cell
<1>2. \A v \in Reference : IsRef(v) /\ v.idx \in 1..MaxHeap /\ v.id \in 1..MaxId
  BY DEF IsRef, Reference
<1> QED
  BY <1>1, <1>2 DEF Value

LEMMA Refs ==
    ASSUME NEW i \in 1..MaxHeap, NEW d \in 1..MaxId
    PROVE  /\ Ref(i, d) \in Reference /\ Ref(i, d) \in Value /\ IsRef(Ref(i, d))
           /\ Ref(i, d).idx = i /\ Ref(i, d).id = d
BY DEF Ref, Reference, Value, IsRef

\* A rewritten value is a reference to the new place or the value itself.
LEMMA RemapValue ==
    ASSUME NEW live, Positions(live), Cardinality(live) <= MaxHeap, NEW v \in Value
    PROVE  /\ Remap(v, live) \in Value
           /\ v \in Reference \cup {Nothing} => Remap(v, live) \in Reference \cup {Nothing}
           /\ IsRef(v) /\ v.idx \in live =>
                 /\ IsRef(Remap(v, live)) /\ Remap(v, live).id = v.id
                 /\ Remap(v, live).idx = Rank(live, v.idx)
           /\ ~(IsRef(v) /\ v.idx \in live) => Remap(v, live) = v
           /\ Remap(v, live) = Cell <=> v = Cell
           /\ Remap(v, live) = Nothing <=> v = Nothing
           /\ IsRef(Remap(v, live)) <=> IsRef(v)
<1>1. CASE IsRef(v) /\ v.idx \in live
  <2>1. v \in Reference
    BY <1>1, Values
  <2>2. v.id \in 1..MaxId /\ v.idx \in live
    BY <1>1, <2>1, Values
  <2>3. Rank(live, v.idx) \in 1..Cardinality(live) /\ Cardinality(live) \in Nat
    BY <2>2, RankPositive, RankType
  <2>4. Rank(live, v.idx) \in 1..MaxHeap
    BY <2>3, StructHeapAssumption
  <2>5. Remap(v, live) = Ref(Rank(live, v.idx), v.id)
    BY <1>1 DEF Remap
  <2>6. /\ Remap(v, live) \in Reference /\ Remap(v, live) \in Value /\ IsRef(Remap(v, live))
        /\ Remap(v, live).idx = Rank(live, v.idx) /\ Remap(v, live).id = v.id
    BY <2>2, <2>4, <2>5, Refs
  <2>7. v # Cell /\ v # Nothing /\ Remap(v, live) # Cell /\ Remap(v, live) # Nothing
    BY <1>1, <2>6, Values
  <2> QED
    BY <1>1, <2>6, <2>7
<1>2. CASE ~(IsRef(v) /\ v.idx \in live)
  BY <1>2 DEF Remap
<1> QED
  BY <1>1, <1>2

-----------------------------------------------------------------------------
(***************************************************************************)
(* What is marked.                                                         *)
(***************************************************************************)
HeapOK == heap \in Seq(Struct) /\ Len(heap) \in Nat /\ cell \in Reference \cup {Nothing}

LEMMA StructTypes ==
    ASSUME HeapOK
    PROVE  \A i \in 1..Len(heap) :
              heap[i] \in Struct /\ heap[i].id \in 1..MaxId /\ heap[i].field \in Value
<1>1. \A i \in 1..Len(heap) : heap[i] \in Struct
  BY DEF HeapOK
<1>2. \A x \in Struct : x.id \in 1..MaxId /\ x.field \in Value
  BY DEF Struct
<1> QED
  BY <1>1, <1>2

LEMMA DirectPlaces ==
    ASSUME HeapOK, NEW v \in Value
    PROVE  Direct(v) \subseteq 1..Len(heap)
<1> DEFINE w == IF v = Cell THEN cell ELSE v
<1>1. w \in Value
  BY Values DEF HeapOK
<1>2. Direct(v) = IF IsRef(w) /\ w.idx <= Len(heap) THEN {w.idx} ELSE {}
  BY DEF Direct
<1> HIDE DEF w
<1>3. ASSUME IsRef(w), w.idx <= Len(heap) PROVE w.idx \in 1..Len(heap)
  <2>1. w.idx \in 1..MaxHeap
    BY <1>1, <1>3, Values
  <2> QED
    BY <1>3, <2>1, StructHeapAssumption DEF HeapOK
<1> QED
  BY <1>2, <1>3

\* The roots point into S, and S is closed.
Holds(S, roots) == (\A v \in roots : Direct(v) \subseteq S) /\ Closed(S)

\* A place is marked if every set that holds the roots has it.
LEMMA MarkLeast ==
    ASSUME NEW roots
    PROVE  /\ Mark(roots) \subseteq 1..Len(heap)
           /\ \A i \in 1..Len(heap) :
                 i \in Mark(roots) <=>
                    \A S \in SUBSET (1..Len(heap)) : Holds(S, roots) => i \in S
<1> DEFINE first == UNION {Direct(v) : v \in roots}
<1>1. \A S : first \subseteq S <=> \A v \in roots : Direct(v) \subseteq S
  OBVIOUS
<1>2. Mark(roots) =
         {i \in 1..Len(heap) :
             \A S \in SUBSET (1..Len(heap)) : i \in S \/ ~(first \subseteq S /\ Closed(S))}
  BY DEF Mark
<1> HIDE DEF first
<1> QED
  BY <1>1, <1>2 DEF Holds

\* The marked places are closed, and the least such set.
LEMMA MarkClosed ==
    ASSUME HeapOK, NEW roots, \A v \in roots : v \in Value
    PROVE  Mark(roots) \in SUBSET (1..Len(heap)) /\ Holds(Mark(roots), roots)
<1> DEFINE M == Mark(roots)
<1>1. \A i \in 1..Len(heap) :
         i \in M <=> \A S \in SUBSET (1..Len(heap)) : Holds(S, roots) => i \in S
  BY MarkLeast
<1>2. M \in SUBSET (1..Len(heap))
  BY MarkLeast
<1> HIDE DEF M
<1>3. ASSUME NEW v \in roots PROVE Direct(v) \subseteq M
  <2> SUFFICES ASSUME NEW i \in Direct(v) PROVE i \in M
    OBVIOUS
  <2>1. i \in 1..Len(heap)
    BY DirectPlaces
  <2>2. ASSUME NEW S \in SUBSET (1..Len(heap)), Holds(S, roots) PROVE i \in S
    BY <2>2 DEF Holds
  <2> QED
    BY <1>1, <2>1, <2>2
<1>4. ASSUME NEW k \in M PROVE Direct(heap[k].field) \subseteq M
  <2> SUFFICES ASSUME NEW i \in Direct(heap[k].field) PROVE i \in M
    OBVIOUS
  <2>1. k \in 1..Len(heap)
    BY <1>2
  <2>2. heap[k].field \in Value
    BY <2>1, StructTypes
  <2>3. i \in 1..Len(heap)
    BY <2>2, DirectPlaces
  <2>4. ASSUME NEW S \in SUBSET (1..Len(heap)), Holds(S, roots) PROVE i \in S
    <3>1. k \in S
      BY <1>1, <2>1, <2>4
    <3> QED
      BY <2>4, <3>1 DEF Holds, Closed
  <2> QED
    BY <1>1, <2>3, <2>4
<1> QED
  BY <1>2, <1>3, <1>4 DEF Holds, Closed, M

LEMMA MarkMonotone ==
    ASSUME NEW few, NEW roots, few \subseteq roots
    PROVE  Mark(few) \subseteq Mark(roots)
<1>1. ASSUME NEW S, Holds(S, roots) PROVE Holds(S, few)
  BY <1>1 DEF Holds
<1> QED
  BY <1>1, MarkLeast

-----------------------------------------------------------------------------
(***************************************************************************)
(* Compaction: what is in live moves to its number in live.                *)
(***************************************************************************)
BaseInv == TypeOK /\ SizeInv

LEMMA ContextTypes ==
    ASSUME NEW c \in Context
    PROVE  /\ \A p \in Places : c[p] \in Value
           /\ c.local \in Value /\ c.stack \in Value /\ c.pval \in Value
           /\ c.caught \in Value /\ c.mark \in Value
           /\ c.main \in BOOLEAN /\ c.phase \in {"normal", "finally", "catch"}
BY DEF Context, Places

LEMMA BaseTypes ==
    ASSUME BaseInv
    PROVE  /\ HeapOK /\ Len(heap) <= MaxHeap /\ MaxHeap \in Nat
           /\ \A v \in Roots : v \in Value
           /\ \A v \in FrameRoots : v \in Value
           /\ finalizers \in Seq(Finalizer) /\ Len(finalizers) \in Nat
           /\ pending \in Seq(1..Len(finalizers)) /\ Len(pending) \in Nat
           /\ transient \in Value /\ weak \in Reference \cup {Nothing} /\ weak \in Value
<1>1. HeapOK /\ Len(heap) <= MaxHeap /\ MaxHeap \in Nat
  BY StructHeapAssumption DEF BaseInv, TypeOK, SizeInv, HeapOK, Struct
<1>2. /\ cur.local \in Value /\ cur.stack \in Value
      /\ \A v \in TaskRoots(parked) : v \in Value
  BY ContextTypes DEF BaseInv, TypeOK, TaskRoots
<1>3. transient \in Value /\ weak \in Reference \cup {Nothing} /\ weak \in Value
  BY Values DEF BaseInv, TypeOK
<1>4. finalizers \in Seq(Finalizer) /\ pending \in Seq(1..Len(finalizers))
  BY DEF BaseInv, TypeOK, Finalizer
<1> QED
  BY <1>1, <1>2, <1>3, <1>4 DEF Roots, FrameRoots

Moved(live) ==
    /\ Positions(live) /\ live \in SUBSET (1..Len(heap))
    /\ Cardinality(live) \in Nat /\ Cardinality(live) <= Len(heap)
    /\ heap' \in Seq(Struct) /\ Len(heap') = Cardinality(live)
    /\ \A i \in live :
          /\ Rank(live, i) \in 1..Len(heap')
          /\ heap'[Rank(live, i)].id = heap[i].id
          /\ heap'[Rank(live, i)].field = Remap(heap[i].field, live)
    /\ \A n \in 1..Len(heap') : \E i \in live : n = Rank(live, i)

LEMMA Placed ==
    ASSUME HeapOK, NEW live \in SUBSET (1..Len(heap))
    PROVE  /\ Positions(live) /\ Cardinality(live) \in Nat /\ Cardinality(live) <= Len(heap)
<1>0. Len(heap) \in Nat /\ \A s \in live : s \in 1..Len(heap)
  BY DEF HeapOK
<1>1. Positions(live)
  BY <1>0, PositionsUpTo
<1>2. IsFiniteSet(1..Len(heap)) /\ Cardinality(1..Len(heap)) = Len(heap)
  BY <1>0, FS_Interval
<1>3. Cardinality(live) <= Cardinality(1..Len(heap))
  BY <1>2, FS_Subset
<1> QED
  BY <1>1, <1>2, <1>3, RankType

LEMMA CompactMoves ==
    ASSUME BaseInv, NEW strong, Compact(strong)
    PROVE  Moved(Mark(Roots))
<1> DEFINE live == Mark(Roots)
           kept == InOrder(live)
<1>1. HeapOK /\ Len(heap) <= MaxHeap /\ MaxHeap \in Nat
  BY BaseTypes
<1>2. live \in SUBSET (1..Len(heap))
  BY <1>1, BaseTypes, MarkClosed
<1>3. heap' = [n \in 1..Len(kept) |-> [heap[kept[n]] EXCEPT !.field = Remap(@, live)]]
  BY DEF Compact
<1> HIDE DEF live
<1>4. Positions(live) /\ Cardinality(live) \in Nat /\ Cardinality(live) <= Len(heap)
  BY <1>1, <1>2, Placed
<1>5. /\ Len(kept) = Cardinality(live)
      /\ \A n \in 1..Cardinality(live) : kept[n] \in live /\ Rank(live, kept[n]) = n
      /\ \A i \in live : Rank(live, i) \in 1..Cardinality(live) /\ kept[Rank(live, i)] = i
  BY <1>4, InOrderLists
<1> HIDE DEF kept
<1> DEFINE c == Cardinality(live)
           new(i) == [heap[i] EXCEPT !.field = Remap(@, live)]
<1>6. ASSUME NEW i \in live
      PROVE  /\ new(i) \in Struct /\ new(i).id = heap[i].id
             /\ new(i).field = Remap(heap[i].field, live)
  <2>1. heap[i] \in Struct /\ heap[i].field \in Value
    BY <1>1, <1>2, StructTypes
  <2> DEFINE x == heap[i]
             y == Remap(x.field, live)
  <2>2. y \in Value
    BY <1>1, <1>4, <2>1, RemapValue DEF HeapOK
  <2>3. new(i) = [x EXCEPT !.field = y]
    OBVIOUS
  <2> HIDE DEF x, y, new
  <2>4. x \in Struct
    BY <2>1 DEF x
  <2>5. new(i) \in Struct /\ new(i).id = x.id /\ new(i).field = y
    BY <2>2, <2>3, <2>4 DEF Struct
  <2> QED
    BY <2>5 DEF x, y
<1>7. heap' = [n \in 1..c |-> new(kept[n])]
  BY <1>3, <1>5
<1> HIDE DEF new, c
<1>8. c \in Nat /\ \A n \in 1..c : new(kept[n]) \in Struct
  BY <1>4, <1>5, <1>6 DEF c
<1>9. heap' \in Seq(Struct) /\ Len(heap') = c /\ \A n \in 1..c : heap'[n] = new(kept[n])
  BY <1>7, <1>8
<1>10. \A i \in live : Rank(live, i) \in 1..c /\ heap'[Rank(live, i)] = new(i)
  BY <1>5, <1>9 DEF c
<1>11. \A n \in 1..c : \E i \in live : n = Rank(live, i)
  BY <1>5 DEF c
<1>12. Moved(live)
  BY <1>2, <1>4, <1>6, <1>9, <1>10, <1>11 DEF Moved, c
<1> QED
  BY <1>12 DEF live


-----------------------------------------------------------------------------
(***************************************************************************)
(* Steps that only move values within what the program can get at.         *)
(***************************************************************************)
Known ==
    {Nothing, weak, transient} \cup {cur[p] : p \in Places} \cup {parked[p] : p \in Places}
    \cup {heap[i].field : i \in 1..Len(heap)}

\* The running context takes what is known, and keeps exceptions while they are open.
Takes(extra) ==
    /\ cur' \in Context
    /\ \A p \in Places : cur'[p] \in Known \cup extra
    /\ PhaseOK(cur) => PhaseOK(cur')

LEMMA Kinds ==
    /\ Places = {"local", "stack", "pval", "caught", "mark"}
    /\ \A p \in Places : cur[p] \in Known /\ parked[p] \in Known
    /\ cur.local \in Known /\ cur.stack \in Known /\ cur.mark \in Known
    /\ Nothing \in Known /\ weak \in Known /\ transient \in Known
    /\ \A i \in 1..Len(heap) : heap[i].field \in Known
BY DEF Places, Known

LEMMA PutTakes ==
    ASSUME BaseInv, NEW p \in {"local", "stack"}, NEW v \in Value, Put(p, v),
           NEW extra, v \in Known \cup extra
    PROVE  Takes(extra)
<1>1. cur \in Context
  BY DEF BaseInv, TypeOK
<1>2. /\ cur' \in Context /\ cur'.phase = cur.phase
      /\ cur'.pval = cur.pval /\ cur'.caught = cur.caught /\ cur'.mark = cur.mark
      /\ cur'[p] = v /\ \A q \in Places : q # p => cur'[q] = cur[q]
  <2>1. cur' = [cur EXCEPT ![p] = v]
    BY DEF Put
  <2>2. CASE p = "local"
    BY <1>1, <2>1, <2>2 DEF Context, Places
  <2>3. CASE p = "stack"
    BY <1>1, <2>1, <2>3 DEF Context, Places
  <2> QED
    BY <2>2, <2>3
<1>3. \A q \in Places : cur'[q] \in Known \cup extra
  BY <1>2, Kinds
<1> QED
  BY <1>2, <1>3 DEF Takes, PhaseOK

Moves == StoreLocal \/ LoadLocal \/ Drop \/ GetField \/ WeakRefValue
Raises == ThrowToFinally \/ ThrowToCatch \/ EndFinally \/ EndCatch

LEMMA MovesTake ==
    ASSUME BaseInv, Moves
    PROVE  Takes({}) /\ UNCHANGED <<heap, cell, made, others>>
<1>0. cur \in Context /\ HeapOK
  BY BaseTypes DEF BaseInv, TypeOK
<1>1. cur.local \in Value /\ cur.stack \in Value /\ \A p \in Places : cur[p] \in Value
  BY <1>0, ContextTypes
<1>2. CASE StoreLocal
  <2>1. cur' = [cur EXCEPT !.local = cur.stack, !.stack = Nothing]
    BY <1>2 DEF StoreLocal
  <2> DEFINE v == cur.stack
  <2>2. v \in Value /\ Nothing \in Value
    BY <1>1, Values
  <2>3. /\ cur' \in Context /\ cur'.phase = cur.phase
        /\ cur'.pval = cur.pval /\ cur'.caught = cur.caught /\ cur'.mark = cur.mark
        /\ cur'.local = v /\ cur'.stack = Nothing
    <3>1. cur' = [cur EXCEPT !.local = v, !.stack = Nothing]
      BY <2>1
    <3> HIDE DEF v
    <3> QED
      BY <1>0, <2>2, <3>1 DEF Context
  <2>4. \A q \in Places : cur'[q] \in Known
    BY <2>3, Kinds
  <2> QED
    BY <1>2, <2>3, <2>4 DEF Takes, PhaseOK, StoreLocal
<1>3. CASE LoadLocal
  BY <1>1, <1>3, Kinds, PutTakes DEF LoadLocal
<1>4. CASE Drop
  BY <1>4, Kinds, Values, PutTakes DEF Drop
<1>5. CASE GetField
  <2>1. cur.stack.idx \in 1..Len(heap)
    <3>1. cur.stack.idx \in 1..MaxHeap /\ cur.stack.idx <= Len(heap)
      BY <1>1, <1>5, Values DEF GetField
    <3> QED
      BY <1>0, <3>1, StructHeapAssumption DEF HeapOK
  <2>2. heap[cur.stack.idx].field \in Value /\ heap[cur.stack.idx].field \in Known
    BY <1>0, <2>1, StructTypes, Kinds
  <2> QED
    BY <1>5, <2>2, PutTakes DEF GetField
<1>6. CASE WeakRefValue
  BY <1>6, BaseTypes, Kinds, PutTakes DEF WeakRefValue
<1> QED
  BY <1>2, <1>3, <1>4, <1>5, <1>6 DEF Moves

LEMMA RaisesTake ==
    ASSUME BaseInv, Raises
    PROVE  Takes({}) /\ UNCHANGED <<heap, cell, made, others>>
<1>0. cur \in Context
  BY DEF BaseInv, TypeOK
<1> DEFINE v == cur.stack
           w == cur.mark
<1>1. v \in Value /\ w \in Value /\ Nothing \in Value
  BY <1>0, ContextTypes, Values
<1>2. v \in Known /\ w \in Known /\ Nothing \in Known
  BY Kinds
<1>3. CASE ThrowToFinally
  <2>1. cur' = [cur EXCEPT !.phase = "finally", !.pval = v, !.mark = v, !.stack = Nothing]
    BY <1>3 DEF ThrowToFinally
  <2>2. cur.phase = "normal" /\ UNCHANGED <<heap, cell, made, others>>
    BY <1>3 DEF ThrowToFinally
  <2> HIDE DEF v, w
  <2>3. /\ cur' \in Context /\ cur'.phase = "finally" /\ cur'.caught = cur.caught
        /\ cur'.local = cur.local /\ cur'.stack = Nothing /\ cur'.pval = v /\ cur'.mark = v
    BY <1>0, <1>1, <2>1 DEF Context
  <2>4. \A q \in Places : cur'[q] \in Known
    BY <1>2, <2>3, Kinds
  <2> QED
    BY <2>2, <2>3, <2>4 DEF Takes, PhaseOK
<1>4. CASE ThrowToCatch
  <2>1. cur' = [cur EXCEPT !.phase = "catch", !.caught = v]
    BY <1>4 DEF ThrowToCatch
  <2>2. cur.phase = "normal" /\ UNCHANGED <<heap, cell, made, others>>
    BY <1>4 DEF ThrowToCatch
  <2> HIDE DEF v, w
  <2>3. /\ cur' \in Context /\ cur'.phase = "catch" /\ cur'.caught = v
        /\ cur'.local = cur.local /\ cur'.stack = cur.stack
        /\ cur'.pval = cur.pval /\ cur'.mark = cur.mark
    BY <1>0, <1>1, <2>1 DEF Context
  <2>4. \A q \in Places : cur'[q] \in Known
    BY <1>2, <2>3, Kinds
  <2> QED
    BY <2>2, <2>3, <2>4 DEF Takes, PhaseOK
<1>5. CASE EndFinally
  <2>1. cur' = [cur EXCEPT !.phase = "catch", !.caught = w, !.stack = w,
                           !.pval = Nothing, !.mark = Nothing]
    BY <1>5 DEF EndFinally
  <2>2. UNCHANGED <<heap, cell, made, others>>
    BY <1>5 DEF EndFinally
  <2> HIDE DEF v, w
  <2>3. /\ cur' \in Context /\ cur'.phase = "catch" /\ cur'.caught = w
        /\ cur'.local = cur.local /\ cur'.stack = w
        /\ cur'.pval = Nothing /\ cur'.mark = Nothing
    BY <1>0, <1>1, <2>1 DEF Context
  <2>4. \A q \in Places : cur'[q] \in Known
    BY <1>2, <2>3, Kinds
  <2> QED
    BY <2>2, <2>3, <2>4 DEF Takes, PhaseOK
<1>6. CASE EndCatch
  <2>1. cur' = [cur EXCEPT !.phase = "normal", !.caught = Nothing]
    BY <1>6 DEF EndCatch
  <2>2. cur.phase = "catch" /\ UNCHANGED <<heap, cell, made, others>>
    BY <1>6 DEF EndCatch
  <2>3. /\ cur' \in Context /\ cur'.phase = "normal" /\ cur'.caught = Nothing
        /\ cur'.local = cur.local /\ cur'.stack = cur.stack
        /\ cur'.pval = cur.pval /\ cur'.mark = cur.mark
    BY <1>0, <1>1, <2>1 DEF Context
  <2>4. \A q \in Places : cur'[q] \in Known
    BY <1>2, <2>3, Kinds
  <2> QED
    BY <2>2, <2>3, <2>4 DEF Takes, PhaseOK
<1> QED
  BY <1>3, <1>4, <1>5, <1>6 DEF Raises


-----------------------------------------------------------------------------
(***************************************************************************)
(* What the steps of finalizers do to the entries.                         *)
(***************************************************************************)
LEMMA FinalizerTypes ==
    /\ \A f \in Finalizer :
          /\ f.target \in Reference \cup {Nothing} /\ f.target \in Value
          /\ f.callback \in Value /\ f.field \in Value /\ f.runs \in Nat
          /\ f.status \in {"active", "collected", "called"}
<1>1. \A f \in Finalizer :
          /\ f.target \in Reference \cup {Nothing}
          /\ f.callback \in Value /\ f.field \in Value /\ f.runs \in Nat
          /\ f.status \in {"active", "collected", "called"}
  BY DEF Finalizer
<1> QED
  BY <1>1, Values

\* Those who wait in s have their turn before those who wait in t.
LEMMA JoinTurns ==
    ASSUME NEW l \in Nat, NEW s \in Seq(1..l), NEW t \in Seq(1..l)
    PROVE  /\ s \o t \in Seq(1..l)
           /\ \A i : Occurs(i, s \o t) <=> Occurs(i, s) \/ Occurs(i, t)
           /\ Injective(s) /\ Injective(t) /\ (\A i : ~(Occurs(i, s) /\ Occurs(i, t)))
              => Injective(s \o t)
<1> DEFINE u == s \o t
           m == Len(s)
           c == Len(t)
<1>1. /\ m \in Nat /\ c \in Nat /\ u \in Seq(1..l) /\ Len(u) = m + c
      /\ \A j \in 1..(m + c) : u[j] = IF j <= m THEN s[j] ELSE t[j - m]
  BY ConcatProperties
<1> HIDE DEF u, m, c
<1>2. \A j \in 1..m : j \in 1..(m + c) /\ u[j] = s[j]
  BY <1>1
<1>3. ASSUME NEW n \in 1..c PROVE m + n \in 1..(m + c) /\ u[m + n] = t[n]
  <2>1. m + n \in 1..(m + c) /\ ~(m + n <= m) /\ (m + n) - m = n
    BY <1>1
  <2> QED
    BY <1>1, <2>1
<1>4. ASSUME NEW j \in 1..(m + c), ~(j \in 1..m) PROVE j - m \in 1..c /\ u[j] = t[j - m]
  BY <1>1, <1>4
<1>5. ASSUME NEW i, Occurs(i, u) PROVE Occurs(i, s) \/ Occurs(i, t)
  <2>1. PICK j \in 1..(m + c) : u[j] = i
    BY <1>1, <1>5 DEF Occurs
  <2>2. CASE j \in 1..m
    BY <1>2, <2>1, <2>2 DEF Occurs, m
  <2>3. CASE ~(j \in 1..m)
    BY <1>4, <2>1, <2>3 DEF Occurs, c
  <2> QED
    BY <2>2, <2>3
<1>6. ASSUME NEW i, Occurs(i, s) PROVE Occurs(i, u)
  <2>1. PICK j \in 1..m : s[j] = i
    BY <1>6 DEF Occurs, m
  <2> QED
    BY <1>1, <1>2, <2>1 DEF Occurs
<1>7. ASSUME NEW i, Occurs(i, t) PROVE Occurs(i, u)
  <2>1. PICK n \in 1..c : t[n] = i
    BY <1>7 DEF Occurs, c
  <2> QED
    BY <1>1, <1>3, <2>1 DEF Occurs
<1>8. ASSUME Injective(s), Injective(t), \A i : ~(Occurs(i, s) /\ Occurs(i, t)),
             NEW j \in 1..(m + c), NEW k \in 1..(m + c), u[j] = u[k]
      PROVE  j = k
  <2>1. ASSUME NEW a \in 1..(m + c), a \in 1..m PROVE Occurs(u[a], s)
    BY <1>2, <2>1 DEF Occurs, m
  <2>2. ASSUME NEW a \in 1..(m + c), ~(a \in 1..m) PROVE Occurs(u[a], t)
    BY <1>4, <2>2 DEF Occurs, c
  <2>3. CASE j \in 1..m /\ k \in 1..m
    BY <1>2, <1>8, <2>3 DEF Injective, m
  <2>4. CASE ~(j \in 1..m) /\ ~(k \in 1..m)
    <3>1. j - m \in 1..c /\ k - m \in 1..c /\ t[j - m] = t[k - m]
      BY <1>4, <1>8, <2>4
    <3>2. j - m = k - m
      BY <1>8, <3>1 DEF Injective, c
    <3> QED
      BY <1>1, <3>2
  <2> QED
    BY <1>8, <2>1, <2>2, <2>3, <2>4
<1>9. (Injective(s) /\ Injective(t) /\ \A i : ~(Occurs(i, s) /\ Occurs(i, t))) => Injective(u)
  BY <1>1, <1>8 DEF Injective
<1> QED
  BY <1>1, <1>5, <1>6, <1>7, <1>9 DEF u

\* Those in S have one turn each.
LEMMA SetTurns ==
    ASSUME NEW l \in Nat, NEW S \in SUBSET (1..l)
    PROVE  /\ InOrder(S) \in Seq(1..l) /\ \A i : Occurs(i, InOrder(S)) <=> i \in S
           /\ Injective(InOrder(S))
<1> DEFINE t == InOrder(S)
           c == Cardinality(S)
<1>1. Positions(S)
  BY PositionsUpTo
<1>2. /\ c \in Nat /\ t \in Seq(S) /\ Len(t) = c
      /\ \A n \in 1..c : t[n] \in S /\ Rank(S, t[n]) = n
      /\ \A k \in S : Rank(S, k) \in 1..c /\ t[Rank(S, k)] = k
  BY <1>1, InOrderLists
<1> HIDE DEF t, c
<1>3. t \in Seq(1..l)
  BY <1>2, SeqMonotonic
<1>4. \A i : Occurs(i, t) <=> i \in S
  BY <1>2 DEF Occurs
<1>5. Injective(t)
  BY <1>2 DEF Injective
<1> QED
  BY <1>3, <1>4, <1>5 DEF t

\* Entry g is entry f but for its status.
Status(f, g, s) ==
    /\ g.target = f.target /\ g.callback = f.callback /\ g.field = f.field
    /\ g.runs = f.runs /\ g.status = s

LEMMA TakeEffect ==
    ASSUME BaseInv, NEW S \in SUBSET (1..Len(finalizers)), Take(S)
    PROVE  /\ finalizers' \in Seq(Finalizer) /\ Len(finalizers') = Len(finalizers)
           /\ \A i \in 1..Len(finalizers) :
                 IF i \in S THEN Status(finalizers[i], finalizers'[i], "called")
                            ELSE finalizers'[i] = finalizers[i]
           /\ pending' \in Seq(1..Len(finalizers))
           /\ \A i : Occurs(i, pending') <=> i \in S \/ Occurs(i, pending)
           /\ Injective(pending) /\ (\A i \in S : ~Occurs(i, pending)) => Injective(pending')
<1> DEFINE l == Len(finalizers)
           new(i) == [finalizers[i] EXCEPT !.status = "called"]
<1>1. l \in Nat /\ \A i \in 1..l : finalizers[i] \in Finalizer
  BY BaseTypes
<1>2. finalizers' = [i \in 1..l |-> IF i \in S THEN new(i) ELSE finalizers[i]]
  BY DEF Take
<1>3. ASSUME NEW i \in 1..l
      PROVE  new(i) \in Finalizer /\ Status(finalizers[i], new(i), "called")
  <2> DEFINE x == finalizers[i]
  <2>1. x \in Finalizer /\ new(i) = [x EXCEPT !.status = "called"]
    BY <1>1
  <2> HIDE DEF x, new
  <2>2. new(i) \in Finalizer /\ Status(x, new(i), "called")
    BY <2>1 DEF Finalizer, Status
  <2> QED
    BY <2>2 DEF x
<1>4. pending' = InOrder(S) \o pending /\ pending \in Seq(1..l)
  BY BaseTypes DEF Take
<1>6. /\ InOrder(S) \in Seq(1..l) /\ \A i : Occurs(i, InOrder(S)) <=> i \in S
      /\ Injective(InOrder(S))
  BY <1>1, SetTurns
<1>7. /\ pending' \in Seq(1..l)
      /\ \A i : Occurs(i, pending') <=> i \in S \/ Occurs(i, pending)
      /\ Injective(pending) /\ (\A i \in S : ~Occurs(i, pending)) => Injective(pending')
  <2> HIDE DEF l
  <2> QED
    BY <1>1, <1>4, <1>6, JoinTurns
<1> HIDE DEF new
<1>10. /\ finalizers' \in Seq(Finalizer) /\ Len(finalizers') = l
       /\ \A i \in 1..l : finalizers'[i] = IF i \in S THEN new(i) ELSE finalizers[i]
  <2> HIDE DEF l
  <2> QED
    BY <1>1, <1>2, <1>3
<1> QED
  BY <1>3, <1>7, <1>10

LEMMA FirstAndRest ==
    ASSUME NEW T, NEW s \in Seq(T), s # <<>>
    PROVE  /\ Head(s) \in T /\ Len(s) \in Nat \ {0} /\ Head(s) = s[1]
           /\ Tail(s) \in Seq(T) /\ Len(Tail(s)) = Len(s) - 1
           /\ \A j \in 1..Len(Tail(s)) : Tail(s)[j] = s[j + 1]
OBVIOUS

LEMMA RestTurns ==
    ASSUME NEW s, NEW t, NEW h, Len(s) \in Nat \ {0}, h = s[1], Len(t) = Len(s) - 1,
           \A j \in 1..Len(t) : t[j] = s[j + 1]
    PROVE  /\ Occurs(h, s) /\ \A i : Occurs(i, t) => Occurs(i, s)
           /\ \A i : Occurs(i, s) => i = h \/ Occurs(i, t)
           /\ Injective(s) => Injective(t) /\ ~Occurs(h, t)
<1> DEFINE m == Len(s)
           n == Len(t)
<1>1. m \in Nat \ {0} /\ n = m - 1 /\ \A j \in 1..n : t[j] = s[j + 1]
  OBVIOUS
<1> HIDE DEF m, n
<1>2. /\ 1 \in 1..m /\ \A j \in 1..n : j + 1 \in 1..m /\ j + 1 # 1
      /\ \A j, k \in 1..n : j + 1 = k + 1 => j = k
  BY <1>1
<1>3. Occurs(h, s) /\ \A i : Occurs(i, t) => Occurs(i, s)
  BY <1>1, <1>2 DEF Occurs, m, n
<1>4. ASSUME NEW i, Occurs(i, s) PROVE i = h \/ Occurs(i, t)
  <2>1. PICK j \in 1..m : s[j] = i
    BY <1>4 DEF Occurs, m
  <2>2. CASE j = 1
    BY <2>1, <2>2
  <2>3. CASE j # 1
    <3>1. j - 1 \in 1..n /\ (j - 1) + 1 = j
      BY <1>1, <2>3
    <3>2. t[j - 1] = i
      BY <1>1, <2>1, <3>1
    <3> QED
      BY <3>1, <3>2 DEF Occurs, n
  <2> QED
    BY <2>2, <2>3
<1>5. ASSUME Injective(s) PROVE Injective(t) /\ ~Occurs(h, t)
  <2>1. \A j, k \in 1..m : s[j] = s[k] => j = k
    BY <1>5 DEF Injective, m
  <2>2. \A j, k \in 1..n : t[j] = t[k] => j = k
    BY <1>1, <1>2, <2>1
  <2>3. \A j \in 1..n : t[j] # h
    BY <1>1, <1>2, <2>1
  <2> QED
    BY <2>2, <2>3 DEF Injective, Occurs, n
<1> QED
  BY <1>3, <1>4, <1>5

LEMMA RunEffect ==
    ASSUME BaseInv, RunFinalizer
    PROVE  /\ Head(pending) \in 1..Len(finalizers)
           /\ finalizers' \in Seq(Finalizer) /\ Len(finalizers') = Len(finalizers)
           /\ \A i \in 1..Len(finalizers) :
                 IF i = Head(pending)
                 THEN /\ finalizers'[i].target = Nothing /\ finalizers'[i].callback = Nothing
                      /\ finalizers'[i].field = Nothing /\ finalizers'[i].status = "called"
                      /\ finalizers'[i].runs = finalizers[i].runs + 1
                 ELSE finalizers'[i] = finalizers[i]
           /\ pending' \in Seq(1..Len(finalizers)) /\ Occurs(Head(pending), pending)
           /\ \A i : Occurs(i, pending') => Occurs(i, pending)
           /\ \A i : Occurs(i, pending) => i = Head(pending) \/ Occurs(i, pending')
           /\ Injective(pending) => Injective(pending') /\ ~Occurs(Head(pending), pending')
           /\ Takes({finalizers[Head(pending)].callback, Object(finalizers[Head(pending)])})
<1> DEFINE l == Len(finalizers)
           h == Head(pending)
           r == finalizers[h].runs + 1
           new == [target |-> Nothing, callback |-> Nothing, field |-> Nothing,
                   status |-> "called", runs |-> r]
<1>1. l \in Nat /\ (\A i \in 1..l : finalizers[i] \in Finalizer) /\ finalizers \in Seq(Finalizer)
  BY BaseTypes
<1>2. pending \in Seq(1..l) /\ pending # <<>>
  BY BaseTypes DEF RunFinalizer
<1>3. /\ h \in 1..l /\ Len(pending) \in Nat \ {0} /\ h = pending[1]
      /\ Tail(pending) \in Seq(1..l) /\ Len(Tail(pending)) = Len(pending) - 1
      /\ \A j \in 1..Len(Tail(pending)) : Tail(pending)[j] = pending[j + 1]
  BY <1>2, FirstAndRest
<1>4. finalizers' = [finalizers EXCEPT ![h] = new]
  BY DEF RunFinalizer
<1>5. finalizers[h] \in Finalizer
  BY <1>1, <1>3
<1>6. r \in Nat
  BY <1>5, FinalizerTypes
<1>7. /\ new \in Finalizer /\ new.target = Nothing /\ new.callback = Nothing
      /\ new.field = Nothing /\ new.status = "called" /\ new.runs = r
  <2> HIDE DEF r
  <2> QED
    BY <1>6, Values DEF Finalizer
<1>8. Takes({finalizers[h].callback, Object(finalizers[h])})
  <2>1. PICK v \in {cur.stack, finalizers[h].callback, Object(finalizers[h])} : Put("stack", v)
    BY DEF RunFinalizer
  <2>2. cur.stack \in Value
    BY ContextTypes DEF BaseInv, TypeOK
  <2>3. v \in Value
    BY <1>5, <2>2, FinalizerTypes DEF Object
  <2>4. v \in Known \cup {finalizers[h].callback, Object(finalizers[h])}
    BY Kinds
  <2> QED
    BY <2>1, <2>3, <2>4, PutTakes
<1>9. pending' = Tail(pending)
  BY DEF RunFinalizer
<1> HIDE DEF new
<1>10. /\ finalizers' \in Seq(Finalizer) /\ Len(finalizers') = l
       /\ \A i \in 1..l : finalizers'[i] = IF i = h THEN new ELSE finalizers[i]
  <2> HIDE DEF h
  <2> QED
    BY <1>1, <1>3, <1>4, <1>7
<1> HIDE DEF l, h
<1>11. /\ Occurs(h, pending) /\ \A i : Occurs(i, pending') => Occurs(i, pending)
       /\ \A i : Occurs(i, pending) => i = h \/ Occurs(i, pending')
       /\ Injective(pending) => Injective(pending') /\ ~Occurs(h, pending')
  BY <1>3, <1>9, RestTurns
<1> QED
  BY <1>3, <1>7, <1>8, <1>9, <1>10, <1>11 DEF l, h

-----------------------------------------------------------------------------
(***************************************************************************)
(* What a compaction does to everything that refers into the heap.         *)
(***************************************************************************)
LEMMA MoreTurns ==
    ASSUME NEW l \in Nat, NEW s \in Seq(1..l), NEW S \in SUBSET (1..l)
    PROVE  /\ s \o InOrder(S) \in Seq(1..l)
           /\ \A i : Occurs(i, s \o InOrder(S)) <=> Occurs(i, s) \/ i \in S
           /\ Injective(s) /\ (\A i \in S : ~Occurs(i, s)) => Injective(s \o InOrder(S))
BY SetTurns, JoinTurns

Dying(live) ==
    {i \in 1..Len(finalizers) : Active(finalizers[i]) /\ finalizers[i].target.idx \notin live}

\* Contexts and roots are rewritten; what is kept of exceptions, in the running one, is not.
Rewrites(live) ==
    /\ cur' \in Context /\ parked' \in Context
    /\ cur'.local = Remap(cur.local, live) /\ cur'.stack = Remap(cur.stack, live)
    /\ cur'.pval = cur.pval /\ cur'.caught = cur.caught /\ cur'.mark = cur.mark
    /\ cur'.phase = cur.phase
    /\ parked'.local = Remap(parked.local, live) /\ parked'.stack = Remap(parked.stack, live)
    /\ parked'.pval = Remap(parked.pval, live) /\ parked'.caught = Remap(parked.caught, live)
    /\ parked'.mark = parked.mark /\ parked'.phase = parked.phase
    /\ transient' = Remap(transient, live) /\ transient' \in Value
    /\ cell' = RemapCell(live) /\ cell' \in Reference \cup {Nothing}
    /\ weak' \in Reference \cup {Nothing}

\* Entry g is what a compaction makes of entry f, which waits for its struct.
Followed(f, g, live) ==
    /\ g.target = Remap(f.target, live) /\ g.callback = Remap(f.callback, live)
    /\ g.field = Remap(f.field, live) /\ g.runs = f.runs
    /\ g.status = IF f.target.idx \in live THEN "active" ELSE "collected"

Follows(live) ==
    /\ finalizers' \in Seq(Finalizer) /\ Len(finalizers') = Len(finalizers)
    /\ \A i \in 1..Len(finalizers) :
          /\ ~Active(finalizers[i]) => finalizers'[i] = finalizers[i]
          /\ Active(finalizers[i]) => Followed(finalizers[i], finalizers'[i], live)
    /\ pending' \in Seq(1..Len(finalizers))
    /\ \A i : Occurs(i, pending') <=> Occurs(i, pending) \/ i \in Dying(live)
    /\ Injective(pending) /\ (\A i \in Dying(live) : ~Occurs(i, pending)) => Injective(pending')

LEMMA RemapTypes ==
    ASSUME BaseInv, NEW live, Moved(live)
    PROVE  /\ Positions(live) /\ Cardinality(live) <= MaxHeap
           /\ \A v \in Value :
                 /\ Remap(v, live) \in Value
                 /\ v \in Reference \cup {Nothing} => Remap(v, live) \in Reference \cup {Nothing}
<1>1. Len(heap) <= MaxHeap /\ MaxHeap \in Nat /\ Len(heap) \in Nat
  BY BaseTypes DEF HeapOK
<1>2. Positions(live) /\ Cardinality(live) \in Nat /\ Cardinality(live) <= Len(heap)
  BY DEF Moved
<1>3. Cardinality(live) <= MaxHeap
  BY <1>1, <1>2
<1> QED
  BY <1>2, <1>3, RemapValue

LEMMA CompactRewrites ==
    ASSUME BaseInv, NEW strong, Compact(strong)
    PROVE  Rewrites(Mark(Roots))
<1> DEFINE live == Mark(Roots)
           a == Remap(cur.local, live)
           b == Remap(cur.stack, live)
           c == Remap(parked.local, live)
           d == Remap(parked.stack, live)
           e == Remap(parked.pval, live)
           f == Remap(parked.caught, live)
<1>1. /\ cell' = RemapCell(live)
      /\ cur' = [cur EXCEPT !.local = a, !.stack = b]
      /\ parked' = [parked EXCEPT !.local = c, !.stack = d, !.pval = e, !.caught = f]
      /\ transient' = Remap(transient, live)
      /\ weak' = WeakAfter(live, strong)
  BY DEF Compact, RemapTask
<1>2. Moved(live)
  BY CompactMoves
<1> HIDE DEF live
<1>3. \A v \in Value :
         /\ Remap(v, live) \in Value
         /\ v \in Reference \cup {Nothing} => Remap(v, live) \in Reference \cup {Nothing}
  BY <1>2, RemapTypes
<1>4. /\ cur \in Context /\ parked \in Context /\ transient \in Value
      /\ cell \in Reference \cup {Nothing} /\ weak \in Reference \cup {Nothing}
  BY DEF BaseInv, TypeOK
<1>5. a \in Value /\ b \in Value /\ c \in Value /\ d \in Value /\ e \in Value /\ f \in Value
  BY <1>3, <1>4, ContextTypes
<1>6. cell' \in Reference \cup {Nothing}
  BY <1>1, <1>3, <1>4, Values DEF RemapCell
<1>7. weak' \in Reference \cup {Nothing}
  BY <1>1, <1>3, <1>4, Values DEF WeakAfter
<1>8. transient' \in Value
  BY <1>1, <1>3, <1>4
<1> HIDE DEF a, b, c, d, e, f
<1>9. /\ cur' \in Context /\ cur'.local = a /\ cur'.stack = b
      /\ cur'.pval = cur.pval /\ cur'.caught = cur.caught /\ cur'.mark = cur.mark
      /\ cur'.phase = cur.phase
  BY <1>1, <1>4, <1>5 DEF Context
<1>10. /\ parked' \in Context /\ parked'.local = c /\ parked'.stack = d
       /\ parked'.pval = e /\ parked'.caught = f /\ parked'.mark = parked.mark
       /\ parked'.phase = parked.phase
  BY <1>1, <1>4, <1>5 DEF Context
<1>11. Rewrites(live)
  BY <1>1, <1>6, <1>7, <1>8, <1>9, <1>10 DEF Rewrites, a, b, c, d, e, f
<1> QED
  BY <1>11 DEF live

LEMMA CompactFollows ==
    ASSUME BaseInv, NEW strong, Compact(strong)
    PROVE  Follows(Mark(Roots))
<1> DEFINE live == Mark(Roots)
           l == Len(finalizers)
<1>1. /\ finalizers' = [i \in 1..l |-> RemapFinalizer(finalizers[i], live)]
      /\ pending' = pending \o InOrder(Dying(live))
  BY DEF Compact, Dead, Dying
<1>2. Moved(live)
  BY CompactMoves
<1> HIDE DEF live
<1>3. \A v \in Value :
         /\ Remap(v, live) \in Value
         /\ v \in Reference \cup {Nothing} => Remap(v, live) \in Reference \cup {Nothing}
  BY <1>2, RemapTypes
<1>4. /\ l \in Nat /\ (\A i \in 1..l : finalizers[i] \in Finalizer)
      /\ pending \in Seq(1..l) /\ Dying(live) \in SUBSET (1..l)
  BY BaseTypes DEF Dying
<1>5. ASSUME NEW x \in Finalizer
      PROVE  /\ RemapFinalizer(x, live) \in Finalizer
             /\ ~Active(x) => RemapFinalizer(x, live) = x
             /\ Active(x) => Followed(x, RemapFinalizer(x, live), live)
  <2> DEFINE a == Remap(x.callback, live)
             b == Remap(x.field, live)
             c == Remap(x.target, live)
             d == IF x.target.idx \in live THEN "active" ELSE "collected"
  <2>1. CASE ~Active(x)
    BY <2>1 DEF RemapFinalizer
  <2>2. CASE Active(x)
    <3>1. RemapFinalizer(x, live) =
             [x EXCEPT !.callback = a, !.field = b, !.status = d, !.target = c]
      BY <2>2 DEF RemapFinalizer, Active
    <3>2. /\ a \in Value /\ b \in Value /\ c \in Reference \cup {Nothing}
          /\ d \in {"active", "collected", "called"}
      BY <1>3, FinalizerTypes
    <3> DEFINE y == RemapFinalizer(x, live)
    <3>3. y = [x EXCEPT !.callback = a, !.field = b, !.status = d, !.target = c]
      BY <3>1
    <3> HIDE DEF a, b, c, d, y
    <3>4. /\ y \in Finalizer /\ y.target = c /\ y.callback = a /\ y.field = b
          /\ y.runs = x.runs /\ y.status = d
      BY <3>2, <3>3 DEF Finalizer
    <3>5. Followed(x, y, live)
      BY <3>4 DEF Followed, a, b, c, d
    <3> QED
      BY <2>2, <3>4, <3>5 DEF y
  <2> QED
    BY <2>1, <2>2
<1>6. /\ finalizers' \in Seq(Finalizer) /\ Len(finalizers') = l
      /\ \A i \in 1..l : finalizers'[i] = RemapFinalizer(finalizers[i], live)
  <2> DEFINE new(i) == RemapFinalizer(finalizers[i], live)
  <2>1. finalizers' = [i \in 1..l |-> new(i)] /\ \A i \in 1..l : new(i) \in Finalizer
    BY <1>1, <1>4, <1>5
  <2> HIDE DEF new, l
  <2>2. /\ finalizers' \in Seq(Finalizer) /\ Len(finalizers') = l
        /\ \A i \in 1..l : finalizers'[i] = new(i)
    BY <1>4, <2>1
  <2> QED
    BY <2>2 DEF new
<1>7. /\ pending' \in Seq(1..l)
      /\ \A i : Occurs(i, pending') <=> Occurs(i, pending) \/ i \in Dying(live)
      /\ Injective(pending) /\ (\A i \in Dying(live) : ~Occurs(i, pending)) => Injective(pending')
  <2> HIDE DEF l
  <2> QED
    BY <1>1, <1>4, MoreTurns
<1>8. Follows(live)
  BY <1>4, <1>5, <1>6, <1>7 DEF Follows
<1> QED
  BY <1>8 DEF live

-----------------------------------------------------------------------------
(***************************************************************************)
(* What the other steps do.                                                *)
(***************************************************************************)
LEMMA NewStructEffect ==
    ASSUME BaseInv, NewStruct
    PROVE  /\ made' = made + 1 /\ made' \in 1..MaxId
           /\ heap' \in Seq(Struct) /\ Len(heap') = Len(heap) + 1 /\ Len(heap') <= MaxHeap
           /\ \A i \in 1..Len(heap) : heap'[i] = heap[i]
           /\ heap'[Len(heap')].id = made' /\ heap'[Len(heap')].field \in {Nothing, cur.local}
           /\ Takes({Ref(Len(heap'), made')})
<1> DEFINE l == Len(heap)
           d == made'
<1>1. /\ HeapOK /\ l \in Nat /\ MaxHeap \in Nat /\ MaxId \in Nat /\ made \in 0..MaxId
      /\ heap \in Seq(Struct)
  BY BaseTypes, StructHeapAssumption DEF HeapOK, BaseInv, TypeOK
<1>2. l < MaxHeap /\ made < MaxId /\ made' = made + 1
  BY DEF NewStruct
<1>3. d \in 1..MaxId
  BY <1>1, <1>2
<1>4. PICK v \in {Nothing, cur.local} : heap' = Append(heap, [id |-> made', field |-> v])
  BY DEF NewStruct
<1>5. v \in Value
  BY Values, ContextTypes DEF BaseInv, TypeOK
<1> DEFINE new == [id |-> d, field |-> v]
<1>6. new \in Struct /\ new.id = d /\ new.field = v
  BY <1>3, <1>5 DEF Struct
<1>7. heap' = Append(heap, new)
  BY <1>4
<1> HIDE DEF new, d
<1>8. /\ heap' \in Seq(Struct) /\ Len(heap') = l + 1
      /\ (\A i \in 1..l : heap'[i] = heap[i]) /\ heap'[l + 1] = new
  BY <1>1, <1>6, <1>7, AppendProperties
<1>9. Len(heap') \in 1..MaxHeap
  BY <1>1, <1>2, <1>8
<1>10. Takes({Ref(Len(heap'), made')})
  <2>1. Ref(Len(heap'), made') \in Value
    BY <1>3, <1>9, Refs DEF d
  <2>2. Put("stack", Ref(Len(heap'), made'))
    BY DEF NewStruct
  <2> QED
    BY <2>1, <2>2, PutTakes
<1> QED
  BY <1>2, <1>3, <1>6, <1>8, <1>9, <1>10 DEF d

LEMMA FreshContext ==
    ASSUME NEW m \in BOOLEAN, NEW v \in Value
    PROVE  /\ Fresh(m) \in Context /\ PhaseOK(Fresh(m)) /\ Fresh(m).phase = "normal"
           /\ \A p \in Places : Fresh(m)[p] = Nothing
           /\ [Fresh(m) EXCEPT !.local = v] \in Context
           /\ PhaseOK([Fresh(m) EXCEPT !.local = v])
           /\ \A p \in Places : [Fresh(m) EXCEPT !.local = v][p] \in {Nothing, v}
<1>1. Nothing \in Value
  BY Values
<1> QED
  BY <1>1 DEF Fresh, Context, PhaseOK, Places

LEMMA ResetEffect ==
    ASSUME BaseInv, ResetForInput
    PROVE  /\ Takes({}) /\ PhaseOK(cur') /\ parked' \in Context /\ PhaseOK(parked')
           /\ parked'.phase = "normal" /\ \A p \in Places : parked'[p] = Nothing
           /\ transient' = Nothing /\ pending' = <<>>
           /\ UNCHANGED <<heap, cell, weak, finalizers, made>>
<1>1. PICK v \in {cur.local, cur.stack} : cur' = [Fresh(TRUE) EXCEPT !.local = v]
  BY DEF ResetForInput
<1>2. v \in Value /\ v \in Known /\ Nothing \in Known
  BY Kinds, ContextTypes DEF BaseInv, TypeOK
<1>3. cur' \in Context /\ PhaseOK(cur') /\ \A p \in Places : cur'[p] \in {Nothing, v}
  BY <1>1, <1>2, FreshContext
<1>4. /\ parked' \in Context /\ PhaseOK(parked') /\ parked'.phase = "normal"
      /\ \A p \in Places : parked'[p] = Nothing
  BY Values, FreshContext DEF ResetForInput
<1>5. Takes({})
  BY <1>2, <1>3 DEF Takes
<1> QED
  BY <1>3, <1>4, <1>5 DEF ResetForInput

LEMMA RegisterEffect ==
    ASSUME BaseInv, RegisterFinalizer
    PROVE  /\ finalizers' \in Seq(Finalizer) /\ Len(finalizers') = Len(finalizers) + 1
           /\ \A i \in 1..Len(finalizers) : finalizers'[i] = finalizers[i]
           /\ Active(finalizers'[Len(finalizers')]) /\ finalizers'[Len(finalizers')].runs = 0
           /\ finalizers'[Len(finalizers')].target = cur.local /\ cur.local \in Reference
           /\ "captures" \notin Shapes =>
                 /\ finalizers'[Len(finalizers')].callback = Nothing
                 /\ finalizers'[Len(finalizers')].field = Nothing
<1> DEFINE l == Len(finalizers)
           v == cur.local
           w == heap[cur.local.idx].field
<1>1. HeapOK /\ l \in Nat /\ finalizers \in Seq(Finalizer) /\ cur.local \in Value /\ cur.stack \in Value
  BY BaseTypes, ContextTypes DEF BaseInv, TypeOK
<1>2. v \in Reference /\ v.idx \in 1..Len(heap)
  <2>1. v \in Reference /\ v.idx \in 1..MaxHeap /\ v.idx <= Len(heap)
    BY <1>1, Values DEF RegisterFinalizer
  <2> QED
    BY <1>1, <2>1, StructHeapAssumption DEF HeapOK
<1>3. w \in Value
  BY <1>1, <1>2, StructTypes
<1>4. PICK cb \in {Nothing, cur.stack} :
         /\ "captures" \in Shapes \/ (cb = Nothing /\ w = Nothing)
         /\ finalizers' = Append(finalizers, [target |-> v, callback |-> cb, field |-> w,
                                              status |-> "active", runs |-> 0])
  BY DEF RegisterFinalizer
<1>5. cb \in Value
  BY <1>1, Values
<1> DEFINE new == [target |-> v, callback |-> cb, field |-> w, status |-> "active", runs |-> 0]
<1>6. /\ new \in Finalizer /\ new.target = v /\ new.callback = cb /\ new.field = w
      /\ Active(new) /\ new.runs = 0
  <2> HIDE DEF v, w
  <2> QED
    BY <1>2, <1>3, <1>5 DEF Finalizer, Active
<1>7. finalizers' = Append(finalizers, new)
  BY <1>4
<1> HIDE DEF new, v, w
<1>8. /\ finalizers' \in Seq(Finalizer) /\ Len(finalizers') = l + 1
      /\ (\A i \in 1..l : finalizers'[i] = finalizers[i]) /\ finalizers'[l + 1] = new
  BY <1>1, <1>6, <1>7, AppendProperties
<1> QED
  BY <1>2, <1>4, <1>6, <1>8 DEF v

LEMMA TakenFinalizers ==
    ASSUME Finalize \/ ExitFinalizers
    PROVE  \E S \in SUBSET (1..Len(finalizers)) :
              Take(S) /\ \A i \in S : Active(finalizers[i])
BY DEF Finalize, ExitFinalizers

-----------------------------------------------------------------------------
(***************************************************************************)
(* Types, for every program.                                               *)
(***************************************************************************)
LEMMA BaseTypesNext ==
    ASSUME heap' \in Seq(Struct), Len(heap') <= MaxHeap, cell' \in Reference \cup {Nothing},
           cur' \in Context, parked' \in Context, transient' \in Value,
           weak' \in Reference \cup {Nothing}, finalizers' \in Seq(Finalizer),
           pending' \in Seq(1..Len(finalizers')), made' \in 0..MaxId
    PROVE  BaseInv'
BY DEF BaseInv, TypeOK, SizeInv, Struct, Finalizer

LEMMA BaseInit ==
    ASSUME Init
    PROVE  BaseInv
<1>1. Nothing \in Value /\ Fresh(TRUE) \in Context /\ Fresh(FALSE) \in Context
  BY Values, FreshContext
<1>2. /\ heap = <<>> /\ finalizers = <<>> /\ pending = <<>> /\ cell = Nothing
      /\ cur \in Context /\ parked \in Context /\ transient = Nothing /\ weak = Nothing
      /\ made = 0
  BY <1>1 DEF Init
<1>3. /\ heap \in Seq(Struct) /\ finalizers \in Seq(Finalizer)
      /\ pending \in Seq(1..Len(finalizers)) /\ Len(heap) = 0
  BY <1>2, EmptySeq
<1>4. made \in 0..MaxId /\ Len(heap) <= MaxHeap
  BY <1>2, <1>3, StructHeapAssumption
<1> QED
  BY <1>1, <1>2, <1>3, <1>4 DEF BaseInv, TypeOK, SizeInv, Struct, Finalizer

LEMMA CompactBase ==
    ASSUME BaseInv, NEW strong, Compact(strong), UNCHANGED made
    PROVE  BaseInv'
<1> DEFINE live == Mark(Roots)
<1>1. Moved(live) /\ Rewrites(live) /\ Follows(live)
  BY CompactMoves, CompactRewrites, CompactFollows
<1> HIDE DEF live
<1>2. Len(heap) <= MaxHeap /\ MaxHeap \in Nat /\ Len(heap) \in Nat
  BY BaseTypes DEF HeapOK
<1>3. heap' \in Seq(Struct) /\ Len(heap') <= Len(heap) /\ Len(heap') \in Nat
  BY <1>1 DEF Moved
<1>4. Len(heap') <= MaxHeap
  BY <1>2, <1>3
<1>5. made' \in 0..MaxId
  BY DEF BaseInv, TypeOK
<1>6. pending' \in Seq(1..Len(finalizers')) /\ finalizers' \in Seq(Finalizer)
  BY <1>1 DEF Follows
<1>7. /\ cur' \in Context /\ parked' \in Context /\ transient' \in Value
      /\ cell' \in Reference \cup {Nothing} /\ weak' \in Reference \cup {Nothing}
  BY <1>1 DEF Rewrites
<1> QED
  BY <1>3, <1>4, <1>5, <1>6, <1>7, BaseTypesNext

LEMMA BaseKept ==
    ASSUME BaseInv, Next
    PROVE  BaseInv'
<1>1. /\ heap \in Seq(Struct) /\ Len(heap) \in Nat /\ Len(heap) <= MaxHeap
      /\ cell \in Reference \cup {Nothing} /\ cur \in Context /\ parked \in Context
      /\ transient \in Value /\ weak \in Reference \cup {Nothing}
      /\ finalizers \in Seq(Finalizer) /\ Len(finalizers) \in Nat
      /\ pending \in Seq(1..Len(finalizers)) /\ made \in 0..MaxId
  BY BaseTypes DEF BaseInv, TypeOK, HeapOK
<1>2. CASE Moves \/ Raises
  <2>1. cur' \in Context /\ UNCHANGED <<heap, cell, made, others>>
    BY <1>2, MovesTake, RaisesTake DEF Takes
  <2> QED
    BY <1>1, <2>1, BaseTypesNext DEF others
<1>3. CASE NewStruct
  <2>1. /\ cur' \in Context /\ heap' \in Seq(Struct) /\ Len(heap') <= MaxHeap
        /\ made' \in 0..MaxId
    BY <1>3, NewStructEffect, StructHeapAssumption DEF Takes
  <2>2. UNCHANGED <<cell, others>>
    BY <1>3 DEF NewStruct
  <2> QED
    BY <1>1, <2>1, <2>2, BaseTypesNext DEF others
<1>4. CASE NewRef
  <2>1. cell' \in Reference \cup {Nothing}
    BY <1>1, <1>4, ContextTypes, Values DEF NewRef
  <2>2. cur' \in Context
    <3>1. Cell \in Value /\ Put("stack", Cell) /\ Cell \in Known \cup {Cell}
      BY <1>4, Values DEF NewRef
    <3> QED
      BY <3>1, PutTakes DEF Takes
  <2>3. UNCHANGED <<heap, made, others>>
    BY <1>4 DEF NewRef
  <2> QED
    BY <1>1, <2>1, <2>2, <2>3, BaseTypesNext DEF others
<1>5. CASE PushTransientRoot \/ EndTransientRootFrame
  <2>1. transient' \in Value
    BY <1>1, <1>5, ContextTypes, Values DEF PushTransientRoot, EndTransientRootFrame
  <2>2. cur' \in Context
    <3>1. \E v \in {Nothing, transient} : Put("stack", v)
      BY <1>5 DEF PushTransientRoot, EndTransientRootFrame
    <3> QED
      BY <1>1, <3>1, Values, Kinds, PutTakes DEF Takes
  <2>3. UNCHANGED <<heap, cell, parked, weak, finalizers, pending, made>>
    BY <1>5 DEF PushTransientRoot, EndTransientRootFrame
  <2> QED
    BY <1>1, <2>1, <2>2, <2>3, BaseTypesNext
<1>6. CASE SwitchTask
  BY <1>1, <1>6, BaseTypesNext DEF SwitchTask
<1>7. CASE SetWeakRef
  <2>1. weak' \in Reference \cup {Nothing}
    BY <1>1, <1>7, ContextTypes, Values DEF SetWeakRef
  <2>2. UNCHANGED <<heap, cell, cur, parked, transient, finalizers, pending, made>>
    BY <1>7 DEF SetWeakRef
  <2> QED
    BY <1>1, <2>1, <2>2, BaseTypesNext
<1>8. CASE RegisterFinalizer
  <2>1. finalizers' \in Seq(Finalizer) /\ Len(finalizers') = Len(finalizers) + 1
    BY <1>8, RegisterEffect
  <2>2. UNCHANGED <<heap, cell, cur, parked, transient, weak, pending, made>>
    BY <1>8 DEF RegisterFinalizer
  <2>3. 1..Len(finalizers) \subseteq 1..Len(finalizers')
    BY <1>1, <2>1
  <2>4. pending' \in Seq(1..Len(finalizers'))
    BY <1>1, <2>2, <2>3, SeqMonotonic
  <2> QED
    BY <1>1, <2>1, <2>2, <2>4, BaseTypesNext
<1>9. CASE Finalize \/ ExitFinalizers
  <2>1. PICK S \in SUBSET (1..Len(finalizers)) : Take(S)
    BY <1>9, TakenFinalizers
  <2>2. finalizers' \in Seq(Finalizer) /\ pending' \in Seq(1..Len(finalizers'))
    BY <2>1, TakeEffect
  <2>3. UNCHANGED <<heap, cell, cur, parked, transient, weak, made>>
    BY <2>1 DEF Take
  <2> QED
    BY <1>1, <2>2, <2>3, BaseTypesNext
<1>10. CASE RunFinalizer
  <2>1. finalizers' \in Seq(Finalizer) /\ pending' \in Seq(1..Len(finalizers')) /\ cur' \in Context
    BY <1>10, RunEffect DEF Takes
  <2>2. UNCHANGED <<heap, cell, parked, transient, weak, made>>
    BY <1>10 DEF RunFinalizer
  <2> QED
    BY <1>1, <2>1, <2>2, BaseTypesNext
<1>11. CASE Gc
  <2>1. CASE CanCompact
    BY <1>11, <2>1, CompactBase DEF Gc
  <2>2. CASE ~CanCompact
    <3>1. /\ weak' = WeakAfter({}, Mark(FrameRoots))
          /\ UNCHANGED <<heap, cell, cur, parked, transient, finalizers, pending, made>>
      BY <1>11, <2>2 DEF Gc
    <3>2. weak' \in {Nothing, weak}
      BY <3>1 DEF WeakAfter, Remap
    <3> QED
      BY <1>1, <3>1, <3>2, BaseTypesNext
  <2> QED
    BY <2>1, <2>2
<1>12. CASE CompactAfterInput
  BY <1>12, CompactBase DEF CompactAfterInput
<1>13. CASE ResetForInput
  <2>1. /\ cur' \in Context /\ parked' \in Context /\ transient' = Nothing /\ pending' = <<>>
        /\ UNCHANGED <<heap, cell, weak, finalizers, made>>
    BY <1>13, ResetEffect DEF Takes
  <2>2. pending' \in Seq(1..Len(finalizers')) /\ transient' \in Value
    BY <2>1, Values
  <2> QED
    BY <1>1, <2>1, <2>2, BaseTypesNext
<1> QED
  BY <1>2, <1>3, <1>4, <1>5, <1>6, <1>7, <1>8, <1>9, <1>10, <1>11, <1>12, <1>13
  DEF Next, Moves, Raises

\* Whatever the program is, the heap and everything that refers into it keep their
\* types: no compaction produces an index beyond the bound of the heap.
THEOREM HeapTypes == Spec => []TypeOK
<1>1. BaseInv /\ UNCHANGED vars => BaseInv'
  BY DEF BaseInv, TypeOK, SizeInv, vars
<1>2. BaseInv => TypeOK
  BY DEF BaseInv
<1> QED
  BY <1>1, <1>2, BaseInit, BaseKept, PTL DEF Spec

-----------------------------------------------------------------------------
(***************************************************************************)
(* Every finalizer runs once, unless one of them throws.                   *)
(***************************************************************************)
LEMMA EmptyTurns ==
    ASSUME NEW s, s = <<>>
    PROVE  Injective(s) /\ \A i : ~Occurs(i, s)
<1>1. Len(s) = 0
  OBVIOUS
<1>2. 1..Len(s) = {}
  BY <1>1
<1> QED
  BY <1>2 DEF Injective, Occurs

LEMMA TurnInit ==
    ASSUME Init
    PROVE  TurnInv
<1>1. Len(finalizers) = 0 /\ pending = <<>>
  BY DEF Init
<1>2. 1..Len(finalizers) = {}
  BY <1>1
<1> QED
  BY <1>1, <1>2, EmptyTurns DEF TurnInv

LEMMA CompactTurns ==
    ASSUME BaseInv, TurnInv, NEW strong, Compact(strong)
    PROVE  TurnInv'
<1> DEFINE live == Mark(Roots)
<1>1. Follows(live)
  BY CompactFollows
<1> HIDE DEF live
<1>2. \A i \in Dying(live) : i \in 1..Len(finalizers) /\ Active(finalizers[i])
  BY DEF Dying
<1>3. \A i \in Dying(live) : ~Occurs(i, pending)
  BY <1>2 DEF TurnInv, Due
<1>4. Injective(pending')
  BY <1>1, <1>3 DEF Follows, TurnInv
<1>5. ASSUME NEW i \in 1..Len(finalizers)
      PROVE  IF Occurs(i, pending') THEN Due(finalizers'[i]) ELSE Settled(finalizers'[i])
  <2>1. Occurs(i, pending') <=> Occurs(i, pending) \/ i \in Dying(live)
    BY <1>1 DEF Follows
  <2>2. CASE ~Active(finalizers[i])
    BY <1>1, <1>2, <2>1, <2>2 DEF Follows, TurnInv
  <2>3. CASE Active(finalizers[i])
    <3>1. Followed(finalizers[i], finalizers'[i], live)
      BY <1>1, <2>3 DEF Follows
    <3>2. ~Occurs(i, pending) /\ finalizers[i].runs = 0
      BY <2>3 DEF TurnInv, Due, Settled
    <3>3. i \in Dying(live) <=> finalizers[i].target.idx \notin live
      BY <2>3 DEF Dying
    <3> QED
      BY <2>1, <3>1, <3>2, <3>3 DEF Followed, Due, Settled, Active
  <2> QED
    BY <2>2, <2>3
<1>6. Len(finalizers') = Len(finalizers)
  BY <1>1 DEF Follows
<1> QED
  BY <1>4, <1>5, <1>6 DEF TurnInv

LEMMA TurnKept ==
    ASSUME BaseInv, TurnInv, Next, "throws" \notin Shapes
    PROVE  TurnInv'
<1>1. /\ Injective(pending)
      /\ \A i \in 1..Len(finalizers) :
            IF Occurs(i, pending) THEN Due(finalizers[i]) ELSE Settled(finalizers[i])
  BY DEF TurnInv
<1>2. ASSUME UNCHANGED <<finalizers, pending>> PROVE TurnInv'
  BY <1>1, <1>2 DEF TurnInv
<1>3. CASE Moves \/ Raises
  BY <1>2, <1>3, MovesTake, RaisesTake DEF others
<1>4. CASE NewStruct \/ NewRef
  BY <1>2, <1>4 DEF NewStruct, NewRef, others
<1>5. CASE PushTransientRoot \/ EndTransientRootFrame \/ SwitchTask \/ SetWeakRef
  BY <1>2, <1>5 DEF PushTransientRoot, EndTransientRootFrame, SwitchTask, SetWeakRef
<1>6. CASE RegisterFinalizer
  <2>1. /\ Len(finalizers') = Len(finalizers) + 1 /\ Len(finalizers) \in Nat
        /\ \A i \in 1..Len(finalizers) : finalizers'[i] = finalizers[i]
        /\ Active(finalizers'[Len(finalizers')]) /\ finalizers'[Len(finalizers')].runs = 0
    BY <1>6, RegisterEffect, BaseTypes
  <2>2. pending' = pending /\ pending \in Seq(1..Len(finalizers))
    BY <1>6, BaseTypes DEF RegisterFinalizer
  <2>3. ~Occurs(Len(finalizers) + 1, pending)
    <3>1. \A j \in 1..Len(pending) : pending[j] \in 1..Len(finalizers)
      BY <2>2, ElementOfSeq
    <3>2. Len(finalizers) + 1 \notin 1..Len(finalizers)
      BY <2>1
    <3> QED
      BY <3>1, <3>2 DEF Occurs
  <2>4. \A i \in 1..Len(finalizers') : i \in 1..Len(finalizers) \/ i = Len(finalizers')
    BY <2>1
  <2>5. Settled(finalizers'[Len(finalizers')])
    BY <2>1 DEF Settled
  <2>6. Len(finalizers') = Len(finalizers) + 1
    BY <2>1
  <2>7. \A i \in 1..Len(finalizers) : finalizers'[i] = finalizers[i]
    BY <2>1
  <2>8. ASSUME NEW i \in 1..Len(finalizers')
        PROVE  IF Occurs(i, pending) THEN Due(finalizers'[i]) ELSE Settled(finalizers'[i])
    <3>1. CASE i \in 1..Len(finalizers)
      BY <1>1, <2>7, <3>1
    <3>2. CASE i = Len(finalizers')
      BY <2>3, <2>5, <2>6, <3>2
    <3> QED
      BY <2>4, <3>1, <3>2
  <2> QED
    BY <1>1, <2>2, <2>8 DEF TurnInv
<1>7. CASE Finalize \/ ExitFinalizers
  <2>1. PICK S \in SUBSET (1..Len(finalizers)) : Take(S) /\ \A i \in S : Active(finalizers[i])
    BY <1>7, TakenFinalizers
  <2>2. \A i \in S : ~Occurs(i, pending) /\ finalizers[i].runs = 0
    BY <1>1, <2>1 DEF Due, Settled
  <2>3. Injective(pending')
    BY <1>1, <2>1, <2>2, TakeEffect
  <2>4. /\ Len(finalizers') = Len(finalizers)
        /\ \A i : Occurs(i, pending') <=> i \in S \/ Occurs(i, pending)
        /\ \A i \in 1..Len(finalizers) :
              IF i \in S THEN Status(finalizers[i], finalizers'[i], "called")
                         ELSE finalizers'[i] = finalizers[i]
    BY <2>1, TakeEffect
  <2>5. ASSUME NEW i \in S PROVE Due(finalizers'[i])
    <3>1. Status(finalizers[i], finalizers'[i], "called") /\ finalizers[i].runs = 0
      BY <2>1, <2>2, <2>4, <2>5
    <3> QED
      BY <3>1 DEF Status, Due, Active
  <2> QED
    BY <1>1, <2>3, <2>4, <2>5 DEF TurnInv
<1>8. CASE RunFinalizer
  <2> DEFINE h == Head(pending)
  <2>1. /\ h \in 1..Len(finalizers) /\ Len(finalizers') = Len(finalizers)
        /\ Occurs(h, pending) /\ \A i : Occurs(i, pending') => Occurs(i, pending)
        /\ \A i : Occurs(i, pending) => i = h \/ Occurs(i, pending')
        /\ Injective(pending) => Injective(pending') /\ ~Occurs(h, pending')
        /\ \A i \in 1..Len(finalizers) : i # h => finalizers'[i] = finalizers[i]
        /\ finalizers'[h].status = "called" /\ finalizers'[h].runs = finalizers[h].runs + 1
    BY <1>8, RunEffect
  <2> HIDE DEF h
  <2>2. Settled(finalizers'[h])
    <3>1. finalizers[h].runs = 0
      BY <1>1, <2>1 DEF Due
    <3> QED
      BY <2>1, <3>1 DEF Settled, Active
  <2>3. ASSUME NEW i \in 1..Len(finalizers)
        PROVE  IF Occurs(i, pending') THEN Due(finalizers'[i]) ELSE Settled(finalizers'[i])
    <3>1. CASE i = h
      BY <1>1, <2>1, <2>2, <3>1
    <3>2. CASE i # h
      BY <1>1, <2>1, <3>2
    <3> QED
      BY <3>1, <3>2
  <2> QED
    BY <1>1, <2>1, <2>3 DEF TurnInv
<1>9. CASE Gc
  <2>1. CASE CanCompact
    BY <1>9, <2>1, CompactTurns DEF Gc
  <2>2. CASE ~CanCompact
    BY <1>2, <1>9, <2>2 DEF Gc
  <2> QED
    BY <2>1, <2>2
<1>10. CASE CompactAfterInput
  BY <1>10, CompactTurns DEF CompactAfterInput
<1>11. CASE ResetForInput
  <2>1. pending = <<>> /\ pending' = <<>> /\ finalizers' = finalizers
    BY <1>11 DEF ResetForInput
  <2> QED
    BY <1>2, <2>1
<1> QED
  BY <1>3, <1>4, <1>5, <1>6, <1>7, <1>8, <1>9, <1>10, <1>11 DEF Next, Moves, Raises

\* Whichever of finalize, a collection and the exit takes a finalizer off first, it
\* runs once and is not lost, if no finalizer throws while others wait.
THEOREM FinalizersRunOnce ==
    ASSUME "throws" \notin Shapes
    PROVE  Spec => []FinalizersOnce
<1> DEFINE Inv == BaseInv /\ TurnInv
<1>1. Init => Inv
  BY BaseInit, TurnInit
<1>2. Inv /\ [Next]_vars => Inv'
  <2>1. CASE Next
    BY <2>1, BaseKept, TurnKept
  <2>2. CASE UNCHANGED vars
    BY <2>2 DEF BaseInv, TypeOK, SizeInv, TurnInv, vars
  <2> QED
    BY <2>1, <2>2
<1>3. Inv => FinalizersOnce
  <2> SUFFICES ASSUME Inv, NEW i \in 1..Len(finalizers)
               PROVE  finalizers[i].runs + Cardinality({j \in 1..Len(pending) : pending[j] = i})
                      + (IF Active(finalizers[i]) THEN 1 ELSE 0) = 1
    BY DEF FinalizersOnce
  <2> DEFINE T == {j \in 1..Len(pending) : pending[j] = i}
  <2>1. CASE Occurs(i, pending)
    <3>1. PICK j \in 1..Len(pending) : pending[j] = i
      BY <2>1 DEF Occurs
    <3>2. T = {j}
      BY <3>1 DEF TurnInv, Injective
    <3>3. Cardinality(T) = 1
      BY <3>2, FS_Singleton
    <3>4. finalizers[i].runs = 0 /\ ~Active(finalizers[i])
      BY <2>1 DEF TurnInv, Due
    <3> QED
      BY <3>3, <3>4
  <2>2. CASE ~Occurs(i, pending)
    <3>1. T = {}
      BY <2>2 DEF Occurs
    <3>2. Cardinality(T) = 0
      BY <3>1, FS_EmptySet
    <3>3. finalizers[i].runs = IF Active(finalizers[i]) THEN 0 ELSE 1
      BY <2>2 DEF TurnInv, Settled
    <3> QED
      BY <3>2, <3>3
  <2> QED
    BY <2>1, <2>2
<1> HIDE DEF Inv
<1> QED
  BY <1>1, <1>2, <1>3, PTL DEF Spec

-----------------------------------------------------------------------------
(***************************************************************************)
(* References stay sound.                                                  *)
(***************************************************************************)
\* The programs the invariant holds for.
Ordinary == "finally" \notin Shapes /\ "captures" \notin Shapes /\ "nested" \notin Shapes

RefInv == PhaseInv /\ IdInv /\ SoundInv /\ FinalizerInv

\* What a value is after the step: v names its struct in the new heap.
Names(v) ==
    LET w == IF v = Cell THEN cell' ELSE v
    IN  IsRef(w) => w.idx <= Len(heap') /\ heap'[w.idx].id = w.id

Grows ==
    /\ Len(heap') \in Nat /\ Len(heap) <= Len(heap')
    /\ \A i \in 1..Len(heap) : heap'[i] = heap[i]

LEMMA RefPlace ==
    ASSUME BaseInv, NEW v \in Value, IsRef(v), v.idx <= Len(heap)
    PROVE  v.idx \in 1..Len(heap)
<1>1. v.idx \in 1..MaxHeap /\ MaxHeap \in Nat /\ Len(heap) \in Nat
  BY Values, BaseTypes DEF HeapOK
<1> QED
  BY <1>1

LEMMA SoundNothing == Sound(Nothing) /\ Names(Nothing)
BY Values DEF Sound, Names

LEMMA GrowSound ==
    ASSUME BaseInv, Grows, NEW v \in Value, Sound(v), cell' = cell \/ v # Cell
    PROVE  Names(v)
<1> DEFINE w == IF v = Cell THEN cell ELSE v
<1>1. w \in Value
  BY Values DEF BaseInv, TypeOK
<1>2. IsRef(w) => w.idx <= Len(heap) /\ heap[w.idx].id = w.id
  BY DEF Sound
<1>3. Names(v) <=> (IsRef(w) => w.idx <= Len(heap') /\ heap'[w.idx].id = w.id)
  BY DEF Names
<1> HIDE DEF w
<1>4. ASSUME IsRef(w) PROVE w.idx <= Len(heap') /\ heap'[w.idx].id = w.id
  <2>1. w.idx \in 1..Len(heap) /\ Len(heap) \in Nat
    BY <1>1, <1>2, <1>4, RefPlace, BaseTypes DEF HeapOK
  <2>2. w.idx <= Len(heap')
    BY <2>1 DEF Grows
  <2> QED
    BY <1>2, <1>4, <2>1, <2>2 DEF Grows
<1> QED
  BY <1>3, <1>4

\* What was marked is named at its new place.
LEMMA MoveSound ==
    ASSUME BaseInv, NEW live, Moved(live), NEW v \in Value, Sound(v), Direct(v) \subseteq live,
           v = Cell => cell' = Remap(cell, live)
    PROVE  Names(Remap(v, live))
<1> DEFINE w == IF v = Cell THEN cell ELSE v
           x == Remap(w, live)
           n == Rank(live, w.idx)
<1>1. w \in Value /\ w # Cell
  BY Values DEF BaseInv, TypeOK
<1>2. IsRef(w) => w.idx <= Len(heap) /\ heap[w.idx].id = w.id
  BY DEF Sound
<1>3. IsRef(w) => w.idx \in live
  BY <1>2 DEF Direct
<1>4. Positions(live) /\ Cardinality(live) <= MaxHeap
  BY RemapTypes
<1>5. /\ x \in Value /\ x # Cell /\ (IsRef(x) <=> IsRef(w))
      /\ IsRef(w) /\ w.idx \in live => x.id = w.id /\ x.idx = n
  BY <1>1, <1>4, RemapValue
<1>6. (Remap(v, live) = Cell <=> v = Cell) /\ (v = Cell => Remap(v, live) = Cell)
  BY <1>4, RemapValue
<1>7. Names(Remap(v, live)) <=> (IsRef(x) => x.idx <= Len(heap') /\ heap'[x.idx].id = x.id)
  <2>1. CASE v = Cell
    BY <1>6, <2>1 DEF Names
  <2>2. CASE v # Cell
    BY <1>6, <2>2 DEF Names
  <2> QED
    BY <2>1, <2>2
<1> HIDE DEF w, x
<1>8. ASSUME IsRef(x) PROVE x.idx <= Len(heap') /\ heap'[x.idx].id = x.id
  <2>1. IsRef(w) /\ w.idx \in live /\ x.id = w.id /\ x.idx = n
    BY <1>3, <1>5, <1>8
  <2>2. n \in 1..Len(heap') /\ heap'[n].id = heap[w.idx].id
    BY <2>1 DEF Moved
  <2>3. n <= Len(heap')
    BY <2>2 DEF Moved
  <2> QED
    BY <1>2, <2>1, <2>2, <2>3
<1> QED
  BY <1>7, <1>8

LEMMA KnownSound ==
    ASSUME BaseInv, SoundInv
    PROVE  \A v \in Known : v \in Value /\ Sound(v)
<1>1. Nothing \in Value /\ weak \in Value /\ transient \in Value
  BY Values, BaseTypes
<1>2. \A p \in Places : cur[p] \in Value /\ parked[p] \in Value
  BY ContextTypes DEF BaseInv, TypeOK
<1>3. \A i \in 1..Len(heap) : heap[i].field \in Value
  BY BaseTypes, StructTypes
<1> QED
  BY <1>1, <1>2, <1>3, SoundNothing DEF Known, SoundInv

\* What the new values have to be.
LEMMA SoundNext ==
    ASSUME \A p \in Places : Names(cur'[p]) /\ Names(parked'[p]),
           Names(transient'), Names(weak'),
           \A i \in 1..Len(heap') : Names(heap'[i].field)
    PROVE  SoundInv'
BY DEF SoundInv, Sound, Names

\* What the entries of finalizers have to be.
Kept(i) ==
    /\ finalizers'[i].callback = Nothing /\ finalizers'[i].field = Nothing
    /\ Active(finalizers'[i]) => IsRef(finalizers'[i].target) /\ Names(finalizers'[i].target)
    /\ finalizers'[i].status = "called" /\ Occurs(i, pending') => Names(finalizers'[i].target)
    /\ finalizers'[i].status = "collected" /\ finalizers'[i].runs = 0 =>
          /\ IsRef(finalizers'[i].target)
          /\ \A k \in 1..Len(heap') : heap'[k].id # finalizers'[i].target.id

LEMMA FinalizersNext ==
    ASSUME \A i \in 1..Len(finalizers') : Kept(i)
    PROVE  FinalizerInv'
BY DEF FinalizerInv, Kept, Sound, Names

-----------------------------------------------------------------------------
\* Steps that leave the structs where they are: the program and its tasks go on
\* with what is known.
LEMMA GrowKept ==
    ASSUME BaseInv, RefInv, Grows, cell' = cell, Len(heap') = Len(heap),
           Takes({}), parked' \in Context, PhaseOK(parked'), parked'.phase # "finally",
           \A p \in Places : parked'[p] \in Known,
           transient' \in Known, weak' \in Known,
           UNCHANGED <<finalizers, made>>,
           \A i : Occurs(i, pending') => Occurs(i, pending)
    PROVE  RefInv'
<1>1. PhaseInv /\ IdInv /\ SoundInv /\ FinalizerInv
  BY DEF RefInv
<1>2. ASSUME NEW v \in Known PROVE Names(v)
  BY <1>1, <1>2, KnownSound, GrowSound
<1>3. \A i \in 1..Len(heap) : heap'[i] = heap[i]
  BY DEF Grows
<1>4. PhaseInv'
  BY <1>1 DEF PhaseInv, Takes
<1>5. IdInv'
  BY <1>1, <1>3 DEF IdInv
<1>6. SoundInv'
  <2>1. \A p \in Places : Names(cur'[p]) /\ Names(parked'[p])
    BY <1>2 DEF Takes
  <2>2. \A i \in 1..Len(heap') : Names(heap'[i].field)
    BY <1>2, <1>3, Kinds
  <2> QED
    BY <1>2, <2>1, <2>2, SoundNext
<1>7. FinalizerInv'
  <2>1. ASSUME NEW i \in 1..Len(finalizers) PROVE Kept(i)
    <3>1. finalizers[i].target \in Value
      BY BaseTypes, FinalizerTypes
    <3>2. Sound(finalizers[i].target) => Names(finalizers[i].target)
      BY <3>1, GrowSound
    <3> QED
      BY <1>1, <1>3, <3>2 DEF FinalizerInv, Kept
  <2> QED
    BY <2>1, FinalizersNext
<1> QED
  BY <1>4, <1>5, <1>6, <1>7 DEF RefInv

LEMMA NewStructRefs ==
    ASSUME BaseInv, RefInv, NewStruct
    PROVE  RefInv'
<1> DEFINE l == Len(heap)
           n == Len(heap')
           r == Ref(n, made')
<1>1. PhaseInv /\ IdInv /\ SoundInv /\ FinalizerInv
  BY DEF RefInv
<1>2. /\ made' = made + 1 /\ made' \in 1..MaxId /\ heap' \in Seq(Struct)
      /\ n = l + 1 /\ n <= MaxHeap /\ l \in Nat /\ made \in Nat
      /\ \A i \in 1..l : heap'[i] = heap[i]
      /\ heap'[n].id = made' /\ heap'[n].field \in {Nothing, cur.local}
      /\ Takes({r})
  BY NewStructEffect, BaseTypes DEF HeapOK, BaseInv, TypeOK
<1>3. UNCHANGED <<cell, parked, transient, weak, finalizers, pending>>
  BY DEF NewStruct, others
<1>4. Grows
  BY <1>2 DEF Grows
<1>5. r \in Reference /\ IsRef(r) /\ r.idx = n /\ r.id = made' /\ r # Cell
  <2>1. n \in 1..MaxHeap
    BY <1>2, BaseTypes
  <2> QED
    BY <1>2, <2>1, Refs, Values
<1>6. Names(r)
  <2> HIDE DEF r
  <2> QED
    BY <1>2, <1>5 DEF Names
<1>7. ASSUME NEW v \in Known PROVE Names(v)
  BY <1>1, <1>3, <1>4, <1>7, KnownSound, GrowSound
<1> HIDE DEF r
<1>8. \A i \in 1..n : i \in 1..l \/ i = n
  BY <1>2
<1>9. SoundInv'
  <2>1. \A p \in Places : Names(cur'[p]) /\ Names(parked'[p])
    BY <1>2, <1>3, <1>6, <1>7, Kinds DEF Takes
  <2>2. Names(transient') /\ Names(weak')
    BY <1>3, <1>7, Kinds
  <2>3. \A i \in 1..n : Names(heap'[i].field)
    BY <1>2, <1>7, <1>8, Kinds
  <2> QED
    BY <2>1, <2>2, <2>3, SoundNext
<1>10. PhaseInv'
  BY <1>1, <1>2, <1>3 DEF PhaseInv, Takes
<1>11. IdInv'
  <2>1. \A i \in 1..l : heap'[i].id \in Int /\ heap'[i].id <= made
    BY <1>1, <1>2, BaseTypes, StructTypes DEF IdInv
  <2>2. \A i \in 1..n : heap'[i].id <= made'
    BY <1>2, <1>8, <2>1
  <2>3. \A i \in 1..l : heap'[i].id # heap'[n].id
    BY <1>2, <2>1
  <2>4. \A i, j \in 1..n : heap'[i].id = heap'[j].id => i = j
    BY <1>1, <1>2, <1>8, <2>3 DEF IdInv
  <2>5. \A i \in 1..Len(finalizers) :
           IsRef(finalizers[i].target) => finalizers[i].target.id <= made'
    <3> SUFFICES ASSUME NEW i \in 1..Len(finalizers), IsRef(finalizers[i].target)
                 PROVE  finalizers[i].target.id <= made'
      OBVIOUS
    <3>1. finalizers[i].target.id \in 1..MaxId /\ finalizers[i].target.id <= made
      BY <1>1, BaseTypes, FinalizerTypes, Values DEF IdInv
    <3> QED
      BY <1>2, <3>1
  <2> QED
    BY <1>3, <2>2, <2>4, <2>5 DEF IdInv
<1>12. FinalizerInv'
  <2>1. ASSUME NEW i \in 1..Len(finalizers) PROVE Kept(i)
    <3>1. finalizers[i].target \in Value
      BY BaseTypes, FinalizerTypes
    <3>2. Sound(finalizers[i].target) => Names(finalizers[i].target)
      BY <1>3, <1>4, <3>1, GrowSound
    <3>3. ASSUME finalizers[i].status = "collected", finalizers[i].runs = 0,
                 NEW k \in 1..n
          PROVE  heap'[k].id # finalizers[i].target.id
      <4>1. IsRef(finalizers[i].target) /\ finalizers[i].target.id <= made
        BY <1>1, <3>3 DEF FinalizerInv, IdInv
      <4>2. finalizers[i].target.id \in 1..MaxId
        BY <3>1, <4>1, Values
      <4>3. CASE k \in 1..l
        BY <1>1, <1>2, <3>3, <4>3 DEF FinalizerInv
      <4>4. CASE k = n
        BY <1>2, <4>1, <4>2, <4>4
      <4> QED
        BY <1>8, <4>3, <4>4
    <3> QED
      BY <1>1, <1>3, <3>2, <3>3 DEF FinalizerInv, Kept
  <2> QED
    BY <1>3, <2>1, FinalizersNext
<1> QED
  BY <1>9, <1>10, <1>11, <1>12 DEF RefInv

LEMMA NewRefRefs ==
    ASSUME BaseInv, RefInv, NewRef
    PROVE  RefInv'
<1>1. PhaseInv /\ IdInv /\ SoundInv /\ FinalizerInv
  BY DEF RefInv
<1>2. /\ IsRef(cur.stack) /\ cell' = cur.stack /\ Put("stack", Cell)
      /\ UNCHANGED <<heap, made, parked, transient, weak, finalizers, pending>>
  BY DEF NewRef, others
<1>3. Takes({Cell})
  BY <1>2, Values, PutTakes
<1>4. Grows
  BY <1>2, BaseTypes DEF Grows, HeapOK
<1>5. cur.stack \in Known /\ cur.stack # Cell
  BY <1>2, Kinds, Values
<1>6. Names(cur.stack)
  BY <1>1, <1>4, <1>5, KnownSound, GrowSound
<1>7. Names(Cell)
  BY <1>2, <1>5, <1>6 DEF Names
<1>8. ASSUME NEW v \in Known PROVE Names(v)
  <2>1. CASE v = Cell
    BY <1>7, <2>1
  <2>2. CASE v # Cell
    BY <1>1, <1>4, <1>8, <2>2, KnownSound, GrowSound
  <2> QED
    BY <2>1, <2>2
<1>9. SoundInv'
  <2>1. \A p \in Places : Names(cur'[p]) /\ Names(parked'[p])
    BY <1>2, <1>3, <1>7, <1>8, Kinds DEF Takes
  <2>2. Names(transient') /\ Names(weak')
    BY <1>2, <1>8, Kinds
  <2>3. \A i \in 1..Len(heap') : Names(heap'[i].field)
    BY <1>2, <1>8, Kinds
  <2> QED
    BY <2>1, <2>2, <2>3, SoundNext
<1>10. PhaseInv' /\ IdInv'
  BY <1>1, <1>2, <1>3 DEF PhaseInv, IdInv, Takes
<1>11. FinalizerInv'
  <2>1. ASSUME NEW i \in 1..Len(finalizers) PROVE Kept(i)
    <3>1. finalizers[i].target \in Value /\ finalizers[i].target # Cell
      BY BaseTypes, FinalizerTypes, Values
    <3>2. Sound(finalizers[i].target) => Names(finalizers[i].target)
      BY <1>4, <3>1, GrowSound
    <3> QED
      BY <1>1, <1>2, <3>2 DEF FinalizerInv, Kept
  <2> QED
    BY <1>2, <2>1, FinalizersNext
<1> QED
  BY <1>9, <1>10, <1>11 DEF RefInv

-----------------------------------------------------------------------------
\* The same, for steps that change the entries of finalizers only.
LEMMA EntriesKept ==
    ASSUME BaseInv, RefInv, UNCHANGED <<heap, cell, parked, transient, weak, made>>,
           cur' = cur \/ (Takes({Nothing}) \/ \E x \in Value : Sound(x) /\ Takes({Nothing, x})),
           \A i \in 1..Len(finalizers') : Kept(i),
           \A i \in 1..Len(finalizers') :
               IsRef(finalizers'[i].target) => finalizers'[i].target.id <= made
    PROVE  RefInv'
<1>1. PhaseInv /\ IdInv /\ SoundInv /\ FinalizerInv
  BY DEF RefInv
<1>2. Grows
  BY BaseTypes DEF Grows, HeapOK
<1>3. ASSUME NEW v \in Known PROVE Names(v)
  BY <1>1, <1>2, <1>3, KnownSound, GrowSound
<1>4. PhaseInv'
  BY <1>1 DEF PhaseInv, Takes
<1>5. IdInv'
  BY <1>1 DEF IdInv
<1>6. \A p \in Places : Names(cur'[p])
  <2>1. CASE cur' = cur
    BY <1>3, <2>1, Kinds
  <2>2. CASE Takes({Nothing})
    BY <1>3, <2>2, SoundNothing DEF Takes
  <2>3. CASE \E x \in Value : Sound(x) /\ Takes({Nothing, x})
    <3>1. PICK x \in Value : Sound(x) /\ Takes({Nothing, x})
      BY <2>3
    <3>2. Names(x)
      BY <1>2, <3>1, GrowSound
    <3> QED
      BY <1>3, <3>1, <3>2, SoundNothing DEF Takes
  <2> QED
    BY <2>1, <2>2, <2>3
<1>7. SoundInv'
  <2>1. \A p \in Places : Names(parked'[p])
    BY <1>3, Kinds
  <2>2. \A i \in 1..Len(heap') : Names(heap'[i].field)
    BY <1>3, Kinds
  <2>3. Names(transient') /\ Names(weak')
    BY <1>3, Kinds
  <2> QED
    BY <1>6, <2>1, <2>2, <2>3, SoundNext
<1> QED
  BY <1>4, <1>5, <1>7, FinalizersNext DEF RefInv

\* Of an entry that a step leaves alone.
LEMMA EntrySame ==
    ASSUME BaseInv, RefInv, UNCHANGED <<heap, cell>>, NEW i \in 1..Len(finalizers),
           finalizers'[i] = finalizers[i], Occurs(i, pending') => Occurs(i, pending)
    PROVE  /\ Kept(i)
           /\ IsRef(finalizers'[i].target) => finalizers'[i].target.id <= made
<1>1. FinalizerInv /\ IdInv
  BY DEF RefInv
<1>2. Grows
  BY BaseTypes DEF Grows, HeapOK
<1>3. finalizers[i].target \in Value
  BY BaseTypes, FinalizerTypes
<1>4. Sound(finalizers[i].target) => Names(finalizers[i].target)
  BY <1>2, <1>3, GrowSound
<1> QED
  BY <1>1, <1>4 DEF FinalizerInv, Kept, IdInv

LEMMA RegisterRefs ==
    ASSUME BaseInv, RefInv, RegisterFinalizer, Ordinary
    PROVE  RefInv'
<1> DEFINE n == Len(finalizers')
<1>1. PhaseInv /\ IdInv /\ SoundInv /\ FinalizerInv
  BY DEF RefInv
<1>2. /\ Len(finalizers) \in Nat /\ n = Len(finalizers) + 1
      /\ \A i \in 1..Len(finalizers) : finalizers'[i] = finalizers[i]
      /\ Active(finalizers'[n]) /\ finalizers'[n].runs = 0
      /\ finalizers'[n].target = cur.local /\ cur.local \in Reference
      /\ finalizers'[n].callback = Nothing /\ finalizers'[n].field = Nothing
  BY RegisterEffect, BaseTypes DEF Ordinary
<1>3. UNCHANGED <<heap, cell, cur, parked, transient, weak, pending, made>>
  BY DEF RegisterFinalizer
<1>4. Sound(cur.local) /\ cur.local \in Value /\ IsRef(cur.local) /\ cur.local # Cell
  BY <1>1, <1>2, Values, Kinds, KnownSound
<1>5. cur.local.idx \in 1..Len(heap) /\ heap[cur.local.idx].id = cur.local.id
  <2>1. cur.local.idx <= Len(heap) /\ heap[cur.local.idx].id = cur.local.id
    BY <1>4 DEF Sound
  <2> QED
    BY <1>4, <2>1, RefPlace
<1>6. cur.local.id <= made
  BY <1>1, <1>5 DEF IdInv
<1>7. Names(cur.local)
  <2>1. Grows
    BY <1>3, BaseTypes DEF Grows, HeapOK
  <2> QED
    BY <1>3, <1>4, <2>1, GrowSound
<1>8. finalizers'[n].status = "active"
  BY <1>2 DEF Active
<1>9. Kept(n)
  BY <1>2, <1>4, <1>7, <1>8 DEF Kept
<1>10. \A i \in 1..n : i \in 1..Len(finalizers) \/ i = n
  BY <1>2
<1>11. ASSUME NEW i \in 1..n
       PROVE  /\ Kept(i)
              /\ IsRef(finalizers'[i].target) => finalizers'[i].target.id <= made
  <2>1. CASE i = n
    BY <1>2, <1>6, <1>9, <2>1
  <2>2. CASE i \in 1..Len(finalizers)
    BY <1>2, <1>3, <2>2, EntrySame
  <2> QED
    BY <1>10, <2>1, <2>2
<1> QED
  BY <1>3, <1>11, EntriesKept

LEMMA TakeRefs ==
    ASSUME BaseInv, RefInv, Finalize \/ ExitFinalizers
    PROVE  RefInv'
<1>1. FinalizerInv /\ IdInv
  BY DEF RefInv
<1>2. PICK S \in SUBSET (1..Len(finalizers)) : Take(S) /\ \A i \in S : Active(finalizers[i])
  BY TakenFinalizers
<1>3. UNCHANGED <<heap, cell, cur, parked, transient, weak, made>>
  BY <1>2 DEF Take
<1>4. /\ Len(finalizers') = Len(finalizers)
      /\ \A i : Occurs(i, pending') <=> i \in S \/ Occurs(i, pending)
      /\ \A i \in 1..Len(finalizers) :
            IF i \in S THEN Status(finalizers[i], finalizers'[i], "called")
                       ELSE finalizers'[i] = finalizers[i]
  BY <1>2, TakeEffect
<1>5. ASSUME NEW i \in 1..Len(finalizers)
      PROVE  /\ Kept(i)
             /\ IsRef(finalizers'[i].target) => finalizers'[i].target.id <= made
  <2>1. CASE i \in S
    <3>1. Status(finalizers[i], finalizers'[i], "called") /\ Active(finalizers[i])
      BY <1>2, <1>4, <2>1
    <3>2. finalizers[i].target \in Value
      BY BaseTypes, FinalizerTypes
    <3>3. Grows
      BY <1>3, BaseTypes DEF Grows, HeapOK
    <3>4. Names(finalizers[i].target)
      BY <1>1, <1>3, <3>1, <3>2, <3>3, GrowSound DEF FinalizerInv
    <3> QED
      BY <1>1, <3>1, <3>4 DEF FinalizerInv, Kept, Status, Active, IdInv
  <2>2. CASE i \notin S
    BY <1>3, <1>4, <2>2, EntrySame
  <2> QED
    BY <2>1, <2>2
<1> QED
  BY <1>3, <1>4, <1>5, EntriesKept

LEMMA RunRefs ==
    ASSUME BaseInv, RefInv, RunFinalizer
    PROVE  RefInv'
<1> DEFINE h == Head(pending)
<1>1. FinalizerInv /\ IdInv
  BY DEF RefInv
<1>2. UNCHANGED <<heap, cell, parked, transient, weak, made>>
  BY DEF RunFinalizer
<1>3. /\ h \in 1..Len(finalizers) /\ Len(finalizers') = Len(finalizers)
      /\ Occurs(h, pending) /\ \A i : Occurs(i, pending') => Occurs(i, pending)
      /\ \A i \in 1..Len(finalizers) : i # h => finalizers'[i] = finalizers[i]
      /\ finalizers'[h].target = Nothing /\ finalizers'[h].callback = Nothing
      /\ finalizers'[h].field = Nothing /\ finalizers'[h].status = "called"
      /\ Takes({finalizers[h].callback, Object(finalizers[h])})
  BY RunEffect
<1> HIDE DEF h
<1>4. finalizers[h].callback = Nothing /\ finalizers[h].field = Nothing
  BY <1>1, <1>3 DEF FinalizerInv
<1>5. Takes({Nothing}) \/ \E x \in Value : Sound(x) /\ Takes({Nothing, x})
  <2>1. CASE finalizers[h].status = "called"
    <3>1. Sound(finalizers[h].target) /\ finalizers[h].target \in Value
      BY <1>1, <1>3, <2>1, BaseTypes, FinalizerTypes DEF FinalizerInv
    <3>2. Takes({Nothing, finalizers[h].target})
      BY <1>3, <1>4, <2>1 DEF Object
    <3> QED
      BY <3>1, <3>2
  <2>2. CASE finalizers[h].status # "called"
    <3>1. Takes({Nothing, Nothing}) /\ {Nothing, Nothing} = {Nothing}
      BY <1>3, <1>4, <2>2 DEF Object
    <3> QED
      BY <3>1
  <2> QED
    BY <2>1, <2>2
<1>6. ASSUME NEW i \in 1..Len(finalizers)
      PROVE  /\ Kept(i)
             /\ IsRef(finalizers'[i].target) => finalizers'[i].target.id <= made
  <2>1. CASE i = h
    BY <1>3, <2>1, SoundNothing, Values DEF Kept, Active
  <2>2. CASE i # h
    BY <1>2, <1>3, <2>2, EntrySame
  <2> QED
    BY <2>1, <2>2
<1> QED
  BY <1>2, <1>3, <1>5, <1>6, EntriesKept

-----------------------------------------------------------------------------
\* Everybody who has the cell is reached by the pass that rewrites it.
LEMMA CellRewritten ==
    ASSUME NEW live, Rewrites(live),
           \/ Cell \in Roots
           \/ \E i \in live : heap[i].field = Cell
    PROVE  cell' = Remap(cell, live)
<1>1. cell' = RemapCell(live)
  BY DEF Rewrites
<1>2. Holders(live) # {}
  <2>1. CASE \E i \in live : heap[i].field = Cell
    BY <2>1 DEF Holders
  <2>2. CASE Cell \in {cur["local"], cur["stack"]}
    BY <2>2 DEF Holders
  <2>3. CASE Cell \in {parked["local"], parked["stack"], parked["pval"], parked["caught"]}
    BY <2>3 DEF Holders
  <2>4. CASE transient = Cell
    BY <2>4 DEF Holders
  <2> QED
    BY <2>1, <2>2, <2>3, <2>4 DEF Roots, FrameRoots, TaskRoots
<1> QED
  BY <1>1, <1>2 DEF RemapCell

LEMMA CompactRefs ==
    ASSUME BaseInv, RefInv, NEW strong, strong \subseteq Mark(Roots), Compact(strong), CanCompact,
           pending = <<>>, UNCHANGED made
    PROVE  RefInv'
<1> DEFINE live == Mark(Roots)
<1>1. PhaseInv /\ IdInv /\ SoundInv /\ FinalizerInv
  BY DEF RefInv
<1>2. Moved(live) /\ Rewrites(live) /\ Follows(live)
  BY CompactMoves, CompactRewrites, CompactFollows
<1>3. Holds(live, Roots)
  BY BaseTypes, MarkClosed
<1>4. weak' = WeakAfter(live, strong) /\ strong \subseteq live
  BY DEF Compact
<1> HIDE DEF live
<1>5. /\ live \subseteq 1..Len(heap) /\ Positions(live) /\ Cardinality(live) <= MaxHeap
      /\ \A i \in live : /\ Rank(live, i) \in 1..Len(heap')
                         /\ heap'[Rank(live, i)].id = heap[i].id
                         /\ heap'[Rank(live, i)].field = Remap(heap[i].field, live)
      /\ \A n \in 1..Len(heap') : \E i \in live : n = Rank(live, i)
  BY <1>2, RemapTypes DEF Moved
<1>6. ASSUME NEW v \in Roots, Sound(v) PROVE Names(Remap(v, live))
  <2>1. v \in Value
    BY BaseTypes
  <2>2. Direct(v) \subseteq live
    BY <1>3 DEF Holds, Closed
  <2>3. v = Cell => cell' = Remap(cell, live)
    BY <1>2, CellRewritten
  <2> QED
    BY <1>2, <1>6, <2>1, <2>2, <2>3, MoveSound
<1>7. ASSUME NEW i \in live PROVE Names(Remap(heap[i].field, live))
  <2>1. heap[i].field \in Value /\ Sound(heap[i].field)
    BY <1>1, <1>5, BaseTypes, StructTypes DEF SoundInv
  <2>2. Direct(heap[i].field) \subseteq live
    BY <1>3 DEF Holds, Closed
  <2>3. heap[i].field = Cell => cell' = Remap(cell, live)
    BY <1>2, CellRewritten
  <2> QED
    BY <1>2, <2>1, <2>2, <2>3, MoveSound
<1>8. ASSUME NEW v \in Reference, Sound(v), v.idx \in live PROVE Names(Remap(v, live))
  <2>1. v \in Value /\ v # Cell
    BY Values
  <2>2. Direct(v) \subseteq live
    BY <1>8, <2>1 DEF Direct
  <2> QED
    BY <1>2, <1>8, <2>1, <2>2, MoveSound
<1>9. Remap(Nothing, live) = Nothing
  BY <1>5, Values, RemapValue
<1>10. /\ cur.pval = Nothing /\ cur.caught = Nothing /\ cur.mark = Nothing
       /\ parked.pval = Nothing /\ parked.mark = Nothing
  BY <1>1 DEF PhaseInv, PhaseOK, CanCompact
<1>11. PhaseInv'
  <2>1. PhaseOK(cur')
    BY <1>1, <1>2 DEF PhaseInv, PhaseOK, Rewrites
  <2>2. PhaseOK(parked') /\ parked'.phase # "finally"
    BY <1>1, <1>2, <1>9 DEF PhaseInv, PhaseOK, Rewrites
  <2> QED
    BY <2>1, <2>2 DEF PhaseInv
<1>12. SoundInv'
  <2>1. \A p \in Places : Names(cur'[p])
    <3>1. Names(cur'.local) /\ Names(cur'.stack)
      <4>1. cur.local \in Roots /\ cur.stack \in Roots
        BY DEF Roots, FrameRoots
      <4>2. Sound(cur.local) /\ Sound(cur.stack)
        BY <1>1 DEF SoundInv, Places
      <4> QED
        BY <1>2, <1>6, <4>1, <4>2 DEF Rewrites
    <3>2. Names(cur'.pval) /\ Names(cur'.caught) /\ Names(cur'.mark)
      BY <1>2, <1>10, SoundNothing DEF Rewrites
    <3> QED
      BY <3>1, <3>2 DEF Places
  <2>2. \A p \in Places : Names(parked'[p])
    <3>1. /\ parked.local \in Roots /\ parked.stack \in Roots
          /\ parked.pval \in Roots /\ parked.caught \in Roots
      BY DEF Roots, FrameRoots, TaskRoots
    <3>2. Sound(parked.local) /\ Sound(parked.stack) /\ Sound(parked.pval) /\ Sound(parked.caught)
      BY <1>1 DEF SoundInv, Places
    <3>3. /\ Names(parked'.local) /\ Names(parked'.stack)
          /\ Names(parked'.pval) /\ Names(parked'.caught)
      BY <1>2, <1>6, <3>1, <3>2 DEF Rewrites
    <3>4. Names(parked'.mark)
      BY <1>2, <1>10, SoundNothing DEF Rewrites
    <3> QED
      BY <3>3, <3>4 DEF Places
  <2>3. Names(transient')
    <3>1. transient \in Roots /\ Sound(transient)
      BY <1>1 DEF Roots, FrameRoots, SoundInv
    <3> QED
      BY <1>2, <1>6, <3>1 DEF Rewrites
  <2>4. Names(weak')
    <3>1. weak \in Reference \cup {Nothing} /\ Sound(weak)
      BY <1>1 DEF BaseInv, TypeOK, SoundInv
    <3>2. CASE IsRef(weak) /\ weak.idx \notin strong
      BY <1>4, <3>2, SoundNothing DEF WeakAfter
    <3>3. CASE IsRef(weak) /\ weak.idx \in strong
      <4>1. weak \in Reference /\ weak.idx \in live
        BY <1>4, <3>1, <3>3, Values
      <4>2. weak' = Remap(weak, live)
        BY <1>4, <3>3 DEF WeakAfter
      <4> QED
        BY <1>8, <3>1, <4>1, <4>2
    <3>4. CASE ~IsRef(weak)
      <4>1. weak = Nothing
        BY <3>1, <3>4, Values
      <4>2. weak' = Nothing
        BY <1>4, <1>9, <3>4, <4>1 DEF WeakAfter
      <4> QED
        BY <4>2, SoundNothing
    <3> QED
      BY <3>2, <3>3, <3>4
  <2>5. \A n \in 1..Len(heap') : Names(heap'[n].field)
    BY <1>5, <1>7
  <2> QED
    BY <2>1, <2>2, <2>3, <2>4, <2>5, SoundNext
<1>13. IdInv'
  <2>1. \A n \in 1..Len(heap') : heap'[n].id <= made
    BY <1>1, <1>5 DEF IdInv
  <2>2. \A m, n \in 1..Len(heap') : heap'[m].id = heap'[n].id => m = n
    BY <1>1, <1>5 DEF IdInv
  <2>3. ASSUME NEW i \in 1..Len(finalizers), IsRef(finalizers'[i].target)
        PROVE  finalizers'[i].target.id <= made
    <3>1. finalizers[i].target \in Value
      BY BaseTypes, FinalizerTypes
    <3>2. CASE ~Active(finalizers[i])
      BY <1>1, <1>2, <2>3, <3>2 DEF Follows, IdInv
    <3>3. CASE Active(finalizers[i])
      <4>1. finalizers'[i].target = Remap(finalizers[i].target, live)
        BY <1>2, <3>3 DEF Follows, Followed
      <4>2. IsRef(finalizers[i].target) /\ finalizers'[i].target.id = finalizers[i].target.id
        BY <1>5, <2>3, <3>1, <4>1, RemapValue
      <4> QED
        BY <1>1, <4>2 DEF IdInv
    <3> QED
      BY <3>2, <3>3
  <2>4. Len(finalizers') = Len(finalizers)
    BY <1>2 DEF Follows
  <2> QED
    BY <2>1, <2>2, <2>3, <2>4 DEF IdInv
<1>14. FinalizerInv'
  <2>1. ASSUME NEW i \in 1..Len(finalizers) PROVE Kept(i)
    <3> DEFINE f == finalizers[i]
               g == finalizers'[i]
    <3>1. f.target \in Value /\ f.callback = Nothing /\ f.field = Nothing
      BY <1>1, BaseTypes, FinalizerTypes DEF FinalizerInv
    <3>2. Occurs(i, pending') => Active(f)
      BY <1>2, EmptyTurns DEF Follows, Dying
    <3>3. CASE ~Active(f)
      <4>1. g = f /\ ~Occurs(i, pending')
        BY <1>2, <3>2, <3>3 DEF Follows
      <4>2. ASSUME f.status = "collected", f.runs = 0
            PROVE  IsRef(f.target) /\ \A k \in 1..Len(heap') : heap'[k].id # f.target.id
        BY <1>1, <1>5, <4>2 DEF FinalizerInv
      <4> QED
        BY <3>1, <3>3, <4>1, <4>2 DEF Kept
    <3>4. CASE Active(f)
      <4>1. Followed(f, g, live)
        BY <1>2, <3>4 DEF Follows
      <4>2. IsRef(f.target) /\ Sound(f.target) /\ f.target \in Reference /\ f.target # Cell
        BY <1>1, <3>1, <3>4, Values DEF FinalizerInv
      <4>3. g.callback = Nothing /\ g.field = Nothing /\ g.target = Remap(f.target, live)
        BY <1>9, <3>1, <4>1 DEF Followed
      <4>4. CASE f.target.idx \in live
        <5>1. g.status = "active" /\ Names(g.target) /\ IsRef(g.target)
          BY <1>5, <1>8, <3>1, <4>1, <4>2, <4>3, <4>4, RemapValue DEF Followed
        <5> QED
          BY <4>3, <5>1 DEF Kept
      <4>5. CASE f.target.idx \notin live
        <5>1. g.status = "collected" /\ g.target = f.target
          BY <1>5, <3>1, <4>1, <4>3, <4>5, RemapValue DEF Followed
        <5>2. f.target.idx \in 1..Len(heap) /\ heap[f.target.idx].id = f.target.id
          <6>1. f.target.idx <= Len(heap) /\ heap[f.target.idx].id = f.target.id
            BY <4>2 DEF Sound
          <6> QED
            BY <3>1, <4>2, <6>1, RefPlace
        <5>3. \A j \in live : heap[j].id # f.target.id
          BY <1>1, <1>5, <4>5, <5>2 DEF IdInv
        <5>4. \A k \in 1..Len(heap') : heap'[k].id # f.target.id
          BY <1>5, <5>3
        <5> QED
          BY <4>2, <4>3, <5>1, <5>4 DEF Kept, Active
      <4> QED
        BY <4>4, <4>5
    <3> QED
      BY <3>3, <3>4
  <2>2. Len(finalizers') = Len(finalizers)
    BY <1>2 DEF Follows
  <2> QED
    BY <2>1, <2>2, FinalizersNext
<1> QED
  BY <1>11, <1>12, <1>13, <1>14 DEF RefInv

-----------------------------------------------------------------------------
LEMMA RefInit ==
    ASSUME Init
    PROVE  RefInv
<1>1. /\ Len(heap) = 0 /\ Len(finalizers) = 0 /\ cur = Fresh(TRUE) /\ parked = Fresh(FALSE)
      /\ transient = Nothing /\ weak = Nothing
  BY DEF Init
<1>2. 1..Len(heap) = {} /\ 1..Len(finalizers) = {}
  BY <1>1
<1>3. /\ PhaseOK(cur) /\ PhaseOK(parked) /\ parked.phase = "normal"
      /\ \A p \in Places : cur[p] = Nothing /\ parked[p] = Nothing
  BY <1>1, Values, FreshContext
<1>4. PhaseInv
  BY <1>3 DEF PhaseInv
<1>5. SoundInv
  BY <1>1, <1>2, <1>3, SoundNothing DEF SoundInv
<1>6. IdInv /\ FinalizerInv
  BY <1>2 DEF IdInv, FinalizerInv
<1> QED
  BY <1>4, <1>5, <1>6 DEF RefInv

LEMMA RefKept ==
    ASSUME BaseInv, RefInv, Next, Ordinary
    PROVE  RefInv'
<1>1. PhaseInv /\ cur \in Context /\ parked \in Context
  BY DEF RefInv, BaseInv, TypeOK
<1>2. PhaseOK(cur) /\ PhaseOK(parked) /\ parked.phase # "finally"
  BY <1>1 DEF PhaseInv
<1>3. ASSUME UNCHANGED heap PROVE Grows /\ Len(heap') = Len(heap)
  BY <1>3, BaseTypes DEF Grows, HeapOK
<1>4. ASSUME UNCHANGED cur PROVE Takes({})
  BY <1>1, <1>2, <1>4, Kinds DEF Takes
<1>5. CASE Moves \/ Raises
  <2>1. /\ Takes({})
        /\ UNCHANGED <<heap, cell, made, parked, transient, weak, finalizers, pending>>
    BY <1>5, MovesTake, RaisesTake DEF others
  <2> QED
    BY <1>1, <1>2, <1>3, <2>1, Kinds, GrowKept
<1>6. CASE PushTransientRoot \/ EndTransientRootFrame
  <2>1. UNCHANGED <<heap, cell, made, parked, weak, finalizers, pending>>
    BY <1>6 DEF PushTransientRoot, EndTransientRootFrame
  <2>2. transient' \in Known
    BY <1>6, Kinds DEF PushTransientRoot, EndTransientRootFrame
  <2>3. Takes({})
    <3>1. \E v \in {Nothing, transient} : Put("stack", v)
      BY <1>6 DEF PushTransientRoot, EndTransientRootFrame
    <3> QED
      BY <3>1, BaseTypes, Values, Kinds, PutTakes
  <2> QED
    BY <1>1, <1>2, <1>3, <2>1, <2>2, <2>3, Kinds, GrowKept
<1>7. CASE SwitchTask
  <2>1. /\ UNCHANGED <<heap, cell, transient, weak, finalizers, pending, made>>
        /\ cur' = parked /\ parked' = cur /\ cur.phase # "finally"
    BY <1>7 DEF SwitchTask, Ordinary
  <2>2. Takes({})
    BY <1>1, <1>2, <2>1, Kinds DEF Takes
  <2> QED
    BY <1>1, <1>2, <1>3, <2>1, <2>2, Kinds, GrowKept
<1>8. CASE SetWeakRef
  <2>1. UNCHANGED <<heap, cell, cur, parked, transient, finalizers, pending, made>>
    BY <1>8 DEF SetWeakRef
  <2>2. weak' \in Known
    BY <1>8, Kinds DEF SetWeakRef
  <2> QED
    BY <1>1, <1>2, <1>3, <1>4, <2>1, <2>2, Kinds, GrowKept
<1>9. CASE Gc
  <2>1. CASE CanCompact
    <3>1. Compact(Mark(FrameRoots)) /\ pending = <<>> /\ UNCHANGED made
      BY <1>9, <2>1 DEF Gc, Ordinary
    <3>2. Mark(FrameRoots) \subseteq Mark(Roots)
      BY MarkMonotone DEF Roots
    <3> QED
      BY <2>1, <3>1, <3>2, CompactRefs
  <2>2. CASE ~CanCompact
    <3>1. /\ weak' = WeakAfter({}, Mark(FrameRoots))
          /\ UNCHANGED <<heap, cell, cur, parked, transient, finalizers, pending, made>>
      BY <1>9, <2>2 DEF Gc
    <3>2. weak' \in Known
      BY <3>1, Kinds DEF WeakAfter, Remap
    <3> QED
      BY <1>1, <1>2, <1>3, <1>4, <3>1, <3>2, Kinds, GrowKept
  <2> QED
    BY <2>1, <2>2
<1>10. CASE CompactAfterInput
  BY <1>10, CompactRefs DEF CompactAfterInput
<1>11. CASE ResetForInput
  <2>1. /\ Takes({}) /\ parked' \in Context /\ PhaseOK(parked') /\ parked'.phase = "normal"
        /\ \A p \in Places : parked'[p] = Nothing
        /\ transient' = Nothing /\ pending' = <<>>
        /\ UNCHANGED <<heap, cell, weak, finalizers, made>>
    BY <1>11, ResetEffect
  <2>2. \A i : ~Occurs(i, pending')
    BY <2>1, EmptyTurns
  <2> QED
    BY <1>3, <2>1, <2>2, Kinds, GrowKept
<1> QED
  BY <1>5, <1>6, <1>7, <1>8, <1>9, <1>10, <1>11,
     NewStructRefs, NewRefRefs, RegisterRefs, TakeRefs, RunRefs
  DEF Next, Moves, Raises

LEMMA ReferencesKept ==
    ASSUME Ordinary
    PROVE  Spec => [](BaseInv /\ RefInv)
<1> DEFINE Inv == BaseInv /\ RefInv
<1>1. Init => Inv
  BY BaseInit, RefInit
<1>2. Inv /\ [Next]_vars => Inv'
  <2>1. CASE Next
    BY <2>1, BaseKept, RefKept
  <2>2. CASE UNCHANGED vars
    <3>1. BaseInv => BaseInv'
      BY <2>2 DEF BaseInv, TypeOK, SizeInv, vars
    <3>2. PhaseInv /\ IdInv => PhaseInv' /\ IdInv'
      BY <2>2 DEF PhaseInv, IdInv, vars
    <3>3. SoundInv /\ FinalizerInv => SoundInv' /\ FinalizerInv'
      BY <2>2 DEF SoundInv, Sound, FinalizerInv, vars
    <3> QED
      BY <3>1, <3>2, <3>3 DEF RefInv
  <2> QED
    BY <2>1, <2>2
<1> QED
  BY <1>1, <1>2, PTL DEF Spec

\* What the program can get at is sound, as everything in the heap is.
LEMMA AccessibleSound ==
    ASSUME BaseInv, SoundInv
    PROVE  \A v \in Accessible : v \in Value /\ Sound(v)
<1> DEFINE direct == {cur[p] : p \in {"local", "stack", "pval", "caught", "mark"}}
                     \cup {parked[p] : p \in {"local", "stack", "pval", "caught", "mark"}}
                     \cup {transient}
<1>1. direct \subseteq Known
  BY DEF Known, Places
<1>2. \A i \in Mark(direct) : i \in 1..Len(heap)
  BY DEF Mark
<1>3. Accessible = direct \cup {heap[i].field : i \in Mark(direct)}
  BY DEF Accessible
<1> HIDE DEF direct
<1>4. Accessible \subseteq Known
  BY <1>1, <1>2, <1>3, Kinds
<1> QED
  BY <1>4, KnownSound

\* No collection, from whichever task, leaves behind a value that names another
\* struct: in programs that no task leaves in the middle of a finally, whose
\* finalizers keep nothing alive and start no collection.
THEOREM NothingDangles ==
    ASSUME Ordinary
    PROVE  Spec => []NoDangling
<1>1. BaseInv /\ RefInv => NoDangling
  BY AccessibleSound DEF NoDangling, RefInv
<1> QED
  BY <1>1, ReferencesKept, PTL

\* In these programs a WeakRef never names another struct than the one it was given.
THEOREM WeakRefsExact ==
    ASSUME Ordinary
    PROVE  Spec => []WeakExact
<1>1. BaseInv /\ RefInv => WeakExact
  BY DEF WeakExact, RefInv, SoundInv
<1> QED
  BY <1>1, ReferencesKept, PTL

\* And a finalizer follows its struct until it dies, which it does only when nobody
\* can get at it any more.
THEOREM FinalizersFollow ==
    ASSUME Ordinary
    PROVE  Spec => []FinalizersExact
<1>1. BaseInv /\ RefInv => FinalizersExact
  <2> SUFFICES ASSUME BaseInv, RefInv, NEW i \in 1..Len(finalizers)
               PROVE  /\ Active(finalizers[i]) => Sound(finalizers[i].target)
                      /\ finalizers[i].status = "collected" /\ finalizers[i].runs = 0 =>
                            \A v \in Accessible \cup {weak} :
                               IsRef(v) => v.id # finalizers[i].target.id
    BY DEF FinalizersExact
  <2>1. SoundInv /\ FinalizerInv
    BY DEF RefInv
  <2>2. \A v \in Accessible \cup {weak} : v \in Value /\ Sound(v)
    BY <2>1, AccessibleSound, BaseTypes DEF SoundInv
  <2>3. Active(finalizers[i]) => Sound(finalizers[i].target)
    BY <2>1 DEF FinalizerInv
  <2>4. ASSUME finalizers[i].status = "collected", finalizers[i].runs = 0,
               NEW v \in Accessible \cup {weak}, IsRef(v)
        PROVE  v.id # finalizers[i].target.id
    <3>1. v \in Value /\ v # Cell /\ v.idx <= Len(heap) /\ heap[v.idx].id = v.id
      BY <2>2, <2>4, Values DEF Sound
    <3>2. v.idx \in 1..Len(heap)
      BY <2>4, <3>1, RefPlace
    <3> QED
      BY <2>1, <2>4, <3>1, <3>2 DEF FinalizerInv
  <2> QED
    BY <2>3, <2>4
<1> QED
  BY <1>1, ReferencesKept, PTL

=============================================================================
