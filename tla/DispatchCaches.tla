---------------------------- MODULE DispatchCaches ----------------------------
(***************************************************************************)
(* Method dispatch at run time: world ages and the caches of dispatch      *)
(* decisions of the VM.  A decision is a row of the function table, or     *)
(* Sentinel for the builtin or native fallback.                            *)
(*                                                                         *)
(*   call_site_caches        L1, two ways per call site                    *)
(*   dispatch_cache          L2, bounded, per call site                    *)
(*   method_dispatch_cache   bounded, keyed by names and argument types    *)
(*                                                                         *)
(* No entry of a cache holds a world.  When a method becomes visible the   *)
(* entries that resolved to a method of the same base name go, and so do   *)
(* the negative ones; the others stay.                                     *)
(***************************************************************************)
EXTENDS SequencesExt, Integers

CONSTANTS
    Types,          \* concrete argument types
    Functions,      \* the function table: a sequence of [name, params, dormant]
    Base,           \* dispatch_generic_base_name, as a function on names
    Sites,          \* call sites: [id, kind, types, candidates, fallback]
    Groups,         \* refresh groups, sets of rows: callers compiled anew for a
                    \* definition
    Limit,          \* dispatch_cache_entry_limit
    MaxWorld,       \* bound: current_world
    MaxFrames,      \* bound: open calls
    MaxGeneration,  \* bound: dispatch_generation
    OldWorldCalls   \* may a frame older than the newest method make calls?

Rows == 1..Len(Functions)
Sentinel == 0
Dormant == MaxWorld + 1     \* min_world = u64::MAX

\* A dormant row is made by a definition that runs later.  A row lists its
\* parameter types as the set of the types that match.  A site has the types of
\* the arguments that reach it and, for each callee, the rows it may resolve to.
\* Only a site of kind "variable" (CallFunctionVariable) has several callees; the
\* others are "dynamic" (CallDynamic), "builtin" (CallDynamicOrBuiltin) and
\* "method" (find_best_method_index).
Kinds == {"variable", "dynamic", "builtin", "method"}

BaseName(r) == Base[Functions[r].name]

\* A call site is known by its place in the code; the candidates of a callee are
\* methods of one generic function.
ASSUME DispatchAssumption ==
    /\ Limit \in Nat \ {0} /\ MaxWorld \in Nat \ {0}
    /\ MaxFrames \in Nat /\ MaxGeneration \in Nat
    /\ OldWorldCalls \in BOOLEAN
    /\ Functions \in Seq([name : DOMAIN Base, params : SUBSET Types, dormant : BOOLEAN])
    /\ Groups \subseteq SUBSET Rows
    /\ \A s, t \in Sites : s.id = t.id => s = t
    /\ \A s \in Sites :
        /\ s.kind \in Kinds /\ s.types \subseteq Types
        /\ s.fallback \in Rows \cup {Sentinel}
        /\ \A c \in DOMAIN s.candidates :
            /\ s.candidates[c] \subseteq Rows
            /\ \A q, r \in s.candidates[c] \cup ({s.fallback} \ {Sentinel}) :
                BaseName(q) = BaseName(r)

VARIABLES
    min_world,      \* FunctionInfo::min_world
    current_world,  \* Vm::current_world
    frames,         \* world_age of the open function frames
    generation,     \* Vm::dispatch_generation
    l1,             \* Vm::call_site_caches
    l2,             \* Vm::dispatch_cache, as a set of entries
    methods         \* Vm::method_dispatch_cache, as a set of entries

vars == <<min_world, current_world, frames, generation, l1, l2, methods>>
caches == <<generation, l1, l2, methods>>

\* A cache key is the callee and the interned types of the arguments.
Keys == {<<c, t>> : c \in UNION {DOMAIN s.candidates : s \in Sites}, t \in Types}
KeysOf(s) == (DOMAIN s.candidates) \X s.types

-----------------------------------------------------------------------------
(***************************************************************************)
(* Worlds and the resolver.                                                *)
(***************************************************************************)
current_dispatch_world ==
    IF frames = <<>> THEN current_world ELSE Last(frames)

function_visible_in_world(r, w) == min_world[r] <= w

\* The payload of a site of kind "builtin" is not filtered by the world; the
\* single method of a CallDynamic stays a candidate when it is too new.
CandidatesIn(s, c, w) ==
    LET all == s.candidates[c]
        visible == {r \in all : function_visible_in_world(r, w)}
    IN  IF \/ s.kind = "builtin"
           \/ s.kind = "dynamic" /\ visible = {} /\ Cardinality(all) = 1
        THEN all
        ELSE visible

Fallback(s, w) ==
    IF s.fallback # Sentinel /\ function_visible_in_world(s.fallback, w)
    THEN s.fallback ELSE Sentinel

\* The most specific candidate that matches the argument.
Resolve(s, k, w) ==
    LET match == {r \in CandidatesIn(s, k[1], w) : k[2] \in Functions[r].params}
        best == {r \in match : \A q \in match :
                    Functions[r].params \subseteq Functions[q].params}
    IN  IF best # {} THEN CHOOSE r \in best : \A q \in best : r <= q
        ELSE IF s.kind = "dynamic" THEN Fallback(s, w) ELSE Sentinel

\* A site whose only method never became visible raises UndefVarError before
\* it looks at a cache.
Undefined(s, k) ==
    /\ s.kind = "dynamic" /\ Cardinality(s.candidates[k[1]]) = 1
    /\ \A r \in s.candidates[k[1]] : min_world[r] = Dormant

-----------------------------------------------------------------------------
(***************************************************************************)
(* The caches.                                                             *)
(***************************************************************************)
\* CallSiteCache: the ways of a slot, most recently used first.
Hits(slot, k) ==
    {i \in 1..Len(slot.ways) : slot.generation = generation /\ slot.ways[i].key = k}

\* Mutant: the keys change places, the indices do not.
PromoteKeysOnly(slot, k) ==
    IF Hits(slot, k) = {2}
    THEN [slot EXCEPT !.ways[1].key = slot.ways[2].key, !.ways[2].key = slot.ways[1].key]
    ELSE slot

\* lookup: a hit on the second way makes it the first.
Promote(slot, k) ==
    IF Hits(slot, k) = {2} THEN [slot EXCEPT !.ways = Reverse(@)] ELSE slot

\* store: the first way becomes the second one; a slot of an older generation
\* is emptied first.
Store(slot, k, d) ==
    LET way == [key |-> k, index |-> d]
        old == IF slot.generation = generation THEN slot.ways ELSE <<>>
    IN  [generation |-> generation,
         ways |-> IF old = <<>> THEN <<way>>
                  ELSE IF old[1].key = k THEN [old EXCEPT ![1] = way]
                  ELSE <<way, old[1]>>]

Entry(s, k, d) == [site |-> s.id, key |-> k, index |-> d]
Found(cache, s, k) == {e \in cache : e.site = s.id /\ e.key = k}
Without(cache, s, k) == cache \ Found(cache, s, k)

\* Mutant: the limit is looked at before the insertion.
StoreL2Late(s, k, d) ==
    LET full == Without(l2, s, k) \cup {Entry(s, k, d)}
    IN  IF Cardinality(l2) <= Limit THEN l2' = full
        ELSE \E e \in full : l2' = full \ {e}

\* store_call_site_dispatch_cache: insertion, then one entry too many, whichever
\* the map yields first, is shed.
StoreL2(s, k, d) ==
    LET full == Without(l2, s, k) \cup {Entry(s, k, d)}
    IN  IF Cardinality(full) <= Limit THEN l2' = full
        ELSE \E e \in full : l2' = full \ {e}

\* find_best_method_index: insertion, then a cache over its limit is emptied.
StoreMethod(s, k, d) ==
    LET full == methods \cup {Entry(s, k, d)}
    IN  methods' = IF Cardinality(full) <= Limit THEN full ELSE {}

\* What a call resolves to.
Decision(s, k) ==
    LET hits == Hits(l1[s.id], k)
        found == Found(IF s.kind = "method" THEN methods ELSE l2, s, k)
    IN  IF s.kind # "method" /\ hits # {}
        THEN l1[s.id].ways[CHOOSE i \in hits : \A j \in hits : i <= j].index
        ELSE IF found # {} THEN (CHOOSE e \in found : TRUE).index
        ELSE Resolve(s, k, current_dispatch_world)

-----------------------------------------------------------------------------
Init ==
    /\ min_world = [r \in Rows |-> IF Functions[r].dormant THEN Dormant ELSE 1]
    /\ current_world = 1
    /\ frames = <<>>
    /\ generation = 0
    /\ l1 = [i \in {s.id : s \in Sites} |-> [generation |-> 0, ways |-> <<>>]]
    /\ l2 = {} /\ methods = {}

MayCall(s, k) ==
    /\ Len(frames) < MaxFrames
    /\ OldWorldCalls \/ current_dispatch_world = current_world
    /\ ~Undefined(s, k)

\* The chosen method gets a frame of the newest world; the fallback gets none.
Enter(d) ==
    frames' = IF d = Sentinel THEN frames ELSE Append(frames, current_world)

\* CallFunctionVariable caches no negative decision.
Cacheable(s, d) == s.kind # "variable" \/ d # Sentinel

\* CallFunctionVariable, CallDynamic, CallDynamicOrBuiltin: L1, L2, resolver.
CallSite(s, k) ==
    /\ s.kind # "method" /\ MayCall(s, k)
    /\ LET d == Decision(s, k)
       IN  /\ Enter(d)
           /\ IF Hits(l1[s.id], k) # {}
              THEN l1' = [l1 EXCEPT ![s.id] = Promote(@, k)] /\ UNCHANGED l2
              ELSE IF Found(l2, s, k) # {}
              THEN l1' = [l1 EXCEPT ![s.id] = Store(@, k, d)] /\ UNCHANGED l2
              ELSE IF Cacheable(s, d)
              THEN l1' = [l1 EXCEPT ![s.id] = Store(@, k, d)] /\ StoreL2(s, k, d)
              ELSE UNCHANGED <<l1, l2>>
    /\ UNCHANGED <<min_world, current_world, generation, methods>>

\* find_best_method_index and the call of what it found.
CallMethod(s, k) ==
    /\ s.kind = "method" /\ MayCall(s, k)
    /\ LET d == Decision(s, k)
       IN  /\ Enter(d)
           /\ IF Found(methods, s, k) # {} THEN UNCHANGED methods
              ELSE StoreMethod(s, k, d)
    /\ UNCHANGED <<min_world, current_world, generation, l1, l2>>

Return ==
    /\ frames # <<>>
    /\ frames' = Front(frames)
    /\ UNCHANGED <<min_world, current_world, caches>>

\* Mutant: names are compared with their module prefix.
AffectedExactName(rows, d) ==
    d = Sentinel \/ \E r \in rows : Functions[d].name = Functions[r].name

\* dispatch_decision_affected, for each of the rows that became visible.
Affected(rows, d) == d = Sentinel \/ \E r \in rows : BaseName(d) = BaseName(r)

\* Mutant: the second way goes with the first one.
InvalidateWaysBoth(slot, rows) ==
    IF slot.ways # <<>> /\ Affected(rows, slot.ways[1].index)
    THEN [slot EXCEPT !.ways = <<>>]
    ELSE [slot EXCEPT !.ways = SelectSeq(@, LAMBDA way : ~Affected(rows, way.index))]

\* invalidate_ways, on slots of any generation: a second way that is left alone
\* becomes the first.
InvalidateWays(slot, rows) ==
    LET kept == {i \in 1..Len(slot.ways) : ~Affected(rows, slot.ways[i].index)}
    IN  [slot EXCEPT !.ways =
            CASE kept = {} -> <<>>
              [] kept = {1} -> <<@[1]>>
              [] kept = {2} -> <<@[2]>>
              [] OTHER -> @]

\* activate_eval_function, note_method_table_mutation_for: a method definition
\* runs, for the first time or again, and makes its refresh group visible in the
\* same world; the generation stays.
Activate(r, refresh) ==
    LET rows == {r} \cup refresh
    IN  /\ Functions[r].dormant /\ current_world < MaxWorld
        /\ \A q \in refresh : min_world[q] = Dormant
        /\ current_world' = current_world + 1
        /\ min_world' = [q \in Rows |-> IF q \in rows THEN current_world' ELSE min_world[q]]
        /\ l1' = [i \in DOMAIN l1 |-> InvalidateWays(l1[i], rows)]
        /\ l2' = {e \in l2 : ~Affected(rows, e.index)}
        /\ methods' = {e \in methods : ~Affected(rows, e.index)}
        /\ UNCHANGED <<frames, generation>>

\* rollback_unobserved_repl_function_append, between two inputs: rows that are
\* still dormant go, and are appended again later; all caches are emptied.
Rollback ==
    /\ frames = <<>> /\ generation < MaxGeneration
    /\ \E r \in Rows : min_world[r] = Dormant
    /\ generation' = generation + 1
    /\ l2' = {} /\ methods' = {}
    /\ UNCHANGED <<min_world, current_world, frames, l1>>

Next ==
    \/ \E s \in Sites : \E k \in KeysOf(s) : CallSite(s, k) \/ CallMethod(s, k)
    \/ Return
    \/ \E r \in Rows : \E refresh \in Groups : Activate(r, refresh)
    \/ Rollback

Spec == Init /\ [][Next]_vars

-----------------------------------------------------------------------------
(***************************************************************************)
(* Properties.                                                             *)
(***************************************************************************)
Decisions == Rows \cup {Sentinel}
SiteIds == {s.id : s \in Sites}

\* Types of the dispatch state; the caches respect their limits, and no slot
\* holds one key twice.
TypeOK ==
    /\ min_world \in [Rows -> 1..Dormant]
    /\ current_world \in 1..MaxWorld
    /\ frames \in Seq(1..MaxWorld)
    /\ generation \in Nat
    /\ l1 \in [SiteIds -> [generation : Nat,
                           ways : Seq([key : Keys, index : Decisions])]]
    /\ l2 \subseteq [site : SiteIds, key : Keys, index : Decisions]
    /\ methods \subseteq [site : SiteIds, key : Keys, index : Decisions]
    /\ Cardinality(l2) <= Limit /\ Cardinality(methods) <= Limit
    /\ \A i \in DOMAIN l1 :
        /\ Len(l1[i].ways) <= 2
        /\ \A a, b \in 1..Len(l1[i].ways) :
            l1[i].ways[a].key = l1[i].ways[b].key => a = b

\* Every call, whatever the caches hold by now, goes to the method that the
\* resolver would choose in the world of the calling frame: no decision outlives
\* a definition that changes it.
DispatchFresh ==
    \A s \in Sites : \A k \in KeysOf(s) :
        MayCall(s, k) => Decision(s, k) = Resolve(s, k, current_dispatch_world)

\* The two layers never disagree: a live way of a slot and the entry of the same
\* key in dispatch_cache, filled and shed independently, name the same row.
LayersAgree ==
    \A s \in Sites : \A k \in KeysOf(s) :
        \A i \in Hits(l1[s.id], k) : \A e \in Found(l2, s, k) :
            l1[s.id].ways[i].index = e.index

\* A definition keeps the inline caches of other functions warm: a hit that the
\* definition cannot change is a hit after it.
UnrelatedStayWarm ==
    [][current_world' # current_world =>
          LET rows == {r \in Rows : min_world'[r] = current_world'}
          IN  \A s \in Sites : \A k \in KeysOf(s) : \A i \in Hits(l1[s.id], k) :
                  ~Affected(rows, l1[s.id].ways[i].index) =>
                      \E j \in 1..Len(l1'[s.id].ways) :
                          l1'[s.id].ways[j] = l1[s.id].ways[i]]_vars

=============================================================================
