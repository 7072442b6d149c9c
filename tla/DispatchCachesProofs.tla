------------------------- MODULE DispatchCachesProofs -------------------------
(***************************************************************************)
(* That cached dispatch decisions stay right while methods are defined,    *)
(* for any function table, any call sites, any cache limit and any number  *)
(* of worlds.                                                              *)
(***************************************************************************)
EXTENDS DispatchCaches, FiniteSetTheorems, SequenceTheorems, TLAPS

Ways(slot) == {slot.ways[i] : i \in 1..Len(slot.ways)}

Way == [key : Keys, index : Decisions]

SlotOK(slot) ==
    /\ slot \in [generation : Nat, ways : Seq(Way)]
    /\ slot.generation <= generation
    /\ Len(slot.ways) <= 2
    /\ \A a, b \in 1..Len(slot.ways) : slot.ways[a].key = slot.ways[b].key => a = b

-----------------------------------------------------------------------------
(***************************************************************************)
(* The resolver.                                                           *)
(***************************************************************************)
\* A set of rows that is not empty has a least one.
LEMMA LeastRow ==
    ASSUME NEW S \in SUBSET Nat, S # {}
    PROVE  \E r \in S : \A q \in S : r <= q
<1>1. \E r \in S : \A q \in S : ~(<<q, r>> \in OpToRel(<, Nat))
  BY NatLessThanWellFounded, WFMin, Zenon
<1>2. \A q, r \in Nat : ~(<<q, r>> \in OpToRel(<, Nat)) => r <= q
  BY DEF OpToRel
<1> QED
  BY <1>1, <1>2

\* The resolver answers with a candidate, with the fallback or with Sentinel.
LEMMA ResolveRange ==
    ASSUME NEW s \in Sites, NEW k \in KeysOf(s), NEW w
    PROVE  /\ Resolve(s, k, w) \in s.candidates[k[1]] \cup {s.fallback, Sentinel}
           /\ Resolve(s, k, w) \in Decisions
<1> DEFINE match == {r \in CandidatesIn(s, k[1], w) : k[2] \in Functions[r].params}
           best == {r \in match : \A q \in match :
                       Functions[r].params \subseteq Functions[q].params}
<1>1. k[1] \in DOMAIN s.candidates
  BY DEF KeysOf
<1>2. s.candidates[k[1]] \subseteq Rows /\ s.fallback \in Rows \cup {Sentinel}
  BY <1>1, DispatchAssumption
<1>3. best \subseteq s.candidates[k[1]]
  BY DEF CandidatesIn
<1>4. Rows \subseteq Nat
  BY DispatchAssumption DEF Rows
<1>5. best # {} => (CHOOSE r \in best : \A q \in best : r <= q) \in best
  <2> HIDE DEF best
  <2> QED
    BY <1>2, <1>3, <1>4, LeastRow
<1>6. Resolve(s, k, w) =
         IF best # {} THEN CHOOSE r \in best : \A q \in best : r <= q
         ELSE IF s.kind = "dynamic" THEN Fallback(s, w) ELSE Sentinel
  BY DEF Resolve
<1>7. Fallback(s, w) \in {s.fallback, Sentinel}
  BY DEF Fallback
<1> HIDE DEF best
<1> QED
  BY <1>2, <1>3, <1>5, <1>6, <1>7 DEF Decisions

-----------------------------------------------------------------------------
(***************************************************************************)
(* Slots.                                                                  *)
(***************************************************************************)
\* The ways of a slot are a short sequence, and can be replaced by another one.
LEMMA SlotWays ==
    ASSUME NEW slot, SlotOK(slot)
    PROVE  /\ slot.ways \in Seq(Way) /\ Len(slot.ways) \in 0..2
           /\ slot.generation \in Nat
           /\ slot = [slot EXCEPT !.ways = slot.ways]
           /\ \A w \in Seq(Way) :
                 /\ [slot EXCEPT !.ways = w] \in [generation : Nat, ways : Seq(Way)]
                 /\ [slot EXCEPT !.ways = w].generation = slot.generation
                 /\ [slot EXCEPT !.ways = w].ways = w
<1>1. slot.ways \in Seq(Way) /\ slot.generation \in Nat
  BY DEF SlotOK
<1>2. Len(slot.ways) \in Nat
  BY <1>1
<1>a. Len(slot.ways) <= 2
  BY DEF SlotOK
<1>3. Len(slot.ways) \in 0..2
  <2> DEFINE n == Len(slot.ways)
  <2>1. n \in Nat /\ n <= 2
    BY <1>2, <1>a
  <2> HIDE DEF n
  <2>2. n \in 0..2
    BY <2>1
  <2> QED
    BY <2>2 DEF n
<1>4. slot = [generation |-> slot.generation, ways |-> slot.ways]
  BY DEF SlotOK
<1>5. \A w : [slot EXCEPT !.ways = w] = [generation |-> slot.generation, ways |-> w]
  BY <1>4
<1> QED
  BY <1>1, <1>3, <1>4, <1>5

\* A lookup moves ways about and changes none.
LEMMA PromoteSlot ==
    ASSUME NEW slot, SlotOK(slot), generation \in Nat, NEW k
    PROVE  /\ SlotOK(Promote(slot, k))
           /\ Promote(slot, k).generation = slot.generation
           /\ Ways(Promote(slot, k)) = Ways(slot)
<1>1. CASE Hits(slot, k) # {2}
  BY <1>1 DEF Promote
<1>2. CASE Hits(slot, k) = {2}
  <2> DEFINE w == slot.ways
             p == Promote(slot, k)
  <2>0. 2 \in 1..Len(w)
    BY <1>2 DEF Hits
  <2>b. w \in Seq(Way) /\ Len(w) \in 0..2
    BY SlotWays
  <2>1. w \in Seq(Way) /\ Len(w) = 2
    <3> DEFINE n == Len(w)
    <3>1. n \in 0..2 /\ 2 \in 1..n
      BY <2>0, <2>b
    <3> HIDE DEF n
    <3>2. n = 2
      BY <3>1
    <3> QED
      BY <2>b, <3>2 DEF n
  <2>2. p = [slot EXCEPT !.ways = Reverse(w)]
    BY <1>2 DEF Promote
  <2>a. /\ Reverse(w) \in Seq(Way) /\ Len(Reverse(w)) = 2
        /\ Reverse(w)[1] = w[2] /\ Reverse(w)[2] = w[1]
    BY <2>1 DEF Reverse
  <2>3. /\ p \in [generation : Nat, ways : Seq(Way)] /\ p.generation = slot.generation
        /\ Len(p.ways) = 2 /\ p.ways[1] = w[2] /\ p.ways[2] = w[1]
    BY <2>2, <2>a, SlotWays
  <2>4. SlotOK(p)
    BY <2>1, <2>3 DEF SlotOK
  <2>5. Ways(p) = Ways(slot)
    BY <2>1, <2>3 DEF Ways
  <2> QED
    BY <2>3, <2>4, <2>5
<1> QED
  BY <1>1, <1>2

\* A store adds one way; the others are old ways of the same generation.
LEMMA StoreSlot ==
    ASSUME NEW slot, SlotOK(slot), generation \in Nat,
           NEW k \in Keys, NEW d \in Decisions, Hits(slot, k) = {}
    PROVE  /\ SlotOK(Store(slot, k, d))
           /\ Store(slot, k, d).generation = generation
           /\ \A way \in Ways(Store(slot, k, d)) :
                 \/ way = [key |-> k, index |-> d]
                 \/ slot.generation = generation /\ way \in Ways(slot)
<1> DEFINE new == [key |-> k, index |-> d]
           old == IF slot.generation = generation THEN slot.ways ELSE <<>>
           st == Store(slot, k, d)
<1>0. new \in Way
  BY DEF Way
<1>1. old \in Seq(Way)
  BY DEF SlotOK
<1>2. CASE old = <<>>
  <2>1. st = [generation |-> generation, ways |-> <<new>>]
    BY <1>2 DEF Store
  <2> QED
    BY <2>1, <1>0 DEF SlotOK, Ways
<1>3. CASE old # <<>>
  <2>1. slot.generation = generation /\ old = slot.ways /\ Len(old) > 0
    BY <1>3, <1>1
  <2>2. old[1].key # k
    BY <2>1 DEF Hits
  <2>3. st = [generation |-> generation, ways |-> <<new, old[1]>>]
    BY <1>3, <2>2 DEF Store
  <2>4. old[1] \in Way /\ old[1] \in Ways(slot)
    BY <1>1, <2>1 DEF Ways
  <2>5. SlotOK(st)
    BY <2>2, <2>3, <2>4, <1>0 DEF SlotOK
  <2>6. \A way \in Ways(st) : way = new \/ way = old[1]
    BY <2>3 DEF Ways
  <2> QED
    BY <2>1, <2>3, <2>4, <2>5, <2>6
<1> QED
  BY <1>2, <1>3

\* An invalidation removes the affected ways and keeps the others.
LEMMA InvalidateSlot ==
    ASSUME NEW slot, SlotOK(slot), NEW rows
    PROVE  /\ SlotOK(InvalidateWays(slot, rows))
           /\ InvalidateWays(slot, rows).generation = slot.generation
           /\ Ways(InvalidateWays(slot, rows)) =
                 {way \in Ways(slot) : ~Affected(rows, way.index)}
<1> DEFINE w == slot.ways
           kept == {i \in 1..Len(w) : ~Affected(rows, w[i].index)}
           inv == InvalidateWays(slot, rows)
<1>1. w \in Seq(Way) /\ Len(w) \in 0..2 /\ kept \subseteq 1..Len(w)
  BY SlotWays
<1>2. {way \in Ways(slot) : ~Affected(rows, way.index)} = {w[i] : i \in kept}
  BY DEF Ways
<1>3. CASE kept = {}
  <2>1. inv = [slot EXCEPT !.ways = <<>>]
    BY <1>3 DEF InvalidateWays
  <2>2. /\ inv \in [generation : Nat, ways : Seq(Way)]
        /\ inv.generation = slot.generation /\ inv.ways = <<>>
    <3>1. <<>> \in Seq(Way)
      OBVIOUS
    <3> QED
      BY <2>1, <3>1, SlotWays
  <2>3. SlotOK(inv) /\ Ways(inv) = {}
    BY <2>2 DEF SlotOK, Ways
  <2> QED
    BY <1>2, <1>3, <2>2, <2>3
<1>4. ASSUME NEW j \in {1, 2}, kept = {j}
      PROVE  /\ SlotOK(inv) /\ inv.generation = slot.generation
             /\ Ways(inv) = {w[i] : i \in kept}
  <2>1. inv = [slot EXCEPT !.ways = <<w[j]>>]
    BY <1>4 DEF InvalidateWays
  <2>2. w[j] \in Way
    BY <1>1, <1>4
  <2>3. /\ inv \in [generation : Nat, ways : Seq(Way)]
        /\ inv.generation = slot.generation /\ inv.ways = <<w[j]>>
    <3>1. <<w[j]>> \in Seq(Way)
      BY <2>2
    <3> QED
      BY <2>1, <3>1, SlotWays
  <2>4. SlotOK(inv) /\ Ways(inv) = {w[j]}
    BY <2>3 DEF SlotOK, Ways
  <2> QED
    BY <1>4, <2>3, <2>4
<1>5. CASE kept # {} /\ kept # {1} /\ kept # {2}
  <2>1. inv = [slot EXCEPT !.ways = w]
    BY <1>5 DEF InvalidateWays
  <2>2. inv = slot
    BY <2>1, SlotWays
  <2>3. kept = 1..Len(w)
    BY <1>1, <1>5
  <2> QED
    BY <1>2, <2>2, <2>3 DEF Ways
<1> QED
  BY <1>2, <1>3, <1>4, <1>5

-----------------------------------------------------------------------------
(***************************************************************************)
(* The inductive invariant: TypeOK with the age of the slots, and that     *)
(* the two layers agree.  An entry is stored in dispatch_cache only after  *)
(* the old one of its key was removed, which is why a way refilled from    *)
(* there agrees with all it finds.                                         *)
(***************************************************************************)
Entries == [site : SiteIds, key : Keys, index : Decisions]

TypeInv ==
    /\ min_world \in [Rows -> 1..Dormant]
    /\ current_world \in 1..MaxWorld
    /\ frames \in Seq(1..MaxWorld)
    /\ generation \in Nat
    /\ DOMAIN l1 = SiteIds /\ l1 = [i \in SiteIds |-> l1[i]]
    /\ \A i \in SiteIds : SlotOK(l1[i])
    /\ l2 \subseteq Entries /\ IsFiniteSet(l2) /\ Cardinality(l2) <= Limit
    /\ methods \subseteq Entries /\ IsFiniteSet(methods) /\ Cardinality(methods) <= Limit

AgreeInv ==
    /\ \A e, f \in l2 : e.site = f.site /\ e.key = f.key => e.index = f.index
    /\ \A i \in SiteIds : l1[i].generation = generation =>
          \A way \in Ways(l1[i]), e \in l2 :
              e.site = i /\ e.key = way.key => e.index = way.index

\* The initial state satisfies both.
LEMMA InitInv == Init => TypeInv /\ AgreeInv
<1> SUFFICES ASSUME Init PROVE TypeInv /\ AgreeInv
  OBVIOUS
<1>1. min_world \in [Rows -> 1..Dormant] /\ current_world \in 1..MaxWorld
  BY DispatchAssumption DEF Init, Dormant
<1>2. frames \in Seq(1..MaxWorld) /\ generation \in Nat
  BY DEF Init
<1>3. DOMAIN l1 = SiteIds /\ l1 = [i \in SiteIds |-> l1[i]]
  BY DEF Init, SiteIds
<1>4. \A i \in SiteIds : l1[i] = [generation |-> 0, ways |-> <<>>]
  BY DEF Init, SiteIds
<1>5. \A i \in SiteIds : SlotOK(l1[i])
  <2> DEFINE empty == [generation |-> 0, ways |-> <<>>]
  <2>1. empty \in [generation : Nat, ways : Seq(Way)] /\ empty.generation = 0
    OBVIOUS
  <2>2. empty.ways = <<>> /\ Len(empty.ways) = 0
    OBVIOUS
  <2>3. generation = 0
    BY DEF Init
  <2> HIDE DEF empty
  <2>4. SlotOK(empty)
    BY <2>1, <2>2, <2>3 DEF SlotOK
  <2> QED
    BY <1>4, <2>4 DEF empty
<1>6. l2 = {} /\ methods = {} /\ IsFiniteSet({}) /\ Cardinality({}) <= Limit
  BY FS_EmptySet, DispatchAssumption DEF Init
<1> QED
  BY <1>1, <1>2, <1>3, <1>5, <1>6 DEF TypeInv, AgreeInv

\* The invariant gives the type invariant of the specification.
LEMMA TypeInvImplies == TypeInv => TypeOK
<1> SUFFICES ASSUME TypeInv PROVE TypeOK
  OBVIOUS
<1>1. l1 \in [SiteIds -> [generation : Nat, ways : Seq([key : Keys, index : Decisions])]]
  <2>1. \A i \in SiteIds : l1[i] \in [generation : Nat, ways : Seq(Way)]
    BY DEF TypeInv, SlotOK
  <2>2. l1 \in [SiteIds -> [generation : Nat, ways : Seq(Way)]]
    BY <2>1, Zenon DEF TypeInv
  <2> QED
    BY <2>2 DEF Way
<1>2. \A i \in DOMAIN l1 :
         /\ Len(l1[i].ways) <= 2
         /\ \A a, b \in 1..Len(l1[i].ways) :
               l1[i].ways[a].key = l1[i].ways[b].key => a = b
  BY DEF TypeInv, SlotOK
<1> QED
  BY <1>1, <1>2 DEF TypeInv, TypeOK, Entries

\* The keys of a site are keys.
LEMMA SiteKeys ==
    ASSUME NEW s \in Sites, NEW k \in KeysOf(s)
    PROVE  k \in Keys /\ s.id \in SiteIds
<1>1. PICK c \in DOMAIN s.candidates, t \in s.types : k = <<c, t>>
  BY DEF KeysOf
<1>2. t \in Types
  BY DispatchAssumption
<1>3. c \in UNION {DOMAIN u.candidates : u \in Sites}
  OBVIOUS
<1> QED
  BY <1>1, <1>2, <1>3 DEF Keys, SiteIds

\* What a lookup finds is a way of the slot, and the first one of its kind.
LEMMA HitDecision ==
    ASSUME TypeInv, NEW s \in Sites, NEW k, s.kind # "method", Hits(l1[s.id], k) # {}
    PROVE  /\ l1[s.id].generation = generation
           /\ \E way \in Ways(l1[s.id]) : way.key = k /\ way.index = Decision(s, k)
<1> DEFINE slot == l1[s.id]
           hits == Hits(slot, k)
<1>0. SlotOK(slot)
  BY DEF TypeInv, SiteIds
<1>1. slot.ways \in Seq(Way) /\ hits \subseteq 1..Len(slot.ways) /\ hits \subseteq Nat
  BY <1>0, SlotWays DEF Hits
<1>2. \E i \in hits : \A j \in hits : i <= j
  BY <1>1, LeastRow
<1>3. PICK i \in hits : i = CHOOSE h \in hits : \A j \in hits : h <= j
  BY <1>2
<1>4. Decision(s, k) = slot.ways[i].index
  BY <1>3 DEF Decision
<1>5. slot.generation = generation /\ slot.ways[i].key = k /\ slot.ways[i] \in Ways(slot)
  BY <1>3, <1>1 DEF Hits, Ways
<1> QED
  BY <1>4, <1>5

\* What a call resolves to is a row or the fallback.
LEMMA DecisionType ==
    ASSUME TypeInv, NEW s \in Sites, NEW k \in KeysOf(s)
    PROVE  Decision(s, k) \in Decisions
<1> DEFINE found == Found(IF s.kind = "method" THEN methods ELSE l2, s, k)
<1>1. CASE s.kind # "method" /\ Hits(l1[s.id], k) # {}
  <2>1. PICK way \in Ways(l1[s.id]) : way.index = Decision(s, k)
    BY <1>1, HitDecision
  <2>2. l1[s.id].ways \in Seq(Way)
    BY SlotWays DEF TypeInv, SiteIds
  <2>3. way \in Way
    BY <2>2 DEF Ways
  <2> QED
    BY <2>1, <2>3 DEF Way
<1>2. CASE ~(s.kind # "method" /\ Hits(l1[s.id], k) # {}) /\ found # {}
  <2>1. Decision(s, k) = (CHOOSE e \in found : TRUE).index
    BY <1>2 DEF Decision
  <2>2. found \subseteq Entries
    BY DEF Found, TypeInv
  <2>3. (CHOOSE e \in found : TRUE) \in found
    BY <1>2
  <2> QED
    BY <2>1, <2>2, <2>3 DEF Entries
<1>3. CASE ~(s.kind # "method" /\ Hits(l1[s.id], k) # {}) /\ found = {}
  <2>1. Decision(s, k) = Resolve(s, k, current_dispatch_world)
    BY <1>3 DEF Decision
  <2> QED
    BY <2>1, ResolveRange
<1> QED
  BY <1>1, <1>2, <1>3

-----------------------------------------------------------------------------
(***************************************************************************)
(* Stores keep the caches within their limits.                             *)
(***************************************************************************)
\* Storing in dispatch_cache: the limit holds, the old entries of the key are
\* gone, and nothing else is added.
LEMMA StoreL2Inv ==
    ASSUME TypeInv, NEW s \in Sites, NEW k \in KeysOf(s), NEW d \in Decisions,
           StoreL2(s, k, d)
    PROVE  /\ l2' \subseteq Entries /\ IsFiniteSet(l2') /\ Cardinality(l2') <= Limit
           /\ l2' \subseteq Without(l2, s, k) \cup {Entry(s, k, d)}
<1> DEFINE rest == Without(l2, s, k)
           new == Entry(s, k, d)
           full == rest \cup {new}
<1>0. rest \in SUBSET l2 /\ IsFiniteSet(l2)
  BY DEF Without, TypeInv
<1>1. IsFiniteSet(rest) /\ Cardinality(rest) <= Cardinality(l2)
  <2> HIDE DEF rest
  <2> QED
    BY <1>0, FS_Subset
<1>2. /\ Cardinality(rest) \in Nat /\ Cardinality(l2) \in Nat /\ Limit \in Nat
      /\ Cardinality(l2) <= Limit
  BY <1>0, <1>1, FS_CardinalityType, DispatchAssumption DEF TypeInv
<1>3. IsFiniteSet(full) /\ Cardinality(full) <= Cardinality(rest) + 1 /\ Cardinality(full) \in Nat
  <2> HIDE DEF rest, new
  <2>1. /\ IsFiniteSet(rest \cup {new})
        /\ Cardinality(rest \cup {new}) =
              IF new \in rest THEN Cardinality(rest) ELSE Cardinality(rest) + 1
    BY <1>1, FS_AddElement
  <2> QED
    BY <1>2, <2>1
<1>4. new \in Entries
  BY SiteKeys DEF Entry, Entries
<1>5. full \subseteq Entries
  BY <1>4 DEF Without, TypeInv
<1>6. CASE Cardinality(full) <= Limit
  BY <1>3, <1>5, <1>6 DEF StoreL2
<1>7. CASE ~(Cardinality(full) <= Limit)
  <2>1. PICK e \in full : l2' = full \ {e}
    BY <1>7 DEF StoreL2
  <2>2. IsFiniteSet(l2') /\ Cardinality(l2') = Cardinality(full) - 1
    BY <1>3, <2>1, FS_RemoveElement
  <2> QED
    BY <1>1, <1>2, <1>3, <1>5, <2>1, <2>2
<1> QED
  BY <1>6, <1>7

\* Storing in method_dispatch_cache.
LEMMA StoreMethodInv ==
    ASSUME TypeInv, NEW s \in Sites, NEW k \in KeysOf(s), NEW d \in Decisions,
           StoreMethod(s, k, d)
    PROVE  /\ methods' \subseteq Entries /\ IsFiniteSet(methods') /\ Cardinality(methods') <= Limit
           /\ methods' \subseteq methods \cup {Entry(s, k, d)}
<1> DEFINE full == methods \cup {Entry(s, k, d)}
<1>1. IsFiniteSet(full)
  BY FS_AddElement DEF TypeInv
<1>2. Entry(s, k, d) \in Entries
  BY SiteKeys DEF Entry, Entries
<1>3. full \subseteq Entries
  BY <1>2 DEF TypeInv
<1>4. methods' = IF Cardinality(full) <= Limit THEN full ELSE {}
  BY DEF StoreMethod
<1>5. IsFiniteSet({}) /\ Cardinality({}) <= Limit
  BY FS_EmptySet, DispatchAssumption
<1> QED
  BY <1>1, <1>3, <1>4, <1>5

\* A call opens a frame of the newest world or none.
LEMMA EnterInv ==
    ASSUME TypeInv, NEW d, Enter(d)
    PROVE  frames' \in Seq(1..MaxWorld)
<1>1. frames \in Seq(1..MaxWorld) /\ current_world \in 1..MaxWorld
  BY DEF TypeInv
<1>2. Append(frames, current_world) \in Seq(1..MaxWorld)
  BY <1>1, AppendProperties
<1> QED
  BY <1>1, <1>2 DEF Enter

-----------------------------------------------------------------------------
(***************************************************************************)
(* Steps.                                                                  *)
(***************************************************************************)
\* A slot that is looked at or stored in; the others stay.
LEMMA SlotStep ==
    ASSUME TypeInv, NEW i \in SiteIds, NEW slot, SlotOK(slot),
           l1' = [l1 EXCEPT ![i] = slot], generation' = generation
    PROVE  /\ DOMAIN l1' = SiteIds /\ l1' = [j \in SiteIds |-> l1'[j]]
           /\ l1'[i] = slot
           /\ \A j \in SiteIds : j # i => l1'[j] = l1[j]
           /\ \A j \in SiteIds : SlotOK(l1[j])'
<1>1. \A j \in SiteIds : l1'[j] = IF j = i THEN slot ELSE l1[j]
  BY DEF TypeInv
<1>2. \A j \in SiteIds : SlotOK(l1'[j])
  BY <1>1 DEF TypeInv
<1>3. \A j \in SiteIds : SlotOK(l1[j])'
  BY <1>2 DEF SlotOK
<1>4. DOMAIN l1' = SiteIds /\ l1' = [j \in SiteIds |-> l1'[j]]
  BY DEF TypeInv
<1> QED
  BY <1>1, <1>2, <1>3, <1>4

\* The entries a call looks at have its key.
LEMMA FoundIndex ==
    ASSUME TypeInv, AgreeInv, NEW s \in Sites, NEW k, s.kind # "method",
           Hits(l1[s.id], k) = {}, Found(l2, s, k) # {}
    PROVE  \A e \in l2 : e.site = s.id /\ e.key = k => e.index = Decision(s, k)
<1> DEFINE found == Found(l2, s, k)
<1>1. Decision(s, k) = (CHOOSE e \in found : TRUE).index
  BY DEF Decision
<1>2. (CHOOSE e \in found : TRUE) \in found
  OBVIOUS
<1>3. \A e, f \in found : e.index = f.index
  BY DEF Found, AgreeInv
<1>4. \A e \in l2 : e.site = s.id /\ e.key = k => e \in found
  BY DEF Found
<1> HIDE DEF found
<1> QED
  BY <1>1, <1>2, <1>3, <1>4

\* A call through a call site: hit, refill from the second layer, or both
\* layers filled by the resolver.
LEMMA CallSiteInv ==
    ASSUME TypeInv, AgreeInv, NEW s \in Sites, NEW k \in KeysOf(s), CallSite(s, k)
    PROVE  TypeInv' /\ AgreeInv'
<1> DEFINE d == Decision(s, k)
           id == s.id
<1>0. /\ s.kind # "method" /\ Enter(d)
      /\ UNCHANGED <<min_world, current_world, generation, methods>>
  BY DEF CallSite
<1>1. d \in Decisions /\ k \in Keys /\ id \in SiteIds /\ SlotOK(l1[id]) /\ generation \in Nat
  BY DecisionType, SiteKeys DEF TypeInv
<1>2. frames' \in Seq(1..MaxWorld)
  BY <1>0, EnterInv
<1>3. ASSUME NEW slot, SlotOK(slot), l1' = [l1 EXCEPT ![id] = slot],
             l2' \subseteq Entries, IsFiniteSet(l2'), Cardinality(l2') <= Limit
      PROVE  TypeInv'
  BY <1>0, <1>1, <1>2, <1>3, SlotStep DEF TypeInv
<1>4. CASE Hits(l1[id], k) # {}
  <2> DEFINE slot == Promote(l1[id], k)
  <2>1. l1' = [l1 EXCEPT ![id] = slot] /\ l2' = l2
    BY <1>4 DEF CallSite
  <2>2. SlotOK(slot) /\ slot.generation = l1[id].generation /\ Ways(slot) = Ways(l1[id])
    BY <1>1, PromoteSlot
  <2>3. TypeInv'
    BY <1>3, <2>1, <2>2 DEF TypeInv
  <2>4. /\ l1'[id] = slot /\ \A j \in SiteIds : j # id => l1'[j] = l1[j]
    BY <1>0, <1>1, <2>1, <2>2, SlotStep
  <2>5. \A i \in SiteIds :
           l1'[i].generation = l1[i].generation /\ Ways(l1'[i]) = Ways(l1[i])
    BY <2>2, <2>4
  <2> QED
    BY <1>0, <2>1, <2>3, <2>5 DEF AgreeInv, Ways
<1>5. ASSUME Hits(l1[id], k) = {}, l1' = [l1 EXCEPT ![id] = Store(l1[id], k, d)],
             l2' \subseteq Entries, IsFiniteSet(l2'), Cardinality(l2') <= Limit,
             l2' \subseteq l2 \cup {Entry(s, k, d)},
             \A e \in l2' : e.site = id /\ e.key = k => e.index = d
      PROVE  TypeInv' /\ AgreeInv'
  <2> DEFINE slot == Store(l1[id], k, d)
  <2>1. /\ SlotOK(slot) /\ slot.generation = generation
        /\ \A way \in Ways(slot) :
              \/ way = [key |-> k, index |-> d]
              \/ l1[id].generation = generation /\ way \in Ways(l1[id])
    BY <1>1, <1>5, StoreSlot
  <2>2. TypeInv'
    BY <1>3, <1>5, <2>1
  <2>3. /\ l1'[id] = slot /\ \A j \in SiteIds : j # id => l1'[j] = l1[j]
    BY <1>0, <1>1, <1>5, <2>1, SlotStep
  <2>4. ASSUME NEW e \in l2', NEW f \in l2', e.site = f.site, e.key = f.key
        PROVE  e.index = f.index
    <3>1. CASE e.site = id /\ e.key = k
      BY <1>5, <2>4, <3>1
    <3>2. CASE ~(e.site = id /\ e.key = k)
      <4>1. e \in l2 /\ f \in l2
        BY <1>5, <2>4, <3>2 DEF Entry
      <4> QED
        BY <2>4, <4>1 DEF AgreeInv
    <3> QED
      BY <3>1, <3>2
  <2>5. ASSUME NEW i \in SiteIds, l1'[i].generation = generation',
               NEW way \in Ways(l1'[i]), NEW e \in l2', e.site = i, e.key = way.key
        PROVE  e.index = way.index
    <3>1. CASE i = id /\ way = [key |-> k, index |-> d]
      BY <1>5, <2>5, <3>1
    <3>2. CASE i = id /\ way # [key |-> k, index |-> d]
      <4>1. l1[id].generation = generation /\ way \in Ways(l1[id])
        BY <2>1, <2>3, <2>5, <3>2
      <4>2. way.key # k
        BY <4>1, <1>5 DEF Ways, Hits
      <4>3. e \in l2
        BY <1>5, <2>5, <4>2 DEF Entry
      <4> QED
        BY <1>1, <2>5, <3>2, <4>1, <4>3 DEF AgreeInv
    <3>3. CASE i # id
      <4>1. l1'[i] = l1[i] /\ e \in l2
        BY <1>5, <2>3, <2>5, <3>3 DEF Entry
      <4> QED
        BY <1>0, <2>5, <4>1 DEF AgreeInv
    <3> QED
      BY <3>1, <3>2, <3>3
  <2>6. AgreeInv'
    BY <2>4, <2>5 DEF AgreeInv, Ways
  <2> QED
    BY <2>2, <2>6
<1>6. CASE Hits(l1[id], k) = {} /\ Found(l2, s, k) # {}
  <2>1. l1' = [l1 EXCEPT ![id] = Store(l1[id], k, d)] /\ l2' = l2
    BY <1>6 DEF CallSite
  <2>2. \A e \in l2 : e.site = id /\ e.key = k => e.index = d
    BY <1>0, <1>6, FoundIndex
  <2> QED
    BY <1>5, <1>6, <2>1, <2>2 DEF TypeInv
<1>7. CASE Hits(l1[id], k) = {} /\ Found(l2, s, k) = {} /\ Cacheable(s, d)
  <2>1. l1' = [l1 EXCEPT ![id] = Store(l1[id], k, d)] /\ StoreL2(s, k, d)
    BY <1>7 DEF CallSite
  <2>2. /\ l2' \subseteq Entries /\ IsFiniteSet(l2') /\ Cardinality(l2') <= Limit
        /\ l2' \subseteq Without(l2, s, k) \cup {Entry(s, k, d)}
    BY <1>1, <2>1, StoreL2Inv
  <2>3. \A e \in l2' : e.site = id /\ e.key = k => e.index = d
    BY <2>2 DEF Without, Found, Entry
  <2>4. l2' \subseteq l2 \cup {Entry(s, k, d)}
    BY <2>2 DEF Without
  <2> QED
    BY <1>5, <1>7, <2>1, <2>2, <2>3, <2>4
<1>8. CASE Hits(l1[id], k) = {} /\ Found(l2, s, k) = {} /\ ~Cacheable(s, d)
  <2>1. UNCHANGED <<l1, l2>>
    BY <1>8 DEF CallSite
  <2> QED
    BY <1>0, <1>2, <2>1 DEF TypeInv, AgreeInv, SlotOK, Ways
<1> QED
  BY <1>4, <1>6, <1>7, <1>8

\* A call by way of find_best_method_index touches neither layer.
LEMMA CallMethodInv ==
    ASSUME TypeInv, AgreeInv, NEW s \in Sites, NEW k \in KeysOf(s), CallMethod(s, k)
    PROVE  TypeInv' /\ AgreeInv'
<1> DEFINE d == Decision(s, k)
<1>0. Enter(d) /\ UNCHANGED <<min_world, current_world, generation, l1, l2>>
  BY DEF CallMethod
<1>1. frames' \in Seq(1..MaxWorld)
  BY <1>0, EnterInv
<1>2. methods' \subseteq Entries /\ IsFiniteSet(methods') /\ Cardinality(methods') <= Limit
  <2>1. CASE Found(methods, s, k) # {}
    BY <2>1 DEF CallMethod, TypeInv
  <2>2. CASE Found(methods, s, k) = {}
    <3>1. StoreMethod(s, k, d)
      BY <2>2 DEF CallMethod
    <3> QED
      BY <3>1, DecisionType, StoreMethodInv
  <2> QED
    BY <2>1, <2>2
<1>3. TypeInv'
  BY <1>0, <1>1, <1>2 DEF TypeInv, SlotOK
<1>4. AgreeInv'
  BY <1>0 DEF AgreeInv, Ways
<1> QED
  BY <1>3, <1>4

\* What is left of a sequence without its last element.
LEMMA FrontSeq ==
    ASSUME NEW T, NEW q \in Seq(T)
    PROVE  Front(q) \in Seq(T)
<1> DEFINE n == Len(q)
<1>1. n \in Nat
  BY LenProperties
<1>2. \A i \in 1..n : q[i] \in T
  BY ElementOfSeq
<1>3. Front(q) = SubSeq(q, 1, n - 1)
  BY DEF Front
<1> HIDE DEF n
<1>4. n - 1 \in Int /\ 1 \in Int /\ \A i \in 1..(n - 1) : q[i] \in T
  BY <1>1, <1>2
<1> QED
  BY <1>3, <1>4, SubSeqProperties

\* A return changes the frames only.
LEMMA ReturnInv ==
    ASSUME TypeInv, AgreeInv, Return
    PROVE  TypeInv' /\ AgreeInv'
<1>1. frames \in Seq(1..MaxWorld) /\ frames # <<>>
  BY DEF TypeInv, Return
<1>2. frames' \in Seq(1..MaxWorld)
  BY <1>1, FrontSeq DEF Return
<1>3. UNCHANGED <<min_world, current_world, generation, l1, l2, methods>>
  BY DEF Return, caches
<1> QED
  BY <1>2, <1>3 DEF TypeInv, AgreeInv, SlotOK, Ways

\* A definition removes entries and rewrites none.
LEMMA ActivateSlots ==
    ASSUME TypeInv, NEW r \in Rows, NEW refresh \in Groups, Activate(r, refresh)
    PROVE  /\ DOMAIN l1' = SiteIds /\ l1' = [j \in SiteIds |-> l1'[j]]
           /\ \A i \in SiteIds :
                 /\ l1'[i] = InvalidateWays(l1[i], {r} \cup refresh)
                 /\ SlotOK(l1[i])'
                 /\ l1'[i].generation = l1[i].generation
                 /\ Ways(l1[i])' = {way \in Ways(l1[i]) : ~Affected({r} \cup refresh, way.index)}
<1>1. DOMAIN l1 = SiteIds /\ l1' = [i \in DOMAIN l1 |-> InvalidateWays(l1[i], {r} \cup refresh)]
  BY DEF TypeInv, Activate
<1>2. \A i \in SiteIds : l1'[i] = InvalidateWays(l1[i], {r} \cup refresh)
  BY <1>1
<1>3. \A i \in SiteIds :
         /\ SlotOK(l1'[i])
         /\ l1'[i].generation = l1[i].generation
         /\ Ways(l1'[i]) = {way \in Ways(l1[i]) : ~Affected({r} \cup refresh, way.index)}
  <2>1. \A rows : \A i \in SiteIds :
           /\ SlotOK(InvalidateWays(l1[i], rows))
           /\ InvalidateWays(l1[i], rows).generation = l1[i].generation
           /\ Ways(InvalidateWays(l1[i], rows)) =
                 {way \in Ways(l1[i]) : ~Affected(rows, way.index)}
    BY InvalidateSlot DEF TypeInv
  <2> QED
    BY <1>2, <2>1
<1>4. generation' = generation
  BY DEF Activate
<1>5. \A i \in SiteIds : SlotOK(l1[i])' /\ Ways(l1[i])' = Ways(l1'[i])
  BY <1>3, <1>4 DEF SlotOK, Ways
<1> QED
  BY <1>1, <1>2, <1>3, <1>5

\* The same for one way of one slot.
LEMMA ActivateWay ==
    ASSUME TypeInv, NEW r \in Rows, NEW refresh \in Groups, Activate(r, refresh),
           NEW i \in SiteIds, NEW way
    PROVE  /\ l1'[i].generation = l1[i].generation
           /\ way \in Ways(l1[i])' <=>
                 way \in Ways(l1[i]) /\ ~Affected({r} \cup refresh, way.index)
BY ActivateSlots

\* It keeps the types and the agreement of the layers.
LEMMA ActivateInv ==
    ASSUME TypeInv, AgreeInv, NEW r \in Rows, NEW refresh \in Groups, Activate(r, refresh)
    PROVE  TypeInv' /\ AgreeInv'
<1>1. min_world' \in [Rows -> 1..Dormant] /\ current_world' \in 1..MaxWorld
  BY DispatchAssumption DEF TypeInv, Activate, Dormant
<1>2. l2' \subseteq l2 /\ methods' \subseteq methods /\ UNCHANGED <<frames, generation>>
  BY DEF Activate
<1>3. /\ IsFiniteSet(l2') /\ Cardinality(l2') <= Limit
      /\ IsFiniteSet(methods') /\ Cardinality(methods') <= Limit
  <2>1. /\ IsFiniteSet(l2) /\ Cardinality(l2) <= Limit
        /\ IsFiniteSet(methods) /\ Cardinality(methods) <= Limit
    BY DEF TypeInv
  <2>2. /\ IsFiniteSet(l2') /\ Cardinality(l2') <= Cardinality(l2)
        /\ IsFiniteSet(methods') /\ Cardinality(methods') <= Cardinality(methods)
    BY <1>2, <2>1, FS_Subset
  <2>3. /\ Cardinality(l2) \in Nat /\ Cardinality(l2') \in Nat
        /\ Cardinality(methods) \in Nat /\ Cardinality(methods') \in Nat
        /\ Limit \in Nat
    BY <2>1, <2>2, FS_CardinalityType, DispatchAssumption
  <2> QED
    BY <2>1, <2>2, <2>3
<1>4. TypeInv'
  BY <1>1, <1>2, <1>3, ActivateSlots DEF TypeInv
<1>5. AgreeInv'
  <2>1. \A e, f \in l2' : e.site = f.site /\ e.key = f.key => e.index = f.index
    BY <1>2 DEF AgreeInv
  <2>2. \A i \in SiteIds : l1'[i].generation = generation' =>
           \A way \in Ways(l1[i])', e \in l2' :
               e.site = i /\ e.key = way.key => e.index = way.index
    <3>1. \A i \in SiteIds : Ways(l1[i])' \subseteq Ways(l1[i])
                                /\ l1'[i].generation = l1[i].generation
      BY ActivateSlots
    <3> QED
      BY <1>2, <3>1 DEF AgreeInv
  <2> QED
    BY <2>1, <2>2 DEF AgreeInv
<1> QED
  BY <1>4, <1>5

\* After a rollback no slot is of the new generation.
LEMMA RollbackInv ==
    ASSUME TypeInv, AgreeInv, Rollback
    PROVE  TypeInv' /\ AgreeInv'
<1>1. /\ generation' = generation + 1 /\ l2' = {} /\ methods' = {}
      /\ UNCHANGED <<min_world, current_world, frames, l1>>
  BY DEF Rollback
<1>2. IsFiniteSet({}) /\ Cardinality({}) <= Limit
  BY FS_EmptySet, DispatchAssumption
<1>3. \A i \in SiteIds : SlotOK(l1[i])'
  <2> SUFFICES ASSUME NEW i \in SiteIds PROVE SlotOK(l1[i])'
    OBVIOUS
  <2>1. SlotOK(l1[i]) /\ generation \in Nat
    BY DEF TypeInv
  <2>2. l1[i].generation \in Nat /\ l1[i].generation <= generation
    BY <2>1, SlotWays DEF SlotOK
  <2>3. l1[i].generation <= generation'
    BY <1>1, <2>1, <2>2
  <2> QED
    BY <1>1, <2>1, <2>3 DEF SlotOK
<1>4. TypeInv'
  BY <1>1, <1>2, <1>3 DEF TypeInv
<1>5. AgreeInv'
  BY <1>1 DEF AgreeInv
<1> QED
  BY <1>4, <1>5

\* The invariant is inductive.
LEMMA NextInv ==
    ASSUME TypeInv, AgreeInv, [Next]_vars
    PROVE  TypeInv' /\ AgreeInv'
<1>1. CASE \E s \in Sites : \E k \in KeysOf(s) : CallSite(s, k) \/ CallMethod(s, k)
  BY <1>1, CallSiteInv, CallMethodInv
<1>2. CASE Return
  BY <1>2, ReturnInv
<1>3. CASE \E r \in Rows : \E refresh \in Groups : Activate(r, refresh)
  BY <1>3, ActivateInv
<1>4. CASE Rollback
  BY <1>4, RollbackInv
<1>5. CASE UNCHANGED vars
  BY <1>5 DEF vars, TypeInv, AgreeInv, SlotOK, Ways
<1> QED
  BY <1>1, <1>2, <1>3, <1>4, <1>5 DEF Next

\* It holds in every reachable state.
LEMMA InvAlways == Spec => [](TypeInv /\ AgreeInv)
<1>1. TypeInv /\ AgreeInv /\ [Next]_vars => (TypeInv /\ AgreeInv)'
  BY NextInv
<1> QED
  BY InitInv, <1>1, PTL DEF Spec

\* The caches never exceed their limits, and no slot holds a key twice, whatever
\* is called and defined in whatever order.
THEOREM TypeCorrect == Spec => []TypeOK
BY InvAlways, TypeInvImplies, PTL

\* A live way of a call site and the entry of its key in dispatch_cache name the
\* same row, for any call sites and limits, and in any world: whichever layer
\* answers first, the answer is the same.
THEOREM LayersAgreeHolds == Spec => []LayersAgree
<1>1. TypeInv /\ AgreeInv => LayersAgree
  <2> SUFFICES ASSUME TypeInv, AgreeInv, NEW s \in Sites, NEW k \in KeysOf(s),
                      NEW i \in Hits(l1[s.id], k), NEW e \in Found(l2, s, k)
               PROVE  l1[s.id].ways[i].index = e.index
    BY DEF LayersAgree
  <2>1. /\ l1[s.id].generation = generation /\ l1[s.id].ways[i] \in Ways(l1[s.id])
        /\ l1[s.id].ways[i].key = k
    BY DEF Hits, Ways
  <2>2. e \in l2 /\ e.site = s.id /\ e.key = k /\ s.id \in SiteIds
    BY DEF Found, SiteIds
  <2> QED
    BY <2>1, <2>2 DEF AgreeInv
<1> QED
  BY InvAlways, <1>1, PTL

\* No definition costs a call site a way that it cannot have changed.
THEOREM UnrelatedStayWarmHolds == Spec => UnrelatedStayWarm
<1> DEFINE rows == {r \in Rows : min_world'[r] = current_world'}
           Warm == current_world' # current_world =>
              \A s \in Sites : \A k \in KeysOf(s) : \A i \in Hits(l1[s.id], k) :
                  ~Affected(rows, l1[s.id].ways[i].index) =>
                      \E j \in 1..Len(l1'[s.id].ways) :
                          l1'[s.id].ways[j] = l1[s.id].ways[i]
<1>1. TypeInv /\ [Next]_vars => Warm
  <2> SUFFICES ASSUME TypeInv, [Next]_vars, current_world' # current_world,
                      NEW s \in Sites, NEW k \in KeysOf(s), NEW i \in Hits(l1[s.id], k),
                      ~Affected(rows, l1[s.id].ways[i].index)
               PROVE  \E j \in 1..Len(l1'[s.id].ways) :
                          l1'[s.id].ways[j] = l1[s.id].ways[i]
    OBVIOUS
  <2>1. l1[s.id].ways[i] \in Ways(l1[s.id]) /\ s.id \in SiteIds
    BY DEF Hits, Ways, SiteIds
  <2>2. PICK r \in Rows, refresh \in Groups : Activate(r, refresh)
    <3>1. \A t \in Sites : \A q \in KeysOf(t) : ~CallSite(t, q) /\ ~CallMethod(t, q)
      BY DEF CallSite, CallMethod
    <3>2. ~Return /\ ~Rollback /\ ~UNCHANGED vars
      BY DEF Return, Rollback, vars
    <3> QED
      BY <3>1, <3>2 DEF Next
  <2>3. {r} \cup refresh \subseteq rows
    BY <2>2, DispatchAssumption DEF Activate
  <2>4. ~Affected({r} \cup refresh, l1[s.id].ways[i].index)
    BY <2>3 DEF Affected
  <2>5. l1[s.id].ways[i] \in Ways(l1[s.id])'
    BY <2>1, <2>2, <2>4, ActivateWay
  <2> QED
    BY <2>5 DEF Ways
<1>2. Warm => [Warm]_vars
  OBVIOUS
<1> QED
  BY InvAlways, <1>1, PTL DEF Spec, UnrelatedStayWarm

-----------------------------------------------------------------------------
(***************************************************************************)
(* Freshness.  Every entry of a cache is what the resolver answers in the  *)
(* newest world.  A definition keeps this because the rows a site may      *)
(* resolve to are methods of one generic function: an entry that is not    *)
(* affected is of a site that the new method is no candidate of.           *)
(***************************************************************************)
WorldInv == \A r \in Rows : min_world[r] <= current_world \/ min_world[r] = Dormant

FreshAt(s, k, d) == k \in KeysOf(s) /\ d = Resolve(s, k, current_world)

FreshInv ==
    \A s \in Sites :
        /\ l1[s.id].generation = generation =>
              \A way \in Ways(l1[s.id]) : FreshAt(s, way.key, way.index)
        /\ \A e \in l2 \cup methods : e.site = s.id => FreshAt(s, e.key, e.index)

\* A method that is no candidate changes nothing for a site.
LEMMA ResolveStable ==
    ASSUME TypeInv, WorldInv, NEW r \in Rows, NEW refresh \in Groups, Activate(r, refresh),
           NEW s \in Sites, NEW k \in KeysOf(s),
           ~Affected({r} \cup refresh, Resolve(s, k, current_world))
    PROVE  Resolve(s, k, current_world)' = Resolve(s, k, current_world)
<1> DEFINE d == Resolve(s, k, current_world)
           all == s.candidates[k[1]]
           group == all \cup ({s.fallback} \ {Sentinel})
<1>1. k[1] \in DOMAIN s.candidates
  BY DEF KeysOf
<1>2. group \subseteq Rows /\ \A p, q \in group : BaseName(p) = BaseName(q)
  BY <1>1, DispatchAssumption
<1>3. d \in group /\ \A q \in {r} \cup refresh : BaseName(d) # BaseName(q)
  BY ResolveRange DEF Affected
<1>4. \A q \in {r} \cup refresh : q \notin group
  BY <1>2, <1>3
<1>5. \A q \in group : function_visible_in_world(q, current_world)' <=>
                       function_visible_in_world(q, current_world)
  <2> SUFFICES ASSUME NEW q \in group
               PROVE  (min_world'[q] <= current_world') <=> (min_world[q] <= current_world)
    BY DEF function_visible_in_world
  <2>1. q \in Rows /\ q \notin {r} \cup refresh
    BY <1>2, <1>4
  <2>2. min_world'[q] = min_world[q] /\ min_world[q] \in 1..Dormant
    BY <2>1 DEF Activate, TypeInv
  <2>3. current_world' = current_world + 1 /\ current_world \in 1..MaxWorld
        /\ current_world < MaxWorld /\ MaxWorld \in Nat
    BY DispatchAssumption DEF Activate, TypeInv
  <2>4. min_world[q] <= current_world \/ min_world[q] = Dormant
    BY <2>1 DEF WorldInv
  <2> QED
    BY <2>2, <2>3, <2>4 DEF Dormant
<1>6. CandidatesIn(s, k[1], current_world)' = CandidatesIn(s, k[1], current_world)
  <2>1. {q \in all : function_visible_in_world(q, current_world)}' =
           {q \in all : function_visible_in_world(q, current_world)}
    BY <1>5
  <2> QED
    BY <2>1 DEF CandidatesIn
<1>7. Fallback(s, current_world)' = Fallback(s, current_world)
  BY <1>5 DEF Fallback
<1> QED
  BY <1>6, <1>7 DEF Resolve

\* A call takes its decision from a fresh entry or from the resolver.
LEMMA DecisionFresh ==
    ASSUME TypeInv, FreshInv, ~OldWorldCalls,
           NEW s \in Sites, NEW k \in KeysOf(s), MayCall(s, k)
    PROVE  /\ Decision(s, k) = Resolve(s, k, current_world)
           /\ current_dispatch_world = current_world
<1>0. current_dispatch_world = current_world
  BY DEF MayCall
<1> DEFINE found == Found(IF s.kind = "method" THEN methods ELSE l2, s, k)
           hit == s.kind # "method" /\ Hits(l1[s.id], k) # {}
<1>1. CASE hit
  <2>1. PICK way \in Ways(l1[s.id]) : way.key = k /\ way.index = Decision(s, k)
    BY <1>1, HitDecision
  <2>2. FreshAt(s, way.key, way.index)
    BY <1>1, HitDecision DEF FreshInv
  <2> QED
    BY <1>0, <2>1, <2>2 DEF FreshAt
<1>2. CASE ~hit /\ found # {}
  <2>1. Decision(s, k) = (CHOOSE e \in found : TRUE).index
    BY <1>2 DEF Decision
  <2>2. PICK e \in found : Decision(s, k) = e.index
    BY <1>2, <2>1
  <2>3. e \in l2 \cup methods /\ e.site = s.id /\ e.key = k
    BY DEF Found
  <2> QED
    BY <1>0, <2>2, <2>3 DEF FreshInv, FreshAt
<1>3. CASE ~hit /\ found = {}
  BY <1>0, <1>3 DEF Decision
<1> QED
  BY <1>0, <1>1, <1>2, <1>3

\* Calls store what is fresh, at the site they are made from.
LEMMA CallFresh ==
    ASSUME TypeInv, WorldInv, FreshInv, ~OldWorldCalls, NEW s \in Sites, NEW k \in KeysOf(s),
           CallSite(s, k) \/ CallMethod(s, k)
    PROVE  WorldInv' /\ FreshInv'
<1> DEFINE d == Decision(s, k)
           id == s.id
<1>0. UNCHANGED <<min_world, current_world, generation>> /\ MayCall(s, k)
  BY DEF CallSite, CallMethod
<1>1. WorldInv'
  BY <1>0 DEF WorldInv
<1>2. FreshAt(s, k, d) /\ d \in Decisions /\ k \in Keys /\ id \in SiteIds
  BY <1>0, DecisionFresh, DecisionType, SiteKeys DEF FreshAt
<1>3. \A t \in Sites : \A x, y : FreshAt(t, x, y)' <=> FreshAt(t, x, y)
  BY <1>0 DEF FreshAt, Resolve, CandidatesIn, Fallback, function_visible_in_world
<1>4. l2' \cup methods' \subseteq l2 \cup methods \cup {Entry(s, k, d)}
  <2>1. CASE CallSite(s, k)
    <3>1. methods' = methods /\ (l2' = l2 \/ StoreL2(s, k, d))
      BY <2>1 DEF CallSite
    <3>2. StoreL2(s, k, d) => l2' \subseteq Without(l2, s, k) \cup {Entry(s, k, d)}
      BY <1>2, StoreL2Inv
    <3> QED
      BY <3>1, <3>2 DEF Without
  <2>2. CASE CallMethod(s, k)
    <3>1. l2' = l2 /\ (methods' = methods \/ StoreMethod(s, k, d))
      BY <2>2 DEF CallMethod
    <3> QED
      BY <3>1, <1>2, StoreMethodInv
  <2> QED
    BY <2>1, <2>2
<1>5. \A t \in Sites, e \in l2' \cup methods' : e.site = t.id => FreshAt(t, e.key, e.index)
  <2> SUFFICES ASSUME NEW t \in Sites, NEW e \in l2' \cup methods', e.site = t.id
               PROVE  FreshAt(t, e.key, e.index)
    OBVIOUS
  <2>1. CASE e \in l2 \cup methods
    BY <2>1 DEF FreshInv
  <2>2. CASE e = Entry(s, k, d)
    <3>1. t = s
      BY <2>2, DispatchAssumption DEF Entry
    <3> QED
      BY <1>2, <2>2, <3>1 DEF Entry
  <2> QED
    BY <1>4, <2>1, <2>2
<1>6. \A t \in Sites : l1'[t.id].generation = generation =>
         \A way \in Ways(l1'[t.id]) : FreshAt(t, way.key, way.index)
  <2> SUFFICES ASSUME NEW t \in Sites, l1'[t.id].generation = generation,
                      NEW way \in Ways(l1'[t.id])
               PROVE  FreshAt(t, way.key, way.index)
    OBVIOUS
  <2>0. t.id \in SiteIds /\ SlotOK(l1[id]) /\ generation \in Nat
    BY <1>2 DEF SiteIds, TypeInv
  <2>1. CASE l1' = l1
    BY <2>1 DEF FreshInv
  <2>2. CASE l1' # l1 /\ t # s
    <3>1. t.id # id
      BY <2>2, DispatchAssumption
    <3>2. l1'[t.id] = l1[t.id]
      BY <2>0, <2>2, <3>1 DEF CallSite, CallMethod, TypeInv
    <3> QED
      BY <3>2 DEF FreshInv
  <2>3. CASE l1' # l1 /\ t = s
    <3>1. CASE Hits(l1[id], k) # {}
      <4>1. l1' = [l1 EXCEPT ![id] = Promote(l1[id], k)]
        BY <2>3, <3>1 DEF CallSite, CallMethod
      <4>2. l1'[id] = Promote(l1[id], k)
        BY <1>2, <4>1 DEF TypeInv
      <4>3. l1[id].generation = generation /\ way \in Ways(l1[id])
        BY <2>0, <2>3, <4>2, PromoteSlot
      <4> QED
        BY <2>3, <4>3 DEF FreshInv
    <3>2. CASE Hits(l1[id], k) = {}
      <4>1. l1' = [l1 EXCEPT ![id] = Store(l1[id], k, d)]
        BY <2>3, <3>2 DEF CallSite, CallMethod
      <4>2. l1'[id] = Store(l1[id], k, d)
        BY <1>2, <4>1 DEF TypeInv
      <4>3. \/ way = [key |-> k, index |-> d]
            \/ l1[id].generation = generation /\ way \in Ways(l1[id])
        BY <1>2, <2>0, <2>3, <3>2, <4>2, StoreSlot
      <4> QED
        BY <1>2, <2>3, <4>3 DEF FreshInv
    <3> QED
      BY <3>1, <3>2
  <2> QED
    BY <2>1, <2>2, <2>3
<1>7. FreshInv'
  BY <1>0, <1>3, <1>5, <1>6 DEF FreshInv, Ways
<1> QED
  BY <1>1, <1>7

\* A definition takes away every entry that it may have changed.
LEMMA ActivateFresh ==
    ASSUME TypeInv, WorldInv, FreshInv, NEW r \in Rows, NEW refresh \in Groups, Activate(r, refresh)
    PROVE  WorldInv' /\ FreshInv'
<1>1. WorldInv'
  <2> SUFFICES ASSUME NEW q \in Rows
               PROVE  min_world'[q] <= current_world' \/ min_world'[q] = Dormant
    BY DEF WorldInv
  <2>1. /\ current_world \in Nat /\ current_world' = current_world + 1
        /\ min_world[q] \in Nat
    BY DispatchAssumption DEF TypeInv, Activate, Dormant
  <2>2. CASE q \in {r} \cup refresh
    BY <2>1, <2>2 DEF TypeInv, Activate
  <2>3. CASE q \notin {r} \cup refresh
    <3>1. min_world'[q] = min_world[q]
      BY <2>3 DEF TypeInv, Activate
    <3> QED
      BY <2>1, <3>1 DEF WorldInv
  <2> QED
    BY <2>2, <2>3
<1>2. ASSUME NEW s \in Sites, NEW x, NEW y, FreshAt(s, x, y), ~Affected({r} \cup refresh, y)
      PROVE  FreshAt(s, x, y)'
  <2>1. x \in KeysOf(s) /\ y = Resolve(s, x, current_world)
    BY <1>2 DEF FreshAt
  <2>2. Resolve(s, x, current_world)' = Resolve(s, x, current_world)
    BY <1>2, <2>1, ResolveStable
  <2> QED
    BY <2>1, <2>2 DEF FreshAt
<1>3. ASSUME NEW s \in Sites, (l1[s.id].generation = generation)', NEW way \in Ways(l1[s.id])'
      PROVE  FreshAt(s, way.key, way.index)'
  <2>1. s.id \in SiteIds /\ generation' = generation
    BY DEF SiteIds, Activate
  <2>2. l1[s.id].generation = generation /\ way \in Ways(l1[s.id]) /\ ~Affected({r} \cup refresh, way.index)
    BY <1>3, <2>1, ActivateWay
  <2>3. FreshAt(s, way.key, way.index)
    BY <2>2 DEF FreshInv
  <2> QED
    BY <1>2, <2>2, <2>3
<1>4. ASSUME NEW s \in Sites, NEW e \in l2' \cup methods', e.site = s.id
      PROVE  FreshAt(s, e.key, e.index)'
  <2>1. e \in l2 \cup methods /\ ~Affected({r} \cup refresh, e.index)
    BY DEF Activate
  <2>2. FreshAt(s, e.key, e.index)
    BY <1>4, <2>1 DEF FreshInv
  <2> QED
    BY <1>2, <2>1, <2>2
<1> QED
  BY <1>1, <1>3, <1>4 DEF FreshInv

\* A return leaves worlds and caches alone.
LEMMA IdleFresh ==
    ASSUME WorldInv, FreshInv, UNCHANGED <<min_world, current_world, generation, l1, l2, methods>>
    PROVE  WorldInv' /\ FreshInv'
<1>1. WorldInv'
  BY DEF WorldInv
<1>2. \A s \in Sites : \A x, y : FreshAt(s, x, y)' <=> FreshAt(s, x, y)
  BY DEF FreshAt, Resolve, CandidatesIn, Fallback, function_visible_in_world
<1>3. FreshInv'
  BY <1>2 DEF FreshInv, Ways
<1> QED
  BY <1>1, <1>3

\* A rollback leaves no entry that can be found.
LEMMA RollbackFresh ==
    ASSUME TypeInv, WorldInv, Rollback
    PROVE  WorldInv' /\ FreshInv'
<1>1. /\ generation' = generation + 1 /\ l2' = {} /\ methods' = {}
      /\ UNCHANGED <<min_world, current_world, l1>>
  BY DEF Rollback
<1>2. WorldInv'
  BY <1>1 DEF WorldInv
<1>3. \A s \in Sites : l1'[s.id].generation # generation'
  <2> SUFFICES ASSUME NEW s \in Sites PROVE l1[s.id].generation # generation + 1
    BY <1>1
  <2>1. SlotOK(l1[s.id]) /\ generation \in Nat
    BY DEF TypeInv, SiteIds
  <2>2. l1[s.id].generation \in Nat /\ l1[s.id].generation <= generation
    BY <2>1, SlotWays DEF SlotOK
  <2> QED
    BY <2>1, <2>2
<1> QED
  BY <1>1, <1>2, <1>3 DEF FreshInv

\* The caches are empty at first, and no row is of a later world.
LEMMA InitFresh == Init => WorldInv /\ FreshInv
<1> SUFFICES ASSUME Init PROVE WorldInv /\ FreshInv
  OBVIOUS
<1>1. WorldInv
  BY DEF Init, WorldInv
<1>2. ASSUME NEW s \in Sites
      PROVE  Ways(l1[s.id]) = {}
  <2>1. l1[s.id].ways = <<>>
    BY DEF Init
  <2> QED
    BY <2>1 DEF Ways
<1>3. l2 = {} /\ methods = {}
  BY DEF Init
<1> QED
  BY <1>1, <1>2, <1>3 DEF FreshInv

\* No call uses a decision that a definition has changed, as long as calls are
\* made from frames of the newest world; for any function table, call sites and
\* limits.
THEOREM DispatchFreshHolds ==
    ASSUME ~OldWorldCalls
    PROVE  Spec => []DispatchFresh
<1> DEFINE Inv == TypeInv /\ AgreeInv /\ WorldInv /\ FreshInv
<1>1. Init => Inv
  BY InitInv, InitFresh
<1>2. Inv /\ [Next]_vars => Inv'
  <2> SUFFICES ASSUME Inv, [Next]_vars PROVE WorldInv' /\ FreshInv'
    BY NextInv
  <2>1. CASE \E s \in Sites : \E k \in KeysOf(s) : CallSite(s, k) \/ CallMethod(s, k)
    BY <2>1, CallFresh
  <2>2. CASE Return
    BY <2>2, IdleFresh DEF Return, caches
  <2>3. CASE \E r \in Rows : \E refresh \in Groups : Activate(r, refresh)
    BY <2>3, ActivateFresh
  <2>4. CASE Rollback
    BY <2>4, RollbackFresh
  <2>5. CASE UNCHANGED vars
    BY <2>5, IdleFresh DEF vars
  <2> QED
    BY <2>1, <2>2, <2>3, <2>4, <2>5 DEF Next
<1>3. Inv => DispatchFresh
  BY DecisionFresh DEF DispatchFresh
<1> QED
  BY <1>1, <1>2, <1>3, PTL DEF Spec

=============================================================================
