--------------------------- MODULE ExceptionsProofs ---------------------------
(***************************************************************************)
(* Proofs about Exceptions, for every set of try statements, every depth   *)
(* and any number of exceptions.  A theorem assumes that the program       *)
(* shapes are left out for which the property fails, and only those.       *)
(*                                                                         *)
(* Every step takes away what is open from some depth on and may open one  *)
(* thing there.  The stacks of the VM follow: that is what the lemmas show *)
(* action by action.                                                       *)
(***************************************************************************)
EXTENDS Exceptions, RankProofs

-----------------------------------------------------------------------------
(***************************************************************************)
(* Activations.                                                            *)
(***************************************************************************)
Clauses == {"try", "else", "catch", "finally"}
Tries == [kind : {"try"}, has : AllStatements, clause : Clauses,
          by : Exc \cup {None}, runs : Nat]

LEMMA ActivationKinds ==
    ASSUME NEW a \in Activation
    PROVE  /\ a.kind \in {"try", "call", "inline"}
           /\ IsTry(a) => a \in Tries
           /\ a.kind = "inline" => \E k \in 1..MaxDepth : a = Inline(k)
BY DEF Activation, Tries, Clauses, Frame, Inline, IsTry

LEMMA ActivationTypes ==
    /\ Frame \in Activation
    /\ \A k \in 1..MaxDepth : Inline(k) \in Activation
    /\ \A a \in Tries : a \in Activation /\ IsTry(a)
    /\ \A s \in AllStatements : Try(s) \in Tries
<1>1. \A s \in AllStatements : Try(s) \in Tries
  BY DEF Try, Tries, Clauses
<1> QED
  BY <1>1 DEF Activation, Tries, Clauses, IsTry

\* A try statement has a catch or a finally clause, and an else only with a catch.
LEMMA StatementTypes ==
    ASSUME NEW s \in AllStatements
    PROVE  s.c \in BOOLEAN /\ s.e \in BOOLEAN /\ s.f \in BOOLEAN /\ s.fresh \in BOOLEAN
BY DEF AllStatements

LEMMA TruncateSeq ==
    ASSUME NEW X, NEW s \in Seq(X), NEW n \in Nat
    PROVE  /\ Truncate(s, n) \in Seq(X)
           /\ Len(Truncate(s, n)) = IF n < Len(s) THEN n ELSE Len(s)
           /\ Truncate(s, n) = SubSeq(s, 1, Len(Truncate(s, n)))
           /\ \A i \in 1..Len(Truncate(s, n)) : Truncate(s, n)[i] = s[i]
<1> DEFINE m == IF n < Len(s) THEN n ELSE Len(s)
<1>1. Truncate(s, n) = SubSeq(s, 1, m)
  BY DEF Truncate
<1>2. Len(s) \in Nat
  OBVIOUS
<1>3. m \in Nat /\ m <= Len(s)
  BY <1>2
<1> HIDE DEF m
<1>4. /\ SubSeq(s, 1, m) \in Seq(X) /\ Len(SubSeq(s, 1, m)) = m
      /\ \A i \in 1..m : SubSeq(s, 1, m)[i] = s[i]
  BY <1>2, <1>3
<1> QED
  BY <1>1, <1>4 DEF m

LEMMA FrontSeq ==
    ASSUME NEW X, NEW s \in Seq(X), s # <<>>
    PROVE  /\ Len(s) - 1 \in Nat
           /\ Front(s) \in Seq(X) /\ Len(Front(s)) = Len(s) - 1
           /\ Front(s) = SubSeq(s, 1, Len(s) - 1)
           /\ \A i \in 1..(Len(s) - 1) : Front(s)[i] = s[i]
           /\ Last(s) \in X /\ Last(s) = s[Len(s)]
<1> DEFINE m == Len(s) - 1
<1>1. m \in Nat /\ m <= Len(s)
  OBVIOUS
<1>2. Front(s) = SubSeq(s, 1, m) /\ Last(s) = s[m + 1] /\ Len(s) = m + 1
  BY DEF Front, Last
<1> HIDE DEF m
<1>3. /\ SubSeq(s, 1, m) \in Seq(X) /\ Len(SubSeq(s, 1, m)) = m
      /\ \A i \in 1..m : SubSeq(s, 1, m)[i] = s[i]
  BY <1>1
<1>4. s[m + 1] \in X
  BY <1>1, <1>2
<1> QED
  BY <1>1, <1>2, <1>3, <1>4 DEF m

LEMMA AppendSeq ==
    ASSUME NEW X, NEW s \in Seq(X), NEW x \in X
    PROVE  /\ Append(s, x) \in Seq(X) /\ Len(Append(s, x)) = Len(s) + 1
           /\ Append(s, x)[Len(s) + 1] = x
           /\ \A i \in 1..Len(s) : Append(s, x)[i] = s[i]
OBVIOUS

-----------------------------------------------------------------------------
(***************************************************************************)
(* What is open: one depth n where a step changes it.                      *)
(***************************************************************************)
\* a and b differ at most in the times their finally has run.
Alike(a, b) ==
    /\ a.kind = b.kind
    /\ IsTry(b) => a.has = b.has /\ a.clause = b.clause /\ a.by = b.by
    /\ b.kind = "inline" => a.of = b.of

\* Everything from depth n on is left, and something may be opened there.
Cut(n) ==
    /\ n \in 1..(Len(ctx) + 1)
    /\ ctx' \in Seq(Activation) /\ Len(ctx') \in {n - 1, n}
    /\ \A j \in 1..(n - 1) : Alike(ctx'[j], ctx[j])

LEMMA AppendCut ==
    ASSUME ctx \in Seq(Activation), NEW a \in Activation, ctx' = Append(ctx, a)
    PROVE  /\ Cut(Len(ctx) + 1) /\ Len(ctx') = Len(ctx) + 1 /\ ctx'[Len(ctx) + 1] = a
           /\ \A j \in 1..Len(ctx) : ctx'[j] = ctx[j]
<1>1. /\ ctx' \in Seq(Activation) /\ Len(ctx') = Len(ctx) + 1 /\ ctx'[Len(ctx) + 1] = a
      /\ \A j \in 1..Len(ctx) : ctx'[j] = ctx[j]
  BY AppendSeq
<1>2. Len(ctx) \in Nat
  OBVIOUS
<1> QED
  BY <1>1, <1>2 DEF Cut, Alike

LEMMA StayCut ==
    ASSUME ctx \in Seq(Activation), ctx' = ctx
    PROVE  Cut(Len(ctx) + 1) /\ Len(ctx') = Len(ctx)
<1>1. Len(ctx) \in Nat
  OBVIOUS
<1> QED
  BY <1>1 DEF Cut, Alike

LEMMA TruncateCut ==
    ASSUME ctx \in Seq(Activation), NEW n \in 1..Len(ctx), ctx' = Truncate(ctx, n - 1)
    PROVE  Cut(n) /\ Len(ctx') = n - 1 /\ \A j \in 1..(n - 1) : ctx'[j] = ctx[j]
<1>1. n - 1 \in Nat /\ n - 1 < Len(ctx) /\ Len(ctx) \in Nat
  OBVIOUS
<1>2. /\ ctx' \in Seq(Activation) /\ Len(ctx') = n - 1
      /\ \A j \in 1..(n - 1) : ctx'[j] = ctx[j]
  BY <1>1, TruncateSeq
<1> QED
  BY <1>1, <1>2 DEF Cut, Alike

LEMMA FrontCut ==
    ASSUME ctx \in Seq(Activation), ctx # <<>>, ctx' = Front(ctx)
    PROVE  /\ Cut(Len(ctx)) /\ Len(ctx') = Len(ctx) - 1 /\ Len(ctx) \in Nat \ {0}
           /\ \A j \in 1..(Len(ctx) - 1) : ctx'[j] = ctx[j]
<1>1. Len(ctx) \in Nat \ {0}
  OBVIOUS
<1>2. /\ ctx' \in Seq(Activation) /\ Len(ctx') = Len(ctx) - 1
      /\ \A j \in 1..(Len(ctx) - 1) : ctx'[j] = ctx[j]
  BY FrontSeq
<1> QED
  BY <1>1, <1>2 DEF Cut, Alike

\* The try at depth n moves on to clause c.
LEMMA ToClauseCut ==
    ASSUME ctx \in Seq(Activation), NEW n \in 1..Len(ctx), IsTry(ctx[n]),
           NEW c \in Clauses, NEW e \in Exc \cup {None}, ctx' = ToClause(n, c, e)
    PROVE  /\ Cut(n) /\ Len(ctx') = n /\ \A j \in 1..(n - 1) : ctx'[j] = ctx[j]
           /\ ctx'[n] \in Tries /\ IsTry(ctx'[n])
           /\ ctx'[n].has = ctx[n].has /\ ctx'[n].clause = c /\ ctx'[n].by = e
           /\ ctx'[n].runs = IF c = "finally" THEN ctx[n].runs + 1 ELSE ctx[n].runs
<1> DEFINE t == Truncate(ctx, n)
           x == t[n]
           r == IF c = "finally" THEN x.runs + 1 ELSE x.runs
           a == [x EXCEPT !.clause = c, !.by = e, !.runs = r]
<1>1. n \in Nat /\ Len(ctx) \in Nat /\ n <= Len(ctx) /\ n # 0
  OBVIOUS
<1>2. t \in Seq(Activation) /\ Len(t) = n /\ \A j \in 1..n : t[j] = ctx[j]
  BY <1>1, TruncateSeq
<1>3. x = ctx[n] /\ x \in Tries
  BY <1>1, <1>2, ActivationKinds
<1>4. ctx' = [t EXCEPT ![n] = a]
  <2>1. ctx' = [t EXCEPT ![n].clause = c, ![n].by = e,
                         ![n].runs = IF c = "finally" THEN @ + 1 ELSE @]
    BY DEF ToClause
  <2>2. t[n] \in Tries /\ n \in DOMAIN t
    BY <1>1, <1>2, <1>3
  <2> HIDE DEF t
  <2> QED
    BY <2>1, <2>2 DEF Tries
<1>5. r \in Nat
  BY <1>3 DEF Tries
<1>6. a \in Tries /\ a.has = x.has /\ a.clause = c /\ a.by = e /\ a.runs = r
  <2> HIDE DEF r, x
  <2> QED
    BY <1>3, <1>5 DEF Tries
<1>7. a \in Activation /\ IsTry(a)
  BY <1>6, ActivationTypes
<1> HIDE DEF t, a, x
<1>8. /\ ctx' \in Seq(Activation) /\ Len(ctx') = n /\ ctx'[n] = a
      /\ \A j \in 1..(n - 1) : ctx'[j] = ctx[j]
  BY <1>1, <1>2, <1>4, <1>7
<1>9. Cut(n)
  BY <1>1, <1>8 DEF Cut, Alike
<1> QED
  BY <1>3, <1>6, <1>7, <1>8, <1>9

\* The finally of the try at depth k is inlined on top of the first m of what is open.
InlineCut(m, k) ==
    /\ Cut(m + 1) /\ Len(ctx') = m + 1 /\ ctx'[m + 1] = Inline(k)
    /\ \A j \in 1..m : j # k => ctx'[j] = ctx[j]
    /\ ctx[k] \in Tries /\ ctx'[k] \in Tries /\ IsTry(ctx'[k])
    /\ ctx'[k].has = ctx[k].has /\ ctx'[k].clause = ctx[k].clause
    /\ ctx'[k].runs = ctx[k].runs + 1

\* A finally block is inlined on top of s, the first m of what is open.
LEMMA RunInlineCut ==
    ASSUME ctx \in Seq(Activation), NEW m \in Nat, m <= Len(ctx),
           NEW s \in Seq(Activation), Len(s) = m, \A j \in 1..m : s[j] = ctx[j],
           NEW k \in 1..m, IsTry(ctx[k]), k \in 1..MaxDepth,
           RunInline(s, k)
    PROVE  InlineCut(m, k)
<1> DEFINE t == Append(s, Inline(k))
           u == ctx'
           x == ctx[k]
           r == x.runs + 1
           a == [x EXCEPT !.runs = r]
<1>1. Inline(k) \in Activation
  BY ActivationTypes
<1>2. /\ t \in Seq(Activation) /\ Len(t) = m + 1 /\ t[m + 1] = Inline(k)
      /\ \A j \in 1..m : t[j] = ctx[j]
  <2>1. /\ t \in Seq(Activation) /\ Len(t) = Len(s) + 1 /\ t[Len(s) + 1] = Inline(k)
        /\ \A j \in 1..Len(s) : t[j] = s[j]
    BY <1>1, AppendSeq
  <2> QED
    BY <2>1
<1>3. u = [t EXCEPT ![k] = a] /\ k \in 1..(m + 1) /\ k # m + 1
  <2>1. t[k] = ctx[k]
    BY <1>2
  <2> QED
    BY <2>1 DEF RunInline
<1>4. x \in Tries
  BY ActivationKinds
<1>5. /\ a \in Tries /\ a.has = x.has /\ a.clause = x.clause
      /\ a.by = x.by /\ a.runs = r /\ a.kind = "try"
  <2>1. r \in Nat
    BY <1>4 DEF Tries
  <2> HIDE DEF r, x
  <2> QED
    BY <1>4, <2>1 DEF Tries
<1>6. a \in Activation /\ IsTry(a)
  BY <1>5, ActivationTypes
<1> HIDE DEF t, u, a
<1>7. /\ u \in Seq(Activation) /\ Len(u) = m + 1 /\ u[k] = a
      /\ \A j \in 1..(m + 1) : j # k => u[j] = t[j]
  BY <1>2, <1>3, <1>6
<1>8. u[m + 1] = Inline(k) /\ \A j \in 1..m : j # k => u[j] = ctx[j]
  BY <1>2, <1>3, <1>7
<1>9. \A j \in 1..m : Alike(u[j], ctx[j])
  BY <1>5, <1>7, <1>8 DEF Alike, IsTry
<1>10. Cut(m + 1)
  <2>1. Len(ctx) \in Nat /\ m + 1 \in 1..(Len(ctx) + 1) /\ (m + 1) - 1 = m
    OBVIOUS
  <2> QED
    BY <1>7, <1>9, <2>1 DEF Cut, u
<1> QED
  BY <1>4, <1>5, <1>6, <1>7, <1>8, <1>10 DEF u, InlineCut

-----------------------------------------------------------------------------
(***************************************************************************)
(* The invariant that holds for all programs.                              *)
(***************************************************************************)
Inlines == {k \in 1..Len(ctx) : ctx[k].kind = "inline"}
Unwounds == {k \in 1..Len(ctx) : Unwound(ctx[k])}

ClauseInv == \A k \in 1..Len(ctx) : InClause(ctx[k], "finally") => ctx[k].has.f
DepthInv == \A k \in 1..Len(ctx) : ctx[k].kind \in {"try", "call"} => k <= MaxDepth

\* Below a finally block that a return runs, back to the call, there are only
\* try statements outside their finally, and the one whose finally it is.
Segment(b, i, m) ==
    /\ b \in Frames /\ b < i /\ i < m
    /\ ctx[i].has.f
    /\ \A k \in (b + 1)..(m - 1) : IsTry(ctx[k]) /\ ctx[k].clause # "finally"

SegmentInv == \A m \in Inlines : \E b \in Frames : Segment(b, ctx[m].of, m)

CtxInv == ctx \in Seq(Activation) /\ ClauseInv /\ DepthInv /\ SegmentInv

\* HandlersExact at every moment, and the depth of the calls.
HandlerInv ==
    /\ Len(handlers) = Cardinality(Guarded)
    /\ \A k \in Guarded :
          LET h == handlers[Rank(Guarded, k)]
          IN  h.at = k /\ h.route = Route(ctx[k]) /\ h.return_ip_len = Rank(Frames, k)

BaseInv == TypeOK /\ CtxInv /\ HandlerInv

LEMMA OpenPositions ==
    ASSUME ctx \in Seq(Activation)
    PROVE  /\ Positions(Guarded) /\ Positions(Catches) /\ Positions(Frames)
           /\ Positions(Unwounds)
<1>1. Len(ctx) \in Nat
  OBVIOUS
<1> QED
  BY <1>1, PositionsUpTo DEF Guarded, Catches, Frames, Unwounds

\* What is open below a cut is what was open there.
LEMMA CutSets ==
    ASSUME ctx \in Seq(Activation), NEW n, Cut(n)
    PROVE  /\ n \in Nat \ {0}
           /\ \A k \in 1..(n - 1) :
                 /\ k \in 1..Len(ctx) /\ k \in 1..Len(ctx')
                 /\ k \in Guarded' <=> k \in Guarded
                 /\ k \in Catches' <=> k \in Catches
                 /\ k \in Frames' <=> k \in Frames
                 /\ k \in Unwounds' <=> k \in Unwounds
                 /\ k \in Inlines' <=> k \in Inlines
                 /\ IsTry(ctx'[k]) <=> IsTry(ctx[k])
                 /\ IsTry(ctx[k]) =>
                      /\ ctx'[k].has = ctx[k].has /\ ctx'[k].clause = ctx[k].clause
                      /\ ctx'[k].by = ctx[k].by /\ Route(ctx'[k]) = Route(ctx[k])
                 /\ k \in Inlines => ctx'[k].of = ctx[k].of
           /\ \A k \in Guarded' \cup Catches' \cup Frames' \cup Unwounds' \cup Inlines' :
                 k \in 1..n /\ k \in 1..Len(ctx') /\ (k = n => Len(ctx') = n)
<1>1. /\ Len(ctx) \in Nat /\ Len(ctx') \in Nat
      /\ n \in 1..(Len(ctx) + 1) /\ Len(ctx') \in {n - 1, n}
      /\ \A k \in 1..(n - 1) : Alike(ctx'[k], ctx[k])
  BY DEF Cut
<1>2. n \in Nat \ {0}
  BY <1>1
<1>3. \A k \in 1..(n - 1) : k \in 1..Len(ctx) /\ k \in 1..Len(ctx')
  BY <1>1
<1>4. ASSUME NEW k \in 1..(n - 1)
      PROVE  /\ k \in Guarded' <=> k \in Guarded
             /\ k \in Catches' <=> k \in Catches
             /\ k \in Frames' <=> k \in Frames
             /\ k \in Unwounds' <=> k \in Unwounds
             /\ k \in Inlines' <=> k \in Inlines
             /\ IsTry(ctx'[k]) <=> IsTry(ctx[k])
             /\ IsTry(ctx[k]) =>
                  /\ ctx'[k].has = ctx[k].has /\ ctx'[k].clause = ctx[k].clause
                  /\ ctx'[k].by = ctx[k].by /\ Route(ctx'[k]) = Route(ctx[k])
             /\ k \in Inlines => ctx'[k].of = ctx[k].of
  <2>1. Alike(ctx'[k], ctx[k]) /\ k \in 1..Len(ctx) /\ k \in 1..Len(ctx')
    BY <1>1, <1>3
  <2>2. /\ IsTry(ctx'[k]) <=> IsTry(ctx[k])
        /\ ctx'[k].kind = ctx[k].kind
        /\ IsTry(ctx[k]) => ctx'[k].has = ctx[k].has /\ ctx'[k].clause = ctx[k].clause
                            /\ ctx'[k].by = ctx[k].by
        /\ ctx[k].kind = "inline" => ctx'[k].of = ctx[k].of
    BY <2>1 DEF Alike, IsTry
  <2>3. k \in Guarded' <=> k \in Guarded
    BY <2>1, <2>2 DEF Guarded, Installs
  <2>4. (k \in Catches' <=> k \in Catches) /\ (k \in Unwounds' <=> k \in Unwounds)
    BY <2>1, <2>2 DEF Catches, InClause, Unwounds, Unwound
  <2>5. (k \in Frames' <=> k \in Frames) /\ (k \in Inlines' <=> k \in Inlines)
    BY <2>1, <2>2 DEF Frames, Inlines
  <2>6. IsTry(ctx[k]) => Route(ctx'[k]) = Route(ctx[k])
    BY <2>2 DEF Route
  <2> QED
    BY <2>2, <2>3, <2>4, <2>5, <2>6 DEF Inlines
<1>5. \A k \in Guarded' \cup Catches' \cup Frames' \cup Unwounds' \cup Inlines' :
         k \in 1..Len(ctx')
  BY DEF Guarded, Catches, Frames, Unwounds, Inlines
<1>6. \A k \in 1..Len(ctx') : k \in 1..n /\ (k = n => Len(ctx') = n)
  BY <1>1
<1> QED
  BY <1>2, <1>3, <1>4, <1>5, <1>6

\* Ranks below a cut stay.
LEMMA CutRanks ==
    ASSUME ctx \in Seq(Activation), NEW n, Cut(n), NEW k \in Nat, k < n
    PROVE  /\ Rank(Guarded', k) = Rank(Guarded, k) /\ Rank(Catches', k) = Rank(Catches, k)
           /\ Rank(Frames', k) = Rank(Frames, k) /\ Rank(Unwounds', k) = Rank(Unwounds, k)
<1>1. ctx' \in Seq(Activation) /\ n \in Nat
  BY CutSets DEF Cut
<1>2. \A j \in Guarded \cup Catches \cup Frames \cup Unwounds
            \cup Guarded' \cup Catches' \cup Frames' \cup Unwounds' : j \in Nat \ {0}
  <2>1. Len(ctx) \in Nat /\ Len(ctx') \in Nat
    BY <1>1
  <2> QED
    BY <2>1 DEF Guarded, Catches, Frames, Unwounds
<1>3. \A j \in Nat \ {0} : j <= k => j \in 1..(n - 1)
  BY <1>1
<1>4. {j \in Guarded' : j <= k} = {j \in Guarded : j <= k}
  BY <1>2, <1>3, CutSets
<1>5. {j \in Catches' : j <= k} = {j \in Catches : j <= k}
  BY <1>2, <1>3, CutSets
<1>6. {j \in Frames' : j <= k} = {j \in Frames : j <= k}
  BY <1>2, <1>3, CutSets
<1>7. {j \in Unwounds' : j <= k} = {j \in Unwounds : j <= k}
  BY <1>2, <1>3, CutSets
<1> QED
  BY <1>4, <1>5, <1>6, <1>7, RankSame

\* What is opened at depth n fits with what is open below.
NewTop(n) ==
    Len(ctx') = n =>
        /\ ctx'[n].kind \in {"try", "call"} => n <= MaxDepth
        /\ InClause(ctx'[n], "finally") => ctx'[n].has.f
        /\ ctx'[n].kind = "inline" => \E b \in Frames : Segment(b, ctx'[n].of, n)

\* A segment stays as long as the place of its inlined block.
LEMMA SegmentKept ==
    ASSUME ctx \in Seq(Activation), NEW n, Cut(n), NEW m \in 1..n, NEW i \in Nat,
           NEW b, Segment(b, i, m)
    PROVE  b \in Frames' /\ Segment(b, i, m)'
<1>1. n \in Nat \ {0} /\ b \in Nat /\ b > 0
  BY CutSets DEF Segment, Frames
<1>2. b \in Frames /\ b < i /\ i < m /\ ctx[i].has.f
      /\ \A k \in (b + 1)..(m - 1) : IsTry(ctx[k]) /\ ctx[k].clause # "finally"
  BY DEF Segment
<1>3. b \in 1..(n - 1) /\ i \in 1..(n - 1) /\ i \in (b + 1)..(m - 1)
  BY <1>1, <1>2
<1>4. b \in Frames' /\ ctx'[i].has = ctx[i].has
  BY <1>2, <1>3, CutSets
<1>5. \A k \in (b + 1)..(m - 1) : k \in 1..(n - 1)
  BY <1>1
<1>6. \A k \in (b + 1)..(m - 1) : IsTry(ctx'[k]) /\ ctx'[k].clause # "finally"
  BY <1>2, <1>5, CutSets
<1> QED
  BY <1>2, <1>4, <1>6 DEF Segment

LEMMA CtxStep ==
    ASSUME CtxInv, NEW n, Cut(n), NewTop(n)
    PROVE  CtxInv'
<1>0. ctx \in Seq(Activation) /\ ctx' \in Seq(Activation)
  BY DEF CtxInv, Cut
<1>1. /\ n \in Nat \ {0} /\ Len(ctx') \in Nat /\ Len(ctx') \in {n - 1, n}
      /\ \A k \in 1..Len(ctx') : k \in 1..(n - 1) \/ (k = n /\ Len(ctx') = n)
  <2>1. Len(ctx') \in Nat /\ n \in Nat \ {0} /\ Len(ctx') \in {n - 1, n}
    BY <1>0, CutSets DEF Cut
  <2> QED
    BY <2>1
<1>2. ClauseInv'
  <2> SUFFICES ASSUME NEW k \in 1..Len(ctx'), InClause(ctx'[k], "finally")
               PROVE  ctx'[k].has.f
    BY DEF ClauseInv
  <2>1. CASE k \in 1..(n - 1)
    BY <1>0, <2>1, CutSets DEF CtxInv, ClauseInv, InClause
  <2>2. CASE k = n /\ Len(ctx') = n
    BY <2>2 DEF NewTop
  <2> QED
    BY <1>1, <2>1, <2>2
<1>3. DepthInv'
  <2> SUFFICES ASSUME NEW k \in 1..Len(ctx'), ctx'[k].kind \in {"try", "call"}
               PROVE  k <= MaxDepth
    BY DEF DepthInv
  <2>1. CASE k \in 1..(n - 1)
    <3>1. k \in 1..Len(ctx) /\ ctx'[k].kind = ctx[k].kind
      BY <1>0, <2>1, CutSets DEF Cut, Alike
    <3> QED
      BY <3>1 DEF CtxInv, DepthInv
  <2>2. CASE k = n /\ Len(ctx') = n
    BY <2>2 DEF NewTop
  <2> QED
    BY <1>1, <2>1, <2>2
<1>4. ASSUME NEW m \in Inlines' PROVE \E b \in Frames' : Segment(b, ctx[m].of, m)'
  <2>1. m \in 1..Len(ctx') /\ ctx'[m].kind = "inline"
    BY <1>4 DEF Inlines
  <2>2. \E b \in Frames : Segment(b, ctx'[m].of, m)
    <3>1. CASE m \in 1..(n - 1)
      BY <1>0, <1>4, <3>1, CutSets DEF CtxInv, SegmentInv
    <3>2. CASE m = n /\ Len(ctx') = n
      BY <2>1, <3>2 DEF NewTop
    <3> QED
      BY <1>1, <2>1, <3>1, <3>2
  <2>3. m \in 1..n /\ ctx'[m].of \in Nat
    <3>1. ctx'[m] \in Activation
      BY <1>0, <2>1
    <3>2. ctx'[m].of \in 1..MaxDepth
      BY <2>1, <3>1, ActivationKinds DEF Inline
    <3> QED
      BY <1>1, <2>1, <3>2
  <2> QED
    BY <1>0, <2>2, <2>3, SegmentKept
<1>5. SegmentInv'
  BY <1>4 DEF SegmentInv
<1> QED
  BY <1>0, <1>2, <1>3, <1>5 DEF CtxInv

-----------------------------------------------------------------------------
(***************************************************************************)
(* The handlers follow what is open.                                       *)
(***************************************************************************)
\* The handlers of the clauses that are left go, and a clause that is entered
\* gets one, with the depths cl and ml of that moment.
HandlerCut(n, cl, ml) ==
    /\ Cut(n) /\ cl \in Nat /\ ml \in Nat
    /\ handlers' =
          IF n \in Guarded'
          THEN Append(SubSeq(handlers, 1, Rank(Guarded, n - 1)),
                      [at |-> n, route |-> Route(ctx'[n]),
                       return_ip_len |-> Rank(Frames', n),
                       caught_exception_len |-> cl, finally_pending_len |-> ml])
          ELSE SubSeq(handlers, 1, Rank(Guarded, n - 1))

LEMMA HandlersAfter ==
    ASSUME BaseInv, NEW n, NEW cl, NEW ml, HandlerCut(n, cl, ml)
    PROVE  /\ Len(handlers') = Cardinality(Guarded')
           /\ \A k \in Guarded' : k < n =>
                 k \in Guarded /\ handlers'[Rank(Guarded', k)] = handlers[Rank(Guarded, k)]
           /\ n \in Guarded' =>
                 handlers'[Rank(Guarded', n)] =
                    [at |-> n, route |-> Route(ctx'[n]),
                     return_ip_len |-> Rank(Frames', n),
                     caught_exception_len |-> cl, finally_pending_len |-> ml]
<1> DEFINE x == [at |-> n, route |-> Route(ctx'[n]),
                 return_ip_len |-> Rank(Frames', n),
                 caught_exception_len |-> cl, finally_pending_len |-> ml]
           T == Guarded'
           d == handlers'
<1>1. ctx \in Seq(Activation) /\ handlers \in Seq(Handler) /\ Cut(n)
  BY DEF BaseInv, CtxInv, TypeOK, HandlerCut
<1>2. /\ n \in Nat \ {0} /\ (\A t \in T : t \in 1..n)
      /\ \A k \in 1..(n - 1) : k \in T <=> k \in Guarded
  BY <1>1, CutSets
<1>3. Positions(Guarded) /\ Len(handlers) = Cardinality(Guarded)
  BY <1>1, OpenPositions DEF BaseInv, HandlerInv
<1>4. Rank(Guarded, n - 1) <= Len(handlers)
  BY <1>3, RankType
<1>5. d = IF n \in T THEN Append(SubSeq(handlers, 1, Rank(Guarded, n - 1)), x)
                     ELSE SubSeq(handlers, 1, Rank(Guarded, n - 1))
  BY DEF HandlerCut
<1> HIDE DEF x, T, d
<1>6. /\ Len(d) = Cardinality(T)
      /\ \A k \in T : k < n => k \in Guarded /\ d[Rank(T, k)] = handlers[Rank(Guarded, k)]
      /\ n \in T => d[Rank(T, n)] = x
  <2>1. CutAt(Guarded, n, T) /\ StackAt(handlers, Guarded, n, T, d, x)
    BY <1>2, <1>3, <1>4, <1>5 DEF CutAt, StackAt
  <2> QED
    BY <1>1, <2>1, StackCut
<1> QED
  BY <1>6 DEF x, T, d

LEMMA HandlerStep ==
    ASSUME BaseInv, NEW n, NEW cl, NEW ml, HandlerCut(n, cl, ml)
    PROVE  HandlerInv'
<1>1. ctx \in Seq(Activation) /\ Cut(n)
  BY DEF BaseInv, CtxInv, HandlerCut
<1>2. n \in Nat \ {0} /\ \A k \in Guarded' : k \in 1..n
  BY <1>1, CutSets
<1>3. ASSUME NEW k \in Guarded', k < n
      PROVE  /\ handlers'[Rank(Guarded', k)].at = k
             /\ handlers'[Rank(Guarded', k)].route = Route(ctx'[k])
             /\ handlers'[Rank(Guarded', k)].return_ip_len = Rank(Frames', k)
  <2>1. k \in Guarded /\ handlers'[Rank(Guarded', k)] = handlers[Rank(Guarded, k)]
    BY <1>3, HandlersAfter
  <2>2. k \in 1..(n - 1) /\ k \in Nat
    BY <1>2, <1>3
  <2>3. Rank(Frames', k) = Rank(Frames, k)
    BY <1>1, <1>3, <2>2, CutRanks
  <2>4. IsTry(ctx[k])
    BY <2>1 DEF Guarded, Installs
  <2>5. Route(ctx'[k]) = Route(ctx[k])
    BY <1>1, <2>2, <2>4, CutSets
  <2>6. /\ handlers[Rank(Guarded, k)].at = k
        /\ handlers[Rank(Guarded, k)].route = Route(ctx[k])
        /\ handlers[Rank(Guarded, k)].return_ip_len = Rank(Frames, k)
    BY <2>1 DEF BaseInv, HandlerInv
  <2> QED
    BY <2>1, <2>3, <2>5, <2>6
<1>4. \A k \in Guarded' : k < n \/ k = n
  BY <1>2
<1>5. n \in Guarded' =>
         /\ handlers'[Rank(Guarded', n)].at = n
         /\ handlers'[Rank(Guarded', n)].route = Route(ctx'[n])
         /\ handlers'[Rank(Guarded', n)].return_ip_len = Rank(Frames', n)
  <2> DEFINE y == handlers'[Rank(Guarded', n)]
             r == Route(ctx'[n])
             f == Rank(Frames', n)
  <2>1. n \in Guarded' =>
           y = [at |-> n, route |-> r, return_ip_len |-> f,
                caught_exception_len |-> cl, finally_pending_len |-> ml]
    BY HandlersAfter
  <2> HIDE DEF y, r, f
  <2>2. n \in Guarded' => y.at = n /\ y.route = r /\ y.return_ip_len = f
    BY <2>1
  <2> QED
    BY <2>2 DEF y, r, f
<1>6. Len(handlers') = Cardinality(Guarded')
  BY HandlersAfter
<1> QED
  BY <1>3, <1>4, <1>5, <1>6 DEF HandlerInv

LEMMA HandlersTyped ==
    ASSUME BaseInv, CtxInv', NEW n, NEW cl, NEW ml, HandlerCut(n, cl, ml)
    PROVE  handlers' \in Seq(Handler)
<1> DEFINE m == Rank(Guarded, n - 1)
           x == [at |-> n, route |-> Route(ctx'[n]),
                 return_ip_len |-> Rank(Frames', n),
                 caught_exception_len |-> cl, finally_pending_len |-> ml]
<1>1. /\ ctx \in Seq(Activation) /\ ctx' \in Seq(Activation) /\ handlers \in Seq(Handler)
      /\ Cut(n) /\ cl \in Nat /\ ml \in Nat
  BY DEF BaseInv, CtxInv, TypeOK, HandlerCut, Cut
<1>2. m \in Nat /\ m <= Len(handlers)
  BY <1>1, OpenPositions, RankType DEF BaseInv, HandlerInv
<1>3. handlers' = IF n \in Guarded' THEN Append(SubSeq(handlers, 1, m), x)
                  ELSE SubSeq(handlers, 1, m)
  BY DEF HandlerCut
<1>4. ASSUME n \in Guarded' PROVE x \in Handler
  <2>1. n \in 1..Len(ctx') /\ IsTry(ctx'[n]) /\ n \in Nat \ {0}
    BY <1>1, <1>4, CutSets DEF Guarded, Installs
  <2>2. n \in 1..MaxDepth
    BY <2>1, ExceptionsAssumption DEF CtxInv, DepthInv, IsTry
  <2>3. Rank(Frames', n) \in Nat
    <3>1. Positions(Frames')
      <4>1. Len(ctx') \in Nat /\ \A k \in Frames' : k \in 1..Len(ctx')
        BY <1>1 DEF Frames
      <4> QED
        BY <4>1, PositionsUpTo
    <3> QED
      BY <3>1, RankType
  <2>4. Route(ctx'[n]) \in {"catch", "finally", "cleanup"}
    BY DEF Route
  <2> QED
    BY <1>1, <2>2, <2>3, <2>4 DEF Handler
<1> HIDE DEF m, x
<1>5. SubSeq(handlers, 1, m) \in Seq(Handler)
  BY <1>1, <1>2
<1> QED
  BY <1>3, <1>4, <1>5

\* The handler on top is that of the innermost clause that has one.
LEMMA LastHandler ==
    ASSUME BaseInv, handlers # <<>>
    PROVE  LET h == Last(handlers)
           IN  /\ h.at \in Guarded /\ \A k \in Guarded : k <= h.at
               /\ h.at \in 1..Len(ctx) /\ IsTry(ctx[h.at])
               /\ Rank(Guarded, h.at) = Len(handlers)
               /\ Rank(Guarded, h.at - 1) = Len(handlers) - 1
               /\ Front(handlers) = SubSeq(handlers, 1, Rank(Guarded, h.at - 1))
               /\ h = handlers[Rank(Guarded, h.at)] /\ h \in Handler
               /\ h.route = Route(ctx[h.at])
<1>1. ctx \in Seq(Activation) /\ handlers \in Seq(Handler) /\ Positions(Guarded)
  BY OpenPositions DEF BaseInv, CtxInv, TypeOK
<1>2. Len(handlers) \in 1..Cardinality(Guarded) /\ Len(handlers) \in Nat
  BY <1>1 DEF BaseInv, HandlerInv
<1>3. PICK k \in Guarded : Rank(Guarded, k) = Len(handlers)
  BY <1>1, <1>2, RankOnto
<1>4. Last(handlers) = handlers[Len(handlers)] /\ Last(handlers) \in Handler
      /\ Front(handlers) = SubSeq(handlers, 1, Len(handlers) - 1)
  BY <1>1, FrontSeq
<1>5. Last(handlers).at = k /\ Last(handlers).route = Route(ctx[k])
  BY <1>3, <1>4 DEF BaseInv, HandlerInv
<1>6. ASSUME NEW j \in Guarded, j > k PROVE FALSE
  <2>1. k \in Int /\ j \in Int
    BY <1>1 DEF Positions
  <2>2. Rank(Guarded, k) < Rank(Guarded, j)
    BY <1>1, <1>6, <2>1, RankStrict
  <2>3. Rank(Guarded, j) \in Nat /\ Rank(Guarded, j) <= Cardinality(Guarded)
    BY <1>1, RankType
  <2>4. Rank(Guarded, k) = Cardinality(Guarded)
    BY <1>3 DEF BaseInv, HandlerInv
  <2> QED
    BY <1>2, <1>3, <2>2, <2>3, <2>4
<1>7. \A j \in Guarded : j <= k
  BY <1>1, <1>6 DEF Positions
<1>8. Rank(Guarded, k - 1) = Len(handlers) - 1
  <2>1. Rank(Guarded, k) = Rank(Guarded, k - 1) + 1 /\ Rank(Guarded, k - 1) \in Nat
    BY <1>1, RankPositive, RankType
  <2> QED
    BY <1>2, <1>3, <2>1
<1>9. k \in 1..Len(ctx) /\ IsTry(ctx[k])
  BY DEF Guarded, Installs
<1> QED
  BY <1>3, <1>4, <1>5, <1>7, <1>8, <1>9

\* A clause at its end takes its handler away.
LEMMA PoppedHandler ==
    ASSUME BaseInv, ctx # <<>>
    PROVE  PopHandler = SubSeq(handlers, 1, Rank(Guarded, Len(ctx) - 1))
<1>1. ctx \in Seq(Activation) /\ handlers \in Seq(Handler) /\ Positions(Guarded)
  BY OpenPositions DEF BaseInv, CtxInv, TypeOK
<1>2. Len(ctx) \in Nat \ {0} /\ Len(handlers) \in Nat
  BY <1>1
<1>3. \A k \in Guarded : k \in 1..Len(ctx)
  BY DEF Guarded
<1>4. Rank(Guarded, Len(ctx)) = Len(handlers)
  <2>1. \A k \in Guarded : k <= Len(ctx)
    BY <1>2, <1>3
  <2> QED
    BY <1>1, <2>1, RankAll DEF BaseInv, HandlerInv
<1>5. Rank(Guarded, Len(ctx)) = IF Len(ctx) \in Guarded THEN Rank(Guarded, Len(ctx) - 1) + 1
                                ELSE Rank(Guarded, Len(ctx) - 1)
  BY <1>1, <1>2, RankNext
<1>6. Rank(Guarded, Len(ctx) - 1) \in Nat
  BY <1>1, RankType
<1>7. Len(ctx) \in Guarded <=> Installs(Top)
  BY <1>2 DEF Guarded, Top
<1>8. CASE Installs(Top)
  <2> DEFINE p == Rank(Guarded, Len(ctx) - 1)
             q == Rank(Guarded, Len(ctx))
             l == Len(handlers)
  <2>1. q = p + 1 /\ q = l /\ p \in Nat /\ l \in Nat
    BY <1>2, <1>4, <1>5, <1>6, <1>7, <1>8
  <2> HIDE DEF p, q
  <2>2. p = l - 1 /\ l # 0
    BY <2>1
  <2>3. handlers # <<>>
    BY <2>2
  <2>4. Front(handlers) = SubSeq(handlers, 1, l - 1)
    BY <1>1, <2>3, FrontSeq
  <2> QED
    BY <1>8, <2>2, <2>4 DEF PopHandler, p
<1>9. CASE ~Installs(Top)
  <2>1. Rank(Guarded, Len(ctx) - 1) = Len(handlers)
    BY <1>4, <1>5, <1>7, <1>9
  <2>2. SubSeq(handlers, 1, Len(handlers)) = handlers
    BY <1>1
  <2> QED
    BY <1>9, <2>1, <2>2 DEF PopHandler
<1> QED
  BY <1>8, <1>9

\* PushHandler in the clause at depth n, on top of the handlers that are kept.
LEMMA PushedHandler ==
    ASSUME CtxInv, NEW n, Cut(n), Len(ctx') = n, NEW cl \in Nat, NEW ml \in Nat,
           handlers' = PushHandler(SubSeq(handlers, 1, Rank(Guarded, n - 1)), ctx', cl, ml)
    PROVE  HandlerCut(n, cl, ml)
<1>1. ctx \in Seq(Activation) /\ ctx' \in Seq(Activation) /\ n \in Nat \ {0}
  BY CutSets DEF CtxInv, Cut
<1>2. ReturnIps(ctx') = Rank(Frames', n)
  <2>1. {k \in 1..Len(ctx') : ctx'[k].kind = "call"} = Frames'
    BY DEF Frames
  <2>2. Positions(Frames') /\ \A k \in Frames' : k <= n
    <3>1. \A k \in Frames' : k \in 1..n
      BY DEF Frames
    <3> QED
      BY <1>1, <3>1, PositionsUpTo
  <2>3. Rank(Frames', n) = Cardinality(Frames')
    BY <2>2, RankAll
  <2> QED
    BY <2>1, <2>3 DEF ReturnIps
<1>3. Last(ctx') = ctx'[n]
  BY DEF Last
<1>4. n \in Guarded' <=> Installs(ctx'[n])
  BY <1>1 DEF Guarded
<1> QED
  BY <1>2, <1>3, <1>4 DEF HandlerCut, PushHandler

\* Nothing is entered that has a handler.
LEMMA NoHandler ==
    ASSUME NEW n, Cut(n), n \notin Guarded', NEW cl \in Nat, NEW ml \in Nat,
           handlers' = SubSeq(handlers, 1, Rank(Guarded, n - 1))
    PROVE  HandlerCut(n, cl, ml)
BY DEF HandlerCut

\* All handlers are below what is put on top.
LEMMA AllHandlers ==
    ASSUME BaseInv
    PROVE  SubSeq(handlers, 1, Rank(Guarded, Len(ctx))) = handlers
<1>1. ctx \in Seq(Activation) /\ handlers \in Seq(Handler) /\ Positions(Guarded)
  BY OpenPositions DEF BaseInv, CtxInv, TypeOK
<1>2. \A k \in Guarded : k <= Len(ctx)
  <2>1. Len(ctx) \in Nat
    BY <1>1
  <2> QED
    BY <2>1 DEF Guarded
<1>3. Rank(Guarded, Len(ctx)) = Len(handlers)
  BY <1>1, <1>2, RankAll DEF BaseInv, HandlerInv
<1> QED
  BY <1>1, <1>3

-----------------------------------------------------------------------------
(***************************************************************************)
(* Every action is one cut of what is open, with the handlers.             *)
(***************************************************************************)
OpenStep(n, cl, ml) == HandlerCut(n, cl, ml) /\ NewTop(n)

LEMMA OpenKept ==
    ASSUME BaseInv, NEW n, NEW cl, NEW ml, OpenStep(n, cl, ml)
    PROVE  CtxInv' /\ HandlerInv' /\ handlers' \in Seq(Handler)
<1>1. CtxInv'
  BY CtxStep DEF BaseInv, OpenStep, HandlerCut
<1> QED
  BY <1>1, HandlerStep, HandlersTyped DEF OpenStep

LEMMA Lengths ==
    ASSUME TypeOK
    PROVE  /\ ctx \in Seq(Activation) /\ Len(ctx) \in Nat /\ Len(ctx) + 1 \in Nat
           /\ Len(caught) \in Nat /\ Len(marks) \in Nat /\ Len(handlers) \in Nat
BY DEF TypeOK

LEMMA EnterStep ==
    ASSUME BaseInv, NEW s \in Statements, Len(ctx) < MaxDepth,
           ctx' = Append(ctx, Try(s)),
           handlers' = PushHandler(handlers, ctx', Len(caught), Len(marks))
    PROVE  /\ OpenStep(Len(ctx) + 1, Len(caught), Len(marks))
           /\ Len(ctx') = Len(ctx) + 1 /\ ctx'[Len(ctx) + 1] = Try(s)
           /\ \A j \in 1..Len(ctx) : ctx'[j] = ctx[j]
<1> DEFINE n == Len(ctx) + 1
<1>1. TypeOK /\ ctx \in Seq(Activation) /\ Len(ctx) \in Nat /\ n \in Nat /\ n - 1 = Len(ctx)
  BY Lengths DEF BaseInv
<1>2. Try(s) \in Activation /\ IsTry(Try(s)) /\ Try(s).clause = "try" /\ Try(s).kind = "try"
  <2>1. s \in AllStatements
    BY ExceptionsAssumption
  <2> QED
    BY <2>1, ActivationTypes DEF Try, IsTry
<1>3. /\ Cut(n) /\ Len(ctx') = n /\ ctx'[n] = Try(s)
      /\ \A j \in 1..Len(ctx) : ctx'[j] = ctx[j]
  BY <1>1, <1>2, AppendCut
<1>4. NewTop(n)
  <2>1. n <= MaxDepth
    BY <1>1, ExceptionsAssumption
  <2> QED
    BY <1>2, <1>3, <2>1 DEF NewTop, InClause
<1>5. handlers = SubSeq(handlers, 1, Rank(Guarded, n - 1))
  BY <1>1, AllHandlers
<1>6. Len(caught) \in Nat /\ Len(marks) \in Nat /\ CtxInv
  BY <1>1, Lengths DEF BaseInv
<1> HIDE DEF n
<1>7. HandlerCut(n, Len(caught), Len(marks))
  BY <1>3, <1>5, <1>6, PushedHandler
<1> QED
  BY <1>3, <1>4, <1>7 DEF OpenStep, n

LEMMA CallStep ==
    ASSUME BaseInv, Call
    PROVE  /\ OpenStep(Len(ctx) + 1, 0, 0)
           /\ Len(ctx') = Len(ctx) + 1 /\ ctx'[Len(ctx) + 1] = Frame
           /\ \A j \in 1..Len(ctx) : ctx'[j] = ctx[j]
<1> DEFINE n == Len(ctx) + 1
<1>1. TypeOK /\ ctx \in Seq(Activation) /\ Len(ctx) \in Nat /\ n \in Nat /\ n - 1 = Len(ctx)
  BY Lengths DEF BaseInv
<1>2. Frame \in Activation /\ Frame.kind = "call" /\ ~IsTry(Frame)
  BY ActivationTypes DEF Frame, IsTry
<1>3. /\ Cut(n) /\ Len(ctx') = n /\ ctx'[n] = Frame
      /\ \A j \in 1..Len(ctx) : ctx'[j] = ctx[j]
  BY <1>1, <1>2, AppendCut DEF Call
<1>4. NewTop(n)
  <2>1. n <= MaxDepth
    BY <1>1, ExceptionsAssumption DEF Call
  <2> QED
    BY <1>2, <1>3, <2>1 DEF NewTop, InClause
<1>5. handlers' = SubSeq(handlers, 1, Rank(Guarded, n - 1))
  BY <1>1, AllHandlers DEF Call, vmVars
<1>6. n \notin Guarded'
  BY <1>2, <1>3 DEF Guarded, Installs
<1> HIDE DEF n
<1>7. HandlerCut(n, 0, 0)
  BY <1>3, <1>5, <1>6, NoHandler
<1> QED
  BY <1>3, <1>4, <1>7 DEF OpenStep, n

LEMMA StayStep ==
    ASSUME BaseInv, ctx' = ctx, handlers' = handlers
    PROVE  OpenStep(Len(ctx) + 1, 0, 0)
<1> DEFINE n == Len(ctx) + 1
<1>1. TypeOK /\ ctx \in Seq(Activation) /\ Len(ctx) \in Nat /\ n \in Nat /\ n - 1 = Len(ctx)
  BY Lengths DEF BaseInv
<1>2. Cut(n) /\ Len(ctx') = n - 1
  BY <1>1, StayCut
<1>3. NewTop(n)
  BY <1>1, <1>2 DEF NewTop
<1>4. handlers' = SubSeq(handlers, 1, Rank(Guarded, n - 1))
  BY <1>1, AllHandlers
<1>5. n \notin Guarded'
  BY <1>1, <1>2 DEF Guarded
<1> HIDE DEF n
<1>6. HandlerCut(n, 0, 0)
  BY <1>2, <1>4, <1>5, NoHandler
<1> QED
  BY <1>3, <1>6 DEF OpenStep, n

\* The try whose handler is on top moves on to clause c.
LEMMA RaisedStep ==
    ASSUME BaseInv, handlers # <<>>, NEW n, n = Last(handlers).at,
           NEW c \in {"catch", "finally"}, c = "finally" => ctx[n].has.f,
           exc \in Exc, NEW cl \in Nat, NEW ml \in Nat,
           ctx' = ToClause(n, c, exc),
           handlers' = PushHandler(Front(handlers), ctx', cl, ml)
    PROVE  /\ OpenStep(n, cl, ml) /\ n \in Guarded /\ n \in 1..Len(ctx)
           /\ Len(ctx') = n /\ \A j \in 1..(n - 1) : ctx'[j] = ctx[j]
           /\ ctx'[n] \in Tries /\ IsTry(ctx'[n])
           /\ ctx'[n].has = ctx[n].has /\ ctx'[n].clause = c /\ ctx'[n].by = exc
           /\ ctx'[n].runs = IF c = "finally" THEN ctx[n].runs + 1 ELSE ctx[n].runs
<1>1. /\ ctx \in Seq(Activation) /\ n \in 1..Len(ctx) /\ IsTry(ctx[n])
      /\ Front(handlers) = SubSeq(handlers, 1, Rank(Guarded, n - 1))
      /\ n \in Guarded
  BY LastHandler DEF BaseInv, CtxInv
<1>2. c \in Clauses /\ exc \in Exc \cup {None}
  BY DEF Clauses
<1>3. /\ Cut(n) /\ Len(ctx') = n /\ \A j \in 1..(n - 1) : ctx'[j] = ctx[j]
      /\ ctx'[n] \in Tries /\ IsTry(ctx'[n])
      /\ ctx'[n].has = ctx[n].has /\ ctx'[n].clause = c /\ ctx'[n].by = exc
      /\ ctx'[n].runs = IF c = "finally" THEN ctx[n].runs + 1 ELSE ctx[n].runs
  BY <1>1, <1>2, ToClauseCut
<1>4. NewTop(n)
  <2>1. n <= MaxDepth
    BY <1>1 DEF BaseInv, CtxInv, DepthInv, IsTry
  <2>2. ctx'[n].kind = "try"
    BY <1>3 DEF IsTry
  <2> QED
    BY <1>3, <2>1, <2>2 DEF NewTop, InClause
<1>5. HandlerCut(n, cl, ml)
  BY <1>1, <1>3, PushedHandler DEF BaseInv
<1> QED
  BY <1>1, <1>3, <1>4, <1>5 DEF OpenStep

\* A handler without a clause: the try is left.
LEMMA CleanupStep ==
    ASSUME BaseInv, handlers # <<>>, NEW n, n = Last(handlers).at,
           ctx' = Truncate(ctx, n - 1), handlers' = Front(handlers)
    PROVE  /\ OpenStep(n, 0, 0) /\ n \in Guarded /\ n \in 1..Len(ctx)
           /\ Len(ctx') = n - 1 /\ \A j \in 1..(n - 1) : ctx'[j] = ctx[j]
<1>1. /\ ctx \in Seq(Activation) /\ n \in 1..Len(ctx) /\ n \in Guarded
      /\ Front(handlers) = SubSeq(handlers, 1, Rank(Guarded, n - 1))
  BY LastHandler DEF BaseInv, CtxInv
<1>2. Cut(n) /\ Len(ctx') = n - 1 /\ \A j \in 1..(n - 1) : ctx'[j] = ctx[j]
  BY <1>1, TruncateCut
<1>3. n \notin Guarded' /\ NewTop(n)
  BY <1>1, <1>2 DEF Guarded, NewTop
<1>4. HandlerCut(n, 0, 0)
  BY <1>1, <1>2, <1>3, NoHandler
<1> QED
  BY <1>1, <1>2, <1>3, <1>4 DEF OpenStep

\* A clause at its end, with nothing after it.
LEMMA EndStep ==
    ASSUME BaseInv, ctx # <<>>, ctx' = Front(ctx), handlers' = PopHandler,
           NEW cl \in Nat, NEW ml \in Nat
    PROVE  /\ OpenStep(Len(ctx), cl, ml) /\ Len(ctx) \in Nat \ {0}
           /\ Len(ctx') = Len(ctx) - 1 /\ \A j \in 1..(Len(ctx) - 1) : ctx'[j] = ctx[j]
<1> DEFINE n == Len(ctx)
<1>1. /\ Cut(n) /\ n \in Nat \ {0} /\ Len(ctx') = n - 1
      /\ \A j \in 1..(n - 1) : ctx'[j] = ctx[j]
  BY FrontCut DEF BaseInv, CtxInv
<1>2. handlers' = SubSeq(handlers, 1, Rank(Guarded, n - 1))
  BY PoppedHandler
<1> HIDE DEF n
<1>3. n \notin Guarded' /\ NewTop(n)
  BY <1>1 DEF Guarded, NewTop
<1>4. HandlerCut(n, cl, ml)
  BY <1>1, <1>2, <1>3, NoHandler
<1> QED
  BY <1>1, <1>3, <1>4 DEF OpenStep, n

\* A clause at its end, with another clause c after it.
LEMMA NextClauseStep ==
    ASSUME BaseInv, ctx # <<>>, IsTry(Top), NEW c \in {"else", "finally"},
           c = "finally" => Top.has.f, ctx' = ToClause(Len(ctx), c, None),
           NEW cl \in Nat, NEW ml \in Nat,
           handlers' = PushHandler(PopHandler, ctx', cl, ml)
    PROVE  /\ OpenStep(Len(ctx), cl, ml) /\ Len(ctx) \in Nat \ {0}
           /\ Len(ctx') = Len(ctx) /\ \A j \in 1..(Len(ctx) - 1) : ctx'[j] = ctx[j]
           /\ ctx'[Len(ctx)] \in Tries /\ IsTry(ctx'[Len(ctx)])
           /\ ctx'[Len(ctx)].has = Top.has /\ ctx'[Len(ctx)].clause = c
           /\ ctx'[Len(ctx)].by = None
           /\ ctx'[Len(ctx)].runs = IF c = "finally" THEN Top.runs + 1 ELSE Top.runs
<1> DEFINE n == Len(ctx)
<1>1. ctx \in Seq(Activation) /\ n \in Nat \ {0} /\ n \in 1..Len(ctx) /\ CtxInv
  BY DEF BaseInv, CtxInv
<1>2. IsTry(ctx[n]) /\ Top = ctx[n] /\ c \in Clauses /\ None \in Exc \cup {None}
  BY DEF Top, Clauses
<1>3. handlers' = PushHandler(SubSeq(handlers, 1, Rank(Guarded, n - 1)), ctx', cl, ml)
  BY PoppedHandler
<1>4. ctx' = ToClause(n, c, None)
  OBVIOUS
<1> HIDE DEF n
<1>5. /\ Cut(n) /\ Len(ctx') = n /\ \A j \in 1..(n - 1) : ctx'[j] = ctx[j]
      /\ ctx'[n] \in Tries /\ IsTry(ctx'[n])
      /\ ctx'[n].has = ctx[n].has /\ ctx'[n].clause = c /\ ctx'[n].by = None
      /\ ctx'[n].runs = IF c = "finally" THEN ctx[n].runs + 1 ELSE ctx[n].runs
  BY <1>1, <1>2, <1>4, ToClauseCut
<1>6. NewTop(n)
  <2>1. n <= MaxDepth
    BY <1>1, <1>2 DEF CtxInv, DepthInv, IsTry
  <2>2. ctx'[n].kind = "try"
    BY <1>5 DEF IsTry
  <2> QED
    BY <1>2, <1>5, <2>1, <2>2 DEF NewTop, InClause
<1>7. HandlerCut(n, cl, ml)
  BY <1>1, <1>3, <1>5, PushedHandler
<1> QED
  BY <1>1, <1>2, <1>5, <1>6, <1>7 DEF OpenStep, n

-----------------------------------------------------------------------------
(***************************************************************************)
(* A return.                                                               *)
(***************************************************************************)
LEMMA MaxPosition ==
    ASSUME NEW S, Positions(S), S # {}
    PROVE  Max(S) \in S /\ \A k \in S : k <= Max(S)
<1>1. Cardinality(S) \in Nat /\ Cardinality(S) # 0
  BY FS_EmptySet, RankType DEF Positions
<1>2. PICK m \in S : Rank(S, m) = Cardinality(S)
  BY <1>1, RankOnto
<1>3. \A k \in S : k \in Int
  BY DEF Positions
<1>4. ASSUME NEW k \in S, k > m PROVE FALSE
  <2>1. Rank(S, m) < Rank(S, k)
    BY <1>3, <1>4, RankStrict
  <2>2. Rank(S, k) \in Nat /\ Rank(S, k) <= Cardinality(S)
    BY RankType
  <2> QED
    BY <1>1, <1>2, <2>1, <2>2
<1>5. \A k \in S : m >= k
  BY <1>3, <1>4
<1>6. \E x \in S : \A y \in S : x >= y
  BY <1>5
<1>7. Max(S) \in S /\ \A k \in S : Max(S) >= k
  BY <1>6 DEF Max
<1> QED
  BY <1>3, <1>7

\* Base is the innermost call.
LEMMA BaseFrame ==
    ASSUME ctx \in Seq(Activation), Base # 0
    PROVE  /\ Base \in Frames /\ Base \in 1..Len(ctx) /\ ctx[Base].kind = "call"
           /\ Base \in Nat \ {0}
           /\ \A k \in Frames : k <= Base
<1>1. Frames # {} /\ Base = Max(Frames) /\ Positions(Frames)
  BY OpenPositions DEF Base
<1>2. Base \in Frames /\ \A k \in Frames : k <= Base
  BY <1>1, MaxPosition
<1> QED
  BY <1>1, <1>2 DEF Frames, Positions

\* pop_handlers_for_return finds nothing left to take away.
LEMMA ForReturnKeeps ==
    ASSUME NEW X, NEW hs \in Seq(X), NEW ips \in Nat,
           hs # <<>> => hs[Len(hs)].return_ip_len <= ips
    PROVE  ForReturn(hs, ips) = hs
<1>1. {i \in 1..Len(hs) : \E j \in i..Len(hs) : hs[j].return_ip_len <= ips} = 1..Len(hs)
  <2>1. \A i \in 1..Len(hs) : Len(hs) \in i..Len(hs) /\ hs # <<>>
    OBVIOUS
  <2> QED
    BY <2>1
<1>2. Cardinality(1..Len(hs)) = Len(hs)
  <2> DEFINE n == Len(hs)
  <2>1. n \in Nat
    OBVIOUS
  <2> HIDE DEF n
  <2>2. Cardinality(1..n) = IF 1 > n THEN 0 ELSE n - 1 + 1
    BY <2>1, FS_Interval
  <2>3. Cardinality(1..n) = n
    BY <2>1, <2>2
  <2> QED
    BY <2>3 DEF n
<1>3. ForReturn(hs, ips) = SubSeq(hs, 1, Len(hs))
  BY <1>1, <1>2 DEF ForReturn
<1> QED
  BY <1>3

\* The return itself: the call and what is open in it are left.
LEMMA LeaveStep ==
    ASSUME BaseInv, Base # 0, LeaveFunction
    PROVE  /\ OpenStep(Base, 0, 0) /\ Base \in Frames /\ Base \in 1..Len(ctx)
           /\ Len(ctx') = Base - 1 /\ \A j \in 1..(Base - 1) : ctx'[j] = ctx[j]
           /\ caught' = Truncate(caught, Len(caught) - Cardinality({k \in Catches : k > Base}))
<1> DEFINE n == Base
           m == Rank(Guarded, n - 1)
           left == SubSeq(handlers, 1, m)
<1>1. ctx \in Seq(Activation) /\ handlers \in Seq(Handler) /\ Len(ctx) \in Nat
      /\ Len(handlers) \in Nat
  BY Lengths DEF BaseInv, TypeOK
<1>2. /\ n \in Frames /\ n \in 1..Len(ctx) /\ n \in Nat \ {0} /\ ctx[n].kind = "call"
      /\ n - 1 \in Nat
  BY <1>1, BaseFrame
<1>3. /\ Positions(Guarded) /\ Positions(Frames) /\ Positions(Catches)
      /\ Len(handlers) = Cardinality(Guarded)
  BY <1>1, OpenPositions DEF BaseInv, HandlerInv
<1>4. n \notin Guarded
  BY <1>2 DEF Guarded, Installs, IsTry
<1>5. Rank(Guarded, n) = m /\ m \in Nat /\ m <= Len(handlers)
  BY <1>2, <1>3, <1>4, RankNext, RankType
<1>6. {i \in {i \in n + 1..Len(ctx) : IsTry(ctx[i])} : Installs(ctx[i])}
         = {k \in Guarded : k > n}
  BY <1>1, <1>2 DEF Guarded, Installs
<1>7. {i \in {i \in n + 1..Len(ctx) : IsTry(ctx[i])} : InClause(ctx[i], "catch")}
         = {k \in Catches : k > n}
  BY <1>1, <1>2 DEF Catches, InClause
<1>8. Len(handlers) - Cardinality({k \in Guarded : k > n}) = m
  BY <1>2, <1>3, <1>5, RankAfter
<1>9. /\ ctx' = Truncate(ctx, n - 1)
      /\ caught' = Truncate(caught, Len(caught) - Cardinality({k \in Catches : k > n}))
      /\ handlers' = ForReturn(Truncate(handlers, m), ReturnIps(ctx'))
  BY <1>6, <1>7, <1>8 DEF LeaveFunction
<1>10. Truncate(handlers, m) = left /\ left \in Seq(Handler) /\ Len(left) = m
       /\ \A i \in 1..m : left[i] = handlers[i]
  <2> HIDE DEF m
  <2>1. /\ Truncate(handlers, m) \in Seq(Handler)
        /\ Len(Truncate(handlers, m)) = IF m < Len(handlers) THEN m ELSE Len(handlers)
        /\ Truncate(handlers, m) = SubSeq(handlers, 1, Len(Truncate(handlers, m)))
        /\ \A i \in 1..Len(Truncate(handlers, m)) : Truncate(handlers, m)[i] = handlers[i]
    BY <1>1, <1>5, TruncateSeq
  <2>2. Len(Truncate(handlers, m)) = m
    BY <1>1, <1>5, <2>1
  <2> QED
    BY <2>1, <2>2
<1> HIDE DEF n, m, left
<1>11. Cut(n) /\ Len(ctx') = n - 1 /\ \A j \in 1..(n - 1) : ctx'[j] = ctx[j]
  BY <1>1, <1>2, <1>9, TruncateCut
<1>12. n \notin Guarded' /\ NewTop(n)
  BY <1>2, <1>11 DEF Guarded, NewTop
<1>13. ReturnIps(ctx') = Rank(Frames, n - 1) /\ Rank(Frames, n - 1) \in Nat
  <2>1. {k \in 1..Len(ctx') : ctx'[k].kind = "call"} = Frames'
    BY DEF Frames
  <2>2. Positions(Frames') /\ \A k \in Frames' : k <= n - 1
    <3>1. \A k \in Frames' : k \in 1..(n - 1)
      BY <1>11 DEF Frames
    <3> QED
      BY <1>2, <3>1, PositionsUpTo
  <2>3. Rank(Frames', n - 1) = Cardinality(Frames')
    BY <2>2, RankAll
  <2>4. Rank(Frames', n - 1) = Rank(Frames, n - 1)
    BY <1>1, <1>2, <1>11, CutRanks
  <2> QED
    BY <1>3, <2>1, <2>3, <2>4, RankType DEF ReturnIps
<1>14. ASSUME left # <<>> PROVE left[m].return_ip_len <= Rank(Frames, n - 1)
  <2>1. m \in 1..m /\ m \in 1..Cardinality(Guarded)
    BY <1>3, <1>5, <1>10, <1>14
  <2>2. PICK k \in Guarded : Rank(Guarded, k) = m
    BY <1>3, <2>1, RankOnto
  <2>3. k \in Nat
    BY <1>3 DEF Positions
  <2>4. k < n
    <3>1. ASSUME k > n PROVE FALSE
      <4>1. Rank(Guarded, n) < Rank(Guarded, k)
        BY <1>2, <1>3, <2>3, <3>1, RankStrict
      <4> QED
        BY <1>5, <2>2, <4>1
    <3> QED
      BY <1>2, <1>4, <2>3, <3>1
  <2>5. handlers[m].return_ip_len = Rank(Frames, k)
    BY <2>2 DEF BaseInv, HandlerInv
  <2>6. Rank(Frames, k) <= Rank(Frames, n - 1)
    BY <1>2, <1>3, <2>3, <2>4, RankMonotone
  <2> QED
    BY <1>10, <2>1, <2>5, <2>6
<1>15. handlers' = left
  BY <1>9, <1>10, <1>13, <1>14, ForReturnKeeps
<1>16. HandlerCut(n, 0, 0)
  BY <1>11, <1>12, <1>15, NoHandler DEF left, m
<1> QED
  BY <1>2, <1>9, <1>11, <1>12, <1>16 DEF OpenStep, n

\* What the function that is returning has open, up to depth m, is outside its
\* finally, and the finally that runs is one of these.
Returning(m) ==
    /\ Base # 0 /\ m \in Nat /\ Base <= m /\ m <= Len(ctx)
    /\ \A k \in Base + 1..m : IsTry(ctx[k]) /\ ctx[k].clause # "finally"

\* The finally of the try at depth k is inlined on top of the first m.
Inlined(m, k) ==
    /\ Returning(m) /\ k \in Base + 1..m /\ k \in Nat /\ ctx[k].has.f
    /\ Len(ctx') = m + 1 /\ ctx'[m + 1] = Inline(k)
    /\ \A j \in 1..m : j # k => ctx'[j] = ctx[j]
    /\ ctx[k] \in Tries /\ ctx'[k] \in Tries /\ IsTry(ctx'[k])
    /\ ctx'[k].has = ctx[k].has /\ ctx'[k].clause = ctx[k].clause
    /\ ctx'[k].runs = ctx[k].runs + 1

LEMMA InlineStep ==
    ASSUME BaseInv, NEW m, Returning(m), NEW s \in Seq(Activation), Len(s) = m,
           \A j \in 1..m : s[j] = ctx[j],
           handlers = SubSeq(handlers, 1, Rank(Guarded, m)),
           NEW k \in Base + 1..m, ctx[k].has.f, RunInline(s, k)
    PROVE  OpenStep(m + 1, 0, 0) /\ Inlined(m, k)
<1>1. ctx \in Seq(Activation) /\ Len(ctx) \in Nat /\ m \in Nat /\ m <= Len(ctx)
  BY Lengths DEF BaseInv, Returning
<1>2. Base \in Frames /\ Base \in Nat \ {0}
  BY <1>1, BaseFrame DEF Returning
<1>3. k \in 1..m /\ k \in Nat /\ k \in 1..Len(ctx) /\ Base < k /\ k < m + 1
  BY <1>1, <1>2
<1>4. IsTry(ctx[k])
  BY DEF Returning
<1>5. k \in 1..MaxDepth
  BY <1>3, <1>4, ExceptionsAssumption DEF BaseInv, CtxInv, DepthInv, IsTry
<1>6. /\ Cut(m + 1) /\ Len(ctx') = m + 1 /\ ctx'[m + 1] = Inline(k)
      /\ \A j \in 1..m : j # k => ctx'[j] = ctx[j]
      /\ ctx[k] \in Tries /\ ctx'[k] \in Tries /\ IsTry(ctx'[k])
      /\ ctx'[k].has = ctx[k].has /\ ctx'[k].clause = ctx[k].clause
      /\ ctx'[k].runs = ctx[k].runs + 1
  <2>1. InlineCut(m, k)
    BY <1>1, <1>3, <1>4, <1>5, RunInlineCut, Zenon
  <2> QED
    BY <2>1, Zenon DEF InlineCut
<1>7. Inline(k).kind = "inline" /\ Inline(k).of = k
  BY DEF Inline
<1>8. Segment(Base, k, m + 1)
  <2>1. \A i \in (Base + 1)..((m + 1) - 1) : i \in Base + 1..m
    BY <1>1, <1>2
  <2> QED
    BY <1>2, <1>3, <2>1 DEF Segment, Returning
<1>9. NewTop(m + 1)
  <2>1. ctx'[m + 1].kind = "inline" /\ ctx'[m + 1].of = k
    BY <1>6, <1>7
  <2>2. \E b \in Frames : Segment(b, ctx'[m + 1].of, m + 1)
    BY <1>2, <1>8, <2>1
  <2> QED
    BY <2>1, <2>2 DEF NewTop, InClause, IsTry
<1>10. m + 1 \notin Guarded'
  BY <1>6, <1>7 DEF Guarded, Installs, IsTry
<1>11. handlers' = SubSeq(handlers, 1, Rank(Guarded, (m + 1) - 1))
  <2>1. (m + 1) - 1 = m
    BY <1>1
  <2> QED
    BY <2>1 DEF RunInline
<1>12. HandlerCut(m + 1, 0, 0)
  BY <1>6, <1>10, <1>11, NoHandler
<1>13. OpenStep(m + 1, 0, 0)
  BY <1>6, <1>9, <1>12 DEF OpenStep
<1>14. Inlined(m, k)
  BY <1>3, <1>6, Zenon DEF Inlined
<1> QED
  BY <1>13, <1>14

\* A return in a clause.
LEMMA ReturnOpen ==
    ASSUME BaseInv, Base # 0, MayReturn
    PROVE  /\ Returning(Len(ctx)) /\ handlers = SubSeq(handlers, 1, Rank(Guarded, Len(ctx)))
<1>1. ctx \in Seq(Activation) /\ Len(ctx) \in Nat
  BY Lengths DEF BaseInv
<1> QED
  BY <1>1, BaseFrame, AllHandlers DEF Returning, MayReturn

\* At the end of an inlined block.
LEMMA InlineOpen ==
    ASSUME BaseInv, ctx # <<>>, Top.kind = "inline"
    PROVE  /\ Returning(Len(ctx) - 1) /\ Top.of \in Base + 1..(Len(ctx) - 1)
           /\ ctx[Top.of].has.f
           /\ handlers = SubSeq(handlers, 1, Rank(Guarded, Len(ctx) - 1))
           /\ Front(ctx) \in Seq(Activation) /\ Len(Front(ctx)) = Len(ctx) - 1
           /\ \A j \in 1..(Len(ctx) - 1) : Front(ctx)[j] = ctx[j]
<1> DEFINE n == Len(ctx)
<1>1. ctx \in Seq(Activation) /\ n \in Nat \ {0} /\ n - 1 \in Nat /\ n \in 1..n
  BY DEF BaseInv, CtxInv
<1>2. n \in Inlines /\ Top = ctx[n]
  BY <1>1 DEF Inlines, Top
<1>3. PICK b \in Frames : Segment(b, Top.of, n)
  BY <1>2 DEF BaseInv, CtxInv, SegmentInv
<1>4. Top.of \in Nat
  <2>1. Top \in Activation
    BY <1>1, <1>2
  <2>2. PICK k \in 1..MaxDepth : Top = Inline(k)
    BY <2>1, ActivationKinds
  <2> QED
    BY <2>2 DEF Inline
<1>5. b \in Nat \ {0} /\ b < Top.of /\ Top.of < n /\ ctx[Top.of].has.f
  BY <1>1, <1>3 DEF Segment, Frames
<1>6. Positions(Frames) /\ Frames # {}
  BY <1>1, OpenPositions
<1>7. Base = Max(Frames)
  BY <1>6 DEF Base
<1>8. Base \in Frames /\ b <= Base /\ Base \in Nat \ {0} /\ Base \in 1..n
  BY <1>6, <1>7, MaxPosition DEF Positions, Frames
<1>9. Base = b
  <2>1. Base # n
    BY <1>2, <1>8 DEF Frames, Inlines
  <2>2. ASSUME Base # b PROVE FALSE
    <3>1. Base \in (b + 1)..(n - 1)
      BY <1>1, <1>5, <1>8, <2>1, <2>2
    <3>2. IsTry(ctx[Base])
      BY <1>3, <3>1 DEF Segment
    <3> QED
      BY <1>8, <3>2 DEF Frames, IsTry
  <2> QED
    BY <2>2
<1>10. Returning(n - 1) /\ Top.of \in Base + 1..(n - 1)
  <2>1. Base <= n - 1 /\ n - 1 <= n /\ Base # 0 /\ Top.of \in Base + 1..(n - 1)
    BY <1>1, <1>4, <1>5, <1>8, <1>9
  <2> QED
    BY <1>1, <1>3, <1>9, <2>1 DEF Returning, Segment
<1>11. handlers = SubSeq(handlers, 1, Rank(Guarded, n - 1))
  <2>1. ~Installs(Top)
    BY DEF Installs, IsTry
  <2> QED
    BY <2>1, PoppedHandler DEF PopHandler
<1>12. /\ Front(ctx) \in Seq(Activation) /\ Len(Front(ctx)) = n - 1
       /\ \A j \in 1..(n - 1) : Front(ctx)[j] = ctx[j]
  BY <1>1, FrontSeq
<1> QED
  BY <1>5, <1>10, <1>11, <1>12

\* The next finally of a return is one that the function has open.
LEMMA NextFinally ==
    ASSUME ctx \in Seq(Activation), Base # 0, NEW l \in Nat, Finals(l) # {}
    PROVE  /\ Max(Finals(l)) \in Finals(l) /\ Max(Finals(l)) \in Base + 1..(l - 1)
           /\ Max(Finals(l)) \in Nat /\ ctx[Max(Finals(l))].has.f
           /\ \A k \in Finals(l) : k <= Max(Finals(l))
<1>1. Base \in Nat
  BY BaseFrame
<1>2. \A k \in Finals(l) : k \in 1..l
  BY <1>1 DEF Finals
<1>3. Positions(Finals(l))
  BY <1>2, PositionsUpTo
<1>4. Max(Finals(l)) \in Finals(l) /\ \A k \in Finals(l) : k <= Max(Finals(l))
  BY <1>3, MaxPosition
<1>5. \A k \in Finals(l) : k \in Nat /\ ctx[k].has.f /\ k \in Base + 1..(l - 1)
  BY <1>1 DEF Finals
<1> QED
  BY <1>4, <1>5

-----------------------------------------------------------------------------
(***************************************************************************)
(* Types.                                                                  *)
(***************************************************************************)
\* The part of TypeOK that is about the exceptions.
ExcTypes ==
    /\ caught \in Seq(Entry) /\ marks \in Seq(Entry)
    /\ perr \in Exc \cup {None} /\ pval \in Exc \cup {None}
    /\ mode \in {"run", "raise", "rethrow", "dead"}
    /\ exc \in Exc \cup {None} /\ (mode = "raise" => exc # None)
    /\ made \in 0..MaxExc

LEMMA RaisedTypes ==
    ASSUME TypeOK, mode = "raise"
    PROVE  /\ exc \in Exc /\ Captured \in Exc
           /\ [err |-> exc, val |-> Captured] \in Entry
<1>1. exc \in Exc /\ Captured \in Exc
  BY DEF TypeOK, Captured
<1> QED
  BY <1>1 DEF Entry

LEMMA MadeTypes ==
    ASSUME TypeOK, made < MaxExc
    PROVE  made + 1 \in Exc /\ made + 1 \in 0..MaxExc /\ made + 1 # None
BY ExceptionsAssumption DEF TypeOK, Exc, None

LEMMA EntryFields ==
    ASSUME NEW s \in Seq(Entry), s # <<>>
    PROVE  /\ Front(s) \in Seq(Entry) /\ Last(s).err \in Exc /\ Last(s).val \in Exc
           /\ Last(s).err # None
<1>1. Front(s) \in Seq(Entry) /\ Last(s) \in Entry
  BY FrontSeq
<1>2. Last(s).err \in Exc /\ Last(s).val \in Exc
  BY <1>1 DEF Entry
<1> QED
  BY <1>1, <1>2, ExceptionsAssumption DEF Exc, None

\* The handler on top: its depths are numbers, and so is what they keep.
LEMMA TopHandler ==
    ASSUME TypeOK, handlers # <<>>
    PROVE  LET h == Last(handlers)
               cs == Truncate(caught, h.caught_exception_len)
               ms == Truncate(marks, h.finally_pending_len)
           IN  /\ h.at \in 1..MaxDepth /\ h.caught_exception_len \in Nat
               /\ h.finally_pending_len \in Nat
               /\ cs \in Seq(Entry) /\ Len(cs) \in Nat
               /\ ms \in Seq(Entry) /\ Len(ms) \in Nat
<1> DEFINE h == Last(handlers)
<1>1. h \in Handler
  BY FrontSeq DEF TypeOK
<1>2. h.at \in 1..MaxDepth /\ h.caught_exception_len \in Nat /\ h.finally_pending_len \in Nat
  BY <1>1 DEF Handler
<1> HIDE DEF h
<1>3. /\ Truncate(caught, h.caught_exception_len) \in Seq(Entry)
      /\ Truncate(marks, h.finally_pending_len) \in Seq(Entry)
  BY <1>2, TruncateSeq DEF TypeOK
<1> QED
  BY <1>2, <1>3 DEF h

LEMMA MarkedTypes ==
    ASSUME TypeOK, handlers # <<>>, mode = "raise"
    PROVE  Marked(Last(handlers)) \in Seq(Entry) /\ Len(Marked(Last(handlers))) \in Nat
<1> DEFINE ms == Truncate(marks, Last(handlers).finally_pending_len)
           x == [err |-> exc, val |-> Captured]
<1>1. ms \in Seq(Entry) /\ x \in Entry
  BY TopHandler, RaisedTypes
<1>2. Marked(Last(handlers)) = Append(ms, x)
  BY DEF Marked
<1> HIDE DEF ms, x
<1>3. Append(ms, x) \in Seq(Entry) /\ Len(Append(ms, x)) \in Nat
  BY <1>1
<1> QED
  BY <1>2, <1>3

\* PopCaughtException.
LEMMA PopTypes ==
    ASSUME NEW s \in Seq(Entry), NEW d \in Nat
    PROVE  Truncate(s, Len(s) - d) \in Seq(Entry) /\ Len(Truncate(s, Len(s) - d)) \in Nat
<1>1. Len(s) \in Nat
  OBVIOUS
<1>2. CASE d <= Len(s)
  <2>1. Len(s) - d \in Nat
    BY <1>1, <1>2
  <2> QED
    BY <2>1, TruncateSeq
<1>3. CASE d > Len(s)
  <2> DEFINE m == Len(s) - d
  <2>1. m \in Int /\ m < Len(s) /\ m < 1
    BY <1>1, <1>3
  <2>2. Truncate(s, m) = SubSeq(s, 1, m)
    BY <2>1 DEF Truncate
  <2> HIDE DEF m
  <2>3. SubSeq(s, 1, m) = <<>>
    BY <2>1
  <2> QED
    BY <2>2, <2>3 DEF m
<1> QED
  BY <1>1, <1>2, <1>3

LEMMA ResumeTypes ==
    ASSUME TypeOK, Resume
    PROVE  /\ marks' \in Seq(Entry) /\ pval' \in Exc \cup {None}
           /\ mode' \in {"run", "raise"} /\ exc' \in Exc \cup {None}
           /\ mode' = "raise" => exc' # None
<1>1. CASE marks = <<>>
  BY <1>1 DEF Resume, TypeOK
<1>2. CASE marks # <<>>
  <2>1. Front(marks) \in Seq(Entry) /\ Last(marks).err \in Exc /\ Last(marks).val \in Exc
        /\ Last(marks).err # None
    BY <1>2, EntryFields DEF TypeOK
  <2> QED
    BY <1>2, <2>1 DEF Resume
<1> QED
  BY <1>1, <1>2

LEMMA ExcTypesKept ==
    ASSUME BaseInv, Next
    PROVE  ExcTypes'
<1> USE DEF ExcTypes
<1>0. TypeOK /\ ExcTypes /\ Len(caught) \in Nat
  BY Lengths DEF BaseInv, TypeOK
<1>1. CASE EnterTry
  BY <1>0, <1>1 DEF EnterTry
<1>2. CASE Call
  BY <1>0, <1>2 DEF Call, vmVars
<1>3. CASE Throw
  BY <1>0, <1>3, MadeTypes DEF Throw, Raise
<1>4. CASE BuiltinError
  BY <1>0, <1>4, MadeTypes DEF BuiltinError, Raise
<1>5. CASE Uncaught
  BY <1>0, <1>5 DEF Uncaught, vmVars
<1>6. CASE Catch
  <2> DEFINE below == Truncate(caught, Last(handlers).caught_exception_len)
             x == [err |-> exc, val |-> Captured]
  <2>1. below \in Seq(Entry) /\ x \in Entry
    BY <1>0, <1>6, TopHandler, RaisedTypes DEF Catch
  <2>2. caught' = Append(below, x) /\ marks' \in Seq(Entry)
    BY <1>0, <1>6, TopHandler DEF Catch
  <2> HIDE DEF below, x
  <2>3. caught' \in Seq(Entry)
    BY <2>1, <2>2
  <2> QED
    BY <1>0, <1>6, <2>2, <2>3 DEF Catch
<1>7. CASE ToFinally
  BY <1>0, <1>7, TopHandler, MarkedTypes, RaisedTypes DEF ToFinally
<1>8. CASE Cleanup
  BY <1>0, <1>8, TopHandler, MarkedTypes, RaisedTypes DEF Cleanup
<1>9. CASE Rethrow
  BY <1>0, <1>9, ResumeTypes DEF Rethrow
<1>10. CASE RethrowCurrent
  <2>1. CASE caught # <<>>
    <3>1. /\ Front(caught) \in Seq(Entry) /\ Last(caught).err \in Exc
          /\ Last(caught).val \in Exc /\ Last(caught).err # None
      BY <1>0, <2>1, EntryFields
    <3> QED
      BY <1>0, <1>10, <2>1, <3>1 DEF RethrowCurrent, Raise
  <2>2. CASE caught = <<>> /\ perr # None
    BY <1>0, <1>10, <2>2 DEF RethrowCurrent, Raise
  <2>3. CASE caught = <<>> /\ perr = None
    BY <1>0, <1>10, <2>3, MadeTypes DEF RethrowCurrent, Raise
  <2> QED
    BY <2>1, <2>2, <2>3
<1>11. CASE RethrowOther
  <2>1. Truncate(caught, Len(caught) - 1) \in Seq(Entry)
    BY <1>0, PopTypes
  <2> QED
    BY <1>0, <1>11, <2>1, MadeTypes DEF RethrowOther, Raise
<1>12. CASE EndTry
  BY <1>0, <1>12 DEF EndTry
<1>13. CASE EndElse
  BY <1>0, <1>13 DEF EndElse
<1>14. CASE EndCatch
  <2>1. Truncate(caught, Len(caught) - 1) \in Seq(Entry)
    BY <1>0, PopTypes
  <2> QED
    BY <1>0, <1>14, <2>1 DEF EndCatch
<1>15. CASE EndFinally
  BY <1>0, <1>15, ResumeTypes DEF EndFinally
<1>16. ASSUME LeaveFunction, Base # 0 PROVE caught' \in Seq(Entry)
  <2> DEFINE d == Cardinality({k \in Catches : k > Base})
  <2>1. caught' = Truncate(caught, Len(caught) - d)
    BY <1>16, LeaveStep
  <2>2. d \in Nat
    <3>1. IsFiniteSet(Catches)
      BY <1>0, OpenPositions DEF TypeOK, Positions
    <3> QED
      BY <3>1, FS_Subset, FS_CardinalityType
  <2> HIDE DEF d
  <2> QED
    BY <1>0, <2>1, <2>2, PopTypes
<1>17. CASE Return
  BY <1>0, <1>16, <1>17 DEF Return, RunInline
<1>18. CASE EndInline
  <2>1. Base # 0
    BY <1>18, InlineOpen DEF EndInline, Returning
  <2> QED
    BY <1>0, <1>16, <1>18, <2>1 DEF EndInline, RunInline
<1> QED
  BY <1>1, <1>2, <1>3, <1>4, <1>5, <1>6, <1>7, <1>8, <1>9, <1>10, <1>11, <1>12, <1>13,
     <1>14, <1>15, <1>17, <1>18 DEF Next

-----------------------------------------------------------------------------
(***************************************************************************)
(* The actions, one by one.                                                *)
(***************************************************************************)
\* The try at depth n is in clause c, entered by e.
Entered(n, c, e) ==
    /\ Len(ctx') = n /\ \A j \in 1..(n - 1) : ctx'[j] = ctx[j]
    /\ ctx'[n] \in Tries /\ IsTry(ctx'[n])
    /\ ctx'[n].has = ctx[n].has /\ ctx'[n].clause = c /\ ctx'[n].by = e
    /\ ctx'[n].runs = IF c = "finally" THEN ctx[n].runs + 1 ELSE ctx[n].runs

\* What is open from depth n on is left.
Left(n) == Len(ctx') = n - 1 /\ \A j \in 1..(n - 1) : ctx'[j] = ctx[j]

LEMMA CatchOpen ==
    ASSUME BaseInv, Catch
    PROVE  LET h == Last(handlers)
           IN  /\ OpenStep(h.at, Len(Truncate(caught, h.caught_exception_len)), Len(marks'))
               /\ h.at \in Guarded /\ h.at \in 1..Len(ctx) /\ Entered(h.at, "catch", exc)
<1> DEFINE n == Last(handlers).at
           cl == Len(Truncate(caught, Last(handlers).caught_exception_len))
           ml == Len(marks')
<1>1. handlers # <<>> /\ TypeOK /\ mode = "raise"
  BY DEF Catch, BaseInv
<1>2. exc \in Exc /\ cl \in Nat /\ ml \in Nat
  BY <1>1, RaisedTypes, TopHandler DEF Catch
<1>3. ctx' = ToClause(n, "catch", exc)
      /\ handlers' = PushHandler(Front(handlers), ctx', cl, ml)
  BY DEF Catch
<1>4. n = Last(handlers).at
  OBVIOUS
<1> HIDE DEF n, cl, ml
<1>5. OpenStep(n, cl, ml) /\ n \in Guarded /\ n \in 1..Len(ctx) /\ Entered(n, "catch", exc)
  BY <1>1, <1>2, <1>3, <1>4, RaisedStep DEF Entered
<1> QED
  BY <1>5 DEF n, cl, ml

LEMMA FinallyOpen ==
    ASSUME BaseInv, ToFinally
    PROVE  LET h == Last(handlers)
           IN  /\ OpenStep(h.at, Len(caught'), Len(marks'))
               /\ h.at \in Guarded /\ h.at \in 1..Len(ctx) /\ Entered(h.at, "finally", exc)
<1> DEFINE n == Last(handlers).at
           cl == Len(caught')
           ml == Len(marks')
<1>1. handlers # <<>> /\ TypeOK /\ mode = "raise"
  BY DEF ToFinally, BaseInv
<1>2. exc \in Exc /\ cl \in Nat /\ ml \in Nat
  BY <1>1, RaisedTypes, TopHandler, MarkedTypes DEF ToFinally
<1>3. ctx' = ToClause(n, "finally", exc)
      /\ handlers' = PushHandler(Front(handlers), ctx', cl, ml)
  BY DEF ToFinally
<1>4. n = Last(handlers).at /\ ctx[n].has.f
  <2>1. Last(handlers).route = "finally" /\ Last(handlers).route = Route(ctx[n])
    BY <1>1, LastHandler DEF ToFinally
  <2> QED
    BY <2>1 DEF Route
<1> HIDE DEF n, cl, ml
<1>5. OpenStep(n, cl, ml) /\ n \in Guarded /\ n \in 1..Len(ctx) /\ Entered(n, "finally", exc)
  BY <1>1, <1>2, <1>3, <1>4, RaisedStep DEF Entered
<1> QED
  BY <1>5 DEF n, cl, ml

LEMMA CleanupOpen ==
    ASSUME BaseInv, Cleanup
    PROVE  LET n == Last(handlers).at
           IN  OpenStep(n, 0, 0) /\ n \in Guarded /\ n \in 1..Len(ctx) /\ Left(n)
BY CleanupStep DEF Cleanup, Left

\* A clause that ends is followed by another one, or the try has no finally.
LEMMA ClauseEndOpen ==
    ASSUME BaseInv, EndTry \/ EndElse \/ EndCatch
    PROVE  /\ OpenStep(Len(ctx), Len(caught'), Len(marks))
           /\ ctx # <<>> /\ Len(ctx) \in 1..Len(ctx) /\ IsTry(Top) /\ Top.clause # "finally"
           /\ \/ Left(Len(ctx)) /\ ~Top.has.f
              \/ Entered(Len(ctx), "else", None)
              \/ Entered(Len(ctx), "finally", None)
<1>1. ctx # <<>> /\ IsTry(Top) /\ Top.clause # "finally"
  BY DEF EndTry, EndElse, EndCatch, AtTop, InClause
<1>2. Len(caught') \in Nat /\ Len(marks) \in Nat /\ Len(ctx) \in 1..Len(ctx)
  <2>1. TypeOK /\ ctx \in Seq(Activation)
    BY DEF BaseInv, TypeOK
  <2>2. Len(caught') \in Nat
    BY <2>1, Lengths, PopTypes DEF EndTry, EndElse, EndCatch, TypeOK
  <2> QED
    BY <1>1, <2>1, <2>2, Lengths
<1>3. PICK next \in {"else", "finally", "end"} :
         /\ MoveOn(next, PopHandler)
         /\ (next = "finally" => Top.has.f) /\ (next = "end" => ~Top.has.f)
  <2>1. CASE EndTry
    BY <2>1 DEF EndTry
  <2>2. CASE EndElse
    BY <2>2 DEF EndElse
  <2>3. CASE EndCatch
    BY <2>3 DEF EndCatch
  <2> QED
    BY <2>1, <2>2, <2>3
<1>4. CASE next = "end"
  <2>1. ctx' = Front(ctx) /\ handlers' = PopHandler
    BY <1>3, <1>4 DEF MoveOn
  <2> QED
    BY <1>1, <1>2, <1>3, <1>4, <2>1, EndStep DEF Left
<1>5. CASE next \in {"else", "finally"}
  <2>1. ctx' = ToClause(Len(ctx), next, None)
        /\ handlers' = PushHandler(PopHandler, ctx', Len(caught'), Len(marks))
    BY <1>3, <1>5 DEF MoveOn
  <2>2. OpenStep(Len(ctx), Len(caught'), Len(marks)) /\ Entered(Len(ctx), next, None)
    BY <1>1, <1>2, <1>3, <1>5, <2>1, NextClauseStep DEF Entered, Top
  <2> QED
    BY <1>1, <1>2, <1>5, <2>2
<1> QED
  BY <1>3, <1>4, <1>5

LEMMA FinallyEndOpen ==
    ASSUME BaseInv, EndFinally
    PROVE  /\ OpenStep(Len(ctx), 0, 0) /\ Left(Len(ctx))
           /\ ctx # <<>> /\ Len(ctx) \in 1..Len(ctx) /\ InClause(Top, "finally")
<1>1. ctx # <<>> /\ ctx' = Front(ctx) /\ handlers' = PopHandler /\ InClause(Top, "finally")
  BY DEF EndFinally, AtTop
<1>2. OpenStep(Len(ctx), 0, 0) /\ Left(Len(ctx)) /\ Len(ctx) \in Nat \ {0}
  BY <1>1, EndStep DEF Left
<1> QED
  BY <1>1, <1>2

\* A return, and the end of an inlined block: the function has no finally left to
\* run and is left, or its next finally runs.  l is where the search starts.
ReturnStep(m, l) ==
    /\ Returning(m)
    /\ \/ /\ Finals(l) = {} /\ LeaveFunction
          /\ OpenStep(Base, 0, 0) /\ Base \in Frames /\ Base \in 1..Len(ctx) /\ Left(Base)
          /\ caught' = Truncate(caught,
                                Len(caught) - Cardinality({k \in Catches : k > Base}))
       \/ /\ Finals(l) # {} /\ OpenStep(m + 1, 0, 0)
          /\ Inlined(m, Max(Finals(l))) /\ caught' = caught

LEMMA ReturnOpens ==
    ASSUME BaseInv, Return
    PROVE  ReturnStep(Len(ctx), Len(ctx) + 1)
<1> DEFINE m == Len(ctx)
           l == Len(ctx) + 1
           k == Max(Finals(l))
<1>1. ctx \in Seq(Activation) /\ m \in Nat /\ l \in Nat /\ l - 1 = m /\ Base # 0
  BY Lengths DEF BaseInv, Return
<1>2. Returning(m) /\ handlers = SubSeq(handlers, 1, Rank(Guarded, m))
  BY ReturnOpen DEF Return
<1>3. IF Finals(l) = {} THEN LeaveFunction ELSE RunInline(ctx, k)
  BY DEF Return
<1>4. CASE Finals(l) = {}
  BY <1>1, <1>2, <1>3, <1>4, LeaveStep DEF ReturnStep, Left
<1>5. CASE Finals(l) # {}
  <2>1. k \in Base + 1..(l - 1) /\ k \in Nat /\ ctx[k].has.f
    BY <1>1, <1>5, NextFinally
  <2>2. RunInline(ctx, k) /\ Len(ctx) = m /\ k \in Base + 1..m
    BY <1>1, <1>3, <1>5, <2>1
  <2> HIDE DEF m, l, k
  <2>3. OpenStep(m + 1, 0, 0) /\ Inlined(m, k)
    <3>1. ctx \in Seq(Activation) /\ \A j \in 1..m : ctx[j] = ctx[j]
      BY <1>1
    <3> QED
      BY <1>2, <2>1, <2>2, <3>1, InlineStep, Zenon
  <2>4. caught' = caught
    BY <2>2 DEF RunInline
  <2> QED
    BY <1>2, <1>5, <2>3, <2>4 DEF ReturnStep, m, l, k
<1> QED
  BY <1>4, <1>5

LEMMA EndInlineOpens ==
    ASSUME BaseInv, EndInline
    PROVE  ReturnStep(Len(ctx) - 1, Top.of) /\ Top.of \in Nat
<1> DEFINE m == Len(ctx) - 1
           l == Top.of
           k == Max(Finals(l))
           s == Front(ctx)
<1>1. /\ ctx \in Seq(Activation) /\ Returning(m) /\ l \in Base + 1..m
      /\ handlers = SubSeq(handlers, 1, Rank(Guarded, m))
      /\ s \in Seq(Activation) /\ Len(s) = m /\ \A j \in 1..m : s[j] = ctx[j]
  BY InlineOpen DEF BaseInv, CtxInv, EndInline
<1>2. IF Finals(l) = {} THEN LeaveFunction ELSE RunInline(s, k)
  BY DEF EndInline
<1> HIDE DEF m, l, k, s
<1>3. Base # 0 /\ m \in Nat /\ Base \in Nat /\ l \in Nat /\ l <= m
  BY <1>1, BaseFrame DEF Returning
<1>4. ASSUME Finals(l) = {} PROVE ReturnStep(m, l)
  BY <1>1, <1>2, <1>3, <1>4, LeaveStep DEF ReturnStep, Left
<1>5. ASSUME Finals(l) # {} PROVE ReturnStep(m, l)
  <2>1. k \in Base + 1..(l - 1) /\ k \in Nat /\ ctx[k].has.f
    BY <1>1, <1>3, <1>5, NextFinally DEF k
  <2>2. RunInline(s, k) /\ k \in Base + 1..m
    BY <1>2, <1>3, <1>5, <2>1
  <2>3. OpenStep(m + 1, 0, 0) /\ Inlined(m, k)
    BY <1>1, <2>1, <2>2, InlineStep, Zenon
  <2>4. caught' = caught
    BY <2>2 DEF RunInline
  <2> QED
    BY <1>1, <1>5, <2>3, <2>4 DEF ReturnStep, k
<1> QED
  BY <1>3, <1>4, <1>5 DEF m, l

\* Every step is such a cut.
LEMMA BaseKept ==
    ASSUME BaseInv, Next
    PROVE  BaseInv'
<1>1. ASSUME NEW n, NEW cl, NEW ml, OpenStep(n, cl, ml) PROVE BaseInv'
  <2>1. CtxInv' /\ HandlerInv' /\ handlers' \in Seq(Handler)
    BY <1>1, OpenKept
  <2>2. ExcTypes'
    BY ExcTypesKept
  <2> QED
    BY <2>1, <2>2 DEF BaseInv, TypeOK, ExcTypes, CtxInv
<1>2. CASE EnterTry
  <2>1. PICK s \in Statements :
           ctx' = Append(ctx, Try(s))
           /\ handlers' = PushHandler(handlers, ctx', Len(caught), Len(marks))
    BY <1>2 DEF EnterTry
  <2> QED
    BY <1>1, <1>2, <2>1, EnterStep DEF EnterTry
<1>3. CASE Call
  BY <1>1, <1>3, CallStep
<1>4. CASE Throw \/ BuiltinError \/ Uncaught \/ Rethrow \/ RethrowCurrent \/ RethrowOther
  <2>1. ctx' = ctx /\ handlers' = handlers
    BY <1>4 DEF Throw, BuiltinError, Uncaught, Rethrow, RethrowCurrent, RethrowOther, vmVars
  <2> QED
    BY <1>1, <2>1, StayStep
<1>5. CASE Catch
  BY <1>1, <1>5, CatchOpen
<1>6. CASE ToFinally
  BY <1>1, <1>6, FinallyOpen
<1>7. CASE Cleanup
  BY <1>1, <1>7, CleanupOpen
<1>8. CASE EndTry \/ EndElse \/ EndCatch
  BY <1>1, <1>8, ClauseEndOpen
<1>9. CASE EndFinally
  BY <1>1, <1>9, FinallyEndOpen
<1>10. CASE Return
  BY <1>1, <1>10, ReturnOpens DEF ReturnStep
<1>11. CASE EndInline
  BY <1>1, <1>11, EndInlineOpens DEF ReturnStep
<1> QED
  BY <1>2, <1>3, <1>4, <1>5, <1>6, <1>7, <1>8, <1>9, <1>10, <1>11 DEF Next

LEMMA BaseInit == Init => BaseInv
<1> SUFFICES ASSUME Init PROVE BaseInv
  OBVIOUS
<1>1. /\ ctx = <<>> /\ handlers = <<>> /\ caught = <<>> /\ marks = <<>> /\ perr = None
      /\ pval = None /\ mode = "run" /\ exc = None /\ made = 0
  BY DEF Init
<1>2. TypeOK
  BY <1>1, ExceptionsAssumption DEF TypeOK
<1>3. /\ Guarded = {} /\ Frames = {} /\ Inlines = {}
      /\ \A k \in 1..Len(ctx) : FALSE
  BY <1>1 DEF Guarded, Frames, Inlines
<1>4. CtxInv
  BY <1>1, <1>3 DEF CtxInv, ClauseInv, DepthInv, SegmentInv
<1>5. HandlerInv
  <2>1. Cardinality({}) = 0
    BY FS_EmptySet
  <2> QED
    BY <1>1, <1>3, <2>1 DEF HandlerInv
<1> QED
  BY <1>2, <1>4, <1>5 DEF BaseInv

LEMMA BaseStutter ==
    ASSUME BaseInv, UNCHANGED vars
    PROVE  BaseInv'
<1>1. ctx' = ctx /\ handlers' = handlers /\ ExcTypes'
  BY DEF vars, BaseInv, TypeOK, ExcTypes
<1>2. CtxInv' /\ HandlerInv' /\ handlers' \in Seq(Handler)
  BY <1>1, StayStep, OpenKept
<1> QED
  BY <1>1, <1>2 DEF BaseInv, TypeOK, ExcTypes, CtxInv

LEMMA BaseInvariant == Spec => []BaseInv
<1>1. BaseInv /\ [Next]_vars => BaseInv'
  BY BaseStutter, BaseKept
<1> QED
  BY <1>1, BaseInit, PTL DEF Spec

\* The types of the exception state, for all programs.
THEOREM ExceptionTypes == Spec => []TypeOK
<1>1. BaseInv => TypeOK
  BY DEF BaseInv
<1> QED
  BY <1>1, BaseInvariant, PTL

\* The handlers are those of the open clauses, for all programs: a try that is left
\* at the end of a clause, by an exception or by a return takes its handler with it.
THEOREM HandlersFollow == Spec => []HandlersExact
<1>1. BaseInv => HandlersExact
  BY DEF BaseInv, HandlerInv, HandlersExact
<1> QED
  BY <1>1, BaseInvariant, PTL

-----------------------------------------------------------------------------
(***************************************************************************)
(* Values.  Without the shape "builtin" an exception keeps its own value.  *)
(***************************************************************************)
Frozen(s) == \A i \in 1..Len(s) : s[i].val = s[i].err

ValInv ==
    /\ mode \in {"run", "rethrow"} => perr = pval
    /\ mode = "raise" => pval \in {None, exc}
    /\ Frozen(caught) /\ Frozen(marks)

LEMMA FrozenParts ==
    ASSUME NEW s \in Seq(Entry), Frozen(s)
    PROVE  /\ \A n \in Nat : Frozen(Truncate(s, n))
           /\ \A d \in Nat : Frozen(Truncate(s, Len(s) - d))
           /\ s # <<>> => Frozen(Front(s)) /\ Last(s).val = Last(s).err
<1>0. Len(s) \in Nat
  OBVIOUS
<1>1. ASSUME NEW n \in Nat PROVE Frozen(Truncate(s, n))
  <2>1. /\ Truncate(s, n) \in Seq(Entry) /\ Len(Truncate(s, n)) <= Len(s)
        /\ \A i \in 1..Len(Truncate(s, n)) : Truncate(s, n)[i] = s[i]
    BY <1>0, TruncateSeq
  <2>2. Len(Truncate(s, n)) \in Nat
    BY <2>1
  <2> QED
    BY <1>0, <2>1, <2>2 DEF Frozen
<1>2. ASSUME NEW d \in Nat PROVE Frozen(Truncate(s, Len(s) - d))
  <2>1. CASE d <= Len(s)
    BY <1>0, <1>1, <2>1
  <2>2. CASE d > Len(s)
    <3> DEFINE m == Len(s) - d
    <3>1. m \in Int /\ m < Len(s) /\ m < 1
      BY <1>0, <2>2
    <3>2. Truncate(s, m) = SubSeq(s, 1, m)
      BY <3>1 DEF Truncate
    <3> HIDE DEF m
    <3>3. SubSeq(s, 1, m) = <<>>
      BY <3>1
    <3> QED
      BY <3>2, <3>3 DEF m, Frozen
  <2> QED
    BY <1>0, <2>1, <2>2
<1>3. ASSUME s # <<>> PROVE Frozen(Front(s)) /\ Last(s).val = Last(s).err
  <2> DEFINE m == Len(s) - 1
  <2>1. /\ Front(s) \in Seq(Entry) /\ Len(Front(s)) = m
        /\ \A i \in 1..m : Front(s)[i] = s[i]
        /\ Last(s) = s[Len(s)]
    BY <1>3, FrontSeq
  <2>2. Len(s) \in 1..Len(s) /\ \A i \in 1..m : i \in 1..Len(s)
    BY <1>0, <1>3
  <2> QED
    BY <2>1, <2>2 DEF Frozen
<1> QED
  BY <1>1, <1>2, <1>3

LEMMA FrozenAppend ==
    ASSUME NEW s \in Seq(Entry), Frozen(s), NEW x \in Entry, x.val = x.err
    PROVE  Frozen(Append(s, x))
<1>1. /\ Len(Append(s, x)) = Len(s) + 1 /\ Append(s, x)[Len(s) + 1] = x
      /\ \A i \in 1..Len(s) : Append(s, x)[i] = s[i]
  BY AppendSeq
<1>2. Len(s) \in Nat
  OBVIOUS
<1>3. \A i \in 1..(Len(s) + 1) : i \in 1..Len(s) \/ i = Len(s) + 1
  BY <1>2
<1> QED
  BY <1>1, <1>3 DEF Frozen

\* What a handler captures and marks belongs to the exception.
LEMMA RaisedValue ==
    ASSUME TypeOK, ValInv, mode = "raise"
    PROVE  Captured = exc /\ [err |-> exc, val |-> Captured].val = exc
<1>1. Captured = exc
  BY DEF ValInv, Captured
<1> QED
  BY <1>1

LEMMA MarkedFrozen ==
    ASSUME TypeOK, ValInv, mode = "raise", handlers # <<>>
    PROVE  Frozen(Marked(Last(handlers)))
<1> DEFINE ms == Truncate(marks, Last(handlers).finally_pending_len)
           x == [err |-> exc, val |-> Captured]
<1>1. ms \in Seq(Entry) /\ x \in Entry
  BY TopHandler, RaisedTypes
<1>2. Frozen(ms)
  BY TopHandler, FrozenParts DEF TypeOK, ValInv
<1>3. x.val = x.err
  BY RaisedValue
<1>4. Marked(Last(handlers)) = Append(ms, x)
  BY DEF Marked
<1> HIDE DEF ms, x
<1> QED
  BY <1>1, <1>2, <1>3, <1>4, FrozenAppend

LEMMA ResumeValue ==
    ASSUME TypeOK, ValInv, mode \in {"run", "rethrow"}, Resume, perr' = perr, caught' = caught
    PROVE  ValInv'
<1>1. CASE marks = <<>>
  BY <1>1 DEF Resume, ValInv
<1>2. CASE marks # <<>>
  <2>1. Frozen(Front(marks)) /\ Last(marks).val = Last(marks).err
    BY <1>2, FrozenParts DEF TypeOK, ValInv
  <2> QED
    BY <1>2, <2>1 DEF Resume, ValInv
<1> QED
  BY <1>1, <1>2

LEMMA ValInvKept ==
    ASSUME BaseInv, ValInv, Next, "builtin" \notin Shapes
    PROVE  ValInv'
<1> USE DEF ValInv
<1>0. TypeOK /\ caught \in Seq(Entry) /\ marks \in Seq(Entry)
  BY DEF BaseInv, TypeOK
<1>1. CASE EnterTry
  BY <1>1 DEF EnterTry
<1>2. CASE Call
  BY <1>2 DEF Call, vmVars
<1>3. CASE Throw
  BY <1>3 DEF Throw, Raise
<1>4. CASE BuiltinError
  BY <1>4 DEF BuiltinError, Raise
<1>5. CASE Uncaught
  BY <1>5 DEF Uncaught, vmVars
<1>6. CASE Catch
  <2> DEFINE below == Truncate(caught, Last(handlers).caught_exception_len)
             x == [err |-> exc, val |-> Captured]
  <2>1. below \in Seq(Entry) /\ x \in Entry /\ x.val = x.err
    BY <1>0, <1>6, TopHandler, RaisedTypes, RaisedValue DEF Catch
  <2>2. caught' = Append(below, x)
    BY <1>6 DEF Catch
  <2>3. Frozen(below) /\ Frozen(Truncate(marks, Last(handlers).finally_pending_len))
    BY <1>0, <1>6, TopHandler, FrozenParts DEF Catch
  <2> HIDE DEF below, x
  <2>4. Frozen(caught')
    BY <2>1, <2>2, <2>3, FrozenAppend
  <2> QED
    BY <1>6, <2>3, <2>4 DEF Catch
<1>7. CASE ToFinally \/ Cleanup
  <2>1. /\ mode = "raise" /\ handlers # <<>> /\ perr' = exc /\ pval' = Captured
        /\ mode' \in {"run", "rethrow"} /\ marks' = Marked(Last(handlers))
        /\ caught' = Truncate(caught, Last(handlers).caught_exception_len)
    BY <1>7 DEF ToFinally, Cleanup
  <2>2. Frozen(caught')
    BY <1>0, <2>1, TopHandler, FrozenParts
  <2>3. Captured = exc /\ Frozen(marks')
    BY <1>0, <2>1, RaisedValue, MarkedFrozen
  <2> QED
    BY <2>1, <2>2, <2>3
<1>8. CASE Rethrow
  BY <1>0, <1>8, ResumeValue DEF Rethrow
<1>9. CASE RethrowCurrent
  <2>1. CASE caught # <<>>
    <3>1. Frozen(Front(caught)) /\ Last(caught).val = Last(caught).err
      BY <1>0, <2>1, FrozenParts
    <3> QED
      BY <1>9, <2>1, <3>1 DEF RethrowCurrent, Raise
  <2>2. CASE caught = <<>>
    BY <1>9, <2>2 DEF RethrowCurrent, Raise
  <2> QED
    BY <2>1, <2>2
<1>10. CASE RethrowOther
  <2>1. Frozen(caught')
    BY <1>0, <1>10, FrozenParts DEF RethrowOther
  <2> QED
    BY <1>10, <2>1 DEF RethrowOther, Raise
<1>11. CASE EndTry \/ EndElse
  BY <1>11 DEF EndTry, EndElse
<1>12. CASE EndCatch
  <2>1. Frozen(caught')
    BY <1>0, <1>12, FrozenParts DEF EndCatch
  <2> QED
    BY <1>12, <2>1 DEF EndCatch
<1>13. CASE EndFinally
  BY <1>0, <1>13, ResumeValue DEF EndFinally, AtTop
<1>14. ASSUME NEW m, NEW l, ReturnStep(m, l) PROVE Frozen(caught')
  <2>1. CASE caught' = caught
    BY <2>1
  <2>2. CASE caught' = Truncate(caught, Len(caught) - Cardinality({k \in Catches : k > Base}))
    <3> DEFINE d == Cardinality({k \in Catches : k > Base})
    <3>1. d \in Nat
      <4>1. IsFiniteSet(Catches)
        BY <1>0, OpenPositions DEF TypeOK, Positions
      <4> QED
        BY <4>1, FS_Subset, FS_CardinalityType
    <3> HIDE DEF d
    <3> QED
      BY <1>0, <2>2, <3>1, FrozenParts DEF d
  <2> QED
    BY <1>14, <2>1, <2>2 DEF ReturnStep
<1>15. CASE Return
  BY <1>14, <1>15, ReturnOpens DEF Return
<1>16. CASE EndInline
  BY <1>14, <1>16, EndInlineOpens DEF EndInline
<1> QED
  BY <1>1, <1>2, <1>3, <1>4, <1>5, <1>6, <1>7, <1>8, <1>9, <1>10, <1>11, <1>12, <1>13,
     <1>15, <1>16 DEF Next

-----------------------------------------------------------------------------
(***************************************************************************)
(* rethrow() finds what is caught.  Without the shape "again" it is called *)
(* where it takes away the exception of the innermost catch clause, and so *)
(* no clause that is left to unwind to needs this exception.               *)
(***************************************************************************)
CaughtLenInv ==
    \A k \in Guarded :
        handlers[Rank(Guarded, k)].caught_exception_len = Rank(Catches, k - 1)

\* The exceptions of the catch clauses up to depth b are in their places.
CaughtUpTo(b) ==
    /\ Rank(Catches, b) <= Len(caught)
    /\ \A j \in Catches : j <= b => caught[Rank(Catches, j)].err = ctx[j].by

CaughtFull ==
    /\ Len(caught) = Cardinality(Catches)
    /\ \A j \in Catches : caught[Rank(Catches, j)].err = ctx[j].by

CaughtInv ==
    /\ CaughtLenInv
    /\ mode \in {"run", "rethrow"} => CaughtFull
    /\ mode = "raise" => \A k \in Guarded : CaughtUpTo(k - 1)

LEMMA FullUpTo ==
    ASSUME ctx \in Seq(Activation), CaughtFull
    PROVE  \A b : CaughtUpTo(b)
BY OpenPositions, RankType DEF CaughtFull, CaughtUpTo

\* Nothing but one position may lie beyond depth b.
LEMMA CatchRanks ==
    ASSUME BaseInv, CaughtFull
    PROVE  /\ Rank(Catches, Len(ctx)) = Len(caught)
           /\ Len(ctx) \in Catches => Rank(Catches, Len(ctx) - 1) = Len(caught) - 1
           /\ ctx # <<>> /\ Len(ctx) \notin Catches => Rank(Catches, Len(ctx) - 1) = Len(caught)
<1> DEFINE n == Len(ctx)
           p == Rank(Catches, n - 1)
           q == Rank(Catches, n)
<1>1. ctx \in Seq(Activation) /\ n \in Nat /\ Positions(Catches) /\ Len(caught) \in Nat
  BY Lengths, OpenPositions DEF BaseInv
<1>2. \A k \in Catches : k \in 1..n
  BY DEF Catches
<1>3. q = Len(caught)
  <2>1. \A k \in Catches : k <= n
    BY <1>1, <1>2
  <2> QED
    BY <1>1, <2>1, RankAll DEF CaughtFull
<1>4. p \in Nat
  BY <1>1, RankType
<1>5. n # 0 => q = IF n \in Catches THEN p + 1 ELSE p
  BY <1>1, RankNext
<1>6. (n \in Catches => n # 0) /\ (ctx # <<>> => n # 0)
  BY <1>1, <1>2
<1> HIDE DEF n, p, q
<1>7. (n \in Catches => p = Len(caught) - 1) /\ (ctx # <<>> /\ n \notin Catches => p = Len(caught))
  BY <1>1, <1>3, <1>4, <1>5, <1>6
<1> QED
  BY <1>3, <1>7 DEF n, p, q

LEMMA TruncatedAt ==
    ASSUME NEW X, NEW s \in Seq(X), NEW r \in Nat, r <= Len(s)
    PROVE  /\ Truncate(s, r) = SubSeq(s, 1, r) /\ Len(Truncate(s, r)) = r
           /\ SubSeq(s, 1, r) \in Seq(X) /\ \A i \in 1..r : SubSeq(s, 1, r)[i] = s[i]
<1>1. Len(s) \in Nat
  OBVIOUS
<1>2. Len(Truncate(s, r)) = r /\ Truncate(s, r) = SubSeq(s, 1, Len(Truncate(s, r)))
      /\ Truncate(s, r) \in Seq(X)
      /\ \A i \in 1..Len(Truncate(s, r)) : Truncate(s, r)[i] = s[i]
  BY <1>1, TruncateSeq
<1> QED
  BY <1>2

\* The caught exceptions after a cut at depth n; x is that of a clause entered there.
LEMMA CaughtStep ==
    ASSUME BaseInv, NEW n, Cut(n), NEW x,
           StackAt(caught, Catches, n, Catches', caught', x),
           n \in Catches' => x.err = ctx'[n].by,
           CaughtUpTo(n - 1)
    PROVE  CaughtFull'
<1> DEFINE T == Catches'
           d == caught'
<1>1. /\ ctx \in Seq(Activation) /\ Positions(Catches) /\ caught \in Seq(Entry)
      /\ StackAt(caught, Catches, n, T, d, x)
  BY OpenPositions DEF BaseInv, TypeOK
<1>2. /\ n \in Nat \ {0} /\ (\A t \in T : t \in 1..n)
      /\ \A k \in 1..(n - 1) : k \in T <=> k \in Catches
  BY <1>1, CutSets
<1> HIDE DEF T, d
<1>3. CutAt(Catches, n, T)
  BY <1>1, <1>2 DEF CutAt
<1>4. /\ Len(d) = Cardinality(T)
      /\ \A k \in T : k < n => k \in Catches /\ d[Rank(T, k)] = caught[Rank(Catches, k)]
      /\ n \in T => d[Rank(T, n)] = x
  BY <1>1, <1>3, StackCut
<1>5. ASSUME NEW k \in T, k < n PROVE d[Rank(T, k)].err = ctx'[k].by
  <2>1. k \in 1..(n - 1) /\ k \in Catches /\ k <= n - 1
    BY <1>2, <1>4, <1>5
  <2>2. ctx'[k].by = ctx[k].by
    BY <1>1, <2>1, CutSets DEF Catches, InClause
  <2> QED
    BY <1>4, <1>5, <2>1, <2>2 DEF CaughtUpTo
<1>6. n \in T => d[Rank(T, n)].err = ctx'[n].by
  BY <1>4 DEF T
<1>7. \A k \in T : k < n \/ k = n
  BY <1>2
<1>8. \A k \in T : d[Rank(T, k)].err = ctx'[k].by
  BY <1>5, <1>6, <1>7
<1> QED
  BY <1>4, <1>8 DEF CaughtFull, T, d

LEMMA CaughtLenStep ==
    ASSUME BaseInv, CaughtLenInv, NEW n, NEW cl, NEW ml, OpenStep(n, cl, ml),
           n \in Guarded' => cl = Rank(Catches, n - 1)
    PROVE  CaughtLenInv'
<1>1. ctx \in Seq(Activation) /\ Cut(n) /\ HandlerCut(n, cl, ml)
  BY DEF BaseInv, CtxInv, OpenStep, HandlerCut
<1>2. n \in Nat \ {0} /\ \A k \in Guarded' : k \in 1..n
  BY <1>1, CutSets
<1>3. ASSUME NEW k \in Guarded', k < n
      PROVE  handlers'[Rank(Guarded', k)].caught_exception_len = Rank(Catches', k - 1)
  <2>1. k \in Guarded /\ handlers'[Rank(Guarded', k)] = handlers[Rank(Guarded, k)]
    BY <1>1, <1>3, HandlersAfter
  <2>2. k - 1 \in Nat /\ k - 1 < n
    BY <1>2, <1>3
  <2>3. Rank(Catches', k - 1) = Rank(Catches, k - 1)
    BY <1>1, <2>2, CutRanks
  <2> QED
    BY <2>1, <2>3 DEF CaughtLenInv
<1>4. ASSUME n \in Guarded'
      PROVE  handlers'[Rank(Guarded', n)].caught_exception_len = Rank(Catches', n - 1)
  <2> DEFINE y == handlers'[Rank(Guarded', n)]
             r == Route(ctx'[n])
             f == Rank(Frames', n)
  <2>1. y = [at |-> n, route |-> r, return_ip_len |-> f,
             caught_exception_len |-> cl, finally_pending_len |-> ml]
    BY <1>1, <1>4, HandlersAfter
  <2> HIDE DEF y, r, f
  <2>2. y.caught_exception_len = cl
    BY <2>1
  <2>3. n - 1 \in Nat /\ n - 1 < n
    BY <1>2
  <2>4. Rank(Catches', n - 1) = Rank(Catches, n - 1)
    BY <1>1, <2>3, CutRanks
  <2> QED
    BY <1>4, <2>2, <2>4 DEF y
<1>5. \A k \in Guarded' : k < n \/ k = n
  BY <1>2
<1> QED
  BY <1>3, <1>4, <1>5 DEF CaughtLenInv

\* What the handler on top keeps: the exceptions of the catch clauses below it.
LEMMA HandlerCaught ==
    ASSUME BaseInv, CaughtInv, mode = "raise", handlers # <<>>
    PROVE  LET h == Last(handlers)
               r == Rank(Catches, h.at - 1)
           IN  /\ CaughtUpTo(h.at - 1) /\ r \in Nat /\ r <= Len(caught)
               /\ Truncate(caught, h.caught_exception_len) = SubSeq(caught, 1, r)
               /\ Len(Truncate(caught, h.caught_exception_len)) = r
<1> DEFINE h == Last(handlers)
           n == h.at
           r == Rank(Catches, n - 1)
<1>1. n \in Guarded /\ h = handlers[Rank(Guarded, n)]
  BY LastHandler
<1>2. h.caught_exception_len = r /\ CaughtUpTo(n - 1)
  BY <1>1 DEF CaughtInv, CaughtLenInv
<1>3. r \in Nat /\ r <= Len(caught) /\ caught \in Seq(Entry)
  BY <1>2, OpenPositions, RankType DEF CaughtUpTo, BaseInv, TypeOK
<1> HIDE DEF h, n, r
<1>4. Truncate(caught, r) = SubSeq(caught, 1, r) /\ Len(Truncate(caught, r)) = r
  BY <1>3, TruncatedAt
<1> QED
  BY <1>2, <1>3, <1>4 DEF h, n, r

\* A step that enters no catch clause.
LEMMA CaughtPops ==
    ASSUME BaseInv, CaughtLenInv, NEW n, NEW cl, NEW ml, OpenStep(n, cl, ml),
           n \notin Catches', CaughtUpTo(n - 1),
           caught' = SubSeq(caught, 1, Rank(Catches, n - 1)),
           n \in Guarded' => cl = Rank(Catches, n - 1)
    PROVE  CaughtFull' /\ CaughtLenInv'
<1>1. Cut(n)
  BY DEF OpenStep, HandlerCut
<1>2. StackAt(caught, Catches, n, Catches', caught', 0)
  BY DEF StackAt, CaughtUpTo
<1>3. CaughtFull'
  BY <1>1, <1>2, CaughtStep
<1> QED
  BY <1>3, CaughtLenStep

LEMMA CaughtStays ==
    ASSUME BaseInv, CaughtLenInv, CaughtFull, NEW n, NEW cl, NEW ml, OpenStep(n, cl, ml),
           n \notin Catches', Rank(Catches, n - 1) = Len(caught), caught' = caught,
           n \in Guarded' => cl = Len(caught)
    PROVE  CaughtFull' /\ CaughtLenInv'
<1>1. caught \in Seq(Entry) /\ ctx \in Seq(Activation)
  BY DEF BaseInv, TypeOK
<1>2. SubSeq(caught, 1, Rank(Catches, n - 1)) = caught
  <2>1. SubSeq(caught, 1, Len(caught)) = caught
    BY <1>1
  <2> QED
    BY <2>1
<1>3. CaughtUpTo(n - 1)
  BY <1>1, FullUpTo
<1> QED
  BY <1>2, <1>3, CaughtPops

\* rethrow() takes the exception of the innermost catch clause away.
LEMMA RethrowCaught ==
    ASSUME BaseInv, CaughtFull, DirectlyInCatch, ctx' = ctx, handlers' = handlers,
           caught' = Truncate(caught, Len(caught) - 1)
    PROVE  \A k \in Guarded' : CaughtUpTo(k - 1)'
<1> SUFFICES ASSUME NEW k \in Guarded
             PROVE  /\ Rank(Catches, k - 1) <= Len(caught')
                    /\ \A j \in Catches : j <= k - 1 =>
                          caught'[Rank(Catches, j)].err = ctx[j].by
  BY DEF Guarded, CaughtUpTo, Catches
<1>1. /\ ctx \in Seq(Activation) /\ caught \in Seq(Entry) /\ Positions(Catches)
      /\ Positions(Guarded) /\ Len(caught) \in Nat /\ Len(ctx) \in Nat
  BY OpenPositions, Lengths DEF BaseInv, TypeOK
<1>2. k \in Nat \ {0} /\ k \in 1..Len(ctx) /\ IsTry(ctx[k])
  BY <1>1 DEF Guarded, Installs, Positions
<1>3. CASE Catches = {}
  <2>1. Rank(Catches, k - 1) = 0
    <3>1. {j \in Catches : j <= k - 1} = {}
      BY <1>3
    <3> QED
      BY <3>1, FS_EmptySet DEF Rank
  <2>2. Len(caught') \in Nat
    BY <1>1, PopTypes
  <2> QED
    BY <1>3, <2>1, <2>2
<1>4. CASE Catches # {}
  <2>1. PICK t \in Catches : \A j \in t + 1..Len(ctx) : ~IsTry(ctx[j])
    BY <1>4 DEF DirectlyInCatch
  <2>2. t \in Nat \ {0} /\ \A j \in Catches : j \in Nat \ {0}
    BY <1>1 DEF Positions
  <2>3. k <= t
    BY <1>1, <1>2, <2>1, <2>2
  <2> DEFINE r == Len(caught) - 1
  <2>4. Rank(Catches, t) \in 1..Len(caught) /\ r \in Nat /\ r <= Len(caught)
    <3>1. Rank(Catches, t) \in 1..Cardinality(Catches)
      BY <1>1, RankPositive
    <3> QED
      BY <1>1, <3>1 DEF CaughtFull
  <2>5. \A b \in Nat : b < t => Rank(Catches, b) \in Nat /\ Rank(Catches, b) <= r
    <3>1. ASSUME NEW b \in Nat, b < t PROVE Rank(Catches, b) \in Nat /\ Rank(Catches, b) <= r
      <4>1. Rank(Catches, b) < Rank(Catches, t) /\ Rank(Catches, b) \in Nat
        BY <1>1, <3>1, RankStrict, RankType
      <4> QED
        BY <1>1, <2>4, <4>1
    <3> QED
      BY <3>1
  <2> HIDE DEF r
  <2>6. caught' = SubSeq(caught, 1, r) /\ Len(caught') = r
        /\ \A i \in 1..r : caught'[i] = caught[i]
    <3>1. caught' = Truncate(caught, r)
      BY DEF r
    <3>2. /\ Truncate(caught, r) = SubSeq(caught, 1, r) /\ Len(Truncate(caught, r)) = r
          /\ \A i \in 1..r : SubSeq(caught, 1, r)[i] = caught[i]
      BY <1>1, <2>4, TruncatedAt, Zenon
    <3> QED
      BY <3>1, <3>2, Zenon
  <2>7. Rank(Catches, k - 1) <= Len(caught')
    BY <1>2, <2>2, <2>3, <2>5, <2>6
  <2>8. ASSUME NEW j \in Catches, j <= k - 1
        PROVE  caught'[Rank(Catches, j)].err = ctx[j].by
    <3>1. j \in Nat /\ j < t
      BY <1>2, <2>2, <2>3, <2>8
    <3>2. Rank(Catches, j) \in 1..Cardinality(Catches)
      BY <1>1, RankPositive
    <3>3. Rank(Catches, j) \in 1..r
      BY <2>4, <2>5, <3>1, <3>2
    <3> QED
      BY <2>6, <3>3 DEF CaughtFull
  <2> QED
    BY <2>7, <2>8
<1> QED
  BY <1>3, <1>4

\* Outside a raise all are there, and then in a raise too.
LEMMA CaughtDone ==
    ASSUME BaseInv', CaughtFull', CaughtLenInv'
    PROVE  CaughtInv'
<1>1. Positions(Catches')
  <2>1. Len(ctx') \in Nat /\ \A k \in Catches' : k \in 1..Len(ctx')
    BY DEF BaseInv, CtxInv, Catches
  <2> QED
    BY <2>1, PositionsUpTo
<1>2. \A b : Rank(Catches', b) <= Len(caught')
  BY <1>1, RankType DEF CaughtFull
<1>3. \A b : CaughtUpTo(b)'
  BY <1>2 DEF CaughtFull, CaughtUpTo
<1> QED
  BY <1>3 DEF CaughtInv

LEMMA LeaveCaught ==
    ASSUME BaseInv, CaughtLenInv, CaughtFull, Base \in Frames, OpenStep(Base, 0, 0),
           Left(Base), Base \in 1..Len(ctx),
           caught' = Truncate(caught, Len(caught) - Cardinality({k \in Catches : k > Base}))
    PROVE  CaughtFull' /\ CaughtLenInv'
<1> DEFINE n == Base
           r == Rank(Catches, n - 1)
<1>1. /\ ctx \in Seq(Activation) /\ caught \in Seq(Entry) /\ Positions(Catches)
      /\ Len(caught) \in Nat /\ Len(ctx) \in Nat
  BY OpenPositions, Lengths DEF BaseInv, TypeOK
<1>2. n \in Nat \ {0} /\ n \notin Catches
  BY <1>1 DEF Frames, Catches, InClause, IsTry
<1>3. Rank(Catches, n) = r /\ r \in Nat /\ r <= Len(caught)
  <2>1. r \in Nat /\ r <= Cardinality(Catches)
    BY <1>1, RankType, Zenon
  <2>2. Rank(Catches, n) = IF n \in Catches THEN r + 1 ELSE r
    BY <1>1, <1>2, RankNext, Zenon
  <2> HIDE DEF n, r
  <2> QED
    BY <1>2, <2>1, <2>2 DEF CaughtFull
<1>4. Len(caught) - Cardinality({k \in Catches : k > n}) = r
  BY <1>1, <1>2, <1>3, RankAfter DEF CaughtFull
<1>5. OpenStep(n, 0, 0) /\ Len(ctx') = n - 1 /\ caught' = Truncate(caught, r)
  BY <1>4 DEF Left
<1> HIDE DEF n
<1>6. n \notin Catches' /\ n \notin Guarded'
  BY <1>2, <1>5 DEF Catches, Guarded
<1>7. caught' = SubSeq(caught, 1, r)
  <2> HIDE DEF r
  <2> QED
    BY <1>1, <1>3, <1>5, TruncatedAt
<1>8. CaughtUpTo(n - 1)
  BY <1>1, FullUpTo
<1> QED
  BY <1>5, <1>6, <1>7, <1>8, CaughtPops

LEMMA ReturnCaught ==
    ASSUME BaseInv, CaughtLenInv, CaughtFull, NEW m, NEW l, ReturnStep(m, l),
           Rank(Catches, m) = Len(caught)
    PROVE  CaughtFull' /\ CaughtLenInv'
<1>1. ASSUME Finals(l) # {}, OpenStep(m + 1, 0, 0), NEW k, Inlined(m, k), caught' = caught
      PROVE  CaughtFull' /\ CaughtLenInv'
  <2>1. m \in Nat /\ (m + 1) - 1 = m
    BY DEF ReturnStep, Returning
  <2>2. ctx'[m + 1].kind = "inline"
    BY <1>1 DEF Inlined, Inline
  <2>3. m + 1 \notin Catches' /\ m + 1 \notin Guarded'
    BY <2>2 DEF Catches, Guarded, InClause, Installs, IsTry
  <2>4. Rank(Catches, (m + 1) - 1) = Len(caught)
    BY <2>1
  <2> QED
    BY <1>1, <2>3, <2>4, CaughtStays
<1> QED
  BY <1>1, LeaveCaught DEF ReturnStep

\* The innermost clause goes on, and its exception goes if it was a catch clause.
LEMMA ClauseEndCaught ==
    ASSUME BaseInv, CaughtLenInv, CaughtFull, EndTry \/ EndElse \/ EndCatch
    PROVE  CaughtFull' /\ CaughtLenInv'
<1> DEFINE n == Len(ctx)
           r == Rank(Catches, n - 1)
<1>1. /\ ctx \in Seq(Activation) /\ caught \in Seq(Entry) /\ Positions(Catches)
      /\ Len(caught) \in Nat /\ r \in Nat
  BY OpenPositions, Lengths, RankType DEF BaseInv, TypeOK
<1>2. /\ OpenStep(n, Len(caught'), Len(marks)) /\ ctx # <<>> /\ n \in 1..n /\ Top = ctx[n]
      /\ Left(n) \/ Entered(n, "else", None) \/ Entered(n, "finally", None)
  BY ClauseEndOpen DEF Top
<1>3. n \notin Catches'
  <2>1. CASE Left(n)
    BY <1>2, <2>1 DEF Left, Catches
  <2>2. CASE Entered(n, "else", None) \/ Entered(n, "finally", None)
    BY <2>2 DEF Entered, Catches, InClause
  <2> QED
    BY <1>2, <2>1, <2>2
<1>4. /\ n \in Catches => r = Len(caught) - 1
      /\ n \notin Catches => r = Len(caught)
  BY <1>2, CatchRanks
<1>5. caught' = SubSeq(caught, 1, r) /\ Len(caught') = r
  <2>1. CASE EndCatch
    <3>1. n \in Catches
      BY <1>2, <2>1 DEF EndCatch, AtTop, Catches
    <3>2. caught' = Truncate(caught, r) /\ r <= Len(caught)
      BY <1>1, <1>4, <2>1, <3>1 DEF EndCatch
    <3> HIDE DEF r
    <3> QED
      BY <1>1, <3>2, TruncatedAt
  <2>2. CASE EndTry \/ EndElse
    <3>1. n \notin Catches
      BY <1>2, <2>2 DEF EndTry, EndElse, AtTop, Catches, InClause
    <3>2. caught' = caught /\ r = Len(caught)
      BY <1>4, <2>2, <3>1 DEF EndTry, EndElse
    <3>3. SubSeq(caught, 1, Len(caught)) = caught
      BY <1>1
    <3> HIDE DEF r
    <3> QED
      BY <3>2, <3>3
  <2> QED
    BY <2>1, <2>2
<1>6. CaughtUpTo(n - 1)
  BY <1>1, FullUpTo
<1> HIDE DEF n
<1> QED
  BY <1>2, <1>3, <1>5, <1>6, CaughtPops

LEMMA CaughtKept ==
    ASSUME BaseInv, CaughtInv, Next, "again" \notin Shapes
    PROVE  CaughtInv'
<1>0. BaseInv' /\ CaughtLenInv /\ ctx \in Seq(Activation) /\ Len(ctx) \in Nat
  BY BaseKept, Lengths DEF CaughtInv, BaseInv
<1>1. /\ (Len(ctx) + 1) - 1 = Len(ctx)
      /\ CaughtFull => Rank(Catches, (Len(ctx) + 1) - 1) = Len(caught)
  <2>1. (Len(ctx) + 1) - 1 = Len(ctx)
    BY <1>0
  <2> QED
    BY <2>1, CatchRanks
<1>2. CASE EnterTry
  <2>1. CaughtFull /\ caught' = caught
    BY <1>2 DEF EnterTry, CaughtInv
  <2>2. PICK s \in Statements :
           ctx' = Append(ctx, Try(s))
           /\ handlers' = PushHandler(handlers, ctx', Len(caught), Len(marks))
    BY <1>2 DEF EnterTry
  <2>3. OpenStep(Len(ctx) + 1, Len(caught), Len(marks)) /\ ctx'[Len(ctx) + 1] = Try(s)
    BY <1>2, <2>2, EnterStep DEF EnterTry
  <2>4. Len(ctx) + 1 \notin Catches'
    BY <2>3 DEF Catches, InClause, Try
  <2> QED
    BY <1>0, <1>1, <2>1, <2>3, <2>4, CaughtStays, CaughtDone
<1>3. CASE Call
  <2>1. CaughtFull /\ caught' = caught
    BY <1>3 DEF Call, CaughtInv, vmVars
  <2>2. OpenStep(Len(ctx) + 1, 0, 0) /\ ctx'[Len(ctx) + 1] = Frame
    BY <1>3, CallStep
  <2>3. Len(ctx) + 1 \notin Catches' /\ Len(ctx) + 1 \notin Guarded'
    BY <2>2 DEF Catches, Guarded, InClause, Installs, IsTry, Frame
  <2> QED
    BY <1>0, <1>1, <2>1, <2>2, <2>3, CaughtStays, CaughtDone
<1>4. ASSUME ctx' = ctx, handlers' = handlers, caught' = caught, CaughtFull PROVE CaughtInv'
  <2>1. CaughtFull' /\ CaughtLenInv'
    BY <1>0, <1>4 DEF CaughtFull, CaughtLenInv, Catches, Guarded
  <2> QED
    BY <1>0, <2>1, CaughtDone
<1>5. CASE Throw \/ BuiltinError
  BY <1>4, <1>5 DEF Throw, BuiltinError, CaughtInv
<1>6. CASE Uncaught
  BY <1>0, <1>6 DEF Uncaught, vmVars, CaughtInv, CaughtLenInv, Catches, Guarded
<1>7. CASE Rethrow
  BY <1>4, <1>7 DEF Rethrow, CaughtInv
<1>8. CASE Catch
  <2> DEFINE n == Last(handlers).at
             r == Rank(Catches, n - 1)
             cl == Len(Truncate(caught, Last(handlers).caught_exception_len))
             x == [err |-> exc, val |-> Captured]
  <2>1. /\ OpenStep(n, cl, Len(marks')) /\ n \in Guarded /\ n \in 1..Len(ctx)
        /\ Entered(n, "catch", exc)
    BY <1>8, CatchOpen
  <2>2. /\ CaughtUpTo(n - 1) /\ r \in Nat /\ r <= Len(caught) /\ cl = r
        /\ Truncate(caught, Last(handlers).caught_exception_len) = SubSeq(caught, 1, r)
    BY <1>8, HandlerCaught DEF Catch
  <2>3. caught' = Append(SubSeq(caught, 1, r), x)
    BY <1>8, <2>2 DEF Catch
  <2>4. x.err = exc
    OBVIOUS
  <2> HIDE DEF n, cl, x
  <2>5. Cut(n) /\ n \in Catches' /\ x.err = ctx'[n].by
    BY <2>1, <2>4 DEF OpenStep, HandlerCut, Entered, Catches, InClause
  <2>6. StackAt(caught, Catches, n, Catches', caught', x)
    BY <2>2, <2>3, <2>5 DEF StackAt
  <2>7. CaughtFull'
    BY <2>2, <2>5, <2>6, CaughtStep
  <2>8. CaughtLenInv'
    BY <1>0, <2>1, <2>2, CaughtLenStep
  <2> QED
    BY <1>0, <2>7, <2>8, CaughtDone
<1>9. ASSUME mode = "raise", handlers # <<>>, NEW cl, NEW ml,
             OpenStep(Last(handlers).at, cl, ml), Last(handlers).at \notin Catches',
             Last(handlers).at \in Guarded' => cl = Len(caught'),
             caught' = Truncate(caught, Last(handlers).caught_exception_len)
      PROVE  CaughtInv'
  <2> DEFINE n == Last(handlers).at
             r == Rank(Catches, n - 1)
  <2>1. CaughtUpTo(n - 1) /\ caught' = SubSeq(caught, 1, r) /\ Len(caught') = r
    BY <1>9, HandlerCaught
  <2>2. OpenStep(n, cl, ml) /\ n \notin Catches' /\ (n \in Guarded' => cl = r)
    BY <1>9, <2>1
  <2> HIDE DEF n
  <2>3. CaughtFull' /\ CaughtLenInv'
    BY <1>0, <2>1, <2>2, CaughtPops
  <2> QED
    BY <1>0, <2>3, CaughtDone
<1>10. CASE ToFinally
  <2>1. /\ OpenStep(Last(handlers).at, Len(caught'), Len(marks'))
        /\ Entered(Last(handlers).at, "finally", exc)
    BY <1>10, FinallyOpen
  <2>2. Last(handlers).at \notin Catches'
    BY <2>1 DEF Entered, Catches, InClause
  <2> QED
    BY <1>9, <1>10, <2>1, <2>2 DEF ToFinally
<1>11. CASE Cleanup
  <2>1. /\ OpenStep(Last(handlers).at, 0, 0) /\ Left(Last(handlers).at)
        /\ Last(handlers).at \in 1..Len(ctx)
    BY <1>11, CleanupOpen
  <2>2. Last(handlers).at \notin Catches' /\ Last(handlers).at \notin Guarded'
    BY <2>1 DEF Left, Catches, Guarded
  <2> QED
    BY <1>9, <1>11, <2>1, <2>2 DEF Cleanup
<1>12. ASSUME CaughtFull, DirectlyInCatch, ctx' = ctx, handlers' = handlers, mode' = "raise",
              caught' = Truncate(caught, Len(caught) - 1)
       PROVE  CaughtInv'
  <2>1. \A k \in Guarded' : CaughtUpTo(k - 1)'
    BY <1>12, RethrowCaught
  <2>2. CaughtLenInv'
    BY <1>0, <1>12 DEF CaughtLenInv, Catches, Guarded
  <2> QED
    BY <1>12, <2>1, <2>2 DEF CaughtInv
<1>13. CASE RethrowCurrent
  <2>1. CaughtFull /\ DirectlyInCatch /\ ctx' = ctx /\ handlers' = handlers /\ mode' = "raise"
    BY <1>13 DEF RethrowCurrent, CaughtInv, Raise
  <2>2. CASE caught # <<>>
    <3>1. caught' = Front(caught) /\ caught \in Seq(Entry)
      BY <1>13, <2>2 DEF RethrowCurrent, BaseInv, TypeOK
    <3>2. Len(caught) - 1 \in Nat /\ Front(caught) = SubSeq(caught, 1, Len(caught) - 1)
      BY <2>2, <3>1, FrontSeq
    <3>3. caught' = Truncate(caught, Len(caught) - 1)
      BY <3>1, <3>2, TruncatedAt
    <3> QED
      BY <1>12, <2>1, <3>3
  <2>3. CASE caught = <<>>
    BY <1>4, <1>13, <2>1, <2>3 DEF RethrowCurrent
  <2> QED
    BY <2>2, <2>3
<1>14. CASE RethrowOther
  BY <1>12, <1>14 DEF RethrowOther, CaughtInv, Raise
<1>15. CASE EndTry \/ EndElse \/ EndCatch
  <2>1. CaughtFull
    BY <1>15 DEF EndTry, EndElse, EndCatch, AtTop, CaughtInv
  <2> QED
    BY <1>0, <1>15, <2>1, ClauseEndCaught, CaughtDone
<1>16. CASE EndFinally
  <2>1. CaughtFull /\ caught' = caught
    BY <1>16 DEF EndFinally, AtTop, CaughtInv
  <2>2. /\ OpenStep(Len(ctx), 0, 0) /\ Left(Len(ctx)) /\ Len(ctx) \in 1..Len(ctx)
        /\ ctx # <<>> /\ InClause(Top, "finally")
    BY <1>16, FinallyEndOpen
  <2>3. Len(ctx) \notin Catches' /\ Len(ctx) \notin Guarded' /\ Len(ctx) \notin Catches
    BY <2>2 DEF Left, Catches, Guarded, Top, InClause
  <2>4. Rank(Catches, Len(ctx) - 1) = Len(caught)
    BY <2>1, <2>2, <2>3, CatchRanks
  <2> QED
    BY <1>0, <2>1, <2>2, <2>3, <2>4, CaughtStays, CaughtDone
<1>17. CASE Return
  <2>1. CaughtFull
    BY <1>17 DEF Return, CaughtInv
  <2>2. CaughtFull' /\ CaughtLenInv'
    BY <1>0, <1>17, <2>1, ReturnOpens, ReturnCaught, CatchRanks
  <2> QED
    BY <1>0, <2>2, CaughtDone
<1>18. CASE EndInline
  <2>1. CaughtFull /\ ctx # <<>> /\ Top.kind = "inline"
    BY <1>18 DEF EndInline, CaughtInv
  <2>2. Len(ctx) \notin Catches
    BY <2>1 DEF Catches, Top, InClause, IsTry
  <2>3. Rank(Catches, Len(ctx) - 1) = Len(caught)
    BY <2>1, <2>2, CatchRanks
  <2>4. CaughtFull' /\ CaughtLenInv'
    BY <1>0, <1>18, <2>1, <2>3, EndInlineOpens, ReturnCaught
  <2> QED
    BY <1>0, <2>4, CaughtDone
<1> QED
  BY <1>2, <1>3, <1>5, <1>6, <1>7, <1>8, <1>10, <1>11, <1>13, <1>14, <1>15, <1>16, <1>17,
     <1>18 DEF Next

CatchingInv == BaseInv /\ ValInv /\ CaughtInv

\* rethrow() finds the exceptions of the open catch clauses, each with its value, in
\* every program that calls it directly in a catch clause and in which no builtin
\* fails while another exception is pending: returns, nested clauses and calls
\* included.
THEOREM CaughtFollow ==
    ASSUME "again" \notin Shapes, "builtin" \notin Shapes
    PROVE  Spec => []CaughtExact
<1>1. Init => CatchingInv
  <2> SUFFICES ASSUME Init PROVE CatchingInv
    OBVIOUS
  <2>1. BaseInv
    BY BaseInit
  <2>2. ctx = <<>> /\ caught = <<>> /\ marks = <<>> /\ perr = pval /\ mode = "run"
    BY DEF Init
  <2>3. ValInv
    BY <2>2 DEF ValInv, Frozen
  <2>4. Catches = {} /\ Guarded = {}
    BY <2>2 DEF Catches, Guarded
  <2>5. CaughtInv
    <3>1. Cardinality({}) = 0
      BY FS_EmptySet
    <3> QED
      BY <2>2, <2>4, <3>1 DEF CaughtInv, CaughtLenInv, CaughtFull
  <2> QED
    BY <2>1, <2>3, <2>5 DEF CatchingInv
<1>2. CatchingInv /\ [Next]_vars => CatchingInv'
  <2> SUFFICES ASSUME CatchingInv, [Next]_vars PROVE CatchingInv'
    OBVIOUS
  <2>1. CASE Next
    BY <2>1, BaseKept, ValInvKept, CaughtKept DEF CatchingInv
  <2>2. CASE UNCHANGED vars
    <3>1. BaseInv'
      BY <2>2, BaseStutter DEF CatchingInv
    <3>2. ValInv'
      BY <2>2 DEF vars, CatchingInv, ValInv
    <3>3. CaughtInv'
      BY <2>2 DEF vars, CatchingInv, CaughtInv, CaughtLenInv, CaughtFull, CaughtUpTo,
                  Catches, Guarded
    <3> QED
      BY <3>1, <3>2, <3>3 DEF CatchingInv
  <2> QED
    BY <2>1, <2>2
<1>3. CatchingInv => CaughtExact
  <2> SUFFICES ASSUME CatchingInv, mode = "run",
                      NEW k \in Catches
               PROVE  /\ Len(caught) = Cardinality(Catches)
                      /\ caught[Rank(Catches, k)] = [err |-> ctx[k].by, val |-> ctx[k].by]
    BY DEF CaughtExact, CatchingInv, CaughtInv, CaughtFull
  <2>1. Positions(Catches) /\ caught \in Seq(Entry) /\ CaughtFull /\ Frozen(caught)
    BY OpenPositions DEF CatchingInv, BaseInv, TypeOK, CaughtInv, ValInv
  <2> DEFINE i == Rank(Catches, k)
             x == caught[i]
             e == ctx[k].by
  <2>2. i \in 1..Len(caught)
    BY <2>1, RankPositive DEF CaughtFull
  <2>3. x \in Entry /\ x.val = x.err /\ x.err = e
    BY <2>1, <2>2 DEF Frozen, CaughtFull
  <2> HIDE DEF i, x, e
  <2>4. x = [err |-> e, val |-> e]
    BY <2>3 DEF Entry
  <2> QED
    BY <2>1, <2>4 DEF CaughtFull, i, x, e
<1> QED
  BY <1>1, <1>2, <1>3, PTL DEF Spec

-----------------------------------------------------------------------------
(***************************************************************************)
(* A finally resumes its exception.  Without the shape "nested" no finally *)
(* clause lies inside one that an exception entered, so that the mark of   *)
(* the latter is on top whenever a finally ends.                           *)
(***************************************************************************)
MarkLenInv ==
    \A k \in Guarded :
        handlers[Rank(Guarded, k)].finally_pending_len = Rank(Unwounds, k)

NestInv ==
    \A k \in Unwounds : \A j \in 1..Len(ctx) :
        j > k /\ IsTry(ctx[j]) => ~ctx[j].has.f

\* The marks of the finally clauses that an exception entered are in their places.
MarksPlaced ==
    /\ Cardinality(Unwounds) <= Len(marks)
    /\ \A k \in Unwounds : marks[Rank(Unwounds, k)].err = ctx[k].by

\* A Rethrow to come has its mark on top of them.
MarkInv ==
    /\ MarkLenInv /\ NestInv
    /\ mode \in {"run", "raise", "rethrow"} => MarksPlaced
    /\ mode = "run" => Len(marks) = Cardinality(Unwounds)
    /\ mode = "rethrow" => Len(marks) > Cardinality(Unwounds)

\* The finally clauses that an exception entered, after a cut.
LEMMA CutUnwounds ==
    ASSUME ctx \in Seq(Activation), NEW n, Cut(n)
    PROVE  /\ n \in Nat \ {0} /\ Rank(Unwounds', n) = Cardinality(Unwounds')
           /\ Rank(Unwounds, n - 1) \in Nat /\ Cardinality(Unwounds') \in Nat
           /\ Cardinality(Unwounds') = IF n \in Unwounds' THEN Rank(Unwounds, n - 1) + 1
                                       ELSE Rank(Unwounds, n - 1)
<1>1. n \in Nat \ {0} /\ \A k \in Unwounds' : k \in 1..n
  BY CutSets
<1>2. Positions(Unwounds') /\ \A k \in Unwounds' : k <= n
  BY <1>1, PositionsUpTo
<1>3. Rank(Unwounds', n) = Cardinality(Unwounds')
  BY <1>2, RankAll
<1>4. Rank(Unwounds', n) = IF n \in Unwounds' THEN Rank(Unwounds', n - 1) + 1
                           ELSE Rank(Unwounds', n - 1)
  BY <1>1, <1>2, RankNext
<1>5. n - 1 \in Nat /\ n - 1 < n
  BY <1>1
<1>6. Rank(Unwounds', n - 1) = Rank(Unwounds, n - 1)
  BY <1>5, CutRanks
<1> QED
  BY <1>1, <1>2, <1>3, <1>4, <1>6, OpenPositions, RankType

LEMMA NestStep ==
    ASSUME ctx \in Seq(Activation), NestInv, NEW n, Cut(n),
           Len(ctx') = n /\ IsTry(ctx'[n]) /\ ctx'[n].has.f => \A k \in Unwounds : k >= n
    PROVE  NestInv'
<1> SUFFICES ASSUME NEW k \in Unwounds', NEW j \in 1..Len(ctx'), j > k, IsTry(ctx'[j]),
                    ctx'[j].has.f
             PROVE  FALSE
  BY DEF NestInv
<1>1. n \in Nat \ {0} /\ k \in 1..n /\ Len(ctx') \in Nat /\ Len(ctx') \in {n - 1, n}
  BY CutSets DEF Cut
<1>2. k \in 1..(n - 1) /\ (j \in 1..(n - 1) \/ (j = n /\ Len(ctx') = n))
  BY <1>1
<1>3. k \in Unwounds
  BY <1>2, CutSets
<1>4. CASE j \in 1..(n - 1)
  <2>1. j \in 1..Len(ctx) /\ IsTry(ctx[j]) /\ ctx[j].has.f
    BY <1>4, CutSets
  <2> QED
    BY <1>3, <2>1 DEF NestInv
<1>5. CASE j = n /\ Len(ctx') = n
  <2>1. k >= n
    BY <1>3, <1>5
  <2> QED
    BY <1>1, <1>2, <2>1
<1> QED
  BY <1>2, <1>4, <1>5

LEMMA MarkLenStep ==
    ASSUME BaseInv, MarkLenInv, NEW n, NEW cl, NEW ml, OpenStep(n, cl, ml),
           n \in Guarded' => ml = Rank(Unwounds', n)
    PROVE  MarkLenInv'
<1>1. ctx \in Seq(Activation) /\ Cut(n) /\ HandlerCut(n, cl, ml)
  BY DEF BaseInv, CtxInv, OpenStep, HandlerCut
<1>2. n \in Nat \ {0} /\ \A k \in Guarded' : k \in 1..n
  BY <1>1, CutSets
<1>3. ASSUME NEW k \in Guarded', k < n
      PROVE  handlers'[Rank(Guarded', k)].finally_pending_len = Rank(Unwounds', k)
  <2>1. k \in Guarded /\ handlers'[Rank(Guarded', k)] = handlers[Rank(Guarded, k)]
    BY <1>1, <1>3, HandlersAfter
  <2>2. k \in Nat
    BY <1>2, <1>3
  <2>3. Rank(Unwounds', k) = Rank(Unwounds, k)
    BY <1>1, <1>3, <2>2, CutRanks
  <2> QED
    BY <2>1, <2>3 DEF MarkLenInv
<1>4. ASSUME n \in Guarded'
      PROVE  handlers'[Rank(Guarded', n)].finally_pending_len = Rank(Unwounds', n)
  <2> DEFINE y == handlers'[Rank(Guarded', n)]
             r == Route(ctx'[n])
             f == Rank(Frames', n)
  <2>1. y = [at |-> n, route |-> r, return_ip_len |-> f,
             caught_exception_len |-> cl, finally_pending_len |-> ml]
    BY <1>1, <1>4, HandlersAfter
  <2> HIDE DEF y, r, f
  <2>2. y.finally_pending_len = ml
    BY <2>1
  <2> QED
    BY <1>4, <2>2 DEF y
<1>5. \A k \in Guarded' : k < n \/ k = n
  BY <1>2
<1> QED
  BY <1>3, <1>4, <1>5 DEF MarkLenInv

LEMMA MarksStep ==
    ASSUME ctx \in Seq(Activation), MarksPlaced, NEW n, Cut(n),
           \A i \in 1..Rank(Unwounds, n - 1) : marks'[i] = marks[i],
           Cardinality(Unwounds') <= Len(marks'),
           n \in Unwounds' => marks'[Cardinality(Unwounds')].err = ctx'[n].by
    PROVE  MarksPlaced'
<1>1. /\ n \in Nat \ {0} /\ Rank(Unwounds', n) = Cardinality(Unwounds')
      /\ Rank(Unwounds, n - 1) \in Nat
  BY CutUnwounds
<1>2. \A k \in Unwounds' : k \in 1..n
  BY CutSets
<1>3. ASSUME NEW k \in Unwounds', k < n PROVE marks'[Rank(Unwounds', k)].err = ctx'[k].by
  <2>1. k \in 1..(n - 1) /\ k \in Nat /\ k <= n - 1 /\ n - 1 \in Int /\ k \in Int
    BY <1>1, <1>2, <1>3
  <2>2. k \in Unwounds
    BY <1>3, <2>1, CutSets
  <2>3. ctx'[k].by = ctx[k].by
    BY <2>1, <2>2, CutSets DEF Unwounds, Unwound, InClause
  <2>4. Rank(Unwounds', k) = Rank(Unwounds, k)
    BY <1>3, <2>1, CutRanks
  <2>5. Rank(Unwounds, k) \in 1..Rank(Unwounds, n - 1)
    <3>1. Positions(Unwounds)
      BY OpenPositions
    <3>2. Rank(Unwounds, k) \in 1..Cardinality(Unwounds) /\ Cardinality(Unwounds) \in Nat
      BY <2>2, <3>1, RankPositive, RankType
    <3>3. Rank(Unwounds, k) <= Rank(Unwounds, n - 1)
      BY <2>1, <3>1, RankMonotone
    <3> QED
      BY <1>1, <3>2, <3>3
  <2> QED
    BY <2>2, <2>3, <2>4, <2>5 DEF MarksPlaced
<1>4. \A k \in Unwounds' : k < n \/ k = n
  BY <1>1, <1>2
<1>5. \A k \in Unwounds' : marks'[Rank(Unwounds', k)].err = ctx'[k].by
  BY <1>1, <1>3, <1>4
<1> QED
  BY <1>5 DEF MarksPlaced

\* A step with a cut above all finally clauses that an exception entered.
LEMMA MarksStay ==
    ASSUME BaseInv, MarkLenInv, NestInv, MarksPlaced,
           NEW n, NEW cl, NEW ml, OpenStep(n, cl, ml),
           n \notin Unwounds', \A k \in Unwounds : k < n, marks' = marks,
           n \in Guarded' => ml = Cardinality(Unwounds),
           Len(ctx') = n /\ IsTry(ctx'[n]) /\ ctx'[n].has.f => Unwounds = {}
    PROVE  /\ MarkLenInv' /\ NestInv' /\ MarksPlaced'
           /\ Cardinality(Unwounds') = Cardinality(Unwounds)
<1>1. ctx \in Seq(Activation) /\ Cut(n) /\ Positions(Unwounds)
  BY OpenPositions DEF BaseInv, CtxInv, OpenStep, HandlerCut
<1>2. /\ n \in Nat \ {0} /\ Rank(Unwounds', n) = Cardinality(Unwounds')
      /\ Cardinality(Unwounds') = Rank(Unwounds, n - 1)
  BY <1>1, CutUnwounds
<1>3. Rank(Unwounds, n - 1) = Cardinality(Unwounds)
  <2>1. \A k \in Unwounds : k <= n - 1
    BY <1>1, <1>2 DEF Positions
  <2> QED
    BY <1>1, <2>1, RankAll
<1>4. NestInv'
  BY <1>1, NestStep
<1>5. MarkLenInv'
  BY <1>2, <1>3, MarkLenStep
<1>6. MarksPlaced'
  <2>1. Cardinality(Unwounds') <= Len(marks')
    BY <1>2, <1>3 DEF MarksPlaced
  <2> QED
    BY <1>1, <2>1, MarksStep
<1> QED
  BY <1>2, <1>3, <1>4, <1>5, <1>6

\* What the handler on top keeps: the marks up to its own clause.
LEMMA HandlerMarks ==
    ASSUME BaseInv, MarkInv, mode = "raise", handlers # <<>>
    PROVE  LET h == Last(handlers)
               u == Rank(Unwounds, h.at)
               kept == Truncate(marks, h.finally_pending_len)
           IN  /\ h.at \in Nat \ {0} /\ u \in Nat /\ kept \in Seq(Entry) /\ Len(kept) = u
               /\ Rank(Unwounds, h.at - 1) \in Nat
               /\ u = IF h.at \in Unwounds THEN Rank(Unwounds, h.at - 1) + 1
                      ELSE Rank(Unwounds, h.at - 1)
               /\ \A i \in 1..u : kept[i] = marks[i]
               /\ h.route \in {"catch", "finally"} => h.at \notin Unwounds
<1> DEFINE h == Last(handlers)
           n == h.at
           u == Rank(Unwounds, n)
<1>1. /\ n \in Guarded /\ h = handlers[Rank(Guarded, n)] /\ h.route = Route(ctx[n])
      /\ n \in 1..Len(ctx)
  BY LastHandler
<1>2. ctx \in Seq(Activation) /\ marks \in Seq(Entry) /\ Positions(Unwounds) /\ MarksPlaced
  BY OpenPositions DEF BaseInv, TypeOK, MarkInv
<1>3. h.finally_pending_len = u /\ n \in Nat \ {0}
  BY <1>1, <1>2 DEF MarkInv, MarkLenInv
<1>4. u \in Nat /\ u <= Len(marks)
  <2>1. u \in Nat /\ u <= Cardinality(Unwounds) /\ Cardinality(Unwounds) \in Nat
    BY <1>2, RankType
  <2>2. Cardinality(Unwounds) <= Len(marks) /\ Len(marks) \in Nat
    BY <1>2 DEF MarksPlaced
  <2> HIDE DEF u
  <2> QED
    BY <2>1, <2>2
<1>5. Rank(Unwounds, n - 1) \in Nat
      /\ u = IF n \in Unwounds THEN Rank(Unwounds, n - 1) + 1 ELSE Rank(Unwounds, n - 1)
  BY <1>2, <1>3, RankNext, RankType
<1>6. h.route \in {"catch", "finally"} => n \notin Unwounds
  BY <1>1 DEF Route, Unwounds, Unwound, InClause
<1> HIDE DEF h, n, u
<1>7. /\ Truncate(marks, u) \in Seq(Entry) /\ Len(Truncate(marks, u)) = u
      /\ \A i \in 1..u : Truncate(marks, u)[i] = marks[i]
  BY <1>2, <1>4, TruncatedAt
<1> QED
  BY <1>3, <1>4, <1>5, <1>6, <1>7 DEF h, n, u

\* What Marked leaves: the marks that the handler keeps, and that of the exception.
LEMMA MarkedOn ==
    ASSUME BaseInv, MarkInv, mode = "raise", handlers # <<>>
    PROVE  LET u == Rank(Unwounds, Last(handlers).at)
               ms == Marked(Last(handlers))
           IN  /\ Len(ms) = u + 1 /\ ms[u + 1].err = exc
               /\ \A i \in 1..u : ms[i] = marks[i]
<1> DEFINE u == Rank(Unwounds, Last(handlers).at)
           kept == Truncate(marks, Last(handlers).finally_pending_len)
           x == [err |-> exc, val |-> Captured]
           ms == Marked(Last(handlers))
<1>1. kept \in Seq(Entry) /\ Len(kept) = u /\ u \in Nat /\ \A i \in 1..u : kept[i] = marks[i]
  BY HandlerMarks
<1>2. ms = Append(kept, x) /\ x.err = exc /\ x \in Entry
  BY RaisedTypes DEF Marked, BaseInv
<1> HIDE DEF u, kept, x, ms
<1>3. /\ Len(ms) = u + 1 /\ ms[u + 1] = x /\ \A i \in 1..u : ms[i] = kept[i]
  BY <1>1, <1>2, AppendSeq
<1>4. Len(ms) = u + 1 /\ ms[u + 1].err = exc /\ \A i \in 1..u : ms[i] = marks[i]
  BY <1>1, <1>2, <1>3
<1> QED
  BY <1>4 DEF u, ms

\* A try with a finally lies inside no finally that an exception entered.
LEMMA NestedBelow ==
    ASSUME ctx \in Seq(Activation), NestInv, NEW n \in 1..Len(ctx), IsTry(ctx[n]), ctx[n].has.f
    PROVE  \A k \in Unwounds : k >= n
<1>1. \A k \in Unwounds : ~(n > k)
  BY DEF NestInv
<1>2. \A k \in Unwounds : k \in Int
  BY OpenPositions DEF Positions
<1> QED
  BY <1>1, <1>2

\* The marks after an exception has entered clause c of the try at depth n.
LEMMA EnteredMarks ==
    ASSUME BaseInv, MarkInv, mode = "raise", handlers # <<>>, mode' = "run",
           Last(handlers).route \in {"catch", "finally"},
           NEW n, n = Last(handlers).at, NEW cl, OpenStep(n, cl, Len(marks')),
           NEW c, Entered(n, c, exc),
           Len(marks') = Cardinality(Unwounds'),
           \A i \in 1..Rank(Unwounds, n - 1) : marks'[i] = marks[i],
           n \in Unwounds' => marks'[Cardinality(Unwounds')].err = exc
    PROVE  MarkInv'
<1>1. n \in Guarded /\ n \in 1..Len(ctx) /\ IsTry(ctx[n])
  BY LastHandler
<1>2. ctx \in Seq(Activation) /\ MarkLenInv /\ NestInv /\ MarksPlaced /\ Cut(n)
  BY DEF BaseInv, TypeOK, MarkInv, OpenStep, HandlerCut
<1>3. Rank(Unwounds', n) = Cardinality(Unwounds') /\ Cardinality(Unwounds') \in Nat
  BY <1>2, CutUnwounds
<1>4. MarkLenInv'
  BY <1>2, <1>3, MarkLenStep
<1>5. NestInv'
  <2>1. ctx'[n].has.f => \A k \in Unwounds : k >= n
    BY <1>1, <1>2, NestedBelow DEF Entered
  <2> QED
    BY <1>2, <2>1, NestStep
<1>6. MarksPlaced'
  <2>1. Cardinality(Unwounds') <= Len(marks')
    BY <1>3
  <2>2. n \in Unwounds' => marks'[Cardinality(Unwounds')].err = ctx'[n].by
    BY DEF Entered
  <2> QED
    BY <1>2, <2>1, <2>2, MarksStep
<1> QED
  BY <1>4, <1>5, <1>6 DEF MarkInv

LEMMA CatchMarks ==
    ASSUME BaseInv, MarkInv, Catch
    PROVE  MarkInv'
<1> DEFINE n == Last(handlers).at
           u == Rank(Unwounds, n)
           cl == Len(Truncate(caught, Last(handlers).caught_exception_len))
<1>1. mode = "raise" /\ handlers # <<>> /\ Last(handlers).route = "catch" /\ mode' = "run"
  BY DEF Catch
<1>2. OpenStep(n, cl, Len(marks')) /\ Entered(n, "catch", exc)
  BY CatchOpen
<1>3. /\ Len(marks') = u /\ \A i \in 1..u : marks'[i] = marks[i]
      /\ u = Rank(Unwounds, n - 1)
  BY <1>1, HandlerMarks DEF Catch
<1>4. ctx \in Seq(Activation) /\ n = Last(handlers).at
  BY DEF BaseInv, TypeOK
<1> HIDE DEF n, cl
<1>5. Cut(n) /\ n \notin Unwounds'
  BY <1>2 DEF OpenStep, HandlerCut, Entered, Unwounds, Unwound, InClause
<1>6. Cardinality(Unwounds') = u
  BY <1>3, <1>4, <1>5, CutUnwounds
<1> QED
  BY <1>1, <1>2, <1>3, <1>4, <1>5, <1>6, EnteredMarks

LEMMA FinallyMarks ==
    ASSUME BaseInv, MarkInv, ToFinally
    PROVE  MarkInv'
<1> DEFINE n == Last(handlers).at
           u == Rank(Unwounds, n)
<1>1. /\ mode = "raise" /\ handlers # <<>> /\ Last(handlers).route = "finally"
      /\ mode' = "run" /\ marks' = Marked(Last(handlers))
  BY DEF ToFinally
<1>2. /\ OpenStep(n, Len(caught'), Len(marks')) /\ n \in 1..Len(ctx)
      /\ Entered(n, "finally", exc)
  BY FinallyOpen
<1>3. u = Rank(Unwounds, n - 1) /\ u \in Nat
  BY <1>1, HandlerMarks
<1>4. Len(marks') = u + 1 /\ marks'[u + 1].err = exc /\ \A i \in 1..u : marks'[i] = marks[i]
  BY <1>1, MarkedOn
<1>5. ctx \in Seq(Activation) /\ n = Last(handlers).at /\ exc # None
  BY <1>1 DEF BaseInv, TypeOK
<1> HIDE DEF n
<1>6. Cut(n) /\ n \in Unwounds'
  <2>1. n \in 1..Len(ctx')
    BY <1>2 DEF Entered
  <2> QED
    BY <1>2, <1>5, <2>1 DEF OpenStep, HandlerCut, Entered, Unwounds, Unwound, InClause
<1>7. Cardinality(Unwounds') = u + 1
  BY <1>3, <1>5, <1>6, CutUnwounds
<1> QED
  BY <1>1, <1>2, <1>3, <1>4, <1>5, <1>7, EnteredMarks

LEMMA CleanupMarks ==
    ASSUME BaseInv, MarkInv, Cleanup
    PROVE  MarkInv'
<1> DEFINE n == Last(handlers).at
           u == Rank(Unwounds, n)
           p == Rank(Unwounds, n - 1)
<1>1. /\ mode = "raise" /\ handlers # <<>> /\ mode' = "rethrow"
      /\ marks' = Marked(Last(handlers))
  BY DEF Cleanup
<1>2. OpenStep(n, 0, 0) /\ n \in 1..Len(ctx) /\ Left(n)
  BY CleanupOpen
<1>3. p \in Nat /\ u \in Nat /\ p <= u
  BY <1>1, HandlerMarks
<1>4. Len(marks') = u + 1 /\ \A i \in 1..u : marks'[i] = marks[i]
  BY <1>1, MarkedOn
<1>5. ctx \in Seq(Activation) /\ MarkLenInv /\ NestInv /\ MarksPlaced
  BY <1>1 DEF BaseInv, TypeOK, MarkInv
<1> HIDE DEF n
<1>6. Cut(n) /\ Len(ctx') # n /\ n \notin Unwounds' /\ n \notin Guarded'
  BY <1>2 DEF OpenStep, HandlerCut, Left, Unwounds, Guarded
<1>7. Cardinality(Unwounds') = p
  BY <1>5, <1>6, CutUnwounds
<1>8. MarkLenInv'
  BY <1>2, <1>5, <1>6, MarkLenStep
<1>9. NestInv'
  BY <1>5, <1>6, NestStep
<1> HIDE DEF p, u
<1>10. Cardinality(Unwounds') < Len(marks') /\ Cardinality(Unwounds') <= Len(marks')
       /\ \A i \in 1..p : marks'[i] = marks[i]
  BY <1>3, <1>4, <1>7
<1>11. MarksPlaced'
  BY <1>5, <1>6, <1>10, MarksStep DEF p
<1> QED
  BY <1>1, <1>8, <1>9, <1>10, <1>11 DEF MarkInv

\* At its end a finally finds its own mark on top, or none.
LEMMA FinallyEndMarks ==
    ASSUME BaseInv, MarkInv, EndFinally
    PROVE  /\ MarkInv'
           /\ IF Top.by = None THEN mode' = "run" ELSE mode' = "raise" /\ exc' = Top.by
<1> DEFINE n == Len(ctx)
<1>1. /\ OpenStep(n, 0, 0) /\ Left(n) /\ n \in 1..n /\ n \in Nat \ {0}
      /\ Top = ctx[n] /\ InClause(Top, "finally") /\ ctx \in Seq(Activation)
  BY FinallyEndOpen DEF BaseInv, TypeOK, Top
<1>2. mode = "run" /\ Resume /\ marks \in Seq(Entry)
  BY DEF EndFinally, AtTop, BaseInv, TypeOK
<1>3. /\ MarkLenInv /\ NestInv /\ MarksPlaced /\ Len(marks) = Cardinality(Unwounds)
      /\ Len(marks) \in Nat
  BY <1>2 DEF MarkInv
<1>4. Positions(Unwounds) /\ \A k \in Unwounds : k \in 1..n
  BY <1>1, OpenPositions DEF Unwounds
<1>5. Cut(n) /\ Len(ctx') # n /\ n \notin Unwounds' /\ n \notin Guarded'
  BY <1>1 DEF OpenStep, HandlerCut, Left, Unwounds, Guarded
<1>6. CASE Top.by = None
  <2>1. n \notin Unwounds
    BY <1>1, <1>6 DEF Unwounds, Unwound
  <2>2. IsTry(ctx[n]) /\ ctx[n].has.f
    BY <1>1 DEF BaseInv, CtxInv, ClauseInv, InClause
  <2>3. \A k \in Unwounds : k >= n
    BY <1>1, <1>3, <2>2, NestedBelow
  <2>4. Unwounds = {}
    BY <1>1, <1>4, <2>1, <2>3
  <2>5. marks = <<>>
    <3>1. Cardinality({}) = 0
      BY FS_EmptySet
    <3>2. Len(marks) = 0
      BY <1>3, <2>4, <3>1
    <3> QED
      BY <1>2, <3>2
  <2>6. mode' = "run" /\ marks' = marks
    BY <1>2, <2>5 DEF Resume
  <2> HIDE DEF n
  <2>7. /\ MarkLenInv' /\ NestInv' /\ MarksPlaced'
        /\ Cardinality(Unwounds') = Cardinality(Unwounds)
    BY <1>1, <1>3, <1>5, <2>4, <2>6, MarksStay
  <2> QED
    BY <1>3, <1>6, <2>6, <2>7 DEF MarkInv
<1>7. CASE Top.by # None
  <2> DEFINE p == Rank(Unwounds, n - 1)
  <2>1. n \in Unwounds
    BY <1>1, <1>7 DEF Unwounds, Unwound
  <2>2. Rank(Unwounds, n) = Len(marks)
    <3>1. \A k \in Unwounds : k <= n
      BY <1>1, <1>4
    <3> QED
      BY <1>3, <1>4, <3>1, RankAll
  <2>3. Rank(Unwounds, n) = p + 1 /\ p \in Nat
    BY <1>4, <2>1, RankPositive, RankType
  <2>4. marks[Len(marks)].err = Top.by
    BY <1>1, <1>3, <2>1, <2>2 DEF MarksPlaced
  <2> HIDE DEF n, p
  <2>5. Len(marks) = p + 1 /\ marks # <<>> /\ Len(marks) - 1 = p
    BY <1>2, <1>3, <2>2, <2>3
  <2>6. /\ Front(marks) \in Seq(Entry) /\ Len(Front(marks)) = p
        /\ \A i \in 1..p : Front(marks)[i] = marks[i]
        /\ Last(marks) = marks[Len(marks)]
    BY <1>2, <2>5, FrontSeq
  <2>7. marks' = Front(marks) /\ mode' = "raise" /\ exc' = Last(marks).err
    BY <1>2, <2>5 DEF Resume
  <2>8. Cardinality(Unwounds') = p
    BY <1>1, <1>5, CutUnwounds DEF p
  <2>9. MarkLenInv'
    BY <1>1, <1>3, <1>5, MarkLenStep
  <2>10. NestInv'
    BY <1>1, <1>3, <1>5, NestStep
  <2>11. MarksPlaced'
    <3>1. Cardinality(Unwounds') <= Len(marks')
          /\ \A i \in 1..p : marks'[i] = marks[i]
      BY <2>3, <2>6, <2>7, <2>8
    <3> QED
      BY <1>1, <1>3, <1>5, <3>1, MarksStep DEF p
  <2> QED
    BY <1>7, <2>4, <2>6, <2>7, <2>9, <2>10, <2>11 DEF MarkInv
<1> QED
  BY <1>6, <1>7

LEMMA ReturnMarks ==
    ASSUME BaseInv, MarkInv, mode = "run", mode' = "run", marks' = marks,
           NEW m, NEW l, ReturnStep(m, l), \A k \in Unwounds : k <= m
    PROVE  MarkInv'
<1>1. /\ MarkLenInv /\ NestInv /\ MarksPlaced /\ Len(marks) = Cardinality(Unwounds)
      /\ ctx \in Seq(Activation) /\ \A k \in Unwounds : k \in Nat
  <2>1. ctx \in Seq(Activation)
    BY DEF BaseInv, TypeOK
  <2> QED
    BY <2>1, OpenPositions DEF MarkInv, Positions
<1>2. m \in Nat /\ Base # 0 /\ Base \in Nat \ {0}
  BY <1>1, BaseFrame DEF ReturnStep, Returning
<1>3. ASSUME OpenStep(Base, 0, 0), Left(Base), Base \in Frames PROVE MarkInv'
  <2>1. \A k \in Unwounds : k < Base
    <3>1. ASSUME NEW k \in Unwounds, k > Base PROVE FALSE
      <4>1. k \in Base + 1..m
        BY <1>1, <1>2, <3>1
      <4> QED
        BY <4>1 DEF ReturnStep, Returning, Unwounds, Unwound, InClause
    <3>2. Base \notin Unwounds
      BY <1>3 DEF Frames, Unwounds, Unwound, InClause, IsTry
    <3> QED
      BY <1>1, <1>2, <3>1, <3>2
  <2>2. Base \notin Unwounds' /\ Base \notin Guarded' /\ Len(ctx') # Base
    BY <1>2, <1>3 DEF Left, Unwounds, Guarded
  <2>3. /\ MarkLenInv' /\ NestInv' /\ MarksPlaced'
        /\ Cardinality(Unwounds') = Cardinality(Unwounds)
    BY <1>1, <1>3, <2>1, <2>2, MarksStay
  <2> QED
    BY <1>1, <2>3 DEF MarkInv
<1>4. ASSUME OpenStep(m + 1, 0, 0), NEW k, Inlined(m, k) PROVE MarkInv'
  <2>1. ctx'[m + 1].kind = "inline"
    BY <1>4 DEF Inlined, Inline
  <2>2. m + 1 \notin Unwounds' /\ m + 1 \notin Guarded' /\ ~IsTry(ctx'[m + 1])
    BY <2>1 DEF Unwounds, Unwound, Guarded, InClause, Installs, IsTry
  <2>3. \A j \in Unwounds : j < m + 1
    BY <1>1, <1>2
  <2>4. /\ MarkLenInv' /\ NestInv' /\ MarksPlaced'
        /\ Cardinality(Unwounds') = Cardinality(Unwounds)
    BY <1>1, <1>4, <2>2, <2>3, MarksStay
  <2> QED
    BY <1>1, <2>4 DEF MarkInv
<1> QED
  BY <1>3, <1>4 DEF ReturnStep

LEMMA MarkKept ==
    ASSUME BaseInv, MarkInv, Next, "nested" \notin Shapes
    PROVE  MarkInv'
<1> DEFINE n == Len(ctx) + 1
<1>0. /\ ctx \in Seq(Activation) /\ Len(ctx) \in Nat /\ n \in Nat /\ n - 1 = Len(ctx)
      /\ \A k \in Unwounds : k \in 1..Len(ctx) /\ k < n
  BY Lengths DEF BaseInv, Unwounds
<1>1. ASSUME mode = "run", mode' = "run", marks' = marks, NEW cl, NEW ml, OpenStep(n, cl, ml),
             n \notin Unwounds', n \in Guarded' => ml = Len(marks),
             Len(ctx') = n /\ IsTry(ctx'[n]) /\ ctx'[n].has.f => Unwounds = {}
      PROVE  MarkInv'
  <2>1. MarkLenInv /\ NestInv /\ MarksPlaced /\ Len(marks) = Cardinality(Unwounds)
    BY <1>1 DEF MarkInv
  <2> HIDE DEF n
  <2>2. /\ MarkLenInv' /\ NestInv' /\ MarksPlaced'
        /\ Cardinality(Unwounds') = Cardinality(Unwounds)
    BY <1>0, <1>1, <2>1, MarksStay
  <2> QED
    BY <1>1, <2>1, <2>2 DEF MarkInv
<1>2. CASE EnterTry
  <2>1. PICK s \in Statements :
           /\ s.f => \A k \in 1..Len(ctx) : ~Unwound(ctx[k])
           /\ ctx' = Append(ctx, Try(s))
           /\ handlers' = PushHandler(handlers, ctx', Len(caught), Len(marks))
    BY <1>2 DEF EnterTry
  <2>2. OpenStep(n, Len(caught), Len(marks)) /\ ctx'[n] = Try(s)
    BY <1>2, <2>1, EnterStep DEF EnterTry
  <2>3. n \notin Unwounds' /\ Try(s).has = s
    BY <2>2 DEF Unwounds, Unwound, InClause, Try
  <2>4. ctx'[n].has.f => Unwounds = {}
    BY <2>1, <2>2, <2>3 DEF Unwounds
  <2> QED
    BY <1>1, <1>2, <2>2, <2>3, <2>4 DEF EnterTry
<1>3. CASE Call
  <2>1. OpenStep(n, 0, 0) /\ ctx'[n] = Frame
    BY <1>3, CallStep
  <2>2. n \notin Unwounds' /\ n \notin Guarded' /\ ~IsTry(ctx'[n])
    BY <2>1 DEF Unwounds, Unwound, Guarded, InClause, Installs, IsTry, Frame
  <2> QED
    BY <1>1, <1>3, <2>1, <2>2 DEF Call, vmVars
<1>4. ASSUME ctx' = ctx, handlers' = handlers, mode \in {"run", "raise", "rethrow"}
      PROVE  /\ MarkLenInv' /\ NestInv' /\ Unwounds' = Unwounds
             /\ marks' = marks => MarksPlaced'
  BY <1>4 DEF MarkInv, MarkLenInv, NestInv, MarksPlaced, Unwounds, Guarded
<1>5. CASE Throw \/ BuiltinError \/ RethrowCurrent \/ RethrowOther
  <2>1. ctx' = ctx /\ handlers' = handlers /\ marks' = marks /\ mode = "run" /\ mode' = "raise"
    BY <1>5 DEF Throw, BuiltinError, RethrowCurrent, RethrowOther, Raise
  <2> QED
    BY <1>4, <2>1 DEF MarkInv
<1>6. CASE Uncaught
  <2>1. ctx' = ctx /\ handlers' = handlers /\ mode = "raise" /\ mode' = "dead"
    BY <1>6 DEF Uncaught, vmVars
  <2> QED
    BY <1>4, <2>1 DEF MarkInv
<1>7. CASE Rethrow
  <2>1. /\ ctx' = ctx /\ handlers' = handlers /\ mode = "rethrow" /\ Resume
        /\ marks \in Seq(Entry) /\ Positions(Unwounds)
    BY <1>0, <1>7, OpenPositions DEF Rethrow, BaseInv, TypeOK
  <2>2. /\ Cardinality(Unwounds) \in Nat /\ Len(marks) \in Nat
        /\ Cardinality(Unwounds) < Len(marks) /\ MarksPlaced
    BY <2>1, RankType DEF MarkInv
  <2>3. marks # <<>>
    BY <2>1, <2>2
  <2>4. /\ Front(marks) \in Seq(Entry) /\ Len(Front(marks)) = Len(marks) - 1
        /\ \A i \in 1..(Len(marks) - 1) : Front(marks)[i] = marks[i]
    BY <2>1, <2>3, FrontSeq
  <2>5. marks' = Front(marks) /\ mode' = "raise"
    BY <2>1, <2>3 DEF Resume
  <2>6. \A k \in Unwounds : marks'[Rank(Unwounds, k)] = marks[Rank(Unwounds, k)]
    <3>1. \A k \in Unwounds : Rank(Unwounds, k) \in 1..Cardinality(Unwounds)
      BY <2>1, RankPositive
    <3>2. \A i \in 1..Cardinality(Unwounds) : i \in 1..(Len(marks) - 1)
      BY <2>2
    <3> QED
      BY <2>4, <2>5, <3>1, <3>2
  <2>7. Cardinality(Unwounds) <= Len(marks')
    BY <2>2, <2>4, <2>5
  <2>8. MarksPlaced'
    BY <1>4, <2>1, <2>2, <2>6, <2>7 DEF MarksPlaced
  <2> QED
    BY <1>4, <2>1, <2>5, <2>8 DEF MarkInv
<1>8. CASE EndTry \/ EndElse \/ EndCatch
  <2> DEFINE t == Len(ctx)
  <2>1. /\ OpenStep(t, Len(caught'), Len(marks)) /\ t \in 1..t
        /\ IsTry(ctx[t]) /\ ctx[t].clause # "finally"
        /\ Left(t) \/ Entered(t, "else", None) \/ Entered(t, "finally", None)
    BY <1>8, ClauseEndOpen DEF Top
  <2>2. mode = "run" /\ mode' = "run" /\ marks' = marks
    BY <1>8 DEF EndTry, EndElse, EndCatch, AtTop
  <2>3. MarkLenInv /\ NestInv /\ MarksPlaced /\ Len(marks) = Cardinality(Unwounds)
    BY <2>2 DEF MarkInv
  <2>4. t \notin Unwounds'
    BY <2>1 DEF Left, Entered, Unwounds, Unwound
  <2>5. \A k \in Unwounds : k < t
    <3>1. t \notin Unwounds
      BY <2>1 DEF Unwounds, Unwound, InClause
    <3> QED
      BY <1>0, <3>1
  <2>6. ASSUME Len(ctx') = t, ctx'[t].has.f PROVE Unwounds = {}
    <3>1. ctx[t].has.f
      BY <2>1, <2>6 DEF Left, Entered
    <3>2. \A k \in Unwounds : k >= t
      BY <1>0, <2>1, <2>3, <3>1, NestedBelow
    <3> QED
      BY <1>0, <2>5, <3>2
  <2> HIDE DEF t
  <2>7. /\ MarkLenInv' /\ NestInv' /\ MarksPlaced'
        /\ Cardinality(Unwounds') = Cardinality(Unwounds)
    BY <2>1, <2>2, <2>3, <2>4, <2>5, <2>6, MarksStay
  <2> QED
    BY <2>2, <2>3, <2>7 DEF MarkInv
<1>9. CASE Return
  <2>1. \A k \in Unwounds : k <= Len(ctx)
    BY <1>0
  <2> QED
    BY <1>9, <2>1, ReturnOpens, ReturnMarks DEF Return
<1>10. CASE EndInline
  <2>1. \A k \in Unwounds : k <= Len(ctx) - 1
    <3>1. Len(ctx) \notin Unwounds
      BY <1>10 DEF EndInline, Top, Unwounds, Unwound, InClause, IsTry
    <3> QED
      BY <1>0, <3>1
  <2> QED
    BY <1>10, <2>1, EndInlineOpens, ReturnMarks DEF EndInline
<1> QED
  BY <1>2, <1>3, <1>5, <1>6, <1>7, <1>8, <1>9, <1>10,
     CatchMarks, FinallyMarks, CleanupMarks, FinallyEndMarks DEF Next

MarkedInv == BaseInv /\ MarkInv

\* A finally that an exception entered resumes exactly this exception at its end, and
\* any other one lets control go on, in every program without a finally clause inside
\* a finally that an exception entered.
THEOREM ResumesOwn ==
    ASSUME "nested" \notin Shapes
    PROVE  Spec => FinallyResumes
<1>1. Init => MarkedInv
  <2> SUFFICES ASSUME Init PROVE MarkedInv
    OBVIOUS
  <2>1. BaseInv
    BY BaseInit
  <2>2. ctx = <<>> /\ marks = <<>> /\ mode = "run"
    BY DEF Init
  <2>3. Unwounds = {} /\ Guarded = {}
    BY <2>2 DEF Unwounds, Guarded
  <2>4. Cardinality({}) = 0
    BY FS_EmptySet
  <2>5. MarkInv
    BY <2>2, <2>3, <2>4 DEF MarkInv, MarkLenInv, NestInv, MarksPlaced
  <2> QED
    BY <2>1, <2>5 DEF MarkedInv
<1>2. MarkedInv /\ [Next]_vars => MarkedInv'
  <2> SUFFICES ASSUME MarkedInv, [Next]_vars PROVE MarkedInv'
    OBVIOUS
  <2>1. CASE Next
    BY <2>1, BaseKept, MarkKept DEF MarkedInv
  <2>2. CASE UNCHANGED vars
    <3>1. BaseInv'
      BY <2>2, BaseStutter DEF MarkedInv
    <3>2. MarkInv'
      BY <2>2 DEF vars, MarkedInv, MarkInv, MarkLenInv, NestInv, MarksPlaced,
                  Unwounds, Guarded
    <3> QED
      BY <3>1, <3>2 DEF MarkedInv
  <2> QED
    BY <2>1, <2>2
<1>3. MarkedInv /\ [Next]_vars =>
         [EndFinally => IF Top.by = None THEN mode' = "run"
                        ELSE mode' = "raise" /\ exc' = Top.by]_vars
  BY FinallyEndMarks DEF MarkedInv
<1> QED
  BY <1>1, <1>2, <1>3, PTL DEF Spec, FinallyResumes

-----------------------------------------------------------------------------
(***************************************************************************)
(* A finally runs once.  Without the shapes "nested" and "inline" no       *)
(* exception leaves the finally that a return runs: a catch clause lies    *)
(* between.                                                                *)
(***************************************************************************)
\* An exception raised at depth b is caught before it leaves an inlined finally.
Shielded(b) ==
    \A m \in Inlines : m < b =>
        \E k \in Guarded : m < k /\ k < b /\ Route(ctx[k]) = "catch"

ShieldInv ==
    /\ \A u \in Unwounds : Shielded(u)
    /\ mode \in {"raise", "rethrow"} => Shielded(Len(ctx) + 1)

\* The inlined block m belongs to the return that has run the finally of k.
Covers(m, k) ==
    /\ m > k /\ ctx[m].of <= k
    /\ \A j \in k..m : ctx[j].kind # "call"

Inlining(k) == ctx[k].has.f /\ \E m \in Inlines : Covers(m, k)

RunsInv ==
    \A k \in 1..Len(ctx) : IsTry(ctx[k]) =>
        ctx[k].runs = IF ctx[k].clause = "finally" \/ Inlining(k) THEN 1 ELSE 0

LEMMA OpenNumbers ==
    ASSUME ctx \in Seq(Activation)
    PROVE  /\ Len(ctx) \in Nat
           /\ \A k \in Guarded \cup Inlines \cup Unwounds \cup Frames : k \in 1..Len(ctx) /\ k \in Nat
           /\ \A k \in Guarded \cup Unwounds : IsTry(ctx[k]) /\ ctx[k].kind = "try"
<1>1. Len(ctx) \in Nat
  OBVIOUS
<1> QED
  BY <1>1 DEF Guarded, Inlines, Unwounds, Frames, Installs, Unwound, InClause, IsTry

LEMMA ShieldKept ==
    ASSUME ctx \in Seq(Activation), NEW n, Cut(n), NEW b \in Nat, b <= n, Shielded(b)
    PROVE  Shielded(b)'
<1> SUFFICES ASSUME NEW m \in Inlines', m < b
             PROVE  \E k \in Guarded' : m < k /\ k < b /\ Route(ctx'[k]) = "catch"
  BY DEF Shielded
<1>1. n \in Nat \ {0} /\ m \in 1..n
  BY CutSets
<1>2. m \in 1..(n - 1) /\ m \in Inlines
  <2>1. m \in 1..(n - 1)
    BY <1>1
  <2> QED
    BY <2>1, CutSets
<1>3. PICK k \in Guarded : m < k /\ k < b /\ Route(ctx[k]) = "catch"
  BY <1>2 DEF Shielded
<1>4. k \in Nat /\ IsTry(ctx[k])
  BY OpenNumbers
<1>5. k \in 1..(n - 1)
  BY <1>1, <1>3, <1>4
<1>6. k \in Guarded' /\ Route(ctx'[k]) = Route(ctx[k])
  BY <1>4, <1>5, CutSets
<1> QED
  BY <1>3, <1>6

LEMMA ShieldLeft ==
    ASSUME ctx \in Seq(Activation), NEW n, Cut(n), Left(n), Shielded(n)
    PROVE  Shielded(Len(ctx) + 1)'
<1>1. n \in Nat /\ n <= n /\ Len(ctx') + 1 = n
  BY CutSets DEF Left
<1>2. Shielded(n)'
  BY <1>1, ShieldKept
<1> QED
  BY <1>1, <1>2 DEF Shielded

\* The clauses below a cut keep their shield.
LEMMA ShieldsKept ==
    ASSUME BaseInv, ShieldInv, NEW n, Cut(n), n \in Unwounds' => Shielded(n)
    PROVE  \A u \in Unwounds' : Shielded(u)'
<1>0. ctx \in Seq(Activation)
  BY DEF BaseInv, TypeOK
<1> SUFFICES ASSUME NEW u \in Unwounds' PROVE Shielded(u)'
  OBVIOUS
<1>1. n \in Nat \ {0} /\ u \in 1..n
  BY <1>0, CutSets
<1>2. u \in Nat /\ u <= n
  BY <1>1
<1>3. CASE u = n
  BY <1>0, <1>2, <1>3, ShieldKept
<1>4. CASE u # n
  <2>1. u \in 1..(n - 1)
    BY <1>1, <1>4
  <2>2. u \in Unwounds
    BY <1>0, <2>1, CutSets
  <2> QED
    BY <1>0, <1>2, <2>2, ShieldKept DEF ShieldInv
<1> QED
  BY <1>3, <1>4

\* The guard of Raise, by what is open.
LEMMA RaiseShield ==
    ASSUME BaseInv, "inline" \notin Shapes, NEW e, Raise(e)
    PROVE  Shielded(Len(ctx) + 1)
<1>1. ctx \in Seq(Activation) /\ handlers \in Seq(Handler) /\ Positions(Guarded)
  BY OpenPositions DEF BaseInv, TypeOK
<1> SUFFICES ASSUME NEW m \in Inlines
             PROVE  \E k \in Guarded : m < k /\ k < Len(ctx) + 1 /\ Route(ctx[k]) = "catch"
  BY DEF Shielded
<1>2. m \in 1..Len(ctx) /\ ctx[m].kind = "inline"
  BY DEF Inlines
<1>3. PICK i \in 1..Len(handlers) : handlers[i].at > m /\ handlers[i].route = "catch"
  BY <1>2 DEF Raise
<1>4. i \in 1..Cardinality(Guarded)
  BY DEF BaseInv, HandlerInv
<1>5. PICK k \in Guarded : Rank(Guarded, k) = i
  BY <1>1, <1>4, RankOnto
<1>6. handlers[i].at = k /\ handlers[i].route = Route(ctx[k])
  BY <1>5 DEF BaseInv, HandlerInv
<1>7. k \in 1..Len(ctx) /\ Len(ctx) \in Nat /\ k \in Nat
  BY <1>1, OpenNumbers
<1>8. k > m /\ Route(ctx[k]) = "catch" /\ k < Len(ctx) + 1
  BY <1>3, <1>6, <1>7
<1> QED
  BY <1>2, <1>7, <1>8

\* The handler on top is above all inlined blocks, and shielded if it is no catch.
LEMMA HandlerShield ==
    ASSUME BaseInv, ShieldInv, mode = "raise", handlers # <<>>
    PROVE  LET n == Last(handlers).at
           IN  /\ n \in Nat \ {0} /\ n \in 1..Len(ctx)
               /\ \A m \in Inlines : m < n
               /\ Last(handlers).route # "catch" => Shielded(n)
               /\ \A k \in 1..Len(ctx) : IsTry(ctx[k]) /\ ctx[k].has.f => k <= n
<1> DEFINE n == Last(handlers).at
<1>1. ctx \in Seq(Activation) /\ Shielded(Len(ctx) + 1)
  BY DEF BaseInv, TypeOK, ShieldInv
<1>2. /\ n \in Guarded /\ n \in 1..Len(ctx) /\ Last(handlers).route = Route(ctx[n])
      /\ \A k \in Guarded : k <= n
  BY LastHandler
<1>3. /\ Len(ctx) \in Nat /\ n \in Nat \ {0}
      /\ \A k \in Guarded \cup Inlines : k \in Nat /\ k \in 1..Len(ctx) /\ k < Len(ctx) + 1
  BY <1>1, <1>2, OpenNumbers
<1>4. \A m \in Inlines : \E k \in Guarded : m < k /\ Route(ctx[k]) = "catch"
  BY <1>1, <1>3 DEF Shielded
<1>5. \A m \in Inlines : m < n
  BY <1>2, <1>3, <1>4
<1>6. ASSUME Last(handlers).route # "catch" PROVE Shielded(n)
  <2>1. \A k \in Guarded : Route(ctx[k]) = "catch" => k < n
    BY <1>2, <1>3, <1>6
  <2> QED
    BY <1>4, <2>1 DEF Shielded
<1>7. \A k \in 1..Len(ctx) : IsTry(ctx[k]) /\ ctx[k].has.f => k \in Guarded
  BY DEF Guarded, Installs
<1> QED
  BY <1>2, <1>3, <1>5, <1>6, <1>7

LEMMA ShieldInvKept ==
    ASSUME BaseInv, MarkInv, ShieldInv, Next, "inline" \notin Shapes
    PROVE  ShieldInv'
<1>0. ctx \in Seq(Activation) /\ Len(ctx) \in Nat
  BY Lengths DEF BaseInv
<1>1. ASSUME NEW n, NEW cl, NEW ml, OpenStep(n, cl, ml), n \notin Unwounds', mode' = "run"
      PROVE  ShieldInv'
  BY <1>1, ShieldsKept DEF OpenStep, HandlerCut, ShieldInv
<1>2. CASE EnterTry
  <2>1. PICK s \in Statements :
           ctx' = Append(ctx, Try(s))
           /\ handlers' = PushHandler(handlers, ctx', Len(caught), Len(marks))
    BY <1>2 DEF EnterTry
  <2>2. OpenStep(Len(ctx) + 1, Len(caught), Len(marks)) /\ ctx'[Len(ctx) + 1] = Try(s)
    BY <1>2, <2>1, EnterStep DEF EnterTry
  <2>3. Len(ctx) + 1 \notin Unwounds'
    BY <2>2 DEF Unwounds, Unwound, InClause, Try
  <2> QED
    BY <1>1, <1>2, <2>2, <2>3 DEF EnterTry
<1>3. CASE Call
  <2>1. OpenStep(Len(ctx) + 1, 0, 0) /\ ctx'[Len(ctx) + 1] = Frame
    BY <1>3, CallStep
  <2>2. Len(ctx) + 1 \notin Unwounds'
    BY <2>1 DEF Unwounds, Unwound, InClause, IsTry, Frame
  <2> QED
    BY <1>1, <1>3, <2>1, <2>2 DEF Call
<1>4. ASSUME ctx' = ctx, mode' \in {"raise", "rethrow"} => Shielded(Len(ctx) + 1)
      PROVE  ShieldInv'
  BY <1>4 DEF ShieldInv, Shielded, Inlines, Guarded, Unwounds
<1>5. CASE Throw \/ BuiltinError \/ RethrowCurrent \/ RethrowOther
  <2>1. ctx' = ctx /\ \E e : Raise(e)
    BY <1>5 DEF Throw, BuiltinError, RethrowCurrent, RethrowOther
  <2> QED
    BY <1>4, <2>1, RaiseShield
<1>6. CASE Uncaught
  BY <1>4, <1>6 DEF Uncaught
<1>7. CASE Rethrow
  BY <1>4, <1>7 DEF Rethrow, ShieldInv
<1>8. CASE Catch
  <2> DEFINE n == Last(handlers).at
             cl == Len(Truncate(caught, Last(handlers).caught_exception_len))
  <2>1. OpenStep(n, cl, Len(marks')) /\ Entered(n, "catch", exc)
    BY <1>8, CatchOpen
  <2> HIDE DEF n, cl
  <2>2. n \notin Unwounds'
    BY <2>1 DEF Entered, Unwounds, Unwound, InClause
  <2> QED
    BY <1>1, <1>8, <2>1, <2>2 DEF Catch
<1>9. CASE ToFinally
  <2>1. Cut(Last(handlers).at) /\ mode' = "run"
    BY <1>9, FinallyOpen DEF OpenStep, HandlerCut, ToFinally
  <2>2. Shielded(Last(handlers).at)
    BY <1>9, HandlerShield DEF ToFinally
  <2> QED
    BY <2>1, <2>2, ShieldsKept DEF ShieldInv
<1>10. CASE Cleanup
  <2> DEFINE n == Last(handlers).at
  <2>1. Cut(n) /\ Left(n)
    BY <1>10, CleanupOpen DEF OpenStep, HandlerCut
  <2>2. Shielded(n) /\ n \in Nat \ {0}
    BY <1>10, HandlerShield DEF Cleanup
  <2> HIDE DEF n
  <2>3. \A u \in Unwounds' : Shielded(u)'
    BY <2>1, <2>2, ShieldsKept
  <2>4. Shielded(Len(ctx) + 1)'
    BY <1>0, <2>1, <2>2, ShieldLeft
  <2> QED
    BY <2>3, <2>4 DEF ShieldInv
<1>11. CASE EndTry \/ EndElse \/ EndCatch
  <2>1. /\ OpenStep(Len(ctx), Len(caught'), Len(marks)) /\ Len(ctx) \in 1..Len(ctx)
        /\ Left(Len(ctx)) \/ Entered(Len(ctx), "else", None) \/ Entered(Len(ctx), "finally", None)
    BY <1>11, ClauseEndOpen
  <2>2. Len(ctx) \notin Unwounds'
    BY <2>1 DEF Left, Entered, Unwounds, Unwound
  <2>3. mode' = "run"
    BY <1>11 DEF EndTry, EndElse, EndCatch, AtTop
  <2> QED
    BY <1>1, <2>1, <2>2, <2>3
<1>12. CASE EndFinally
  <2> DEFINE n == Len(ctx)
  <2>1. Cut(n) /\ Left(n) /\ n \in 1..n /\ InClause(Top, "finally") /\ Top = ctx[n]
    BY <1>12, FinallyEndOpen DEF OpenStep, HandlerCut, Top
  <2>2. n \notin Unwounds'
    BY <2>1 DEF Left, Unwounds
  <2>3. \A u \in Unwounds' : Shielded(u)'
    BY <2>1, <2>2, ShieldsKept
  <2>4. IF Top.by = None THEN mode' = "run" ELSE mode' = "raise" /\ exc' = Top.by
    BY <1>12, FinallyEndMarks
  <2>5. ASSUME Top.by # None PROVE Shielded(Len(ctx) + 1)'
    <3>1. n \in Unwounds
      BY <2>1, <2>5 DEF Unwounds, Unwound
    <3>2. Shielded(n)
      BY <3>1 DEF ShieldInv
    <3> HIDE DEF n
    <3> QED
      BY <1>0, <2>1, <3>2, ShieldLeft
  <2> QED
    BY <2>3, <2>4, <2>5 DEF ShieldInv
<1>13. ASSUME NEW m, NEW l, ReturnStep(m, l), mode' = "run" PROVE ShieldInv'
  <2>1. ASSUME OpenStep(Base, 0, 0), Left(Base), Base \in 1..Len(ctx) PROVE ShieldInv'
    <3>1. Base \notin Unwounds'
      BY <2>1 DEF Left, Unwounds
    <3> QED
      BY <1>1, <1>13, <2>1, <3>1
  <2>2. ASSUME OpenStep(m + 1, 0, 0), NEW k, Inlined(m, k) PROVE ShieldInv'
    <3>1. m + 1 \notin Unwounds'
      BY <2>2 DEF Inlined, Inline, Unwounds, Unwound, InClause, IsTry
    <3> QED
      BY <1>1, <1>13, <2>2, <3>1
  <2> QED
    BY <1>13, <2>1, <2>2 DEF ReturnStep
<1>14. CASE Return
  BY <1>13, <1>14, ReturnOpens DEF Return
<1>15. CASE EndInline
  BY <1>13, <1>15, EndInlineOpens DEF EndInline
<1> QED
  BY <1>2, <1>3, <1>5, <1>6, <1>7, <1>8, <1>9, <1>10, <1>11, <1>12, <1>14, <1>15 DEF Next

LEMMA CoversKept ==
    ASSUME ctx \in Seq(Activation), NEW n, Cut(n), NEW k \in 1..(n - 1), NEW m \in 1..(n - 1),
           m \in Inlines
    PROVE  Covers(m, k)' <=> Covers(m, k)
<1>1. n \in Nat \ {0} /\ ctx'[m].of = ctx[m].of
  BY CutSets
<1>2. \A j \in k..m : j \in 1..(n - 1)
  BY <1>1
<1>3. \A j \in k..m : ctx'[j].kind = ctx[j].kind
  BY <1>2 DEF Cut, Alike
<1> QED
  BY <1>1, <1>3 DEF Covers

\* A cut keeps the return that has run the finally of k if it takes away no block of it.
LEMMA InliningKept ==
    ASSUME ctx \in Seq(Activation), NEW n, Cut(n), NEW k \in 1..(n - 1), IsTry(ctx[k]),
           \A m \in Inlines : m >= n => ~Covers(m, k),
           n \in Inlines' => ~Covers(n, k)'
    PROVE  Inlining(k)' <=> Inlining(k)
<1>1. n \in Nat \ {0} /\ ctx'[k].has = ctx[k].has
  BY CutSets
<1>2. \A m \in Inlines' : m \in 1..n
  BY CutSets
<1>3. \A m \in Inlines : m \in Nat /\ m \in 1..Len(ctx)
  BY OpenNumbers
<1>4. ASSUME NEW m \in Inlines', Covers(m, k)' PROVE m \in Inlines /\ Covers(m, k)
  <2>1. m # n
    BY <1>4
  <2>2. m \in 1..(n - 1)
    BY <1>1, <1>2, <2>1
  <2>3. m \in Inlines
    BY <2>2, CutSets
  <2> QED
    BY <1>4, <2>2, <2>3, CoversKept
<1>5. ASSUME NEW m \in Inlines, Covers(m, k) PROVE m \in Inlines' /\ Covers(m, k)'
  <2>1. m \in 1..(n - 1)
    BY <1>1, <1>3, <1>5
  <2>2. m \in Inlines'
    BY <2>1, CutSets
  <2> QED
    BY <1>5, <2>1, <2>2, CoversKept
<1> QED
  BY <1>1, <1>4, <1>5 DEF Inlining

LEMMA RunsStep ==
    ASSUME BaseInv, RunsInv, NEW n, Cut(n), n \notin Inlines',
           \A k \in 1..(n - 1) : IsTry(ctx[k]) =>
              /\ ctx'[k].runs = ctx[k].runs
              /\ \A m \in Inlines : m >= n => ~Covers(m, k),
           Len(ctx') = n /\ IsTry(ctx'[n]) =>
              ctx'[n].runs = IF ctx'[n].clause = "finally" THEN 1 ELSE 0
    PROVE  RunsInv'
<1>0. ctx \in Seq(Activation)
  BY DEF BaseInv, TypeOK
<1>1. /\ n \in Nat \ {0} /\ Len(ctx') \in Nat /\ Len(ctx') \in {n - 1, n}
      /\ \A k \in 1..Len(ctx') : k \in 1..(n - 1) \/ (k = n /\ Len(ctx') = n)
  <2>1. Len(ctx') \in Nat /\ n \in Nat \ {0} /\ Len(ctx') \in {n - 1, n}
    BY <1>0, CutSets DEF Cut
  <2> QED
    BY <2>1
<1> SUFFICES ASSUME NEW k \in 1..Len(ctx'), IsTry(ctx'[k])
             PROVE  ctx'[k].runs = IF ctx'[k].clause = "finally" \/ Inlining(k)' THEN 1 ELSE 0
  BY DEF RunsInv
<1>2. CASE k \in 1..(n - 1)
  <2>1. k \in 1..Len(ctx) /\ IsTry(ctx[k]) /\ ctx'[k].clause = ctx[k].clause
    BY <1>0, <1>2, CutSets
  <2>2. Inlining(k)' <=> Inlining(k)
    BY <1>0, <1>2, <2>1, InliningKept
  <2>3. ctx[k].runs = IF ctx[k].clause = "finally" \/ Inlining(k) THEN 1 ELSE 0
    BY <2>1 DEF RunsInv
  <2>4. ctx'[k].runs = ctx[k].runs
    BY <1>2, <2>1
  <2> QED
    BY <2>1, <2>2, <2>3, <2>4
<1>3. CASE k = n /\ Len(ctx') = n
  <2>1. ~Inlining(k)'
    <3>1. \A m \in Inlines' : m \in 1..n
      BY <1>0, CutSets
    <3>2. \A m \in Inlines' : ~(m > n)
      BY <1>1, <3>1
    <3>3. \A m \in Inlines' : ~Covers(m, n)'
      BY <3>2 DEF Covers
    <3> QED
      BY <1>3, <3>3 DEF Inlining
  <2> QED
    BY <1>3, <2>1
<1> QED
  BY <1>1, <1>2, <1>3

\* The finally of a try that is outside it and above all inlined blocks has not run.
LEMMA NotRun ==
    ASSUME ctx \in Seq(Activation), RunsInv, NEW n \in 1..Len(ctx), IsTry(ctx[n]),
           ctx[n].clause # "finally", \A m \in Inlines : m < n
    PROVE  ctx[n].runs = 0
<1>1. \A m \in Inlines : m \in Nat /\ n \in Nat
  BY OpenNumbers
<1>2. \A m \in Inlines : ~(m > n)
  BY <1>1
<1>3. ~Inlining(n)
  BY <1>2 DEF Inlining, Covers
<1> QED
  BY <1>3 DEF RunsInv

\* A clause is entered above all inlined blocks.
LEMMA EnteredRuns ==
    ASSUME BaseInv, RunsInv, NEW n \in 1..Len(ctx), Cut(n), NEW c, NEW e, Entered(n, c, e),
           IsTry(ctx[n]), ctx[n].clause # "finally", \A m \in Inlines : m < n
    PROVE  RunsInv'
<1>0. ctx \in Seq(Activation)
  BY DEF BaseInv, TypeOK
<1>1. ctx[n].runs = 0
  BY <1>0, NotRun
<1>2. ctx'[n].runs = IF ctx'[n].clause = "finally" THEN 1 ELSE 0
  BY <1>1 DEF Entered
<1>3. \A m \in Inlines : ~(m >= n)
  BY <1>0, OpenNumbers
<1>4. n \notin Inlines'
  BY DEF Entered, Inlines, IsTry
<1>5. \A k \in 1..(n - 1) : ctx'[k].runs = ctx[k].runs
  BY DEF Entered
<1> QED
  BY <1>2, <1>3, <1>4, <1>5, RunsStep

\* What is left is above all inlined blocks.
LEMMA LeftRuns ==
    ASSUME BaseInv, RunsInv, NEW n \in 1..Len(ctx), Cut(n), Left(n), \A m \in Inlines : m < n
    PROVE  RunsInv'
<1>0. ctx \in Seq(Activation)
  BY DEF BaseInv, TypeOK
<1>1. \A m \in Inlines : ~(m >= n)
  BY <1>0, OpenNumbers
<1>2. n \notin Inlines' /\ Len(ctx') # n
  BY DEF Left, Inlines
<1>3. \A k \in 1..(n - 1) : ctx'[k].runs = ctx[k].runs
  BY DEF Left
<1> QED
  BY <1>1, <1>2, <1>3, RunsStep

\* The return that is going on has run the finally blocks from depth l on.
Progress(m, l) ==
    /\ Returning(m)
    /\ \A k \in Base + 1..m : Inlining(k) <=> ctx[k].has.f /\ l <= k

LEMMA ReturnProgress ==
    ASSUME BaseInv, Returning(Len(ctx))
    PROVE  Progress(Len(ctx), Len(ctx) + 1)
<1>0. ctx \in Seq(Activation) /\ Len(ctx) \in Nat /\ Base \in Nat
  BY Lengths, BaseFrame DEF BaseInv, Returning
<1>1. \A m \in Inlines : ~(m > Base)
  <2>1. \A m \in Inlines : m \in Nat /\ m \in 1..Len(ctx) /\ ctx[m].kind = "inline"
    BY <1>0, OpenNumbers DEF Inlines
  <2>2. \A m \in Inlines : m > Base => m \in Base + 1..Len(ctx)
    BY <1>0, <2>1
  <2> QED
    BY <2>1, <2>2 DEF Returning, IsTry
<1>2. ASSUME NEW k \in Base + 1..Len(ctx) PROVE ~Inlining(k) /\ ~(Len(ctx) + 1 <= k)
  <2>1. k \in Nat /\ k > Base /\ k <= Len(ctx)
    BY <1>0
  <2>2. \A m \in Inlines : m \in Nat
    BY <1>0, OpenNumbers
  <2>3. \A m \in Inlines : ~(m > k)
    BY <1>0, <1>1, <2>1, <2>2
  <2> QED
    BY <1>0, <2>1, <2>3 DEF Inlining, Covers
<1> QED
  BY <1>2 DEF Progress

LEMMA InlineProgress ==
    ASSUME BaseInv, ctx # <<>>, Top.kind = "inline"
    PROVE  Progress(Len(ctx) - 1, Top.of)
<1> DEFINE n == Len(ctx)
<1>0. ctx \in Seq(Activation) /\ n \in Nat \ {0} /\ n - 1 \in Nat /\ n \in Inlines /\ Top = ctx[n]
  <2>1. ctx \in Seq(Activation)
    BY DEF BaseInv, TypeOK
  <2>2. n \in Nat \ {0}
    BY <2>1
  <2> QED
    BY <2>1, <2>2 DEF Inlines, Top
<1>1. Returning(n - 1)
  BY InlineOpen
<1>2. Base \in Nat
  BY <1>0, <1>1, BaseFrame DEF Returning
<1>3. ASSUME NEW m \in Inlines, m > Base PROVE m = n
  <2>1. m \in 1..n /\ m \in Nat /\ ctx[m].kind = "inline"
    BY <1>0, OpenNumbers DEF Inlines
  <2>2. ASSUME m # n PROVE FALSE
    <3>1. m \in Base + 1..(n - 1)
      BY <1>0, <1>2, <1>3, <2>1, <2>2
    <3> QED
      BY <1>1, <2>1, <3>1 DEF Returning, IsTry
  <2> QED
    BY <2>2
<1>4. ASSUME NEW k \in Base + 1..(n - 1) PROVE Inlining(k) <=> ctx[k].has.f /\ Top.of <= k
  <2>1. k \in Nat /\ k > Base /\ k < n
    BY <1>0, <1>2
  <2>2. \A j \in k..n : ctx[j].kind # "call"
    <3>1. \A j \in k..n : j = n \/ j \in Base + 1..(n - 1)
      BY <1>0, <1>2, <2>1
    <3>2. \A j \in Base + 1..(n - 1) : IsTry(ctx[j])
      BY <1>1 DEF Returning
    <3> QED
      BY <1>0, <3>1, <3>2 DEF IsTry
  <2>3. Covers(n, k) <=> Top.of <= k
    BY <1>0, <2>1, <2>2 DEF Covers
  <2>4. \A m \in Inlines : Covers(m, k) => m = n
    <3>1. \A m \in Inlines : m \in Nat
      BY <1>0, OpenNumbers
    <3>2. \A m \in Inlines : m > k => m > Base
      BY <1>2, <2>1, <3>1
    <3> QED
      BY <1>3, <3>2 DEF Covers
  <2> QED
    BY <1>0, <2>3, <2>4 DEF Inlining
<1> QED
  BY <1>1, <1>4 DEF Progress

\* No block of another function has to do with a try below the call.
LEMMA OtherFunction ==
    ASSUME ctx \in Seq(Activation), Base # 0, NEW k \in Nat, k < Base, NEW m \in Inlines, m > Base
    PROVE  ~Covers(m, k)
<1>1. Base \in Nat /\ m \in Nat /\ ctx[Base].kind = "call"
  BY BaseFrame, OpenNumbers
<1>2. Base \in k..m
  BY <1>1
<1> QED
  BY <1>1, <1>2 DEF Covers

LEMMA LeaveRuns ==
    ASSUME BaseInv, RunsInv, Base \in Frames, Base \in 1..Len(ctx), OpenStep(Base, 0, 0), Left(Base)
    PROVE  RunsInv'
<1> DEFINE n == Base
<1>0. ctx \in Seq(Activation) /\ n \in Nat \ {0} /\ Cut(n) /\ n \notin Inlines
  BY DEF BaseInv, TypeOK, OpenStep, HandlerCut, Inlines, Frames
<1>1. ASSUME NEW k \in 1..(n - 1), NEW m \in Inlines, m >= n PROVE ~Covers(m, k)
  <2>1. m \in Nat /\ m > n
    BY <1>0, <1>1, OpenNumbers
  <2>2. k \in Nat /\ k < n
    BY <1>0
  <2> QED
    BY <1>0, <2>1, <2>2, OtherFunction
<1>2. n \notin Inlines' /\ Len(ctx') # n
  BY <1>0 DEF Left, Inlines
<1>3. \A k \in 1..(n - 1) : ctx'[k].runs = ctx[k].runs
  BY DEF Left
<1> HIDE DEF n
<1> QED
  BY <1>0, <1>1, <1>2, <1>3, RunsStep

\* The next block of the return covers what has run, and the try whose finally it is.
LEMMA NextProgress ==
    ASSUME BaseInv, NEW m, NEW t, Cut(m + 1), Inlined(m, t), NEW k \in Base + 1..m
    PROVE  Inlining(k)' <=> ctx[k].has.f /\ t <= k
<1>0. ctx \in Seq(Activation) /\ m \in Nat /\ Base \in Nat /\ Base # 0 /\ t \in Nat
  BY BaseFrame DEF BaseInv, TypeOK, Inlined, Returning
<1>1. /\ k \in Nat /\ k > Base /\ k \in 1..((m + 1) - 1) /\ k < m + 1 /\ m + 1 \in Nat
      /\ \A j \in Base + 1..m : j \in 1..((m + 1) - 1)
  BY <1>0
<1>2. \A j \in Base + 1..m : IsTry(ctx[j]) /\ IsTry(ctx'[j])
  BY <1>0, <1>1, CutSets DEF Inlined, Returning
<1>3. ctx'[m + 1].kind = "inline" /\ ctx'[m + 1].of = t /\ Len(ctx') = m + 1
  BY DEF Inlined, Inline
<1>4. m + 1 \in Inlines'
  BY <1>0, <1>3 DEF Inlines
<1>5. \A j \in k..(m + 1) : ctx'[j].kind # "call"
  <2>1. \A j \in k..(m + 1) : j = m + 1 \/ j \in Base + 1..m
    BY <1>0, <1>1
  <2> QED
    BY <1>2, <1>3, <2>1 DEF IsTry
<1>6. Covers(m + 1, k)' <=> t <= k
  <2> DEFINE n == m + 1
  <2>1. n > k /\ ctx'[n].of = t /\ \A j \in k..n : ctx'[j].kind # "call"
    BY <1>1, <1>3, <1>5
  <2> HIDE DEF n
  <2>2. Covers(n, k)' <=> t <= k
    BY <2>1 DEF Covers
  <2> QED
    BY <2>2 DEF n
<1>7. ASSUME NEW j \in Inlines', Covers(j, k)' PROVE j = m + 1
  <2>1. j \in 1..(m + 1) /\ ctx'[j].kind = "inline" /\ j > k
    BY <1>3, <1>7 DEF Inlines, Covers
  <2>2. ASSUME j # m + 1 PROVE FALSE
    <3>1. j \in Base + 1..m
      BY <1>0, <1>1, <2>1, <2>2
    <3> QED
      BY <1>2, <2>1, <3>1 DEF IsTry
  <2> QED
    BY <2>2
<1>8. ctx'[k].has = ctx[k].has
  BY <1>0, <1>1, <1>2, CutSets
<1> QED
  BY <1>4, <1>6, <1>7, <1>8 DEF Inlining

LEMMA InlineRuns ==
    ASSUME BaseInv, RunsInv, NEW m, NEW l \in Nat, Progress(m, l), Finals(l) # {}, l <= m + 1,
           OpenStep(m + 1, 0, 0), Inlined(m, Max(Finals(l)))
    PROVE  RunsInv'
<1> DEFINE t == Max(Finals(l))
<1>0. /\ ctx \in Seq(Activation) /\ m \in Nat /\ Base \in Nat /\ Base # 0 /\ Cut(m + 1)
      /\ m <= Len(ctx) /\ Len(ctx) \in Nat
  BY BaseFrame DEF BaseInv, TypeOK, Progress, Returning, OpenStep, HandlerCut
<1>1. /\ t \in Base + 1..(l - 1) /\ t \in Nat /\ ctx[t].has.f
      /\ \A k \in Finals(l) : k <= t
  BY <1>0, NextFinally
<1>2. Inlined(m, t)
  OBVIOUS
<1> HIDE DEF t
<1>3. t \in Base + 1..m /\ t < l
  BY <1>0, <1>1
<1>4. /\ Len(ctx') = m + 1 /\ ctx'[m + 1].kind = "inline"
      /\ \A j \in 1..m : j # t => ctx'[j] = ctx[j]
      /\ ctx'[t].runs = ctx[t].runs + 1
  BY <1>2 DEF Inlined, Inline
<1> SUFFICES ASSUME NEW k \in 1..Len(ctx'), IsTry(ctx'[k])
             PROVE  ctx'[k].runs = IF ctx'[k].clause = "finally" \/ Inlining(k)' THEN 1 ELSE 0
  BY DEF RunsInv
<1>5. k \in 1..m /\ k \in Nat /\ k \in 1..((m + 1) - 1) /\ k \in 1..Len(ctx)
  <2>1. k # m + 1
    BY <1>4 DEF IsTry
  <2> QED
    BY <1>0, <1>4, <2>1
<1>6. IsTry(ctx[k]) /\ ctx'[k].clause = ctx[k].clause
  BY <1>0, <1>5, CutSets
<1>7. ctx[k].runs = IF ctx[k].clause = "finally" \/ Inlining(k) THEN 1 ELSE 0
  BY <1>5, <1>6 DEF RunsInv
<1>8. CASE k <= Base
  <2>1. k < Base /\ k # t
    <3>1. k # Base
      BY <1>0, <1>6, BaseFrame DEF IsTry
    <3> QED
      BY <1>0, <1>3, <1>5, <1>8, <3>1
  <2>2. \A j \in Inlines : j >= m + 1 => ~Covers(j, k)
    <3>1. \A j \in Inlines : j >= m + 1 => j > Base
      <4>1. \A j \in Inlines : j \in Nat
        BY <1>0, OpenNumbers
      <4> QED
        BY <1>0, <1>3, <4>1
    <3> QED
      BY <1>0, <1>5, <2>1, <3>1, OtherFunction
  <2>3. ~Covers(m + 1, k)'
    <3> DEFINE n == m + 1
    <3>1. Base \in k..n /\ Base \in 1..m
      BY <1>0, <1>3, <1>5, <2>1
    <3>2. ctx'[Base].kind = "call"
      BY <1>0, <1>3, <1>4, <3>1, BaseFrame
    <3>3. \E j \in k..n : ctx'[j].kind = "call"
      BY <3>1, <3>2
    <3> HIDE DEF n
    <3>4. ~Covers(n, k)'
      BY <3>3 DEF Covers
    <3> QED
      BY <3>4 DEF n
  <2>4. Inlining(k)' <=> Inlining(k)
    BY <1>0, <1>5, <1>6, <2>2, <2>3, InliningKept
  <2> QED
    BY <1>4, <1>5, <1>6, <1>7, <2>1, <2>4
<1>9. CASE k > Base
  <2>1. k \in Base + 1..m
    BY <1>0, <1>5, <1>9
  <2>2. Inlining(k)' <=> ctx[k].has.f /\ t <= k
    BY <1>0, <1>2, <2>1, NextProgress
  <2>3. ctx[k].clause # "finally" /\ (Inlining(k) <=> ctx[k].has.f /\ l <= k)
    BY <2>1 DEF Progress, Returning
  <2>4. CASE k = t
    <3>1. ~Inlining(k) /\ Inlining(k)'
      BY <1>1, <1>3, <2>2, <2>3, <2>4
    <3>2. ctx[k].runs = 0
      BY <1>7, <2>3, <3>1
    <3> QED
      BY <1>4, <2>4, <3>1, <3>2
  <2>5. CASE k # t
    <3>1. ctx'[k] = ctx[k]
      BY <1>4, <1>5, <2>5
    <3>2. ctx[k].has.f /\ t <= k => l <= k
      <4>1. ASSUME ctx[k].has.f, k < l PROVE k <= t
        <5>1. k \in Base + 1..l - 1
          BY <1>0, <1>5, <1>9, <4>1
        <5>2. k \in Finals(l)
          BY <1>6, <4>1, <5>1 DEF Finals
        <5> QED
          BY <1>1, <5>2
      <4> QED
        BY <1>1, <1>5, <2>5, <4>1
    <3>3. l <= k => t <= k
      BY <1>1, <1>3, <1>5
    <3>4. Inlining(k)' <=> Inlining(k)
      BY <2>2, <2>3, <3>2, <3>3
    <3> QED
      BY <1>7, <3>1, <3>4
  <2> QED
    BY <2>4, <2>5
<1> QED
  BY <1>0, <1>5, <1>8, <1>9

\* A try with a finally is left only after its finally was entered once.
OnceLeft ==
    \A k \in 1..Len(ctx) :
        /\ IsTry(ctx[k]) /\ ctx[k].has.f
        /\ Len(ctx') < k \/ mode' = "dead"
        => ctx[k].runs = 1

LEMMA ReturnRuns ==
    ASSUME BaseInv, RunsInv, NEW m, NEW l \in Nat, ReturnStep(m, l), Progress(m, l), l <= m + 1,
           \A k \in 1..Len(ctx) : IsTry(ctx[k]) => k <= m, Len(ctx) <= m + 1, mode' # "dead"
    PROVE  RunsInv' /\ OnceLeft
<1>0. ctx \in Seq(Activation) /\ Len(ctx) \in Nat /\ m \in Nat /\ Base \in Nat \ {0}
  BY Lengths, BaseFrame DEF BaseInv, Progress, Returning
<1>1. CASE Finals(l) = {} /\ OpenStep(Base, 0, 0) /\ Base \in Frames
           /\ Base \in 1..Len(ctx) /\ Left(Base)
  <2>1. RunsInv'
    BY <1>1, LeaveRuns
  <2>2. ASSUME NEW k \in 1..Len(ctx), IsTry(ctx[k]), ctx[k].has.f, Len(ctx') < k
        PROVE  ctx[k].runs = 1
    <3>1. k \in Nat /\ k >= Base /\ k <= m
      BY <1>0, <1>1, <2>2 DEF Left
    <3>2. k # Base
      BY <1>1, <2>2 DEF Frames, IsTry
    <3>3. k \in Base + 1..m
      BY <1>0, <3>1, <3>2
    <3>4. ~(k < l)
      <4>1. ASSUME k < l PROVE FALSE
        <5>1. k \in Base + 1..l - 1
          BY <1>0, <3>1, <3>2, <4>1
        <5> QED
          BY <1>1, <2>2, <5>1 DEF Finals
      <4> QED
        BY <4>1
    <3>5. Inlining(k)
      BY <2>2, <3>1, <3>3, <3>4 DEF Progress
    <3> QED
      BY <2>2, <3>5 DEF RunsInv
  <2> QED
    BY <2>1, <2>2 DEF OnceLeft
<1>2. CASE Finals(l) # {} /\ OpenStep(m + 1, 0, 0) /\ Inlined(m, Max(Finals(l)))
  <2>1. RunsInv'
    BY <1>2, InlineRuns
  <2>2. Len(ctx') = m + 1
    BY <1>2 DEF Inlined
  <2>3. \A k \in 1..Len(ctx) : ~(Len(ctx') < k)
    BY <1>0, <2>2
  <2> QED
    BY <2>1, <2>3 DEF OnceLeft
<1> QED
  BY <1>1, <1>2 DEF ReturnStep

LEMMA RunsKept ==
    ASSUME BaseInv, ShieldInv, RunsInv, Next
    PROVE  RunsInv' /\ OnceLeft
<1>0. ctx \in Seq(Activation) /\ Len(ctx) \in Nat /\ (Len(ctx) + 1) - 1 = Len(ctx)
      /\ \A m \in Inlines : m \in 1..Len(ctx) /\ m \in Nat
  <2>1. ctx \in Seq(Activation) /\ Len(ctx) \in Nat
    BY Lengths DEF BaseInv
  <2> QED
    BY <2>1, OpenNumbers
<1>1. ASSUME \A k \in 1..Len(ctx) : IsTry(ctx[k]) /\ ctx[k].has.f => ~(Len(ctx') < k),
             mode' # "dead"
      PROVE  OnceLeft
  BY <1>1 DEF OnceLeft
<1>2. ASSUME NEW n, n = Len(ctx) + 1, Cut(n), Len(ctx') = n, n \notin Inlines',
             \A j \in 1..Len(ctx) : ctx'[j] = ctx[j], mode' # "dead",
             IsTry(ctx'[n]) => ctx'[n].runs = 0 /\ ctx'[n].clause # "finally"
      PROVE  RunsInv' /\ OnceLeft
  <2>1. \A m \in Inlines : ~(m >= n)
    BY <1>0, <1>2
  <2>2. \A k \in 1..(n - 1) : ctx'[k].runs = ctx[k].runs
    BY <1>0, <1>2
  <2>3. RunsInv'
    BY <1>2, <2>1, <2>2, RunsStep
  <2>4. \A k \in 1..Len(ctx) : ~(Len(ctx') < k)
    BY <1>0, <1>2
  <2> QED
    BY <1>1, <1>2, <2>3, <2>4
<1>3. CASE EnterTry
  <2>1. PICK s \in Statements :
           ctx' = Append(ctx, Try(s))
           /\ handlers' = PushHandler(handlers, ctx', Len(caught), Len(marks))
    BY <1>3 DEF EnterTry
  <2>2. /\ Cut(Len(ctx) + 1) /\ ctx'[Len(ctx) + 1] = Try(s) /\ Len(ctx') = Len(ctx) + 1
        /\ \A j \in 1..Len(ctx) : ctx'[j] = ctx[j]
    BY <1>3, <2>1, EnterStep DEF EnterTry, OpenStep, HandlerCut
  <2>3. Try(s).kind = "try" /\ Try(s).runs = 0 /\ Try(s).clause = "try"
    BY DEF Try
  <2>4. Len(ctx) + 1 \notin Inlines'
    BY <2>2, <2>3 DEF Inlines
  <2> QED
    BY <1>2, <1>3, <2>2, <2>3, <2>4 DEF EnterTry
<1>4. CASE Call
  <2>1. /\ Cut(Len(ctx) + 1) /\ ctx'[Len(ctx) + 1] = Frame /\ Len(ctx') = Len(ctx) + 1
        /\ \A j \in 1..Len(ctx) : ctx'[j] = ctx[j]
    BY <1>4, CallStep DEF OpenStep, HandlerCut
  <2>2. Frame.kind = "call" /\ ~IsTry(Frame)
    BY DEF Frame, IsTry
  <2>3. Len(ctx) + 1 \notin Inlines'
    BY <2>1, <2>2 DEF Inlines
  <2> QED
    BY <1>2, <1>4, <2>1, <2>2, <2>3 DEF Call
<1>5. ASSUME ctx' = ctx PROVE RunsInv' /\ (mode' # "dead" => OnceLeft)
  <2>1. RunsInv'
    BY <1>5 DEF RunsInv, Inlining, Inlines, Covers
  <2>2. \A k \in 1..Len(ctx) : ~(Len(ctx') < k)
    BY <1>0, <1>5
  <2> QED
    BY <2>1, <2>2 DEF OnceLeft
<1>6. CASE Throw \/ BuiltinError \/ RethrowCurrent \/ RethrowOther
  <2>1. ctx' = ctx /\ mode' = "raise"
    BY <1>6 DEF Throw, BuiltinError, RethrowCurrent, RethrowOther, Raise
  <2> QED
    BY <1>5, <2>1
<1>7. CASE Rethrow
  <2>1. ctx' = ctx /\ mode' \in {"run", "raise"}
    BY <1>7, ResumeTypes DEF Rethrow, BaseInv
  <2> QED
    BY <1>5, <2>1
<1>8. CASE Uncaught
  <2>1. Guarded = {}
    <3>1. Positions(Guarded) /\ Len(handlers) = Cardinality(Guarded) /\ handlers = <<>>
      BY <1>0, <1>8, OpenPositions DEF BaseInv, HandlerInv, Uncaught
    <3>2. ASSUME NEW k \in Guarded PROVE FALSE
      <4>1. Rank(Guarded, k) \in 1..Cardinality(Guarded)
        BY <3>1, RankPositive
      <4> QED
        BY <3>1, <4>1
    <3> QED
      BY <3>2
  <2>2. \A k \in 1..Len(ctx) : ~(IsTry(ctx[k]) /\ ctx[k].has.f)
    BY <2>1 DEF Guarded, Installs
  <2> QED
    BY <1>5, <1>8, <2>2 DEF Uncaught, OnceLeft
<1>9. ASSUME mode = "raise", handlers # <<>>, mode' # "dead",
             NEW n, n = Last(handlers).at, Cut(n), NEW c, Entered(n, c, exc),
             Last(handlers).route \in {"catch", "finally"}
      PROVE  RunsInv' /\ OnceLeft
  <2>1. /\ n \in Nat \ {0} /\ n \in 1..Len(ctx) /\ \A m \in Inlines : m < n
        /\ \A k \in 1..Len(ctx) : IsTry(ctx[k]) /\ ctx[k].has.f => k <= n
    BY <1>9, HandlerShield
  <2>2. IsTry(ctx[n]) /\ ctx[n].clause # "finally"
    BY <1>9, LastHandler DEF Route
  <2>3. RunsInv'
    BY <1>9, <2>1, <2>2, EnteredRuns
  <2>4. Len(ctx') = n
    BY <1>9 DEF Entered
  <2> QED
    BY <1>0, <1>1, <1>9, <2>1, <2>3, <2>4
<1>10. CASE Catch
  BY <1>9, <1>10, CatchOpen DEF Catch, OpenStep, HandlerCut
<1>11. CASE ToFinally
  BY <1>9, <1>11, FinallyOpen DEF ToFinally, OpenStep, HandlerCut
<1>12. CASE Cleanup
  <2> DEFINE n == Last(handlers).at
  <2>1. Cut(n) /\ Left(n)
    BY <1>12, CleanupOpen DEF OpenStep, HandlerCut
  <2>2. /\ n \in Nat \ {0} /\ n \in 1..Len(ctx) /\ \A m \in Inlines : m < n
        /\ \A k \in 1..Len(ctx) : IsTry(ctx[k]) /\ ctx[k].has.f => k <= n
    BY <1>12, HandlerShield DEF Cleanup
  <2>3. Route(ctx[n]) = "cleanup" /\ IsTry(ctx[n])
    BY <1>12, LastHandler DEF Cleanup
  <2> HIDE DEF n
  <2>4. RunsInv'
    BY <2>1, <2>2, LeftRuns
  <2>5. ctx[n].has.f => ctx[n].clause = "finally"
    BY <2>3 DEF Route
  <2>6. ctx[n].has.f => ctx[n].runs = 1
    BY <2>2, <2>3, <2>5 DEF RunsInv
  <2>7. \A k \in 1..Len(ctx) : IsTry(ctx[k]) /\ ctx[k].has.f /\ Len(ctx') < k => k = n
    BY <1>0, <2>1, <2>2 DEF Left
  <2>8. mode' # "dead"
    BY <1>12 DEF Cleanup
  <2> QED
    BY <2>4, <2>6, <2>7, <2>8 DEF OnceLeft
<1>13. ASSUME IsTry(ctx[Len(ctx)]), Len(ctx) \in 1..Len(ctx) PROVE \A m \in Inlines : m < Len(ctx)
  <2>1. Len(ctx) \notin Inlines
    BY <1>13 DEF Inlines, IsTry
  <2> QED
    BY <1>0, <2>1
<1>14. CASE EndTry \/ EndElse \/ EndCatch
  <2> DEFINE n == Len(ctx)
  <2>1. /\ Cut(n) /\ n \in 1..n /\ IsTry(ctx[n]) /\ ctx[n].clause # "finally"
        /\ (Left(n) /\ ~ctx[n].has.f) \/ Entered(n, "else", None) \/ Entered(n, "finally", None)
    BY <1>14, ClauseEndOpen DEF OpenStep, HandlerCut, Top
  <2>2. \A m \in Inlines : m < n
    BY <1>13, <2>1
  <2>3. mode' # "dead"
    BY <1>14 DEF EndTry, EndElse, EndCatch, AtTop
  <2>4. CASE Left(n) /\ ~ctx[n].has.f
    <3>1. RunsInv'
      BY <2>1, <2>2, <2>4, LeftRuns
    <3>2. \A k \in 1..Len(ctx) : Len(ctx') < k => k = n
      BY <1>0, <2>4 DEF Left
    <3> QED
      BY <1>1, <2>3, <2>4, <3>1, <3>2
  <2>5. CASE Entered(n, "else", None) \/ Entered(n, "finally", None)
    <3>1. RunsInv'
      BY <2>1, <2>2, <2>5, EnteredRuns
    <3>2. \A k \in 1..Len(ctx) : ~(Len(ctx') < k)
      BY <1>0, <2>5 DEF Entered
    <3> QED
      BY <1>1, <2>3, <3>1, <3>2
  <2> QED
    BY <2>1, <2>4, <2>5
<1>15. CASE EndFinally
  <2> DEFINE n == Len(ctx)
  <2>1. Cut(n) /\ Left(n) /\ n \in 1..n /\ IsTry(ctx[n]) /\ ctx[n].clause = "finally"
    BY <1>15, FinallyEndOpen DEF OpenStep, HandlerCut, Top, InClause
  <2>2. \A m \in Inlines : m < n
    BY <1>13, <2>1
  <2>3. RunsInv'
    BY <2>1, <2>2, LeftRuns
  <2>4. ctx[n].runs = 1
    BY <2>1 DEF RunsInv
  <2>5. \A k \in 1..Len(ctx) : Len(ctx') < k => k = n
    <3>1. Len(ctx') = n - 1 /\ n \in Nat
      BY <1>0, <2>1 DEF Left
    <3>2. 1..Len(ctx) = 1..n
      OBVIOUS
    <3> HIDE DEF n
    <3> QED
      BY <3>1, <3>2
  <2>6. mode' # "dead"
    BY <1>15, ResumeTypes DEF EndFinally, BaseInv
  <2> QED
    BY <2>3, <2>4, <2>5, <2>6 DEF OnceLeft
<1>16. CASE Return
  <2>1. ReturnStep(Len(ctx), Len(ctx) + 1) /\ mode' # "dead"
    BY <1>16, ReturnOpens DEF Return
  <2>2. Progress(Len(ctx), Len(ctx) + 1)
    BY <2>1, ReturnProgress DEF ReturnStep
  <2>3. Len(ctx) <= Len(ctx) + 1 /\ Len(ctx) + 1 \in Nat /\ \A k \in 1..Len(ctx) : k <= Len(ctx)
    BY <1>0
  <2> QED
    BY <2>1, <2>2, <2>3, ReturnRuns
<1>17. CASE EndInline
  <2> DEFINE m == Len(ctx) - 1
             l == Top.of
  <2>1. ReturnStep(m, l) /\ l \in Nat /\ mode' # "dead" /\ ctx # <<>> /\ Top.kind = "inline"
    BY <1>17, EndInlineOpens DEF EndInline
  <2>2. Progress(m, l)
    BY <2>1, InlineProgress
  <2>3. l <= m + 1 /\ Len(ctx) <= m + 1
    <3>1. l \in Base + 1..m
      BY <2>1, InlineOpen
    <3>2. m \in Nat /\ Base \in Nat
      BY <1>0, <2>2, BaseFrame DEF Progress, Returning
    <3>3. l <= m + 1
      <4> HIDE DEF m, l
      <4> QED
        BY <2>1, <3>1, <3>2
    <3> QED
      BY <1>0, <3>3
  <2>4. ASSUME NEW k \in 1..Len(ctx), IsTry(ctx[k]) PROVE k <= m
    <3>1. k # Len(ctx)
      BY <2>1, <2>4 DEF Top, IsTry
    <3> DEFINE z == Len(ctx)
    <3>2. k \in 1..z /\ z \in Nat /\ k # z /\ m = z - 1
      BY <1>0, <3>1
    <3> HIDE DEF m, z
    <3> QED
      BY <3>2
  <2> HIDE DEF m, l
  <2> QED
    BY <2>1, <2>2, <2>3, <2>4, ReturnRuns
<1> QED
  BY <1>3, <1>4, <1>6, <1>7, <1>8, <1>10, <1>11, <1>12, <1>14, <1>15, <1>16, <1>17 DEF Next

OnceInv == BaseInv /\ MarkInv /\ ShieldInv /\ RunsInv

\* A try with a finally is left, at an end, by an exception, by a return or by the end
\* of the program, only after its finally was entered exactly once, in every program
\* without a finally clause inside a finally that an exception entered and without an
\* exception that leaves the finally a return runs.
THEOREM FinallyRunsOnce ==
    ASSUME "nested" \notin Shapes, "inline" \notin Shapes
    PROVE  Spec => FinallyOnce
<1>1. Init => OnceInv
  <2> SUFFICES ASSUME Init PROVE OnceInv
    OBVIOUS
  <2>1. BaseInv
    BY BaseInit
  <2>2. ctx = <<>> /\ marks = <<>> /\ mode = "run"
    BY DEF Init
  <2>3. Unwounds = {} /\ Guarded = {} /\ \A k \in 1..Len(ctx) : FALSE
    BY <2>2 DEF Unwounds, Guarded
  <2>4. Cardinality({}) = 0
    BY FS_EmptySet
  <2>5. MarkInv
    BY <2>2, <2>3, <2>4 DEF MarkInv, MarkLenInv, NestInv, MarksPlaced
  <2>6. ShieldInv /\ RunsInv
    BY <2>2, <2>3 DEF ShieldInv, RunsInv
  <2> QED
    BY <2>1, <2>5, <2>6 DEF OnceInv
<1>2. OnceInv /\ [Next]_vars => OnceInv'
  <2> SUFFICES ASSUME OnceInv, [Next]_vars PROVE OnceInv'
    OBVIOUS
  <2>1. CASE Next
    BY <2>1, BaseKept, MarkKept, ShieldInvKept, RunsKept DEF OnceInv
  <2>2. CASE UNCHANGED vars
    <3>1. BaseInv'
      BY <2>2, BaseStutter DEF OnceInv
    <3>2. MarkInv'
      BY <2>2 DEF vars, OnceInv, MarkInv, MarkLenInv, NestInv, MarksPlaced,
                  Unwounds, Guarded
    <3>3. ShieldInv'
      BY <2>2 DEF vars, OnceInv, ShieldInv, Shielded, Inlines, Guarded, Unwounds
    <3>4. RunsInv'
      BY <2>2 DEF vars, OnceInv, RunsInv, Inlining, Inlines, Covers
    <3> QED
      BY <3>1, <3>2, <3>3, <3>4 DEF OnceInv
  <2> QED
    BY <2>1, <2>2
<1>3. OnceInv /\ [Next]_vars => [OnceLeft]_vars
  BY RunsKept DEF OnceInv
<1>4. Spec => [][OnceLeft]_vars
  BY <1>1, <1>2, <1>3, PTL DEF Spec
<1> QED
  BY <1>4 DEF OnceLeft, FinallyOnce

=============================================================================
