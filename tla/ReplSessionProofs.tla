--------------------------- MODULE ReplSessionProofs ---------------------------
(***************************************************************************)
(* What holds of the REPL session for every set of inputs.                 *)
(*                                                                         *)
(*   InitOnceHolds   a module is initialised once                          *)
(*   SessionTypes    the session's data keeps its types on every path      *)
(*   SessionIsExact  the session says what the statements that ran made    *)
(*   LiveIsExact     so do the compiled prefix and the parked VM           *)
(***************************************************************************)
EXTENDS ReplSession, RankProofs

-----------------------------------------------------------------------------
(***************************************************************************)
(* Sequences of definitions and the sets they stand for.                   *)
(***************************************************************************)
\* The entries of s at the places in S, in their order.
Picked(s, S) == [n \in DOMAIN InOrder(S) |-> s[InOrder(S)[n]]]

LEMMA PickedSet ==
    ASSUME NEW T, NEW s \in Seq(T), NEW S \in SUBSET (1..Len(s))
    PROVE  /\ Picked(s, S) \in Seq(T)
           /\ \A x : x \in ToSet(Picked(s, S)) <=> \E i \in S : x = s[i]
           /\ (\A i, j \in S : s[i] = s[j] => i = j) => IsInjective(Picked(s, S))
<1> DEFINE c == Cardinality(S)
           t == InOrder(S)
           p == Picked(s, S)
<1>1. Len(s) \in Nat /\ \A i \in 1..Len(s) : s[i] \in T
  BY ElementOfSeq
<1>2. Positions(S)
  BY <1>1, PositionsUpTo
<1>3. /\ c \in Nat /\ DOMAIN t = 1..c
      /\ \A n \in 1..c : t[n] \in S /\ Rank(S, t[n]) = n
      /\ \A k \in S : Rank(S, k) \in 1..c /\ t[Rank(S, k)] = k
  BY <1>2, InOrderLists
<1>4. p = [n \in 1..c |-> s[t[n]]]
  BY <1>3 DEF Picked
<1> HIDE DEF c, t, p
<1>5. \A n \in 1..c : s[t[n]] \in T
  BY <1>1, <1>3
<1>6. p \in Seq(T) /\ DOMAIN p = 1..c /\ \A n \in 1..c : p[n] = s[t[n]]
  BY <1>3, <1>4, <1>5
<1>7. \A x : x \in ToSet(p) <=> \E n \in 1..c : x = p[n]
  BY <1>6 DEF ToSet
<1>8. \A x : x \in ToSet(p) <=> \E i \in S : x = s[i]
  <2>1. ASSUME NEW x \in ToSet(p) PROVE \E i \in S : x = s[i]
    <3>1. PICK n \in 1..c : x = p[n]
      BY <1>7
    <3>2. t[n] \in S /\ x = s[t[n]]
      BY <1>3, <1>6, <3>1
    <3> QED
      BY <3>2
  <2>2. ASSUME NEW x, NEW i \in S, x = s[i] PROVE x \in ToSet(p)
    <3>1. Rank(S, i) \in 1..c /\ t[Rank(S, i)] = i
      BY <1>3
    <3>2. p[Rank(S, i)] = x
      BY <1>6, <2>2, <3>1
    <3> QED
      BY <1>7, <3>1, <3>2
  <2> QED
    BY <2>1, <2>2
<1>9. ASSUME \A i, j \in S : s[i] = s[j] => i = j PROVE IsInjective(p)
  <2> SUFFICES ASSUME NEW a \in 1..c, NEW b \in 1..c, p[a] = p[b] PROVE a = b
    BY <1>6 DEF IsInjective
  <2>1. t[a] \in S /\ t[b] \in S /\ s[t[a]] = s[t[b]]
    BY <1>3, <1>6
  <2>2. t[a] = t[b]
    BY <1>9, <2>1
  <2>3. Rank(S, t[a]) = a /\ Rank(S, t[b]) = b
    BY <1>3
  <2> QED
    BY <2>2, <2>3
<1> QED
  BY <1>6, <1>8, <1>9 DEF p

\* The places of a sequence that hold a value.
LEMMA SetOfSeq ==
    ASSUME NEW T, NEW s \in Seq(T)
    PROVE  /\ \A x : x \in ToSet(s) <=> \E i \in 1..Len(s) : x = s[i]
           /\ ToSet(s) \subseteq T
           /\ IsInjective(s) <=> \A i, j \in 1..Len(s) : s[i] = s[j] => i = j
<1>1. DOMAIN s = 1..Len(s) /\ \A i \in 1..Len(s) : s[i] \in T
  BY ElementOfSeq
<1> QED
  BY <1>1 DEF ToSet, IsInjective

LEMMA SetOfConcat ==
    ASSUME NEW T, NEW s \in Seq(T), NEW t \in Seq(T)
    PROVE  /\ s \o t \in Seq(T)
           /\ ToSet(s \o t) = ToSet(s) \cup ToSet(t)
           /\ IsInjective(s) /\ IsInjective(t) /\ ToSet(s) \cap ToSet(t) = {} => IsInjective(s \o t)
<1> DEFINE m == Len(s)
           n == Len(t)
           u == s \o t
<1>1. m \in Nat /\ n \in Nat
  OBVIOUS
<1>2. u \in Seq(T) /\ Len(u) = m + n
  BY ConcatProperties
<1>3. \A i \in 1..(m + n) : u[i] = IF i <= m THEN s[i] ELSE t[i - m]
  BY ConcatProperties
<1>4. /\ \A x : x \in ToSet(s) <=> \E i \in 1..m : x = s[i]
      /\ \A x : x \in ToSet(t) <=> \E i \in 1..n : x = t[i]
  BY SetOfSeq
<1>5. \A x : x \in ToSet(u) <=> \E i \in 1..(m + n) : x = u[i]
  BY <1>2, SetOfSeq
<1>6. /\ IsInjective(s) => \A i, j \in 1..m : s[i] = s[j] => i = j
      /\ IsInjective(t) => \A i, j \in 1..n : t[i] = t[j] => i = j
      /\ (\A i, j \in 1..(m + n) : u[i] = u[j] => i = j) => IsInjective(u)
  BY <1>2, SetOfSeq
<1> HIDE DEF m, n, u
<1>7. \A i \in 1..m : i \in 1..(m + n) /\ u[i] = s[i]
  BY <1>1, <1>3
<1>8. ASSUME NEW i \in 1..n PROVE m + i \in 1..(m + n) /\ u[m + i] = t[i]
  <2>1. m + i \in 1..(m + n) /\ ~(m + i <= m) /\ (m + i) - m = i
    BY <1>1
  <2> QED
    BY <1>3, <2>1
<1>9. ASSUME NEW i \in 1..(m + n) PROVE i \in 1..m \/ (i - m \in 1..n /\ u[i] = t[i - m])
  BY <1>1, <1>3
<1>10. ASSUME NEW x \in ToSet(u) PROVE x \in ToSet(s) \cup ToSet(t)
  <2>1. PICK i \in 1..(m + n) : x = u[i]
    BY <1>5
  <2> QED
    BY <1>4, <1>7, <1>9, <2>1
<1>11. ASSUME NEW x \in ToSet(s) \cup ToSet(t) PROVE x \in ToSet(u)
  BY <1>4, <1>5, <1>7, <1>8
<1>12. ASSUME IsInjective(s), IsInjective(t), ToSet(s) \cap ToSet(t) = {} PROVE IsInjective(u)
  <2> SUFFICES ASSUME NEW i \in 1..(m + n), NEW j \in 1..(m + n), u[i] = u[j] PROVE i = j
    BY <1>6
  <2>1. CASE i \in 1..m /\ j \in 1..m
    BY <1>6, <1>7, <1>12, <2>1
  <2>2. CASE i \in 1..m /\ ~(j \in 1..m)
    <3>1. u[i] \in ToSet(s) /\ u[j] \in ToSet(t)
      BY <1>4, <1>7, <1>9, <2>2
    <3> QED
      BY <1>12, <3>1
  <2>3. CASE ~(i \in 1..m) /\ j \in 1..m
    <3>1. u[j] \in ToSet(s) /\ u[i] \in ToSet(t)
      BY <1>4, <1>7, <1>9, <2>3
    <3> QED
      BY <1>12, <3>1
  <2>4. CASE ~(i \in 1..m) /\ ~(j \in 1..m)
    <3>1. i - m \in 1..n /\ j - m \in 1..n /\ t[i - m] = t[j - m]
      BY <1>9, <2>4
    <3>2. i - m = j - m
      BY <1>6, <1>12, <3>1
    <3> QED
      BY <1>1, <3>2
  <2> QED
    BY <2>1, <2>2, <2>3, <2>4
<1>13. ToSet(u) = ToSet(s) \cup ToSet(t)
  BY <1>10, <1>11
<1> QED
  BY <1>2, <1>12, <1>13 DEF u

LEMMA SeqNarrows ==
    ASSUME NEW T, NEW U, NEW s \in Seq(T), ToSet(s) \subseteq U
    PROVE  s \in Seq(U)
<1>1. \A i \in 1..Len(s) : s[i] \in U
  BY SetOfSeq
<1> QED
  BY <1>1

-----------------------------------------------------------------------------
(***************************************************************************)
(* What the operators on statements compute.                               *)
(***************************************************************************)
LEMMA StatementTypes ==
    \A s \in Statements :
       /\ s[1] = "set" => s[2] \in Vars
       /\ s[1] = "def" => s[2] \in Fns
       /\ s[1] = "using" => s[2] \in Packages
       /\ s[1] \in {"module", "call"} => s[2] \in Modules
BY DEF Statements

LEMMA NamedAt ==
    ASSUME NEW stmts \in Seq(Statements), NEW kind
    PROVE  \A x : x \in Named(stmts, kind) <=>
                     \E i \in 1..Len(stmts) : stmts[i][1] = kind /\ x = stmts[i][2]
<1>1. \A x : x \in ToSet(stmts) <=> \E i \in 1..Len(stmts) : x = stmts[i]
  BY SetOfSeq
<1> HIDE DEF ToSet
<1> QED
  BY <1>1 DEF Named

LEMMA NamedTypes ==
    ASSUME NEW stmts \in Seq(Statements)
    PROVE  /\ Named(stmts, "set") \subseteq Vars /\ Named(stmts, "def") \subseteq Fns
           /\ Named(stmts, "using") \subseteq Packages
           /\ Named(stmts, "module") \subseteq Modules /\ Named(stmts, "call") \subseteq Modules
<1>1. \A i \in 1..Len(stmts) : stmts[i] \in Statements
  BY ElementOfSeq
<1>2. Named(stmts, "set") \subseteq Vars
  BY <1>1, NamedAt, StatementTypes
<1>3. Named(stmts, "def") \subseteq Fns
  BY <1>1, NamedAt, StatementTypes
<1>4. Named(stmts, "using") \subseteq Packages
  BY <1>1, NamedAt, StatementTypes
<1>5. Named(stmts, "module") \subseteq Modules
  BY <1>1, NamedAt, StatementTypes
<1>6. Named(stmts, "call") \subseteq Modules
  BY <1>1, NamedAt, StatementTypes
<1> QED
  BY <1>2, <1>3, <1>4, <1>5, <1>6

LEMMA NamedNothing == \A kind : Named(<<>>, kind) = {}
<1>1. ToSet(<<>>) = {}
  BY DEF ToSet
<1> HIDE DEF ToSet
<1> QED
  BY <1>1 DEF Named

\* An input that defines no method twice.
Once(stmts) ==
    \A i, j \in 1..Len(stmts) :
        stmts[i][1] = "def" /\ stmts[j][1] = "def" /\ stmts[i][2] = stmts[j][2] => i = j

LEMMA BodiesSet ==
    ASSUME NEW stmts \in Seq(Statements)
    PROVE  /\ Bodies(stmts) \in Seq(NewBodies(stmts))
           /\ ToSet(Bodies(stmts)) = NewBodies(stmts)
           /\ Once(stmts) => IsInjective(Bodies(stmts))
<1> DEFINE l == Len(stmts)
           T == {<<stmts[i][2], Stamp>> : i \in 1..l}
           s == [i \in 1..l |-> <<stmts[i][2], Stamp>>]
           S == {i \in 1..l : stmts[i][1] = "def"}
           t == InOrder(S)
<1>1. l \in Nat /\ DOMAIN stmts = 1..l
  OBVIOUS
<1>2. s \in Seq(T) /\ Len(s) = l /\ \A i \in 1..l : s[i] = <<stmts[i][2], Stamp>>
  <2> HIDE DEF l
  <2> QED
    BY <1>1
<1>3. Positions(S)
  BY <1>1, PositionsUpTo
<1>4. \A n \in DOMAIN t : t[n] \in S
  BY <1>3, InOrderLists
<1>5. Bodies(stmts) = [n \in DOMAIN t |-> <<stmts[t[n]][2], Stamp>>]
  BY <1>1 DEF Bodies
<1> HIDE DEF s, t
<1>6. Bodies(stmts) = Picked(s, S)
  BY <1>2, <1>4, <1>5 DEF Picked, t
<1> HIDE DEF T, S
<1>7. S \in SUBSET (1..Len(s))
  BY <1>2 DEF S
<1>8. /\ Bodies(stmts) \in Seq(T)
      /\ \A x : x \in ToSet(Bodies(stmts)) <=> \E i \in S : x = s[i]
      /\ (\A i, j \in S : s[i] = s[j] => i = j) => IsInjective(Bodies(stmts))
  BY <1>2, <1>6, <1>7, PickedSet
<1>9. \A x : x \in NewBodies(stmts) <=> \E i \in S : x = s[i]
  <2>1. \A f : f \in Named(stmts, "def") <=> \E i \in S : f = stmts[i][2]
    BY NamedAt DEF S
  <2>2. \A x : x \in NewBodies(stmts) <=> \E f \in Named(stmts, "def") : x = <<f, Stamp>>
    BY DEF NewBodies
  <2>3. \A i \in S : s[i] = <<stmts[i][2], Stamp>>
    BY <1>2 DEF S
  <2>4. ASSUME NEW x \in NewBodies(stmts) PROVE \E i \in S : x = s[i]
    <3>1. PICK f \in Named(stmts, "def") : x = <<f, Stamp>>
      BY <2>2
    <3>2. PICK i \in S : f = stmts[i][2]
      BY <2>1
    <3> QED
      BY <2>3, <3>1, <3>2
  <2>5. ASSUME NEW x, NEW i \in S, x = s[i] PROVE x \in NewBodies(stmts)
    BY <2>1, <2>2, <2>3, <2>5
  <2> QED
    BY <2>4, <2>5
<1>10. ToSet(Bodies(stmts)) = NewBodies(stmts)
  BY <1>8, <1>9
<1>11. ASSUME Once(stmts) PROVE IsInjective(Bodies(stmts))
  <2> SUFFICES ASSUME NEW i \in S, NEW j \in S, s[i] = s[j] PROVE i = j
    BY <1>8
  <2>1. i \in 1..l /\ j \in 1..l /\ stmts[i][1] = "def" /\ stmts[j][1] = "def"
    BY DEF S
  <2>2. <<stmts[i][2], Stamp>> = <<stmts[j][2], Stamp>>
    BY <1>2, <2>1
  <2>3. stmts[i][2] = stmts[j][2]
    BY <2>2
  <2> QED
    BY <1>11, <2>1, <2>3 DEF Once
<1> QED
  BY <1>8, <1>10, <1>11, SeqNarrows

LEMMA WithoutSet ==
    ASSUME NEW T, NEW bodies \in Seq(T), NEW names
    PROVE  /\ Without(bodies, names) \in Seq(T)
           /\ ToSet(Without(bodies, names)) = {b \in ToSet(bodies) : b[1] \notin names}
           /\ IsInjective(bodies) => IsInjective(Without(bodies, names))
<1> DEFINE S == {i \in 1..Len(bodies) : bodies[i][1] \notin names}
           w == Without(bodies, names)
<1>1. Len(bodies) \in Nat /\ DOMAIN bodies = 1..Len(bodies)
  OBVIOUS
<1>2. w = Picked(bodies, S)
  BY <1>1 DEF Without, Picked
<1>3. /\ w \in Seq(T)
      /\ \A x : x \in ToSet(w) <=> \E i \in S : x = bodies[i]
      /\ (\A i, j \in S : bodies[i] = bodies[j] => i = j) => IsInjective(w)
  <2>1. S \in SUBSET (1..Len(bodies))
    OBVIOUS
  <2> HIDE DEF S, w
  <2> QED
    BY <1>2, <2>1, PickedSet
<1>4. /\ \A x : x \in ToSet(bodies) <=> \E i \in 1..Len(bodies) : x = bodies[i]
      /\ IsInjective(bodies) => \A i, j \in 1..Len(bodies) : bodies[i] = bodies[j] => i = j
  BY SetOfSeq
<1> HIDE DEF w
<1>5. \A x : x \in ToSet(w) <=> x \in ToSet(bodies) /\ x[1] \notin names
  BY <1>3, <1>4
<1>6. IsInjective(bodies) => IsInjective(w)
  BY <1>3, <1>4
<1> QED
  BY <1>3, <1>5, <1>6 DEF w

-----------------------------------------------------------------------------
\* reached is the part of the input in that ran.
Starts(reached, in) ==
    /\ reached \in Seq(Statements) /\ in \in Seq(Statements) /\ Len(reached) <= Len(in)
    /\ \A i \in 1..Len(reached) : reached[i] = in[i]

LEMMA StartsItself ==
    ASSUME NEW in \in Seq(Statements)
    PROVE  Starts(in, in)
BY DEF Starts

LEMMA StartsPrefix ==
    ASSUME NEW in \in Seq(Statements), NEW k \in 0..Len(in)
    PROVE  Starts(SubSeq(in, 1, k), in)
<1>1. /\ SubSeq(in, 1, k) \in Seq(Statements) /\ Len(SubSeq(in, 1, k)) = k
      /\ \A i \in 1..k : SubSeq(in, 1, k)[i] = in[i]
  OBVIOUS
<1> QED
  BY <1>1 DEF Starts

LEMMA StartsNamed ==
    ASSUME NEW reached, NEW in, Starts(reached, in)
    PROVE  /\ \A kind : Named(reached, kind) \subseteq Named(in, kind)
           /\ NewBodies(reached) \subseteq NewBodies(in)
<1>1. /\ reached \in Seq(Statements) /\ in \in Seq(Statements)
      /\ \A i \in 1..Len(reached) : i \in 1..Len(in) /\ reached[i] = in[i]
  BY DEF Starts
<1>2. ASSUME NEW kind PROVE Named(reached, kind) \subseteq Named(in, kind)
  BY <1>1, NamedAt
<1> QED
  BY <1>2 DEF NewBodies

LEMMA StartsCalls ==
    ASSUME NEW reached, NEW in, Starts(reached, in), Given(in)
    PROVE  \A m \in Named(reached, "call") :
              truth.mods[m] # 0 \/ m \in Named(reached, "module")
<1>1. /\ reached \in Seq(Statements) /\ in \in Seq(Statements)
      /\ Len(reached) \in Nat /\ Len(in) \in Nat /\ Len(reached) <= Len(in)
      /\ \A i \in 1..Len(reached) : i \in 1..Len(in) /\ reached[i] = in[i]
  BY DEF Starts
<1> SUFFICES ASSUME NEW m \in Named(reached, "call"), truth.mods[m] = 0
             PROVE  m \in Named(reached, "module")
  OBVIOUS
<1>2. PICK i \in 1..Len(reached) : reached[i][1] = "call" /\ m = reached[i][2]
  BY <1>1, NamedAt
<1>3. i \in DOMAIN in /\ in[i][1] = "call" /\ in[i][2] = m
  BY <1>1, <1>2
<1>4. m \in Named(SubSeq(in, 1, i - 1), "module")
  BY <1>3 DEF Given
<1>5. /\ SubSeq(in, 1, i - 1) \in Seq(Statements) /\ Len(SubSeq(in, 1, i - 1)) = i - 1
      /\ \A j \in 1..(i - 1) : SubSeq(in, 1, i - 1)[j] = in[j]
  <2>1. i - 1 \in 0..Len(in)
    BY <1>1
  <2> QED
    BY <1>1, <2>1
<1>6. PICK j \in 1..(i - 1) : in[j][1] = "module" /\ m = in[j][2]
  <2> DEFINE before == SubSeq(in, 1, i - 1)
  <2>1. before \in Seq(Statements) /\ Len(before) = i - 1 /\ m \in Named(before, "module")
    BY <1>4, <1>5
  <2>2. \A j \in 1..(i - 1) : before[j] = in[j]
    BY <1>5
  <2> HIDE DEF before
  <2>3. PICK j \in 1..Len(before) : before[j][1] = "module" /\ m = before[j][2]
    BY <2>1, NamedAt
  <2> QED
    BY <2>1, <2>2, <2>3
<1>7. j \in 1..Len(reached)
  BY <1>1
<1>8. reached[j][1] = "module" /\ m = reached[j][2]
  BY <1>1, <1>6, <1>7
<1> QED
  BY <1>1, <1>7, <1>8, NamedAt

\* A call before the new definition of its module in what was reached is one in
\* the input.
LEMMA StartsOrderly ==
    ASSUME NEW reached, NEW in, Starts(reached, in), ~EarlyCall(in)
    PROVE  ~EarlyCall(reached)
<1>1. /\ reached \in Seq(Statements) /\ in \in Seq(Statements)
      /\ \A i \in 1..Len(reached) : i \in 1..Len(in) /\ reached[i] = in[i]
  BY DEF Starts
<1>2. DOMAIN reached = 1..Len(reached) /\ DOMAIN in = 1..Len(in)
  BY <1>1
<1> QED
  BY <1>1, <1>2 DEF EarlyCall

LEMMA BegunNamed ==
    ASSUME NEW stmts \in Seq(Statements)
    PROVE  Begun(stmts) \subseteq Named(stmts, "module")
<1> SUFFICES ASSUME NEW m \in Begun(stmts) PROVE m \in Named(stmts, "module")
  OBVIOUS
<1>1. PICK j \in DOMAIN stmts : stmts[j] = <<"module", m>>
  BY DEF Begun
<1>2. j \in 1..Len(stmts) /\ stmts[j][1] = "module" /\ m = stmts[j][2]
  BY <1>1
<1> QED
  BY <1>2, NamedAt

\* Where no call comes before the new definition of its module, the modules that
\* are left in their initial state are the new ones that are not called.
LEMMA BegunOrderly ==
    ASSUME NEW stmts \in Seq(Statements), ~EarlyCall(stmts)
    PROVE  Begun(stmts) = Named(stmts, "module") \ Named(stmts, "call")
<1>1. DOMAIN stmts = 1..Len(stmts) /\ \A i \in 1..Len(stmts) : stmts[i] \in Statements
  BY ElementOfSeq
<1>2. Named(stmts, "module") \subseteq Modules
  BY NamedTypes
<1>3. ASSUME NEW m \in Begun(stmts) PROVE m \in Named(stmts, "module") \ Named(stmts, "call")
  <2>1. m \in Named(stmts, "module")
    BY BegunNamed
  <2>2. PICK j \in DOMAIN stmts :
           /\ stmts[j] = <<"module", m>>
           /\ \A i \in DOMAIN stmts : stmts[i] = <<"call", m>> => i < j
    BY DEF Begun
  <2>3. ASSUME m \in Named(stmts, "call") PROVE FALSE
    <3>1. PICK i \in 1..Len(stmts) : stmts[i][1] = "call" /\ m = stmts[i][2]
      BY <2>3, NamedAt
    <3>2. stmts[i] = <<"call", m>>
      BY <1>1, <3>1 DEF Statements
    <3>3. i \in DOMAIN stmts /\ i < j
      BY <1>1, <2>2, <3>2
    <3> QED
      BY <2>2, <3>1, <3>3 DEF EarlyCall
  <2> QED
    BY <2>1, <2>3
<1>4. ASSUME NEW m \in Named(stmts, "module"), m \notin Named(stmts, "call")
      PROVE  m \in Begun(stmts)
  <2>1. PICK j \in 1..Len(stmts) : stmts[j][1] = "module" /\ m = stmts[j][2]
    BY NamedAt
  <2>2. stmts[j] = <<"module", m>>
    BY <1>1, <2>1 DEF Statements
  <2>3. \A i \in 1..Len(stmts) : stmts[i] # <<"call", m>>
    <3> SUFFICES ASSUME NEW i \in 1..Len(stmts), stmts[i] = <<"call", m>> PROVE FALSE
      OBVIOUS
    <3>1. stmts[i][1] = "call" /\ m = stmts[i][2]
      OBVIOUS
    <3> QED
      BY <1>4, <3>1, NamedAt
  <2> QED
    BY <1>1, <1>2, <2>2, <2>3 DEF Begun
<1> QED
  BY <1>3, <1>4

\* On the full path every module of the input runs, and runs before main.
LEMMA ExecutedParts ==
    ASSUME NEW reached, NEW in, Starts(reached, in)
    PROVE  /\ Executed(in, reached) \in Seq(Statements)
           /\ Named(Executed(in, reached), "module") = Named(in, "module")
           /\ \A kind : kind # "module" =>
                 Named(Executed(in, reached), kind) = Named(reached, kind)
           /\ ~EarlyCall(Executed(in, reached))
<1> DEFINE S == {i \in 1..Len(in) : in[i][1] = "module"}
           T == {i \in 1..Len(reached) : reached[i][1] # "module"}
           p == Picked(in, S)
           q == Picked(reached, T)
           e == Executed(in, reached)
<1>1. in \in Seq(Statements) /\ reached \in Seq(Statements)
  BY DEF Starts
<1>2. DOMAIN in = 1..Len(in) /\ DOMAIN reached = 1..Len(reached)
  BY <1>1
<1>3. e = p \o q
  BY <1>2 DEF Executed, Picked
<1>4. /\ p \in Seq(Statements) /\ \A x : x \in ToSet(p) <=> \E i \in S : x = in[i]
      /\ q \in Seq(Statements) /\ \A x : x \in ToSet(q) <=> \E i \in T : x = reached[i]
  <2>1. S \in SUBSET (1..Len(in)) /\ T \in SUBSET (1..Len(reached))
    OBVIOUS
  <2> HIDE DEF S, T
  <2> QED
    BY <1>1, <2>1, PickedSet
<1> HIDE DEF p, q, e
<1>5. e \in Seq(Statements) /\ ToSet(e) = ToSet(p) \cup ToSet(q)
  BY <1>3, <1>4, SetOfConcat
<1>6. \A x \in ToSet(p) : x[1] = "module"
  BY <1>4
<1>7. \A x \in ToSet(q) : x[1] # "module"
  BY <1>4
<1>8. \A x : x \in ToSet(p) <=> x \in ToSet(in) /\ x[1] = "module"
  <2>1. \A x : x \in ToSet(in) <=> \E i \in 1..Len(in) : x = in[i]
    BY <1>1, SetOfSeq
  <2> QED
    BY <1>4, <2>1
<1>9. \A x : x \in ToSet(q) <=> x \in ToSet(reached) /\ x[1] # "module"
  <2>1. \A x : x \in ToSet(reached) <=> \E i \in 1..Len(reached) : x = reached[i]
    BY <1>1, SetOfSeq
  <2> QED
    BY <1>4, <2>1
<1> HIDE DEF S, T, ToSet
<1>10. Named(e, "module") = Named(in, "module")
  <2>1. {t \in ToSet(e) : t[1] = "module"} = {t \in ToSet(in) : t[1] = "module"}
    BY <1>5, <1>7, <1>8
  <2> QED
    BY <2>1 DEF Named
<1>11. ASSUME NEW kind, kind # "module" PROVE Named(e, kind) = Named(reached, kind)
  <2>1. {t \in ToSet(e) : t[1] = kind} = {t \in ToSet(reached) : t[1] = kind}
    BY <1>5, <1>6, <1>9, <1>11
  <2> QED
    BY <2>1 DEF Named
<1>12. ASSUME NEW i \in DOMAIN e, NEW j \in DOMAIN e, i < j, e[i][1] = "call",
              e[j] = <<"module", e[i][2]>>
       PROVE  FALSE
  <2> DEFINE m == Len(p)
             n == Len(q)
  <2>1. /\ m \in Nat /\ n \in Nat /\ DOMAIN e = 1..(m + n)
        /\ \A k \in 1..(m + n) : e[k] = IF k <= m THEN p[k] ELSE q[k - m]
    BY <1>3, <1>4, ConcatProperties
  <2>2. /\ \A k \in 1..m : p[k] \in ToSet(p)
        /\ \A k \in 1..n : q[k] \in ToSet(q)
    BY <1>4, SetOfSeq
  <2> HIDE DEF m, n
  <2>3. i \in 1..(m + n) /\ j \in 1..(m + n)
    BY <2>1
  <2>4. ~(i \in 1..m)
    <3>1. ASSUME i \in 1..m PROVE FALSE
      <4>1. e[i] = p[i] /\ p[i] \in ToSet(p)
        BY <2>1, <2>2, <2>3, <3>1
      <4> QED
        BY <1>6, <1>12, <4>1
    <3> QED
      BY <3>1
  <2>5. j - m \in 1..n /\ ~(j <= m)
    BY <1>12, <2>1, <2>3, <2>4
  <2>6. e[j] = q[j - m] /\ q[j - m] \in ToSet(q)
    BY <2>1, <2>2, <2>3, <2>5
  <2>7. e[j][1] = "module"
    BY <1>12
  <2> QED
    BY <1>7, <2>6, <2>7
<1>13. ~EarlyCall(e)
  BY <1>12 DEF EarlyCall
<1> QED
  BY <1>5, <1>10, <1>11, <1>13 DEF e

-----------------------------------------------------------------------------
(***************************************************************************)
(* Methods.                                                                *)
(***************************************************************************)
LEMMA NewBody ==
    ASSUME NEW stmts \in Seq(Statements)
    PROVE  /\ \A b \in NewBodies(stmts) : b[1] \in Named(stmts, "def") /\ b[2] = Stamp
           /\ \A b \in NewBodies(stmts) : b = <<b[1], Stamp>>
           /\ \A f \in Named(stmts, "def") : <<f, Stamp>> \in NewBodies(stmts) /\ <<f, Stamp>>[1] = f
           /\ Stamp \in Stamps => NewBodies(stmts) \subseteq Fns \X Stamps
<1>1. Named(stmts, "def") \subseteq Fns
  BY NamedTypes
<1> QED
  BY <1>1 DEF NewBodies

LEMMA ActivateSet ==
    ASSUME NEW active, NEW stmts \in Seq(Statements)
    PROVE  /\ Activate(active, stmts) =
                 {b \in active : b[1] \notin Named(stmts, "def")} \cup NewBodies(stmts)
           /\ OnePerName(active) => OnePerName(Activate(active, stmts))
           /\ Named(stmts, "def") = {} => Activate(active, stmts) = active
<1>1. Activate(active, stmts) =
         {b \in active : b[1] \notin Named(stmts, "def")} \cup NewBodies(stmts)
  BY DEF Activate
<1>2. ASSUME OnePerName(active), NEW a \in Activate(active, stmts),
             NEW b \in Activate(active, stmts), a[1] = b[1]
      PROVE  a = b
  <2>1. CASE a \in NewBodies(stmts) /\ b \in NewBodies(stmts)
    BY <1>2, <2>1, NewBody
  <2>2. CASE a \in active /\ b \in active
    BY <1>2, <2>2 DEF OnePerName
  <2>3. CASE a \in NewBodies(stmts) /\ b[1] \notin Named(stmts, "def")
    BY <1>2, <2>3, NewBody
  <2>4. CASE b \in NewBodies(stmts) /\ a[1] \notin Named(stmts, "def")
    BY <1>2, <2>4, NewBody
  <2> QED
    BY <1>1, <1>2, <2>1, <2>2, <2>3, <2>4
<1>3. Named(stmts, "def") = {} => NewBodies(stmts) = {}
  BY DEF NewBodies
<1> QED
  BY <1>1, <1>2, <1>3 DEF OnePerName

\* The table of a session: every method once, whatever the order.
LEMMA StoredSet ==
    ASSUME functions \in Seq(Fns \X Stamps), NEW stmts \in Seq(Statements), Stamp \in Stamps
    PROVE  /\ Stored(stmts) \in Seq(Fns \X Stamps)
           /\ ToSet(Stored(stmts)) = Activate(ToSet(functions), stmts)
           /\ /\ OnePerName(ToSet(functions)) /\ IsInjective(functions) /\ Once(stmts)
              => IsInjective(Stored(stmts))
<1> DEFINE defs == Named(stmts, "def")
           new == NewBodies(stmts)
           names == {b[1] : b \in ToSet(functions)}
           l == Len(functions)
           at(i) == IF functions[i][1] \in defs THEN <<functions[i][1], Stamp>> ELSE functions[i]
           s == [i \in 1..l |-> at(i)]
           t == Without(Bodies(stmts), names)
<1>1. /\ l \in Nat /\ DOMAIN functions = 1..l
      /\ \A i \in 1..l : functions[i] \in Fns \X Stamps
  BY ElementOfSeq
<1>2. Stored(stmts) = s \o t
  BY <1>1 DEF Stored
<1>3. /\ \A b \in new : b[1] \in defs /\ b = <<b[1], Stamp>>
      /\ \A f \in defs : <<f, Stamp>> \in new /\ <<f, Stamp>>[1] = f
      /\ new \subseteq Fns \X Stamps
  BY NewBody
<1>4. \A i \in 1..l : at(i) \in Fns \X Stamps /\ at(i)[1] = functions[i][1]
  BY <1>1
<1>5. /\ \A x : x \in ToSet(functions) <=> \E i \in 1..l : x = functions[i]
      /\ IsInjective(functions) => \A i, j \in 1..l : functions[i] = functions[j] => i = j
  BY SetOfSeq
<1>6. /\ t \in Seq(new) /\ ToSet(t) = {b \in new : b[1] \notin names}
      /\ Once(stmts) => IsInjective(t)
  BY BodiesSet, WithoutSet
<1>7. t \in Seq(Fns \X Stamps)
  BY <1>3, <1>6, SeqMonotonic
<1>8. s \in Seq(Fns \X Stamps) /\ Len(s) = l /\ \A i \in 1..l : s[i] = at(i)
  <2> HIDE DEF at, l
  <2> QED
    BY <1>1, <1>4
<1>9. /\ \A x : x \in ToSet(s) <=> \E i \in 1..l : x = at(i)
      /\ (\A i, j \in 1..l : at(i) = at(j) => i = j) => IsInjective(s)
  <2> HIDE DEF s, at, l
  <2> QED
    BY <1>8, SetOfSeq
<1> HIDE DEF s, t, new, defs, l
<1>10. /\ s \o t \in Seq(Fns \X Stamps) /\ ToSet(s \o t) = ToSet(s) \cup ToSet(t)
       /\ IsInjective(s) /\ IsInjective(t) /\ ToSet(s) \cap ToSet(t) = {} => IsInjective(s \o t)
  BY <1>7, <1>8, SetOfConcat
<1>11. Activate(ToSet(functions), stmts) = {b \in ToSet(functions) : b[1] \notin defs} \cup new
  BY ActivateSet DEF defs, new
<1>12. ASSUME NEW x \in ToSet(s) \cup ToSet(t)
       PROVE  x \in {b \in ToSet(functions) : b[1] \notin defs} \cup new
  <2>1. CASE x \in ToSet(t)
    BY <1>6, <2>1
  <2>2. CASE x \in ToSet(s)
    <3>1. PICK i \in 1..l : x = at(i)
      BY <1>9, <2>2
    <3>2. CASE functions[i][1] \in defs
      BY <1>3, <3>1, <3>2
    <3>3. CASE functions[i][1] \notin defs
      BY <1>5, <3>1, <3>3
    <3> QED
      BY <3>2, <3>3
  <2> QED
    BY <2>1, <2>2
<1>13. ASSUME NEW x \in {b \in ToSet(functions) : b[1] \notin defs} \cup new
       PROVE  x \in ToSet(s) \cup ToSet(t)
  <2>1. CASE x \in ToSet(functions) /\ x[1] \notin defs
    <3>1. PICK i \in 1..l : x = functions[i]
      BY <1>5, <2>1
    <3>2. x = at(i)
      BY <2>1, <3>1
    <3> QED
      BY <1>9, <3>2
  <2>2. CASE x \in new /\ x[1] \in names
    <3>1. PICK i \in 1..l : x[1] = functions[i][1]
      BY <1>5, <2>2
    <3>2. x = at(i)
      BY <1>3, <2>2, <3>1
    <3> QED
      BY <1>9, <3>2
  <2>3. CASE x \in new /\ x[1] \notin names
    BY <1>6, <2>3
  <2> QED
    BY <2>1, <2>2, <2>3
<1>14. ToSet(s \o t) = Activate(ToSet(functions), stmts)
  BY <1>10, <1>11, <1>12, <1>13
<1>15. ASSUME OnePerName(ToSet(functions)), IsInjective(functions), Once(stmts)
       PROVE  IsInjective(s \o t)
  <2>1. IsInjective(s)
    <3> SUFFICES ASSUME NEW i \in 1..l, NEW j \in 1..l, at(i) = at(j) PROVE i = j
      BY <1>9
    <3>1. functions[i][1] = functions[j][1]
      <4> HIDE DEF at
      <4> QED
        BY <1>4
    <3>2. functions[i] = functions[j]
      BY <1>5, <1>15, <3>1 DEF OnePerName
    <3> QED
      BY <1>5, <1>15, <3>2
  <2>2. ASSUME NEW x \in ToSet(s), x \in ToSet(t) PROVE FALSE
    <3>1. PICK i \in 1..l : x = at(i)
      BY <1>9
    <3>2. x[1] = functions[i][1] /\ functions[i] \in ToSet(functions)
      <4> HIDE DEF at
      <4> QED
        BY <1>4, <1>5, <3>1
    <3>3. x[1] \in names
      BY <3>2
    <3> QED
      BY <1>6, <2>2, <3>3
  <2> QED
    BY <1>6, <1>10, <1>15, <2>1, <2>2
<1> QED
  BY <1>2, <1>10, <1>14, <1>15

-----------------------------------------------------------------------------
(***************************************************************************)
(* Worlds.                                                                 *)
(***************************************************************************)
Methods == Fns \X Stamps

LEMMA WorldParts ==
    \A w \in World :
       /\ w.vals \in [Vars -> Stamps] /\ w.active \in SUBSET Methods /\ w.uses \in SUBSET Packages
       /\ w.mods \in [Modules -> Stamps] /\ w.state \in [Modules -> States]
BY DEF World, Methods

LEMMA MirrorParts ==
    /\ Mirror.vals = globals /\ Mirror.active = ToSet(functions) /\ Mirror.uses = usings
    /\ Mirror.mods = modules /\ Mirror.state = module_globals
BY DEF Mirror

LEMMA MakeWorld ==
    ASSUME NEW a \in [Vars -> Stamps], NEW b \in SUBSET Methods, NEW c \in SUBSET Packages,
           NEW d \in [Modules -> Stamps], NEW e \in [Modules -> States]
    PROVE  [vals |-> a, active |-> b, uses |-> c, mods |-> d, state |-> e] \in World
BY DEF World, Methods

\* The states a module can be left in by the input that is evaluated.
LEMMA NewStates ==
    ASSUME Stamp \in Stamps
    PROVE  Initial \in States /\ Changed \in States
<1>1. MaxEvals \in Nat /\ Stamp \in Nat /\ Stamp <= MaxEvals
  BY ReplSessionAssumption DEF Stamps
<1> HIDE DEF Stamp
<1> QED
  BY <1>1 DEF Initial, Changed, States

LEMMA RunTypes ==
    ASSUME NEW w \in World, NEW stmts \in Seq(Statements), Stamp \in Stamps
    PROVE  Run(w, stmts) \in World
<1> DEFINE a == [x \in Vars |-> IF x \in Named(stmts, "set") THEN Stamp ELSE w.vals[x]]
           b == Activate(w.active, stmts)
           c == w.uses \cup Named(stmts, "using")
           d == [m \in Modules |-> IF m \in Named(stmts, "module") THEN Stamp ELSE w.mods[m]]
           e == [m \in Modules |->
                    IF m \in Begun(stmts) THEN Initial
                    ELSE IF m \in Named(stmts, "call") THEN Changed ELSE w.state[m]]
<1>1. /\ w.vals \in [Vars -> Stamps] /\ w.active \in SUBSET Methods /\ w.uses \in SUBSET Packages
      /\ w.mods \in [Modules -> Stamps] /\ w.state \in [Modules -> States]
  BY WorldParts
<1>2. a \in [Vars -> Stamps] /\ d \in [Modules -> Stamps] /\ e \in [Modules -> States]
  <2>0. Initial \in States /\ Changed \in States
    BY NewStates
  <2> HIDE DEF Stamp, Stamps, States, Initial, Changed
  <2>1. a \in [Vars -> Stamps]
    BY <1>1
  <2>2. d \in [Modules -> Stamps]
    BY <1>1
  <2>3. e \in [Modules -> States]
    BY <1>1, <2>0
  <2> QED
    BY <2>1, <2>2, <2>3
<1>3. b \in SUBSET Methods
  <2>1. NewBodies(stmts) \subseteq Methods
    BY NewBody DEF Methods
  <2> QED
    BY <1>1, <2>1, ActivateSet
<1>4. c \in SUBSET Packages
  BY <1>1, NamedTypes
<1>5. Run(w, stmts) = [vals |-> a, active |-> b, uses |-> c, mods |-> d, state |-> e]
  BY DEF Run
<1> HIDE DEF a, b, c, d, e
<1>6. [vals |-> a, active |-> b, uses |-> c, mods |-> d, state |-> e] \in World
  BY <1>2, <1>3, <1>4, MakeWorld, Zenon
<1> QED
  BY <1>5, <1>6

\* The world a rebuild starts from.
LEMMA RestoredParts ==
    ASSUME Mirror \in World, functions \in Seq(Methods), NEW in, Stamp \in Stamps
    PROVE  /\ Restored(in) \in World
           /\ Restored(in).vals = globals /\ Restored(in).uses = usings
           /\ Restored(in).mods = modules
           /\ Restored(in).active = {b \in ToSet(functions) : b[1] \notin Named(in, "def")}
           /\ Restored(in).state =
                 [m \in Modules |-> IF m \in Replayed THEN Initial ELSE module_globals[m]]
<1> DEFINE A == ToSet(Without(functions, Named(in, "def")))
           E == [m \in Modules |-> IF m \in Replayed THEN Initial ELSE module_globals[m]]
           w == [Mirror EXCEPT !.active = A, !.state = E]
<1>1. Restored(in) = w
  <2> DEFINE F == [m \in Modules |-> IF m \in Replayed THEN Initial ELSE Mirror.state[m]]
  <2>1. Restored(in) = [Mirror EXCEPT !.active = A, !.state = F]
    BY DEF Restored
  <2>2. F = E
    BY MirrorParts
  <2> QED
    BY <2>1, <2>2
<1>2. /\ globals \in [Vars -> Stamps] /\ ToSet(functions) \in SUBSET Methods
      /\ module_globals \in [Modules -> States]
  BY WorldParts, MirrorParts
<1>3. A = {b \in ToSet(functions) : b[1] \notin Named(in, "def")}
  BY WithoutSet
<1>4. E \in [Modules -> States]
  <2>1. Initial \in States
    BY NewStates
  <2> HIDE DEF States, Initial
  <2> QED
    BY <1>2, <2>1
<1>5. A \in SUBSET Methods
  BY <1>2, <1>3
<1> HIDE DEF A, E
<1>6. /\ w \in World /\ w.vals = Mirror.vals /\ w.active = A /\ w.uses = Mirror.uses
      /\ w.mods = Mirror.mods /\ w.state = E
  BY <1>4, <1>5 DEF World, Methods
<1> QED
  BY <1>1, <1>3, <1>6, MirrorParts DEF E

\* What a rebuild makes of it.
LEMMA FullParts ==
    ASSUME Mirror \in World, functions \in Seq(Methods), NEW in, NEW reached,
           Starts(reached, in), Stamp \in Stamps
    PROVE  /\ FullWorld(in, reached) \in World
           /\ FullWorld(in, reached).vals = Run(Mirror, reached).vals
           /\ FullWorld(in, reached).uses = Run(Mirror, reached).uses
           /\ FullWorld(in, reached).active =
                 {b \in ToSet(functions) : b[1] \notin Named(in, "def")} \cup NewBodies(reached)
           /\ FullWorld(in, reached).mods =
                 [m \in Modules |-> IF m \in Named(in, "module") THEN Stamp ELSE modules[m]]
<1> DEFINE w == Restored(in)
           e == Executed(in, reached)
           A == {b \in ToSet(functions) : b[1] \notin Named(in, "def")}
<1>1. reached \in Seq(Statements) /\ Named(reached, "def") \subseteq Named(in, "def")
  BY StartsNamed DEF Starts
<1>2. /\ w \in World /\ w.vals = globals /\ w.uses = usings /\ w.mods = modules /\ w.active = A
  BY RestoredParts
<1>3. /\ e \in Seq(Statements) /\ Named(e, "module") = Named(in, "module")
      /\ Named(e, "set") = Named(reached, "set") /\ Named(e, "def") = Named(reached, "def")
      /\ Named(e, "using") = Named(reached, "using")
  BY ExecutedParts
<1>4. FullWorld(in, reached) = Run(w, e)
  BY DEF FullWorld
<1> HIDE DEF w, e
<1>5. FullWorld(in, reached) \in World
  BY <1>2, <1>3, <1>4, RunTypes
<1>6. /\ FullWorld(in, reached).vals = Run(Mirror, reached).vals
      /\ FullWorld(in, reached).uses = Run(Mirror, reached).uses
  BY <1>2, <1>3, <1>4, MirrorParts DEF Run
<1>7. FullWorld(in, reached).active = A \cup NewBodies(reached)
  <2>1. FullWorld(in, reached).active = Activate(A, e)
    BY <1>2, <1>4 DEF Run
  <2>2. Activate(A, e) = {b \in A : b[1] \notin Named(e, "def")} \cup NewBodies(e)
    BY <1>3, ActivateSet
  <2>3. NewBodies(e) = NewBodies(reached)
    BY <1>3 DEF NewBodies
  <2> QED
    BY <1>1, <1>3, <2>1, <2>2, <2>3
<1>8. FullWorld(in, reached).mods =
         [m \in Modules |-> IF m \in Named(in, "module") THEN Stamp ELSE modules[m]]
  BY <1>2, <1>3, <1>4 DEF Run
<1> QED
  BY <1>5, <1>6, <1>7, <1>8

-----------------------------------------------------------------------------
(***************************************************************************)
(* Types, for all inputs and on all paths.                                 *)
(***************************************************************************)
PrefixOK(t, a) == t \in Seq(Methods) /\ a \subseteq ToSet(t) /\ OnePerName(a)

DataInv ==
    /\ Mirror \in World /\ truth \in World
    /\ functions \in Seq(Methods) /\ OnePerName(ToSet(functions))
    /\ initialized \subseteq Modules
    /\ eval_count \in Stamps
    /\ inits \in [Modules -> Nat]
    /\ IsSome(persistent_compile) =>
          PrefixOK(persistent_compile.table, persistent_compile.active)
    /\ IsSome(live_vm) =>
          live_vm.world \in World /\ PrefixOK(live_vm.table, live_vm.world.active)

LEMMA PrefixGrows ==
    ASSUME NEW t, NEW a, PrefixOK(t, a), NEW in, NEW reached, Starts(reached, in), Stamp \in Stamps
    PROVE  PrefixOK(t \o Bodies(in), Activate(a, reached))
<1>1. in \in Seq(Statements) /\ reached \in Seq(Statements)
  BY DEF Starts
<1>2. NewBodies(in) \subseteq Methods /\ NewBodies(reached) \subseteq NewBodies(in)
  BY <1>1, NewBody, StartsNamed DEF Methods
<1>3. Bodies(in) \in Seq(Methods) /\ ToSet(Bodies(in)) = NewBodies(in)
  BY <1>1, <1>2, BodiesSet, SeqMonotonic
<1>4. /\ t \o Bodies(in) \in Seq(Methods)
      /\ ToSet(t \o Bodies(in)) = ToSet(t) \cup NewBodies(in)
  BY <1>3, SetOfConcat DEF PrefixOK
<1>5. /\ OnePerName(Activate(a, reached))
      /\ Activate(a, reached) \subseteq a \cup NewBodies(reached)
  BY <1>1, ActivateSet DEF PrefixOK
<1> QED
  BY <1>2, <1>4, <1>5 DEF PrefixOK

LEMMA PrefixFull ==
    ASSUME DataInv, NEW in, NEW reached, Starts(reached, in), Stamp \in Stamps
    PROVE  PrefixOK(FullTable(in), FullWorld(in, reached).active)
<1> DEFINE A == {b \in ToSet(functions) : b[1] \notin Named(in, "def")}
           B == NewBodies(reached)
<1>1. in \in Seq(Statements) /\ reached \in Seq(Statements)
  BY DEF Starts
<1>2. NewBodies(in) \subseteq Methods /\ B \subseteq NewBodies(in)
  BY <1>1, NewBody, StartsNamed DEF Methods
<1>3. Bodies(in) \in Seq(Methods) /\ ToSet(Bodies(in)) = NewBodies(in)
  BY <1>1, <1>2, BodiesSet, SeqMonotonic
<1>4. /\ Without(functions, Named(in, "def")) \in Seq(Methods)
      /\ ToSet(Without(functions, Named(in, "def"))) = A
  BY WithoutSet DEF DataInv
<1>5. FullTable(in) \in Seq(Methods) /\ ToSet(FullTable(in)) = NewBodies(in) \cup A
  BY <1>3, <1>4, SetOfConcat DEF FullTable
<1>6. FullWorld(in, reached).active = A \cup B
  BY FullParts DEF DataInv
<1>7. \A b \in B : b[1] \in Named(in, "def") /\ b = <<b[1], Stamp>>
  BY <1>1, NewBody, StartsNamed
<1>8. OnePerName(A \cup B)
  <2> SUFFICES ASSUME NEW a \in A \cup B, NEW b \in A \cup B, a[1] = b[1] PROVE a = b
    BY DEF OnePerName
  <2>1. CASE a \in A /\ b \in A
    BY <2>1 DEF DataInv, OnePerName
  <2>2. CASE a \in B /\ b \in B
    BY <1>7, <2>2
  <2>3. CASE (a \in A /\ b \in B) \/ (a \in B /\ b \in A)
    BY <1>7, <2>3
  <2> QED
    BY <2>1, <2>2, <2>3
<1> QED
  BY <1>2, <1>5, <1>6, <1>8 DEF PrefixOK

LEMMA DataNext ==
    ASSUME globals' \in [Vars -> Stamps], functions' \in Seq(Methods),
           OnePerName(ToSet(functions')), usings' \in SUBSET Packages,
           modules' \in [Modules -> Stamps], module_globals' \in [Modules -> States],
           truth' \in World, initialized' \subseteq Modules, eval_count' \in Stamps,
           inits' \in [Modules -> Nat],
           IsSome(persistent_compile') =>
              PrefixOK(persistent_compile'.table, persistent_compile'.active),
           IsSome(live_vm') =>
              live_vm'.world \in World /\ PrefixOK(live_vm'.table, live_vm'.world.active)
    PROVE  DataInv'
<1>1. ToSet(functions') \in SUBSET Methods
  BY SetOfSeq
<1>2. Mirror' = [vals |-> globals', active |-> ToSet(functions'), uses |-> usings',
                 mods |-> modules', state |-> module_globals']
  BY DEF Mirror
<1>3. Mirror' \in World
  BY <1>1, <1>2, MakeWorld
<1> QED
  BY <1>3 DEF DataInv, PrefixOK, OnePerName, IsSome

LEMMA DataParts ==
    ASSUME DataInv
    PROVE  /\ globals \in [Vars -> Stamps] /\ ToSet(functions) \in SUBSET Methods
           /\ usings \in SUBSET Packages /\ modules \in [Modules -> Stamps]
           /\ module_globals \in [Modules -> States]
           /\ functions \in Seq(Methods) /\ OnePerName(ToSet(functions))
           /\ eval_count \in Nat /\ 0 \in Stamps
BY WorldParts, MirrorParts, ReplSessionAssumption DEF DataInv, Stamps

LEMMA GivenStamp ==
    ASSUME DataInv, NEW in, Given(in)
    PROVE  Stamp \in Stamps /\ Stamp # 0 /\ Stamp = eval_count + 1
BY ReplSessionAssumption DEF DataInv, Given, Stamps, Stamp

LEMMA ExtractTypes ==
    ASSUME DataInv, NEW world \in World, Extract(world)
    PROVE  globals' \in [Vars -> Stamps] /\ module_globals' \in [Modules -> States]
<1>1. /\ world.vals \in [Vars -> Stamps] /\ world.state \in [Modules -> States]
      /\ module_globals \in [Modules -> States]
  BY WorldParts, DataParts
<1> QED
  BY <1>1 DEF Extract

LEMMA CountedTypes ==
    ASSUME DataInv, NEW reached \in Seq(Statements), NEW called, Stamp \in Stamps,
           Counted(reached, called)
    PROVE  /\ eval_count' = Stamp /\ truth' \in World /\ inits' \in [Modules -> Nat]
           /\ truth' = Run(truth, reached)
<1>1. truth' \in World
  BY RunTypes DEF Counted, DataInv
<1>2. inits' \in [Modules -> Nat]
  BY DEF Counted, DataInv
<1> QED
  BY <1>1, <1>2 DEF Counted, Stamp

LEMMA StoredTypes ==
    ASSUME DataInv, NEW stmts \in Seq(Statements), Stamp \in Stamps
    PROVE  /\ Stored(stmts) \in Seq(Methods) /\ OnePerName(ToSet(Stored(stmts)))
           /\ ToSet(Stored(stmts)) = Run(Mirror, stmts).active
<1>1. functions \in Seq(Fns \X Stamps) /\ OnePerName(ToSet(functions))
  BY DataParts DEF Methods
<1>2. /\ Stored(stmts) \in Seq(Methods)
      /\ ToSet(Stored(stmts)) = Activate(ToSet(functions), stmts)
  BY <1>1, StoredSet DEF Methods
<1>3. Run(Mirror, stmts).active = Activate(ToSet(functions), stmts)
  BY MirrorParts DEF Run
<1> QED
  BY <1>1, <1>2, <1>3, ActivateSet

LEMMA LiveTypes ==
    ASSUME DataInv, NEW in, NEW reached, LivePossible(in), Starts(reached, in)
    PROVE  /\ Stamp \in Stamps /\ Reentered(reached) \in World
           /\ PrefixOK(live_vm.table \o Bodies(in), Reentered(reached).active)
           /\ Named(reached, "def") = {} => PrefixOK(live_vm.table, Reentered(reached).active)
           /\ PrefixOK(Advanced(in, reached).table, Advanced(in, reached).active)
           /\ PrefixOK(persistent_compile.table, persistent_compile.active)
<1>1. /\ reached \in Seq(Statements) /\ live_vm.world \in World
      /\ PrefixOK(live_vm.table, live_vm.world.active)
      /\ PrefixOK(persistent_compile.table, persistent_compile.active)
  BY DEF Starts, LivePossible, Eligible, DataInv
<1>2. Stamp \in Stamps
  BY GivenStamp DEF LivePossible
<1>3. Reentered(reached) \in World
  BY <1>1, <1>2, RunTypes DEF Reentered
<1>4. Reentered(reached).active = Activate(live_vm.world.active, reached)
  BY DEF Reentered, Run
<1>5. PrefixOK(live_vm.table \o Bodies(in), Reentered(reached).active)
  BY <1>1, <1>2, <1>4, PrefixGrows
<1>6. Named(reached, "def") = {} => PrefixOK(live_vm.table, Reentered(reached).active)
  BY <1>1, <1>4, ActivateSet
<1>7. PrefixOK(Advanced(in, reached).table, Advanced(in, reached).active)
  BY <1>1, <1>2, PrefixGrows DEF Advanced
<1> QED
  BY <1>1, <1>2, <1>3, <1>5, <1>6, <1>7

LEMMA FreshTypes ==
    ASSUME DataInv, NEW in, NEW reached, FreshDelta(in), Starts(reached, in)
    PROVE  /\ Stamp \in Stamps /\ FreshWorld(reached) \in World
           /\ PrefixOK(persistent_compile.table, FreshWorld(reached).active)
           /\ PrefixOK(persistent_compile.table, persistent_compile.active)
<1> DEFINE w == [Mirror EXCEPT !.active = persistent_compile.active]
           A == persistent_compile.active
<1>1. /\ reached \in Seq(Statements) /\ Named(reached, "def") = {}
      /\ PrefixOK(persistent_compile.table, A)
  BY StartsNamed DEF Starts, FreshDelta, Eligible, DataInv
<1>2. Stamp \in Stamps
  BY GivenStamp DEF FreshDelta
<1>3. A \in SUBSET Methods /\ Mirror \in World
  BY <1>1, SetOfSeq DEF PrefixOK, DataInv
<1>4. w = [Mirror EXCEPT !.active = A]
  OBVIOUS
<1> HIDE DEF A, w
<1>5. w \in World /\ w.active = A
  BY <1>3, <1>4 DEF World, Methods
<1>6. FreshWorld(reached) = Run(w, reached)
  BY DEF FreshWorld, w
<1>7. Run(w, reached).active = Activate(w.active, reached)
  BY DEF Run
<1>8. FreshWorld(reached) \in World /\ FreshWorld(reached).active = A
  BY <1>1, <1>2, <1>5, <1>6, <1>7, RunTypes, ActivateSet
<1> QED
  BY <1>1, <1>2, <1>8 DEF A

LEMMA LiveData ==
    ASSUME DataInv, NEW in, NEW reached, Starts(reached, in),
           \/ EvalLive(in) /\ reached = in
           \/ CheckpointLive(in, reached) \/ RollbackLive(in, reached)
    PROVE  DataInv'
<1>1. reached \in Seq(Statements) /\ LivePossible(in)
  BY DEF Starts, EvalLive, CheckpointLive, RollbackLive
<1>2. Stamp \in Stamps /\ Reentered(reached) \in World
  BY <1>1, LiveTypes
<1>3. Extract(Reentered(reached)) /\ Counted(reached, {}) /\ UNCHANGED <<usings, modules, initialized>>
  BY DEF EvalLive, CheckpointLive, RollbackLive
<1>4. functions' \in {Stored(reached), functions}
  BY DEF EvalLive, CheckpointLive, RollbackLive
<1>5. functions' \in Seq(Methods) /\ OnePerName(ToSet(functions'))
  BY <1>1, <1>2, <1>4, StoredTypes, DataParts
<1>6. PrefixOK(persistent_compile'.table, persistent_compile'.active)
  <2>1. persistent_compile' \in {persistent_compile, Advanced(in, reached)}
    BY DEF EvalLive, CheckpointLive, RollbackLive
  <2> QED
    BY <1>1, <2>1, LiveTypes
<1>7. live_vm'.world \in World /\ PrefixOK(live_vm'.table, live_vm'.world.active)
  <2>1. CASE live_vm' = [world |-> Reentered(reached), table |-> live_vm.table \o Bodies(in)]
    BY <1>1, <1>2, <2>1, LiveTypes
  <2>2. CASE RollbackLive(in, reached)
    <3>1. /\ live_vm' = [world |-> Reentered(reached), table |-> live_vm.table]
          /\ Named(reached, "def") = {}
      BY <2>2 DEF RollbackLive
    <3> QED
      BY <1>1, <1>2, <3>1, LiveTypes
  <2> QED
    BY <2>1, <2>2 DEF EvalLive, CheckpointLive
<1>8. globals' \in [Vars -> Stamps] /\ module_globals' \in [Modules -> States]
  BY <1>2, <1>3, ExtractTypes
<1>9. eval_count' \in Stamps /\ truth' \in World /\ inits' \in [Modules -> Nat]
  BY <1>1, <1>2, <1>3, CountedTypes
<1>10. /\ usings' \in SUBSET Packages /\ modules' \in [Modules -> Stamps]
       /\ initialized' \subseteq Modules
  BY <1>3, DataParts DEF DataInv
<1> QED
  BY <1>5, <1>6, <1>7, <1>8, <1>9, <1>10, DataNext

LEMMA FreshData ==
    ASSUME DataInv, NEW in, NEW reached, Starts(reached, in),
           \/ EvalFreshDelta(in) /\ reached = in
           \/ FailFreshDelta(in, reached)
    PROVE  DataInv'
<1>1. reached \in Seq(Statements) /\ FreshDelta(in)
  BY DEF Starts, EvalFreshDelta, FailFreshDelta
<1>2. Stamp \in Stamps /\ FreshWorld(reached) \in World
  BY <1>1, FreshTypes
<1>3. /\ Counted(reached, {})
      /\ UNCHANGED <<functions, usings, modules, initialized, persistent_compile>>
  BY DEF EvalFreshDelta, FailFreshDelta, session
<1>4. globals' \in [Vars -> Stamps] /\ module_globals' \in [Modules -> States]
  <2>1. CASE EvalFreshDelta(in) /\ reached = in
    BY <1>2, <2>1, ExtractTypes DEF EvalFreshDelta
  <2>2. CASE FailFreshDelta(in, reached)
    BY <2>2, DataParts DEF FailFreshDelta, session
  <2> QED
    BY <2>1, <2>2
<1>5. IsSome(live_vm') =>
         live_vm'.world \in World /\ PrefixOK(live_vm'.table, live_vm'.world.active)
  <2>1. CASE EvalFreshDelta(in) /\ reached = in
    <3>1. live_vm' = [world |-> FreshWorld(reached), table |-> persistent_compile.table]
      BY <2>1 DEF EvalFreshDelta
    <3> QED
      BY <1>1, <1>2, <3>1, FreshTypes
  <2>2. CASE FailFreshDelta(in, reached)
    BY <2>2 DEF FailFreshDelta, IsSome
  <2> QED
    BY <2>1, <2>2
<1>6. PrefixOK(persistent_compile'.table, persistent_compile'.active)
  BY <1>1, <1>3, FreshTypes
<1>7. eval_count' \in Stamps /\ truth' \in World /\ inits' \in [Modules -> Nat]
  BY <1>1, <1>2, <1>3, CountedTypes
<1>8. /\ usings' \in SUBSET Packages /\ modules' \in [Modules -> Stamps]
      /\ initialized' \subseteq Modules
      /\ functions' \in Seq(Methods) /\ OnePerName(ToSet(functions'))
  BY <1>3, DataParts DEF DataInv
<1> QED
  BY <1>4, <1>5, <1>6, <1>7, <1>8, DataNext

LEMMA FullData ==
    ASSUME DataInv, NEW in, NEW reached, Starts(reached, in),
           \/ EvalFull(in) /\ reached = in
           \/ RecoverFull(in, reached) \/ RecoverExpression(in, reached)
    PROVE  DataInv'
<1> DEFINE W == FullWorld(in, reached)
           vm == [world |-> W, table |-> FullTable(in)]
           prefix == [table |-> FullTable(in), active |-> W.active]
<1>1. reached \in Seq(Statements) /\ in \in Seq(Statements) /\ Given(in)
  BY DEF Starts, EvalFull, RecoverFull, RecoverExpression, FullPath
<1>2. Stamp \in Stamps
  BY <1>1, GivenStamp
<1>3. W \in World
  BY <1>2, FullParts DEF DataInv
<1>4. PrefixOK(FullTable(in), W.active)
  BY <1>2, PrefixFull
<1>5. /\ Extract(W) /\ Counted(reached, Called(in))
      /\ live_vm' \in {vm, live_vm} /\ persistent_compile' \in {prefix, persistent_compile}
      /\ functions' \in {Stored(reached), functions}
      /\ usings' \in {usings, usings \cup Named(in, "using"), usings \cup Named(reached, "using")}
      /\ initialized' \in {initialized, initialized \cup Named(in, "module")}
  <2>1. CASE EvalFull(in) /\ reached = in
    BY <2>1 DEF EvalFull
  <2>2. CASE RecoverFull(in, reached)
    BY <2>2 DEF RecoverFull
  <2>3. CASE RecoverExpression(in, reached)
    BY <2>3 DEF RecoverExpression
  <2> QED
    BY <2>1, <2>2, <2>3
<1>6. modules' \in [Modules -> Stamps]
  <2>1. W.mods \in [Modules -> Stamps] /\ modules \in [Modules -> Stamps]
    BY <1>3, WorldParts, DataParts
  <2>2. modules' \in {W.mods, modules}
    BY DEF EvalFull, RecoverFull, RecoverExpression
  <2> HIDE DEF W
  <2> QED
    BY <2>1, <2>2
<1>7. functions' \in Seq(Methods) /\ OnePerName(ToSet(functions'))
  BY <1>1, <1>2, <1>5, StoredTypes, DataParts
<1>8. vm.world = W /\ vm.table = FullTable(in) /\ prefix.table = FullTable(in) /\ prefix.active = W.active
  OBVIOUS
<1> HIDE DEF W, vm, prefix
<1>9. IsSome(persistent_compile') => PrefixOK(persistent_compile'.table, persistent_compile'.active)
  BY <1>4, <1>5, <1>8 DEF DataInv
<1>10. IsSome(live_vm') =>
          live_vm'.world \in World /\ PrefixOK(live_vm'.table, live_vm'.world.active)
  BY <1>3, <1>4, <1>5, <1>8 DEF DataInv
<1>11. globals' \in [Vars -> Stamps] /\ module_globals' \in [Modules -> States]
  BY <1>3, <1>5, ExtractTypes
<1>12. eval_count' \in Stamps /\ truth' \in World /\ inits' \in [Modules -> Nat]
  BY <1>1, <1>2, <1>5, CountedTypes
<1>13. usings' \in SUBSET Packages /\ initialized' \subseteq Modules
  <2>1. /\ usings \in SUBSET Packages /\ initialized \subseteq Modules
        /\ Named(in, "using") \subseteq Packages /\ Named(reached, "using") \subseteq Packages
        /\ Named(in, "module") \subseteq Modules
    BY <1>1, DataParts, NamedTypes DEF DataInv
  <2> QED
    BY <1>5, <2>1
<1> QED
  BY <1>6, <1>7, <1>9, <1>10, <1>11, <1>12, <1>13, DataNext

\* The three ways an input can go: on the live VM, on a fresh one, on a rebuilt one.
OnLive(in, reached) ==
    \/ EvalLive(in) /\ reached = in
    \/ CheckpointLive(in, reached) \/ RollbackLive(in, reached)
OnFresh(in, reached) ==
    \/ EvalFreshDelta(in) /\ reached = in
    \/ FailFreshDelta(in, reached)
OnRebuilt(in, reached) ==
    \/ EvalFull(in) /\ reached = in
    \/ RecoverFull(in, reached) \/ RecoverExpression(in, reached)

LEMMA Paths ==
    ASSUME Next
    PROVE  \/ \E in \in Inputs : \E reached :
                 /\ Starts(reached, in)
                 /\ OnLive(in, reached) \/ OnFresh(in, reached) \/ OnRebuilt(in, reached)
           \/ Abort \/ Reset
<1>1. \A in \in Inputs : in \in Seq(Statements)
  BY ReplSessionAssumption
<1>2. CASE \E in \in Inputs : Succeed(in)
  <2>1. PICK in \in Inputs : Succeed(in)
    BY <1>2
  <2>2. Starts(in, in)
    BY <1>1, StartsItself
  <2>3. OnLive(in, in) \/ OnFresh(in, in) \/ OnRebuilt(in, in)
    BY <2>1 DEF Succeed, OnLive, OnFresh, OnRebuilt
  <2> QED
    BY <2>2, <2>3
<1>3. CASE \E in \in Inputs : \E k \in 0..Len(in) : Throw(in, SubSeq(in, 1, k))
  <2>1. PICK in \in Inputs : \E k \in 0..Len(in) : Throw(in, SubSeq(in, 1, k))
    BY <1>3
  <2>2. PICK k \in 0..Len(in) : Throw(in, SubSeq(in, 1, k))
    BY <2>1
  <2> DEFINE reached == SubSeq(in, 1, k)
  <2>3. Starts(reached, in)
    BY <1>1, StartsPrefix
  <2>4. Throw(in, reached)
    BY <2>2
  <2> HIDE DEF reached
  <2>5. OnLive(in, reached) \/ OnFresh(in, reached) \/ OnRebuilt(in, reached)
    BY <2>4 DEF Throw, OnLive, OnFresh, OnRebuilt
  <2> QED
    BY <2>3, <2>5
<1> QED
  BY <1>2, <1>3 DEF Next

LEMMA EmptyTypes ==
    ASSUME NEW uses \in SUBSET Packages
    PROVE  /\ EmptyWorld(uses) \in World /\ [x \in Vars |-> 0] \in [Vars -> Stamps]
           /\ NoModule \in [Modules -> Stamps] /\ NoModule \in [Modules -> Nat]
           /\ NoModule \in [Modules -> States]
           /\ <<>> \in Seq(Methods) /\ ToSet(<<>>) = {} /\ OnePerName({}) /\ IsInjective(<<>>)
           /\ 0 \in Stamps
<1>1. 0 \in Stamps /\ 0 \in States
  BY ReplSessionAssumption DEF Stamps, States
<1>2. /\ [x \in Vars |-> 0] \in [Vars -> Stamps] /\ NoModule \in [Modules -> Stamps]
      /\ NoModule \in [Modules -> States]
  <2> HIDE DEF Stamps, States
  <2> QED
    BY <1>1 DEF NoModule
<1>3. EmptyWorld(uses) \in World
  BY <1>2, MakeWorld DEF EmptyWorld
<1>4. NoModule \in [Modules -> Nat]
  BY DEF NoModule
<1>5. <<>> \in Seq(Methods) /\ ToSet(<<>>) = {} /\ IsInjective(<<>>)
  BY DEF ToSet, IsInjective
<1> QED
  BY <1>1, <1>2, <1>3, <1>4, <1>5 DEF OnePerName

LEMMA DataInit ==
    ASSUME Init
    PROVE  DataInv
<1>1. AutoImports \in SUBSET Packages
  BY ReplSessionAssumption
<1>2. /\ functions \in Seq(Methods) /\ OnePerName(ToSet(functions)) /\ truth \in World
      /\ initialized \subseteq Modules /\ eval_count \in Stamps /\ inits \in [Modules -> Nat]
      /\ ~IsSome(persistent_compile) /\ ~IsSome(live_vm)
  BY <1>1, EmptyTypes DEF Init, IsSome
<1>3. Mirror = EmptyWorld(AutoImports)
  BY <1>1, EmptyTypes DEF Init, Mirror, EmptyWorld
<1>4. Mirror \in World
  BY <1>1, <1>3, EmptyTypes
<1> QED
  BY <1>2, <1>4 DEF DataInv

LEMMA DataKept ==
    ASSUME DataInv, Next
    PROVE  DataInv'
<1>1. CASE \E in \in Inputs : \E reached :
              /\ Starts(reached, in)
              /\ OnLive(in, reached) \/ OnFresh(in, reached) \/ OnRebuilt(in, reached)
  BY <1>1, LiveData, FreshData, FullData DEF OnLive, OnFresh, OnRebuilt
<1>2. CASE Abort
  <2>1. /\ UNCHANGED <<globals, functions, usings, modules, module_globals, initialized,
                       persistent_compile, truth, inits>>
        /\ live_vm' = None /\ eval_count' = eval_count + 1 /\ eval_count < MaxEvals
    BY <1>2 DEF Abort, session
  <2>2. eval_count' \in Stamps
    BY <2>1, ReplSessionAssumption DEF DataInv, Stamps
  <2>3. ~IsSome(live_vm')
    BY <2>1 DEF IsSome
  <2>4. /\ truth' \in World /\ initialized' \subseteq Modules /\ inits' \in [Modules -> Nat]
        /\ IsSome(persistent_compile') =>
              PrefixOK(persistent_compile'.table, persistent_compile'.active)
    BY <2>1 DEF DataInv
  <2>5. /\ globals' \in [Vars -> Stamps] /\ usings' \in SUBSET Packages
        /\ modules' \in [Modules -> Stamps] /\ module_globals' \in [Modules -> States]
        /\ functions' \in Seq(Methods) /\ OnePerName(ToSet(functions'))
    BY <2>1, DataParts
  <2> QED
    BY <2>2, <2>3, <2>4, <2>5, DataNext
<1>3. CASE Reset
  <2>1. /\ functions' \in Seq(Methods) /\ OnePerName(ToSet(functions')) /\ truth' \in World
        /\ initialized' \subseteq Modules /\ eval_count' \in Stamps /\ inits' \in [Modules -> Nat]
        /\ ~IsSome(persistent_compile') /\ ~IsSome(live_vm') /\ usings' \in SUBSET Packages
    BY <1>3, EmptyTypes DEF Reset, IsSome
  <2>2. /\ globals' \in [Vars -> Stamps] /\ modules' \in [Modules -> Stamps]
        /\ module_globals' \in [Modules -> States]
    BY <1>3, EmptyTypes DEF Reset
  <2> QED
    BY <2>1, <2>2, DataNext
<1> QED
  BY <1>1, <1>2, <1>3, Paths

-----------------------------------------------------------------------------
(***************************************************************************)
(* No body is twice in a table: the bodies of an input are newer than all  *)
(* others.                                                                 *)
(***************************************************************************)
TableOK(t, n) == IsInjective(t) /\ \A b \in ToSet(t) : b[2] <= n

TableInv ==
    /\ TableOK(functions, eval_count)
    /\ IsSome(persistent_compile) => TableOK(persistent_compile.table, eval_count)
    /\ IsSome(live_vm) => TableOK(live_vm.table, eval_count)

LEMMA TableOlder ==
    ASSUME NEW t \in Seq(Methods), NEW n \in Nat, TableOK(t, n)
    PROVE  TableOK(t, n + 1)
<1>1. ASSUME NEW b \in ToSet(t) PROVE b[2] <= n + 1
  <2>1. b \in Methods
    BY SetOfSeq
  <2>2. b[2] \in Nat /\ b[2] <= n
    BY <2>1, ReplSessionAssumption DEF Methods, Stamps, TableOK
  <2> QED
    BY <2>2
<1> QED
  BY <1>1 DEF TableOK

LEMMA NewerBodies ==
    ASSUME NEW t \in Seq(Methods), eval_count \in Nat, TableOK(t, eval_count),
           NEW stmts \in Seq(Statements)
    PROVE  /\ \A b \in ToSet(t) : b \notin NewBodies(stmts) /\ b[2] <= Stamp
           /\ \A b \in NewBodies(stmts) : b[2] <= Stamp
<1>1. \A b \in NewBodies(stmts) : b[2] = Stamp
  BY NewBody
<1>2. ASSUME NEW b \in ToSet(t) PROVE b[2] # Stamp /\ b[2] <= Stamp
  <2>1. b \in Methods
    BY SetOfSeq
  <2>2. b[2] \in Nat /\ b[2] <= eval_count
    BY <2>1, ReplSessionAssumption DEF Methods, Stamps, TableOK
  <2> QED
    BY <2>2 DEF Stamp
<1> QED
  BY <1>1, <1>2 DEF Stamp

LEMMA TableGrows ==
    ASSUME NEW t \in Seq(Methods), eval_count \in Nat, TableOK(t, eval_count),
           NEW in \in Seq(Statements), Once(in), Stamp \in Stamps
    PROVE  TableOK(t \o Bodies(in), Stamp)
<1>1. /\ Bodies(in) \in Seq(Methods) /\ ToSet(Bodies(in)) = NewBodies(in)
      /\ IsInjective(Bodies(in))
  BY NewBody, BodiesSet, SeqMonotonic DEF Methods
<1>2. ToSet(t) \cap ToSet(Bodies(in)) = {}
  BY <1>1, NewerBodies
<1>3. /\ ToSet(t \o Bodies(in)) = ToSet(t) \cup NewBodies(in)
      /\ IsInjective(t \o Bodies(in))
  BY <1>1, <1>2, SetOfConcat DEF TableOK
<1> QED
  BY <1>3, NewerBodies DEF TableOK

LEMMA TableFull ==
    ASSUME DataInv, TableOK(functions, eval_count),
           NEW in \in Seq(Statements), Once(in), Stamp \in Stamps
    PROVE  TableOK(FullTable(in), Stamp)
<1> DEFINE w == Without(functions, Named(in, "def"))
<1>1. functions \in Seq(Methods) /\ eval_count \in Nat
  BY DataParts
<1>2. /\ Bodies(in) \in Seq(Methods) /\ ToSet(Bodies(in)) = NewBodies(in)
      /\ IsInjective(Bodies(in))
  BY NewBody, BodiesSet, SeqMonotonic DEF Methods
<1>3. w \in Seq(Methods) /\ ToSet(w) \subseteq ToSet(functions) /\ IsInjective(w)
  BY <1>1, WithoutSet DEF TableOK
<1>4. /\ \A b \in ToSet(functions) : b \notin NewBodies(in) /\ b[2] <= Stamp
      /\ \A b \in NewBodies(in) : b[2] <= Stamp
  BY <1>1, NewerBodies
<1>5. FullTable(in) = Bodies(in) \o w
  BY DEF FullTable
<1> HIDE DEF w
<1>6. ToSet(Bodies(in)) \cap ToSet(w) = {}
  BY <1>2, <1>3, <1>4
<1>7. ToSet(FullTable(in)) = NewBodies(in) \cup ToSet(w) /\ IsInjective(FullTable(in))
  BY <1>2, <1>3, <1>5, <1>6, SetOfConcat
<1> QED
  BY <1>3, <1>4, <1>7 DEF TableOK

LEMMA TableStored ==
    ASSUME DataInv, TableOK(functions, eval_count),
           NEW stmts \in Seq(Statements), Once(stmts), Stamp \in Stamps
    PROVE  TableOK(Stored(stmts), Stamp)
<1>1. functions \in Seq(Fns \X Stamps) /\ functions \in Seq(Methods) /\ OnePerName(ToSet(functions))
      /\ eval_count \in Nat
  BY DataParts DEF Methods
<1>2. /\ ToSet(Stored(stmts)) = Activate(ToSet(functions), stmts)
      /\ IsInjective(Stored(stmts))
  BY <1>1, StoredSet DEF TableOK
<1>3. \A b \in ToSet(Stored(stmts)) : b \in ToSet(functions) \/ b \in NewBodies(stmts)
  BY <1>2, ActivateSet
<1> QED
  BY <1>1, <1>2, <1>3, NewerBodies DEF TableOK

LEMMA StartsOnce ==
    ASSUME NEW in, NEW reached, Starts(reached, in), Once(in)
    PROVE  Once(reached)
<1>1. \A i \in 1..Len(reached) : i \in 1..Len(in) /\ reached[i] = in[i]
  BY DEF Starts
<1> QED
  BY <1>1 DEF Once

LEMMA TableNext ==
    ASSUME TableOK(functions', eval_count'),
           IsSome(persistent_compile') => TableOK(persistent_compile'.table, eval_count'),
           IsSome(live_vm') => TableOK(live_vm'.table, eval_count')
    PROVE  TableInv'
BY DEF TableInv, TableOK, IsSome

LEMMA PathTables ==
    ASSUME DataInv, TableInv, NEW in, NEW reached, Starts(reached, in), Once(in),
           OnLive(in, reached) \/ OnFresh(in, reached) \/ OnRebuilt(in, reached)
    PROVE  TableInv'
<1>1. reached \in Seq(Statements) /\ in \in Seq(Statements) /\ Once(reached)
  BY StartsOnce DEF Starts
<1>2. Given(in) /\ eval_count' = eval_count + 1
  BY DEF OnLive, OnFresh, OnRebuilt, EvalLive, CheckpointLive, RollbackLive, LivePossible,
         EvalFreshDelta, FailFreshDelta, FreshDelta, EvalFull, RecoverFull, RecoverExpression,
         FullPath, Counted
<1>3. Stamp \in Stamps /\ eval_count' = Stamp /\ eval_count \in Nat
  BY <1>2, GivenStamp, DataParts
<1>4. /\ functions \in Seq(Methods) /\ TableOK(functions, eval_count)
      /\ IsSome(persistent_compile) =>
            persistent_compile.table \in Seq(Methods) /\ TableOK(persistent_compile.table, eval_count)
      /\ IsSome(live_vm) =>
            live_vm.table \in Seq(Methods) /\ TableOK(live_vm.table, eval_count)
  BY DataParts DEF DataInv, PrefixOK, TableInv
<1>5. functions' \in {Stored(reached), functions}
  BY DEF OnLive, OnFresh, OnRebuilt, EvalLive, CheckpointLive, RollbackLive,
         EvalFreshDelta, FailFreshDelta, EvalFull, RecoverFull, RecoverExpression, session
<1>6. TableOK(functions', eval_count')
  BY <1>1, <1>2, <1>3, <1>4, <1>5, TableStored, TableOlder
<1>7. CASE OnLive(in, reached)
  <2>1. IsSome(live_vm) /\ IsSome(persistent_compile)
    BY <1>7 DEF OnLive, EvalLive, CheckpointLive, RollbackLive, LivePossible, Eligible
  <2>2. live_vm'.table \in {live_vm.table \o Bodies(in), live_vm.table}
    BY <1>7 DEF OnLive, EvalLive, CheckpointLive, RollbackLive
  <2>3. persistent_compile'.table \in
           {persistent_compile.table, persistent_compile.table \o Bodies(in)}
    BY <1>7 DEF OnLive, EvalLive, CheckpointLive, RollbackLive, Advanced
  <2>4. TableOK(live_vm'.table, eval_count')
    BY <1>1, <1>2, <1>3, <1>4, <2>1, <2>2, TableGrows, TableOlder
  <2>5. TableOK(persistent_compile'.table, eval_count')
    BY <1>1, <1>2, <1>3, <1>4, <2>1, <2>3, TableGrows, TableOlder
  <2> QED
    BY <1>6, <2>4, <2>5, TableNext
<1>8. CASE OnFresh(in, reached)
  <2>1. IsSome(persistent_compile) /\ persistent_compile' = persistent_compile
    BY <1>8 DEF OnFresh, EvalFreshDelta, FailFreshDelta, FreshDelta, Eligible
  <2>2. IsSome(live_vm') => live_vm'.table = persistent_compile.table
    BY <1>8 DEF OnFresh, EvalFreshDelta, FailFreshDelta, IsSome
  <2>3. TableOK(persistent_compile.table, eval_count')
    BY <1>2, <1>3, <1>4, <2>1, TableOlder
  <2> QED
    BY <1>6, <2>1, <2>2, <2>3, TableNext
<1>9. CASE OnRebuilt(in, reached)
  <2>1. live_vm' = live_vm \/ live_vm'.table = FullTable(in)
    BY <1>9 DEF OnRebuilt, EvalFull, RecoverFull, RecoverExpression
  <2>2. persistent_compile' = persistent_compile \/ persistent_compile'.table = FullTable(in)
    BY <1>9 DEF OnRebuilt, EvalFull, RecoverFull, RecoverExpression
  <2>3. TableOK(FullTable(in), eval_count')
    BY <1>1, <1>3, <1>4, TableFull
  <2>4. IsSome(live_vm') => TableOK(live_vm'.table, eval_count')
    BY <1>2, <1>3, <1>4, <2>1, <2>3, TableOlder
  <2>5. IsSome(persistent_compile') => TableOK(persistent_compile'.table, eval_count')
    BY <1>2, <1>3, <1>4, <2>2, <2>3, TableOlder
  <2> QED
    BY <1>6, <2>4, <2>5, TableNext
<1> QED
  BY <1>7, <1>8, <1>9

LEMMA TableKept ==
    ASSUME DataInv, TableInv, Next, \A in \in Inputs : Once(in)
    PROVE  TableInv'
<1>1. CASE \E in \in Inputs : \E reached :
              /\ Starts(reached, in)
              /\ OnLive(in, reached) \/ OnFresh(in, reached) \/ OnRebuilt(in, reached)
  BY <1>1, PathTables
<1>2. CASE Abort
  <2>1. /\ UNCHANGED <<functions, persistent_compile>> /\ ~IsSome(live_vm')
        /\ eval_count' = eval_count + 1
    BY <1>2 DEF Abort, session, IsSome
  <2>2. /\ functions \in Seq(Methods) /\ eval_count \in Nat
        /\ IsSome(persistent_compile) => persistent_compile.table \in Seq(Methods)
    BY DataParts DEF DataInv, PrefixOK
  <2> QED
    BY <2>1, <2>2, TableOlder, TableNext DEF TableInv
<1>3. CASE Reset
  <2>1. functions' = <<>> /\ ~IsSome(persistent_compile') /\ ~IsSome(live_vm')
    BY <1>3 DEF Reset, IsSome
  <2>2. TableOK(functions', eval_count')
    BY <2>1, EmptyTypes DEF TableOK
  <2> QED
    BY <2>1, <2>2, TableNext
<1> QED
  BY <1>1, <1>2, <1>3, Paths

\* The session's data keeps its types on every path, also for the inputs the other
\* properties fail for; there is one definition of a method in the session, and one
\* active in the prefix and in the VM.  The stamps cannot tell two bodies of one
\* method apart that come in the same input, so no input has any.
THEOREM SessionTypes ==
    ASSUME \A in \in Inputs : Once(in)
    PROVE  Spec => []TypeOK
<1> DEFINE Inv == DataInv /\ TableInv
<1>1. Init => Inv
  <2> SUFFICES ASSUME Init PROVE Inv
    OBVIOUS
  <2>1. functions = <<>> /\ ~IsSome(persistent_compile) /\ ~IsSome(live_vm)
    BY DEF Init, IsSome
  <2>2. TableInv
    BY <2>1, EmptyTypes DEF TableInv, TableOK
  <2> QED
    BY <2>2, DataInit
<1>2. Inv /\ [Next]_vars => Inv'
  <2>1. CASE Next
    BY <2>1, DataKept, TableKept
  <2>2. CASE UNCHANGED vars
    BY <2>2 DEF DataInv, Mirror, PrefixOK, OnePerName, TableInv, TableOK, IsSome, vars, session
  <2> QED
    BY <2>1, <2>2
<1>3. Inv => TypeOK
  BY DEF DataInv, TableInv, TableOK, PrefixOK, TypeOK, IsTable, Methods
<1> HIDE DEF Inv
<1> QED
  BY <1>1, <1>2, <1>3, PTL DEF Spec

-----------------------------------------------------------------------------
(***************************************************************************)
(* A module is initialised once.                                           *)
(*                                                                         *)
(* InitOnce alone is not inductive: what a rebuild replays depends on      *)
(* initialized, so the invariant says that initialized has every module of *)
(* the session.  It is true of the full path because a module enters the   *)
(* session and initialized together.  An input that throws leaves its      *)
(* modules out of initialized though it may store them, so the shapes that *)
(* let an input with a module throw are excluded.                          *)
(***************************************************************************)
Realized == InitOnce /\ \A m \in Modules : modules[m] # 0 => m \in initialized

\* No input with a module throws: a module was reached or comes later.
NoModuleThrows == "module_error" \notin Shapes /\ "late_module" \notin Shapes

\* Nothing is replayed: __init__ runs for the modules of the input only.
LEMMA NothingReplayed ==
    ASSUME Realized
    PROVE  Replayed = {} /\ \A in : Called(in) = Named(in, "module")
BY DEF Realized, Replayed, Called

\* An input whose modules were all reached, or none of them, and were called at
\* once, counts as it should.
LEMMA CountedOnce ==
    ASSUME DataInv, InitOnce, NEW in, Given(in), NEW reached \in Seq(Statements),
           Counted(reached, Named(reached, "module"))
    PROVE  InitOnce'
<1>1. Stamp # 0 /\ inits \in [Modules -> Nat]
  BY GivenStamp DEF DataInv
<1>2. truth' = Run(truth, reached)
  BY DEF Counted
<1>3. truth'.mods =
         [m \in Modules |-> IF m \in Named(reached, "module") THEN Stamp ELSE truth.mods[m]]
  BY <1>2 DEF Run
<1>4. inits' = [m \in Modules |->
                  (IF m \in Named(reached, "module") THEN 0 ELSE inits[m])
                  + (IF m \in Named(reached, "module") THEN 1 ELSE 0)]
  BY DEF Counted
<1>5. ASSUME NEW m \in Modules PROVE inits'[m] = IF truth'.mods[m] = 0 THEN 0 ELSE 1
  <2>1. inits[m] \in Nat /\ inits[m] = IF truth.mods[m] = 0 THEN 0 ELSE 1
    BY <1>1 DEF InitOnce
  <2>2. CASE m \in Named(reached, "module")
    <3>1. inits'[m] = 0 + 1 /\ truth'.mods[m] = Stamp
      BY <1>3, <1>4, <2>2
    <3> QED
      BY <1>1, <3>1
  <2>3. CASE m \notin Named(reached, "module")
    <3>1. inits'[m] = inits[m] + 0 /\ truth'.mods[m] = truth.mods[m]
      BY <1>3, <1>4, <2>3
    <3> QED
      BY <2>1, <3>1
  <2> QED
    BY <2>2, <2>3
<1> QED
  BY <1>5 DEF InitOnce

LEMMA PathRealized ==
    ASSUME DataInv, Realized, NoModuleThrows, NEW in, NEW reached, Starts(reached, in),
           OnLive(in, reached) \/ OnFresh(in, reached) \/ OnRebuilt(in, reached)
    PROVE  Realized'
<1>1. reached \in Seq(Statements) /\ in \in Seq(Statements)
  BY DEF Starts
<1>2. CASE OnLive(in, reached) \/ OnFresh(in, reached)
  <2>1. /\ Given(in) /\ Eligible(in) /\ Counted(reached, {})
        /\ UNCHANGED <<modules, initialized>>
    BY <1>2 DEF OnLive, OnFresh, EvalLive, CheckpointLive, RollbackLive, LivePossible,
                EvalFreshDelta, FailFreshDelta, FreshDelta, session
  <2>2. Named(reached, "module") = {}
    BY <2>1, StartsNamed DEF Eligible
  <2>3. InitOnce'
    BY <1>1, <2>1, <2>2, CountedOnce DEF Realized
  <2> QED
    BY <2>1, <2>3 DEF Realized
<1>3. CASE OnRebuilt(in, reached)
  <2>1. Given(in) /\ Counted(reached, Called(in))
    BY <1>3 DEF OnRebuilt, EvalFull, RecoverFull, RecoverExpression, FullPath
  <2>2. reached = in \/ (Named(in, "module") = {} /\ Named(reached, "module") = {})
    <3>1. CASE RecoverFull(in, reached)
      <4>1. Named(in, "module") \ Named(reached, "module") = {} /\ Named(reached, "module") = {}
        BY <3>1 DEF RecoverFull, Allowed, NoModuleThrows
      <4> QED
        BY <4>1
    <3>2. CASE RecoverExpression(in, reached)
      BY <3>2, StartsNamed DEF RecoverExpression, DefinitionFree
    <3> QED
      BY <1>3, <3>1, <3>2 DEF OnRebuilt
  <2>3. Called(in) = Named(reached, "module")
    BY <2>2, NothingReplayed
  <2>4. InitOnce'
    BY <1>1, <2>1, <2>3, CountedOnce DEF Realized
  <2>5. FullWorld(in, reached).mods =
           [m \in Modules |-> IF m \in Named(in, "module") THEN Stamp ELSE modules[m]]
    BY <2>1, GivenStamp, FullParts DEF DataInv
  <2>6. modules' \in {FullWorld(in, reached).mods, modules}
    BY <1>3 DEF OnRebuilt, EvalFull, RecoverFull, RecoverExpression
  <2>7. initialized \cup Named(in, "module") \subseteq initialized'
    <3>1. CASE EvalFull(in)
      BY <3>1 DEF EvalFull
    <3>2. CASE RecoverFull(in, reached)
      <4>1. Named(in, "module") = {}
        BY <3>2 DEF RecoverFull, Allowed, NoModuleThrows
      <4> QED
        BY <3>2, <4>1 DEF RecoverFull
    <3>3. CASE RecoverExpression(in, reached)
      BY <3>3 DEF RecoverExpression, DefinitionFree
    <3> QED
      BY <1>3, <3>1, <3>2, <3>3 DEF OnRebuilt
  <2>8. ASSUME NEW m \in Modules, modules'[m] # 0 PROVE m \in initialized'
    <3>1. m \in Named(in, "module") \/ modules[m] # 0
      BY <2>5, <2>6, <2>8
    <3> QED
      BY <2>7, <3>1 DEF Realized
  <2> QED
    BY <2>4, <2>8 DEF Realized
<1> QED
  BY <1>2, <1>3

LEMMA AlwaysRealized ==
    ASSUME NoModuleThrows
    PROVE  Spec => [](DataInv /\ Realized)
<1>1. Init => DataInv /\ Realized
  <2> SUFFICES ASSUME Init PROVE DataInv /\ Realized
    OBVIOUS
  <2>1. /\ \A m \in Modules : modules[m] = 0 /\ inits[m] = 0
        /\ truth = EmptyWorld(AutoImports)
    BY DEF Init, NoModule
  <2>2. \A m \in Modules : truth.mods[m] = 0
    BY <2>1 DEF EmptyWorld, NoModule
  <2> QED
    BY <2>1, <2>2, DataInit DEF Realized, InitOnce
<1>2. ASSUME DataInv, Realized, [Next]_vars PROVE Realized'
  <2>1. CASE \E in \in Inputs : \E reached :
                /\ Starts(reached, in)
                /\ OnLive(in, reached) \/ OnFresh(in, reached) \/ OnRebuilt(in, reached)
    BY <1>2, <2>1, PathRealized
  <2>2. CASE Abort
    BY <1>2, <2>2 DEF Abort, Realized, InitOnce, session
  <2>3. CASE Reset
    <3>1. /\ modules' = NoModule /\ inits' = NoModule /\ truth' = EmptyWorld({})
      BY <2>3 DEF Reset
    <3>2. \A m \in Modules : modules'[m] = 0 /\ inits'[m] = 0 /\ truth'.mods[m] = 0
      BY <3>1 DEF NoModule, EmptyWorld
    <3> QED
      BY <3>2 DEF Realized, InitOnce
  <2>4. CASE UNCHANGED vars
    BY <1>2, <2>4 DEF Realized, InitOnce, vars, session
  <2> QED
    BY <1>2, <2>1, <2>2, <2>3, <2>4, Paths
<1>3. ASSUME DataInv, [Next]_vars PROVE DataInv'
  <2>1. CASE UNCHANGED vars
    BY <1>3, <2>1 DEF DataInv, Mirror, PrefixOK, OnePerName, IsSome, vars, session
  <2> QED
    BY <1>3, <2>1, DataKept
<1> QED
  BY <1>1, <1>2, <1>3, PTL DEF Spec

\* The __init__ of a module has run once since the module was defined, whatever
\* the inputs are and however often the session is rebuilt, and never for a module
\* that was not reached, as long as no input that has a module throws.
THEOREM InitOnceHolds ==
    ASSUME NoModuleThrows
    PROVE  Spec => []InitOnce
<1>1. Realized => InitOnce
  BY DEF Realized
<1> QED
  BY <1>1, AlwaysRealized, PTL

-----------------------------------------------------------------------------
(***************************************************************************)
(* The session says what has run, and the VM and the prefix say the same.  *)
(*                                                                         *)
(* SessionExact needs LiveExact, because the live path writes the VM back  *)
(* into the session, and LiveExact needs SessionExact, because the full    *)
(* path builds the VM from the session; so they are shown together.        *)
(***************************************************************************)
\* LiveExact without the quantifiers of Eligible.
Aligned ==
    IsSome(persistent_compile) /\ usings \subseteq AutoImports =>
        /\ persistent_compile.active = ToSet(functions)
        /\ IsSome(live_vm) =>
              live_vm.world = Mirror /\ live_vm.table = persistent_compile.table

ExactInv == DataInv /\ SessionExact /\ Aligned

\* None of the inputs that are known not to be carried on exactly is allowed.
Faithful == Shapes = {}

LEMMA AlignedLive == Aligned => LiveExact
BY NamedNothing DEF Aligned, LiveExact, Eligible

LEMMA WorldSame ==
    ASSUME NEW v \in World, NEW w \in World, v.vals = w.vals, v.active = w.active,
           v.uses = w.uses, v.mods = w.mods, v.state = w.state
    PROVE  v = w
BY DEF World

\* What a path has to leave in the session.
Written(reached) ==
    /\ globals' = Run(Mirror, reached).vals
    /\ ToSet(functions') = Run(Mirror, reached).active
    /\ usings' = Run(Mirror, reached).uses
    /\ modules' = Run(Mirror, reached).mods
    /\ module_globals' = Run(Mirror, reached).state

LEMMA WrittenExact ==
    ASSUME ExactInv, DataInv', NEW reached \in Seq(Statements), Stamp \in Stamps,
           Written(reached), truth' = Run(truth, reached)
    PROVE  SessionExact' /\ Mirror' = Run(Mirror, reached)
<1>1. Mirror = truth /\ Mirror \in World
  BY DEF ExactInv, SessionExact, DataInv
<1>2. Run(Mirror, reached) \in World
  BY <1>1, RunTypes
<1>3. /\ Mirror' \in World
      /\ Mirror'.vals = globals' /\ Mirror'.active = ToSet(functions') /\ Mirror'.uses = usings'
      /\ Mirror'.mods = modules' /\ Mirror'.state = module_globals'
  <2>1. Mirror' \in World
    BY DEF DataInv
  <2> QED
    BY <2>1 DEF Mirror
<1>4. Mirror' = Run(Mirror, reached)
  BY <1>2, <1>3, WorldSame DEF Written
<1> QED
  BY <1>1, <1>4 DEF SessionExact

\* A call reaches a module that the VM has, so its state is read back.
LEMMA ExtractExact ==
    ASSUME ExactInv, NEW in, NEW reached, Starts(reached, in), Given(in),
           NEW world, Extract(world), world.vals = Run(Mirror, reached).vals,
           world.mods = Run(Mirror, reached).mods, world.state = Run(Mirror, reached).state
    PROVE  /\ globals' = Run(Mirror, reached).vals
           /\ module_globals' = Run(Mirror, reached).state
<1>1. DataInv /\ truth.mods = modules
  BY MirrorParts DEF ExactInv, SessionExact
<1>2. Stamp # 0
  BY <1>1, GivenStamp
<1>3. \A m \in Named(reached, "call") : modules[m] # 0 \/ m \in Named(reached, "module")
  BY <1>1, StartsCalls
<1>4. Run(Mirror, reached).mods =
         [m \in Modules |-> IF m \in Named(reached, "module") THEN Stamp ELSE modules[m]]
  BY MirrorParts DEF Run
<1>5. Run(Mirror, reached).state =
         [m \in Modules |-> IF m \in Begun(reached) THEN Initial
                            ELSE IF m \in Named(reached, "call") THEN Changed
                            ELSE module_globals[m]]
  BY MirrorParts DEF Run
<1> DEFINE M == Run(Mirror, reached).mods
           S == Run(Mirror, reached).state
<1>6. module_globals' = [m \in Modules |-> IF M[m] = 0 THEN module_globals[m] ELSE S[m]]
  BY DEF Extract
<1> HIDE DEF M, S
<1>7. ASSUME NEW m \in Modules, M[m] = 0 PROVE module_globals[m] = S[m]
  <2>1. m \notin Named(reached, "module") /\ modules[m] = 0
    BY <1>2, <1>4, <1>7 DEF M
  <2>2. m \notin Named(reached, "call") /\ m \notin Begun(reached)
    BY <1>3, <2>1, BegunNamed DEF Starts
  <2> QED
    BY <1>5, <2>1, <2>2 DEF S
<1>8. S = [m \in Modules |-> S[m]]
  BY <1>5 DEF S
<1>9. module_globals' = S
  BY <1>6, <1>7, <1>8
<1> QED
  BY <1>9 DEF Extract, S

LEMMA LiveSame ==
    ASSUME ExactInv, NEW in, NEW reached, Starts(reached, in), Eligible(in)
    PROVE  /\ persistent_compile.active = ToSet(functions)
           /\ IsSome(live_vm) =>
                 live_vm.world = Mirror /\ live_vm.table = persistent_compile.table
           /\ Run(Mirror, reached).uses = usings
           /\ Run(Mirror, reached).mods = modules
           /\ IsSome(persistent_compile)
<1>1. IsSome(persistent_compile) /\ usings \subseteq AutoImports
  BY DEF Eligible
<1>2. Named(reached, "module") = {} /\ Named(reached, "using") = {}
  BY StartsNamed DEF Eligible
<1>3. modules \in [Modules -> Stamps]
  BY DataParts DEF ExactInv
<1>4. Run(Mirror, reached).mods =
         [m \in Modules |-> IF m \in Named(reached, "module") THEN Stamp ELSE modules[m]]
  BY MirrorParts DEF Run
<1>5. Run(Mirror, reached).mods = modules
  BY <1>2, <1>3, <1>4
<1>6. Run(Mirror, reached).uses = usings
  BY <1>2, MirrorParts DEF Run
<1> QED
  BY <1>1, <1>5, <1>6 DEF ExactInv, Aligned

LEMMA NoBodies ==
    ASSUME NEW in \in Seq(Statements), Named(in, "def") = {}, NEW t \in Seq(Methods)
    PROVE  t \o Bodies(in) = t
<1>1. ToSet(Bodies(in)) = {} /\ Bodies(in) \in Seq({})
  BY BodiesSet DEF NewBodies
<1>2. Bodies(in) = <<>>
  <2>1. 1..Len(Bodies(in)) = {}
    BY <1>1, ElementOfSeq
  <2>2. Len(Bodies(in)) \in Nat
    BY <1>1
  <2>3. Len(Bodies(in)) = 0
    <3>1. ~(Len(Bodies(in)) >= 1)
      BY <2>1, <2>2
    <3> QED
      BY <2>2, <3>1
  <2> QED
    BY <1>1, <2>3
<1> QED
  BY <1>2, ConcatEmptySeq

LEMMA AlignedNext ==
    ASSUME persistent_compile'.active = ToSet(functions'),
           IsSome(live_vm') =>
              live_vm'.world = Mirror' /\ live_vm'.table = persistent_compile'.table
    PROVE  Aligned'
BY DEF Aligned, IsSome, Mirror

\* The session starts, and starts again, with nothing but its imports.
LEMMA EmptyExact ==
    ASSUME NEW uses
    PROVE  [vals |-> [x \in Vars |-> 0], active |-> ToSet(<<>>), uses |-> uses,
            mods |-> NoModule, state |-> NoModule] = EmptyWorld(uses)
<1>1. ToSet(<<>>) = {}
  BY DEF ToSet
<1> HIDE DEF ToSet
<1> QED
  BY <1>1 DEF EmptyWorld

LEMMA ExactInit ==
    ASSUME Init
    PROVE  ExactInv
<1>1. Mirror = truth
  BY EmptyExact DEF Init, Mirror
<1>2. ~IsSome(persistent_compile)
  BY DEF Init, IsSome
<1> QED
  BY <1>1, <1>2, DataInit DEF ExactInv, SessionExact, Aligned

\* The live path: the VM it runs on is the session.
LEMMA LiveExactPath ==
    ASSUME ExactInv, DataInv', NEW in, NEW reached, Starts(reached, in), OnLive(in, reached)
    PROVE  ExactInv'
<1>1. /\ LivePossible(in) /\ Extract(Reentered(reached)) /\ Counted(reached, {})
      /\ UNCHANGED <<usings, modules>>
  BY DEF OnLive, EvalLive, CheckpointLive, RollbackLive
<1>2. /\ DataInv /\ in \in Seq(Statements) /\ reached \in Seq(Statements)
      /\ Given(in) /\ Eligible(in) /\ IsSome(live_vm)
  BY <1>1 DEF ExactInv, Starts, LivePossible
<1>3. Stamp \in Stamps
  BY <1>2, GivenStamp
<1>4. /\ persistent_compile.active = ToSet(functions)
      /\ live_vm.world = Mirror /\ live_vm.table = persistent_compile.table
      /\ Run(Mirror, reached).uses = usings /\ Run(Mirror, reached).mods = modules
      /\ live_vm.table \in Seq(Methods)
  BY <1>2, LiveSame DEF DataInv, PrefixOK
<1>5. Reentered(reached) = Run(Mirror, reached)
  BY <1>4 DEF Reentered
<1>6. globals' = Run(Mirror, reached).vals /\ module_globals' = Run(Mirror, reached).state
  BY <1>1, <1>2, <1>5, ExtractExact
<1>7. Run(Mirror, reached).active = Activate(ToSet(functions), reached)
  BY MirrorParts DEF Run
<1>8. \/ functions' = Stored(reached)
      \/ functions' = functions /\ Named(reached, "def") = {}
  BY DEF OnLive, EvalLive, CheckpointLive, RollbackLive
<1>9. ToSet(functions') = Run(Mirror, reached).active
  <2>1. CASE functions' = Stored(reached)
    BY <1>2, <1>3, <2>1, StoredTypes
  <2>2. CASE functions' = functions /\ Named(reached, "def") = {}
    BY <1>2, <1>7, <2>2, ActivateSet
  <2> QED
    BY <1>8, <2>1, <2>2
<1>10. Written(reached) /\ truth' = Run(truth, reached)
  BY <1>1, <1>4, <1>6, <1>9 DEF Written, Counted
<1>11. SessionExact' /\ Mirror' = Run(Mirror, reached)
  BY <1>2, <1>3, <1>10, WrittenExact
<1>12. live_vm'.world = Mirror'
  BY <1>5, <1>11 DEF OnLive, EvalLive, CheckpointLive, RollbackLive
<1>13. CASE RollbackLive(in, reached)
  <2>1. /\ persistent_compile' = persistent_compile /\ functions' = functions
        /\ live_vm'.table = live_vm.table
    BY <1>13 DEF RollbackLive
  <2> QED
    BY <1>4, <1>11, <1>12, <2>1, AlignedNext DEF ExactInv
<1>14. CASE ~RollbackLive(in, reached) /\ Named(in, "def") = {}
  <2>1. /\ persistent_compile' = persistent_compile
        /\ live_vm'.table = live_vm.table \o Bodies(in)
    BY <1>14 DEF OnLive, EvalLive, CheckpointLive
  <2>2. live_vm'.table = live_vm.table
    BY <1>2, <1>4, <1>14, <2>1, NoBodies
  <2>3. Named(reached, "def") = {}
    BY <1>14, StartsNamed
  <2>4. persistent_compile'.active = ToSet(functions')
    BY <1>2, <1>4, <1>7, <1>9, <2>1, <2>3, ActivateSet
  <2> QED
    BY <1>4, <1>11, <1>12, <2>1, <2>2, <2>4, AlignedNext DEF ExactInv
<1>15. CASE ~RollbackLive(in, reached) /\ Named(in, "def") # {}
  <2>1. /\ persistent_compile' = Advanced(in, reached)
        /\ live_vm'.table = live_vm.table \o Bodies(in)
    BY <1>15 DEF OnLive, EvalLive, CheckpointLive
  <2>2. /\ persistent_compile'.table = persistent_compile.table \o Bodies(in)
        /\ persistent_compile'.active = Activate(persistent_compile.active, reached)
    BY <2>1 DEF Advanced
  <2> QED
    BY <1>4, <1>7, <1>9, <1>11, <1>12, <2>1, <2>2, AlignedNext DEF ExactInv
<1> QED
  BY <1>13, <1>14, <1>15

\* Nothing runs, nothing changes.
LEMMA RunNothing ==
    ASSUME NEW w \in World, Stamp \in Stamps
    PROVE  Run(w, <<>>) = w
<1>1. \A kind : Named(<<>>, kind) = {}
  BY NamedNothing
<1>2. /\ <<>> \in Seq(Statements)
      /\ w.vals \in [Vars -> Stamps] /\ w.mods \in [Modules -> Stamps]
      /\ w.state \in [Modules -> States]
  BY WorldParts
<1>3. Run(w, <<>>) \in World
  BY <1>2, RunTypes
<1>4. Run(w, <<>>).active = w.active
  <2>1. Run(w, <<>>).active = Activate(w.active, <<>>)
    BY DEF Run
  <2> QED
    BY <1>1, <1>2, <2>1, ActivateSet
<1>5. Run(w, <<>>).vals = [x \in Vars |-> w.vals[x]]
  BY <1>1 DEF Run
<1>6. Run(w, <<>>).mods = [m \in Modules |-> w.mods[m]]
  BY <1>1 DEF Run
<1>7. Run(w, <<>>).state = [m \in Modules |-> w.state[m]]
  <2>1. Begun(<<>>) = {}
    BY <1>1, <1>2, BegunNamed
  <2> QED
    BY <1>1, <2>1 DEF Run
<1>8. Run(w, <<>>).uses = w.uses
  BY <1>1 DEF Run
<1>9. /\ Run(w, <<>>).vals = w.vals /\ Run(w, <<>>).mods = w.mods
      /\ Run(w, <<>>).state = w.state
  BY <1>2, <1>5, <1>6, <1>7
<1> QED
  BY <1>3, <1>4, <1>8, <1>9, WorldSame

\* The fresh delta: the new VM is built from the session and its prefix.
LEMMA FreshExactPath ==
    ASSUME ExactInv, DataInv', Faithful, NEW in, NEW reached, Starts(reached, in),
           OnFresh(in, reached)
    PROVE  ExactInv'
<1>1. /\ FreshDelta(in) /\ Counted(reached, {})
      /\ UNCHANGED <<functions, usings, modules, persistent_compile>>
  BY DEF OnFresh, EvalFreshDelta, FailFreshDelta, session
<1>2. /\ DataInv /\ in \in Seq(Statements) /\ reached \in Seq(Statements)
      /\ Given(in) /\ Eligible(in) /\ Named(in, "def") = {}
  BY <1>1 DEF ExactInv, Starts, FreshDelta
<1>3. Stamp \in Stamps
  BY <1>2, GivenStamp
<1>4. /\ persistent_compile.active = ToSet(functions)
      /\ Run(Mirror, reached).uses = usings /\ Run(Mirror, reached).mods = modules
  BY <1>2, LiveSame
<1>5. truth' = Run(truth, reached) /\ Mirror = truth /\ truth \in World
  BY <1>1 DEF Counted, ExactInv, SessionExact, DataInv
<1>6. CASE EvalFreshDelta(in) /\ reached = in
  <2>1. /\ live_vm' = [world |-> FreshWorld(reached), table |-> persistent_compile.table]
        /\ Extract(FreshWorld(reached))
    BY <1>6 DEF EvalFreshDelta
  <2>2. [Mirror EXCEPT !.active = ToSet(functions)] = Mirror
    <3> DEFINE m == [Mirror EXCEPT !.active = ToSet(functions)]
               A == ToSet(functions)
    <3>1. Mirror \in World /\ Mirror.active = A /\ A \in SUBSET Methods
      BY <1>2, DataParts, MirrorParts DEF DataInv
    <3> HIDE DEF A
    <3>2. [Mirror EXCEPT !.active = A] \in World
      BY <3>1 DEF World, Methods
    <3>3. /\ m.vals = Mirror.vals /\ m.active = Mirror.active /\ m.uses = Mirror.uses
          /\ m.mods = Mirror.mods /\ m.state = Mirror.state
      BY <3>1 DEF World, A
    <3> QED
      BY <3>1, <3>2, <3>3, WorldSame DEF A
  <2>3. FreshWorld(reached) = Run(Mirror, reached)
    BY <1>4, <2>2 DEF FreshWorld
  <2>4. globals' = Run(Mirror, reached).vals /\ module_globals' = Run(Mirror, reached).state
    BY <1>2, <2>1, <2>3, ExtractExact
  <2>5. ToSet(functions') = Run(Mirror, reached).active
    <3>1. Run(Mirror, reached).active = Activate(ToSet(functions), reached)
      BY MirrorParts DEF Run
    <3>2. Named(reached, "def") = {}
      BY <1>2, StartsNamed
    <3> QED
      BY <1>1, <1>2, <3>1, <3>2, ActivateSet
  <2>6. SessionExact' /\ Mirror' = Run(Mirror, reached)
    BY <1>1, <1>2, <1>3, <1>4, <1>5, <2>4, <2>5, WrittenExact DEF Written
  <2>7. live_vm'.world = Mirror' /\ live_vm'.table = persistent_compile'.table
    BY <1>1, <2>1, <2>3, <2>6
  <2> QED
    BY <1>1, <1>4, <2>6, <2>7, AlignedNext DEF ExactInv
<1>7. CASE FailFreshDelta(in, reached)
  <2>1. reached = <<>>
    BY <1>7 DEF FailFreshDelta, Faithful
  <2>2. truth' = truth
    BY <1>3, <1>5, <2>1, RunNothing
  <2>3. Mirror' = Mirror /\ ~IsSome(live_vm')
    BY <1>7 DEF FailFreshDelta, session, Mirror, IsSome
  <2>4. SessionExact'
    BY <1>5, <2>2, <2>3 DEF SessionExact
  <2> QED
    BY <1>1, <1>4, <2>3, <2>4, AlignedNext DEF ExactInv
<1> QED
  BY <1>6, <1>7 DEF OnFresh

\* A rebuilt world is what the statements make of the session, when no definition
\* of the session is dropped for one that was not reached, no module of the input
\* was left out and none was called before it.
LEMMA FullSame ==
    ASSUME DataInv, Realized, NEW in, NEW reached, Starts(reached, in), Stamp \in Stamps,
           \A b \in ToSet(functions) :
              b[1] \in Named(in, "def") => b[1] \in Named(reached, "def"),
           Named(in, "module") \subseteq Named(reached, "module"), ~EarlyCall(in)
    PROVE  FullWorld(in, reached) = Run(Mirror, reached)
<1> DEFINE F == FullWorld(in, reached)
           R == Run(Mirror, reached)
           e == Executed(in, reached)
<1>1. reached \in Seq(Statements) /\ Mirror \in World /\ functions \in Seq(Methods)
  BY DataParts DEF Starts, DataInv
<1>2. R \in World
  BY <1>1, RunTypes
<1>3. /\ F \in World /\ F.vals = R.vals /\ F.uses = R.uses
      /\ F.active = {b \in ToSet(functions) : b[1] \notin Named(in, "def")} \cup NewBodies(reached)
      /\ F.mods = [m \in Modules |-> IF m \in Named(in, "module") THEN Stamp ELSE modules[m]]
  BY DataParts, FullParts DEF DataInv
<1>4. R.active = {b \in ToSet(functions) : b[1] \notin Named(reached, "def")} \cup NewBodies(reached)
  <2>1. R.active = Activate(ToSet(functions), reached)
    BY MirrorParts DEF Run
  <2> QED
    BY <1>1, <2>1, ActivateSet
<1>5. R.mods = [m \in Modules |-> IF m \in Named(reached, "module") THEN Stamp ELSE modules[m]]
  BY MirrorParts DEF Run
<1>6. Named(in, "module") = Named(reached, "module")
  BY StartsNamed
<1>7. F.state = R.state
  <2> DEFINE w == Restored(in)
  <2>1. w.state = [m \in Modules |-> IF m \in Replayed THEN Initial ELSE module_globals[m]]
    BY <1>1, RestoredParts
  <2>2. Replayed = {}
    BY NothingReplayed
  <2>3. /\ e \in Seq(Statements) /\ ~EarlyCall(e)
        /\ Named(e, "module") = Named(in, "module") /\ Named(e, "call") = Named(reached, "call")
    BY ExecutedParts
  <2>4. F = Run(w, e)
    BY DEF FullWorld
  <2> HIDE DEF w, e, F, R
  <2>5. Begun(e) = Begun(reached)
    BY <1>1, <1>6, <2>3, BegunOrderly, StartsOrderly
  <2>6. F.state = [m \in Modules |-> IF m \in Begun(e) THEN Initial
                      ELSE IF m \in Named(e, "call") THEN Changed ELSE w.state[m]]
    BY <2>4 DEF Run
  <2>7. R.state = [m \in Modules |-> IF m \in Begun(reached) THEN Initial
                      ELSE IF m \in Named(reached, "call") THEN Changed ELSE module_globals[m]]
    BY MirrorParts DEF Run, R
  <2>8. \A m \in Modules : w.state[m] = module_globals[m]
    BY <2>1, <2>2
  <2> QED
    BY <2>3, <2>5, <2>6, <2>7, <2>8
<1> HIDE DEF F, R
<1>8. F.active = R.active
  BY <1>3, <1>4, StartsNamed
<1>9. F.mods = R.mods
  BY <1>3, <1>5, <1>6
<1> QED
  BY <1>2, <1>3, <1>7, <1>8, <1>9, WorldSame DEF F, R

\* What is left of the inputs that fail on the full path.
LEMMA AllowedParts ==
    ASSUME Faithful, NEW in, NEW reached, Allowed(in, reached)
    PROVE  /\ LateUsings(in, reached) \cup Named(reached, "module") # {} => ~IsSome(live_vm)
           /\ /\ LateUsings(in, reached) \cup Named(reached, "module") = {}
              /\ Named(in, "def") = {} /\ IsSome(persistent_compile)
              => FullTable(in) = persistent_compile.table
           /\ \A b \in ToSet(functions) :
                 b[1] \in Named(in, "def") => b[1] \in Named(reached, "def")
           /\ Named(in, "module") \subseteq Named(reached, "module")
           /\ Named(in, "def") \cup Named(reached, "module") # {} => LateUsings(in, reached) = {}
<1>1. /\ "stale_vm" \notin Shapes /\ "unaligned" \notin Shapes /\ "redefinition" \notin Shapes
      /\ "late_using" \notin Shapes /\ "late_module" \notin Shapes
  BY DEF Faithful
<1> QED
  BY <1>1 DEF Allowed

\* An input that runs to its end on a rebuilt VM.
LEMMA EvalFullExact ==
    ASSUME ExactInv, Realized, DataInv', Faithful, NEW in, Starts(in, in), EvalFull(in)
    PROVE  ExactInv'
<1> DEFINE W == FullWorld(in, in)
<1>1. DataInv /\ in \in Seq(Statements) /\ Given(in) /\ ~EarlyCall(in)
  BY DEF ExactInv, Starts, EvalFull, FullPath, Faithful
<1>2. Stamp \in Stamps
  BY <1>1, GivenStamp
<1>3. W = Run(Mirror, in)
  BY <1>1, <1>2, FullSame
<1>4. /\ live_vm' = [world |-> W, table |-> FullTable(in)] /\ Extract(W)
      /\ functions' = Stored(in) /\ usings' = usings \cup Named(in, "using")
      /\ modules' = W.mods /\ truth' = Run(truth, in)
      /\ persistent_compile' = [table |-> FullTable(in), active |-> W.active]
  BY DEF EvalFull, Counted
<1> HIDE DEF W
<1>5. globals' = Run(Mirror, in).vals /\ module_globals' = Run(Mirror, in).state
  BY <1>1, <1>3, <1>4, ExtractExact
<1>6. ToSet(functions') = Run(Mirror, in).active
  BY <1>1, <1>2, <1>4, StoredTypes
<1>7. usings' = Run(Mirror, in).uses
  BY <1>4, MirrorParts DEF Run
<1>8. SessionExact' /\ Mirror' = Run(Mirror, in)
  BY <1>1, <1>2, <1>3, <1>4, <1>5, <1>6, <1>7, WrittenExact DEF Written
<1>9. /\ persistent_compile'.active = ToSet(functions')
      /\ live_vm'.world = Mirror' /\ live_vm'.table = persistent_compile'.table
  BY <1>3, <1>4, <1>6, <1>8
<1> QED
  BY <1>8, <1>9, AlignedNext DEF ExactInv

\* An expression that throws on a rebuilt VM.
LEMMA RecoverExpressionExact ==
    ASSUME ExactInv, Realized, DataInv', Faithful, NEW in, NEW reached, Starts(reached, in),
           RecoverExpression(in, reached)
    PROVE  ExactInv'
<1> DEFINE W == FullWorld(in, reached)
<1>1. /\ DataInv /\ in \in Seq(Statements) /\ reached \in Seq(Statements) /\ Given(in)
      /\ ~EarlyCall(in)
  BY DEF ExactInv, Starts, RecoverExpression, FullPath, Faithful
<1>2. Stamp \in Stamps
  BY <1>1, GivenStamp
<1>3. /\ Named(in, "def") = {} /\ Named(in, "module") = {} /\ Named(in, "using") = {}
      /\ Named(reached, "def") = {} /\ Named(reached, "module") = {}
      /\ Named(reached, "using") = {}
  BY StartsNamed DEF RecoverExpression, DefinitionFree
<1>4. W = Run(Mirror, reached)
  BY <1>1, <1>2, <1>3, FullSame
<1>5. /\ live_vm' = [world |-> W, table |-> FullTable(in)] /\ Extract(W)
      /\ UNCHANGED <<functions, usings, modules>> /\ truth' = Run(truth, reached)
      /\ persistent_compile' = [table |-> FullTable(in), active |-> W.active]
  BY DEF RecoverExpression, Counted
<1> HIDE DEF W
<1>6. globals' = Run(Mirror, reached).vals /\ module_globals' = Run(Mirror, reached).state
  BY <1>1, <1>4, <1>5, ExtractExact
<1>7. ToSet(functions') = Run(Mirror, reached).active
  <2>1. Run(Mirror, reached).active = Activate(ToSet(functions), reached)
    BY MirrorParts DEF Run
  <2> QED
    BY <1>1, <1>3, <1>5, <2>1, ActivateSet
<1>8. usings' = Run(Mirror, reached).uses
  BY <1>3, <1>5, MirrorParts DEF Run
<1>9. modules' = Run(Mirror, reached).mods
  <2>1. Run(Mirror, reached).mods =
           [m \in Modules |-> IF m \in Named(reached, "module") THEN Stamp ELSE modules[m]]
    BY MirrorParts DEF Run
  <2>2. modules \in [Modules -> Stamps]
    BY <1>1, DataParts
  <2> QED
    BY <1>3, <1>5, <2>1, <2>2
<1>10. SessionExact' /\ Mirror' = Run(Mirror, reached)
  BY <1>1, <1>2, <1>5, <1>6, <1>7, <1>8, <1>9, WrittenExact DEF Written
<1>11. /\ persistent_compile'.active = ToSet(functions')
       /\ live_vm'.world = Mirror' /\ live_vm'.table = persistent_compile'.table
  BY <1>4, <1>5, <1>7, <1>10
<1> QED
  BY <1>10, <1>11, AlignedNext DEF ExactInv

\* An input with definitions that throws on a rebuilt VM.
LEMMA RecoverFullExact ==
    ASSUME ExactInv, Realized, DataInv', Faithful, NEW in, NEW reached, Starts(reached, in),
           RecoverFull(in, reached)
    PROVE  ExactInv'
<1> DEFINE W == FullWorld(in, reached)
           late == LateUsings(in, reached)
           checkpoint == Named(in, "def") \cup Named(reached, "module") # {}
<1>1. /\ DataInv /\ in \in Seq(Statements) /\ reached \in Seq(Statements) /\ Given(in)
      /\ Allowed(in, reached) /\ ~EarlyCall(in)
  BY DEF ExactInv, Starts, RecoverFull, FullPath, Faithful
<1>2. Stamp \in Stamps /\ modules \in [Modules -> Stamps]
  BY <1>1, GivenStamp, DataParts
<1>3. /\ late \cup Named(reached, "module") # {} => ~IsSome(live_vm)
      /\ /\ late \cup Named(reached, "module") = {}
         /\ Named(in, "def") = {} /\ IsSome(persistent_compile)
         => FullTable(in) = persistent_compile.table
      /\ \A b \in ToSet(functions) :
            b[1] \in Named(in, "def") => b[1] \in Named(reached, "def")
      /\ Named(in, "module") \subseteq Named(reached, "module")
      /\ checkpoint => late = {}
  BY <1>1, AllowedParts
<1>4. W = Run(Mirror, reached)
  BY <1>1, <1>2, <1>3, FullSame
<1>5. /\ Extract(W) /\ functions' = Stored(reached) /\ truth' = Run(truth, reached)
      /\ usings' = usings \cup Named(IF checkpoint THEN in ELSE reached, "using")
      /\ modules' = IF checkpoint THEN W.mods ELSE modules
      /\ persistent_compile' =
            IF checkpoint THEN [table |-> FullTable(in), active |-> W.active]
            ELSE persistent_compile
      /\ live_vm' = IF late \cup Named(reached, "module") = {}
                    THEN [world |-> W, table |-> FullTable(in)] ELSE live_vm
  BY DEF RecoverFull, Counted
<1> HIDE DEF W
<1>6. globals' = Run(Mirror, reached).vals /\ module_globals' = Run(Mirror, reached).state
  BY <1>1, <1>4, <1>5, ExtractExact
<1>7. ToSet(functions') = Run(Mirror, reached).active
  BY <1>1, <1>2, <1>5, StoredTypes
<1>8. usings' = usings \cup Named(reached, "using")
  <2>1. CASE checkpoint
    <3>1. Named(in, "using") \subseteq usings \cup Named(reached, "using")
      BY <1>3, <2>1 DEF LateUsings
    <3>2. Named(reached, "using") \subseteq Named(in, "using")
      BY StartsNamed
    <3> QED
      BY <1>5, <2>1, <3>1, <3>2
  <2>2. CASE ~checkpoint
    BY <1>5, <2>2
  <2> QED
    BY <2>1, <2>2
<1>9. usings' = Run(Mirror, reached).uses
  BY <1>8, MirrorParts DEF Run
<1>10. modules' = Run(Mirror, reached).mods
  <2>1. CASE checkpoint
    BY <1>4, <1>5, <2>1
  <2>2. CASE ~checkpoint
    <3>1. Run(Mirror, reached).mods =
             [m \in Modules |-> IF m \in Named(reached, "module") THEN Stamp ELSE modules[m]]
      BY MirrorParts DEF Run
    <3> QED
      BY <1>2, <1>5, <2>2, <3>1
  <2> QED
    BY <2>1, <2>2
<1>11. SessionExact' /\ Mirror' = Run(Mirror, reached)
  BY <1>1, <1>2, <1>5, <1>6, <1>7, <1>9, <1>10, WrittenExact DEF Written
<1>12. IsSome(live_vm') => live_vm'.world = Mirror' /\ live_vm'.table = FullTable(in)
  <2>1. CASE late \cup Named(reached, "module") = {}
    BY <1>4, <1>5, <1>11, <2>1
  <2>2. CASE late \cup Named(reached, "module") # {}
    BY <1>3, <1>5, <2>2
  <2> QED
    BY <2>1, <2>2
<1>13. CASE checkpoint
  <2>1. /\ persistent_compile'.active = ToSet(functions')
        /\ persistent_compile'.table = FullTable(in)
    BY <1>4, <1>5, <1>7, <1>13
  <2> QED
    BY <1>11, <1>12, <2>1, AlignedNext DEF ExactInv
<1>14. CASE ~checkpoint
  <2>1. Named(in, "def") = {} /\ Named(reached, "module") = {} /\ Named(reached, "def") = {}
    BY <1>14, StartsNamed
  <2>2. persistent_compile' = persistent_compile
    BY <1>5, <1>14
  <2>3. ToSet(functions') = ToSet(functions)
    <3>1. Run(Mirror, reached).active = Activate(ToSet(functions), reached)
      BY MirrorParts DEF Run
    <3> QED
      BY <1>1, <1>7, <2>1, <3>1, ActivateSet
  <2> SUFFICES ASSUME IsSome(persistent_compile), usings' \subseteq AutoImports
               PROVE  /\ persistent_compile'.active = ToSet(functions')
                      /\ IsSome(live_vm') => live_vm'.table = persistent_compile'.table
    <3>1. Aligned'
      BY <1>12, <2>2 DEF Aligned, IsSome, Mirror
    <3> QED
      BY <1>11, <3>1 DEF ExactInv
  <2>4. persistent_compile.active = ToSet(functions)
    BY <1>8 DEF ExactInv, Aligned
  <2>5. CASE late = {}
    BY <1>3, <1>12, <2>1, <2>2, <2>3, <2>4, <2>5
  <2>6. CASE late # {}
    BY <1>3, <1>5, <2>1, <2>2, <2>3, <2>4, <2>6
  <2> QED
    BY <2>5, <2>6
<1> QED
  BY <1>13, <1>14

\* Every step keeps the session exact.
LEMMA ExactKept ==
    ASSUME ExactInv, Realized, Faithful, [Next]_vars
    PROVE  ExactInv'
<1>1. CASE UNCHANGED vars
  BY <1>1 DEF ExactInv, DataInv, Mirror, PrefixOK, OnePerName, SessionExact, Aligned, IsSome,
              vars, session
<1>2. CASE Next
  <2>1. DataInv'
    BY <1>2, DataKept DEF ExactInv
  <2>2. CASE \E in \in Inputs : \E reached :
                /\ Starts(reached, in)
                /\ OnLive(in, reached) \/ OnFresh(in, reached) \/ OnRebuilt(in, reached)
    <3>0. PICK in \in Inputs :
             \E reached :
                /\ Starts(reached, in)
                /\ OnLive(in, reached) \/ OnFresh(in, reached) \/ OnRebuilt(in, reached)
      BY <2>2
    <3>1. PICK reached :
             /\ Starts(reached, in)
             /\ OnLive(in, reached) \/ OnFresh(in, reached) \/ OnRebuilt(in, reached)
      BY <3>0
    <3>2. CASE OnLive(in, reached)
      BY <2>1, <3>1, <3>2, LiveExactPath
    <3>3. CASE OnFresh(in, reached)
      BY <2>1, <3>1, <3>3, FreshExactPath
    <3>4. CASE OnRebuilt(in, reached)
      BY <2>1, <3>1, <3>4, EvalFullExact, RecoverFullExact, RecoverExpressionExact DEF OnRebuilt
    <3> QED
      BY <3>1, <3>2, <3>3, <3>4
  <2>3. CASE Abort
    <3>1. /\ UNCHANGED <<globals, functions, usings, modules, module_globals,
                         persistent_compile, truth>>
          /\ ~IsSome(live_vm')
      BY <2>3 DEF Abort, session, IsSome
    <3>2. SessionExact'
      BY <3>1 DEF ExactInv, SessionExact, Mirror
    <3>3. Aligned'
      BY <3>1 DEF ExactInv, Aligned, IsSome
    <3> QED
      BY <2>1, <3>2, <3>3 DEF ExactInv
  <2>4. CASE Reset
    <3>1. SessionExact'
      BY <2>4, EmptyExact DEF Reset, SessionExact, Mirror
    <3>2. Aligned'
      BY <2>4 DEF Reset, Aligned, IsSome
    <3> QED
      BY <2>1, <3>1, <3>2 DEF ExactInv
  <2> QED
    BY <1>2, <2>2, <2>3, <2>4, Paths
<1> QED
  BY <1>1, <1>2

LEMMA AlwaysExact ==
    ASSUME Faithful
    PROVE  Spec => []ExactInv
<1>1. Init => ExactInv
  BY ExactInit
<1>2. ExactInv /\ (DataInv /\ Realized) /\ [Next]_vars => ExactInv'
  BY ExactKept
<1>3. Spec => [](DataInv /\ Realized)
  BY AlwaysRealized DEF Faithful, NoModuleThrows
<1> QED
  BY <1>1, <1>2, <1>3, PTL DEF Spec

\* Between two inputs the session says what the statements that ran have made:
\* whatever the inputs are, whichever of the paths they take and wherever they
\* stop, no completed statement is lost and none that was not reached takes
\* effect.  The inputs the code is known to fail for are excluded: Allowed,
\* FullPath and FailFreshDelta say which they are.
THEOREM SessionIsExact ==
    ASSUME Faithful
    PROVE  Spec => []SessionExact
<1>1. ExactInv => SessionExact
  BY DEF ExactInv
<1> QED
  BY <1>1, AlwaysExact, PTL

\* Under the same hypothesis the compiled prefix that an input may be compiled
\* against calls exactly the methods of the session, and the parked VM that such
\* an input may be appended to has its values, methods and modules, with every
\* body at the place where the prefix has it.
THEOREM LiveIsExact ==
    ASSUME Faithful
    PROVE  Spec => []LiveExact
<1>1. ExactInv => LiveExact
  BY AlignedLive DEF ExactInv
<1> QED
  BY <1>1, AlwaysExact, PTL

=============================================================================
