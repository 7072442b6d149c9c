----------------------------- MODULE Exceptions -----------------------------
(***************************************************************************)
(* try / catch / else / finally: the code the compiler emits for it        *)
(* (stmt_try_catch.rs) and the exception state of the VM that runs it      *)
(* (handle_error in state.rs, the instructions of error_handling.rs).      *)
(*                                                                         *)
(* A program is not fixed: in every clause it may open a try, call a       *)
(* function, throw, rethrow, return or reach the end of the clause.  ctx   *)
(* is the stack of what is open, innermost last; it stands for the         *)
(* instruction pointer, the frames and return_ips.  An exception is a      *)
(* number, in the order in which they are made; its value, once frozen, is *)
(* the same number.  One step is one instruction, or a run of instructions *)
(* that cannot be interrupted.                                             *)
(*                                                                         *)
(* The fields by and runs of a try are history: nothing in the code keeps  *)
(* them.                                                                   *)
(***************************************************************************)
EXTENDS SequencesExt, Integers, Ranks

CONSTANTS
    MaxDepth,   \* bound: what is open at once
    MaxExc,     \* bound: exceptions made
    Statements, \* the try statements of the programs
    Shapes      \* program shapes that are allowed, a subset of AllShapes

\* A try statement: has_catch, has_else, has_finally, and whether its clauses
\* own locals that a cleanup trampoline forgets.
AllStatements ==
    {s \in [c : BOOLEAN, e : BOOLEAN, f : BOOLEAN, fresh : BOOLEAN] :
        (s.c \/ s.f) /\ (s.e => s.c)}

\* Programs the properties are known to fail for (README, "Exceptions"):
\*   nested   a try with a finally inside a finally that an exception entered
\*   again    rethrow() other than directly in the innermost catch clause
\*   builtin  an error of a builtin while another exception is pending
\*   inline   an exception that leaves the finally a return runs
AllShapes == {"nested", "again", "builtin", "inline"}

ASSUME ExceptionsAssumption ==
    /\ MaxDepth \in Nat /\ MaxExc \in Nat
    /\ Statements \subseteq AllStatements
    /\ Shapes \subseteq AllShapes

VARIABLES
    ctx,        \* open tries, calls and inlined finally blocks
    handlers,   \* Vm::handlers
    caught,     \* Vm::caught_exceptions, for rethrow()
    perr,       \* Vm::pending_error
    pval,       \* Vm::pending_exception_value
    marks,      \* Vm::pending_finally_rethrows
    mode,       \* what the next instruction is
    exc,        \* the exception being raised
    made        \* exceptions made so far

vmVars == <<handlers, caught, perr, pval, marks>>
vars == <<ctx, handlers, caught, perr, pval, marks, mode, exc, made>>

None == 0
Exc == 1..MaxExc

Try(s) == [kind |-> "try", has |-> s, clause |-> "try", by |-> None, runs |-> 0]
Frame == [kind |-> "call"]
Inline(k) == [kind |-> "inline", of |-> k]

IsTry(a) == a.kind = "try"
InClause(a, c) == IsTry(a) /\ a.clause = c
Unwound(a) == InClause(a, "finally") /\ a.by # None

Top == ctx[Len(ctx)]
AtTop(c) == mode = "run" /\ ctx # <<>> /\ InClause(Top, c)
Truncate(s, n) == SubSeq(s, 1, IF n < Len(s) THEN n ELSE Len(s))
Errs(s) == [i \in 1..Len(s) |-> s[i].err]

-----------------------------------------------------------------------------
(***************************************************************************)
(* Handlers.  Each clause runs under a handler of its own, except a catch  *)
(* or else clause with neither a finally nor locals to forget.             *)
(***************************************************************************)
\* Mutant: a catch or else clause gets no handler for the finally alone.
InstallsNotForFinally(a) ==
    IsTry(a) /\ (a.clause \in {"try", "finally"} \/ a.has.fresh)

Installs(a) ==
    IsTry(a) /\ (a.clause \in {"try", "finally"} \/ a.has.f \/ a.has.fresh)

\* Where the handler of a clause leads: the catch clause; the finally, at once
\* or through a trampoline; or a trampoline that ends in Rethrow.
Route(a) ==
    IF a.clause = "try" /\ a.has.c THEN "catch"
    ELSE IF a.clause # "finally" /\ a.has.f THEN "finally"
    ELSE "cleanup"

ReturnIps(s) == Cardinality({k \in 1..Len(s) : s[k].kind = "call"})

\* PushHandler in the clause that stack s is in, with the depths of that moment.
PushHandler(hs, s, caughtLen, marksLen) ==
    IF Installs(Last(s))
    THEN Append(hs, [at |-> Len(s), route |-> Route(Last(s)),
                     return_ip_len |-> ReturnIps(s),
                     caught_exception_len |-> caughtLen,
                     finally_pending_len |-> marksLen])
    ELSE hs

\* The try at depth k moves on to clause c, entered by exception e or None.
ToClause(k, c, e) ==
    [Truncate(ctx, k) EXCEPT
        ![k].clause = c, ![k].by = e,
        ![k].runs = IF c = "finally" THEN @ + 1 ELSE @]

-----------------------------------------------------------------------------
Init ==
    /\ ctx = <<>>
    /\ handlers = <<>> /\ caught = <<>> /\ marks = <<>>
    /\ perr = None /\ pval = None
    /\ mode = "run" /\ exc = None /\ made = 0

\* The shape "nested" is where a finally that completes meets the mark of another.
EnterTry ==
    /\ mode = "run" /\ Len(ctx) < MaxDepth
    /\ \E s \in Statements :
        /\ s.f /\ "nested" \notin Shapes =>
               \A k \in 1..Len(ctx) : ~Unwound(ctx[k])
        /\ ctx' = Append(ctx, Try(s))
        /\ handlers' = PushHandler(handlers, ctx', Len(caught), Len(marks))
    /\ UNCHANGED <<caught, perr, pval, marks, mode, exc, made>>

Call ==
    /\ mode = "run" /\ Len(ctx) < MaxDepth
    /\ ctx' = Append(ctx, Frame)
    /\ UNCHANGED <<vmVars, mode, exc, made>>

-----------------------------------------------------------------------------
(***************************************************************************)
(* Raising.                                                                *)
(***************************************************************************)
\* Raise e: no exception leaves an inlined finally unless the shape is allowed.
Raise(e) ==
    /\ "inline" \notin Shapes =>
        \A k \in 1..Len(ctx) : ctx[k].kind = "inline" =>
            \E i \in 1..Len(handlers) :
                handlers[i].at > k /\ handlers[i].route = "catch"
    /\ mode' = "raise" /\ exc' = e

\* ThrowValue: the value is frozen before the exception is raised.
Throw ==
    /\ mode = "run" /\ made < MaxExc
    /\ made' = made + 1
    /\ pval' = made'
    /\ Raise(made')
    /\ UNCHANGED <<ctx, handlers, caught, perr, marks>>

\* A builtin fails: raise(err), with the value still to be made from err.
BuiltinError ==
    /\ mode = "run" /\ made < MaxExc
    /\ "builtin" \in Shapes \/ pval = None
    /\ made' = made + 1
    /\ Raise(made')
    /\ UNCHANGED <<ctx, handlers, caught, perr, pval, marks>>

\* The value the handler captures: an exception thrown by Julia code has it
\* already, an error of a builtin gets it here.
Captured == IF pval = None THEN exc ELSE pval

\* handle_error without a handler: the error leaves run().
Uncaught ==
    /\ mode = "raise" /\ handlers = <<>>
    /\ mode' = "dead"
    /\ UNCHANGED <<ctx, vmVars, exc, made>>

\* handle_error with a catch clause, then what it begins with: PushHandler,
\* PushExceptionValue and ClearError.
Catch ==
    /\ mode = "raise" /\ handlers # <<>>
    /\ LET h == Last(handlers)
           below == Truncate(caught, h.caught_exception_len)
       IN  /\ h.route = "catch"
           /\ ctx' = ToClause(h.at, "catch", exc)
           /\ marks' = Truncate(marks, h.finally_pending_len)
           /\ handlers' = PushHandler(Front(handlers), ctx', Len(below), Len(marks'))
           /\ caught' = Append(below, [err |-> exc, val |-> Captured])
    /\ perr' = None /\ pval' = None
    /\ mode' = "run" /\ exc' = None
    /\ UNCHANGED made

\* Mutant: the mark is taken before the value is frozen.
MarkedUnfrozen(h) == Append(Truncate(marks, h.finally_pending_len),
                            [err |-> exc, val |-> pval])

\* Mutant: one slot in the place of the stack.
MarkedScalar(h) == <<[err |-> exc, val |-> Captured]>>

\* The mark that a handler without a catch leaves for the Rethrow to come.
Marked(h) == Append(Truncate(marks, h.finally_pending_len),
                    [err |-> exc, val |-> Captured])

\* handle_error with a handler that leads to the finally.
ToFinally ==
    /\ mode = "raise" /\ handlers # <<>>
    /\ LET h == Last(handlers)
       IN  /\ h.route = "finally"
           /\ ctx' = ToClause(h.at, "finally", exc)
           /\ marks' = Marked(h)
           /\ caught' = Truncate(caught, h.caught_exception_len)
           /\ handlers' = PushHandler(Front(handlers), ctx', Len(caught'), Len(marks'))
    /\ perr' = exc /\ pval' = Captured
    /\ mode' = "run" /\ exc' = None
    /\ UNCHANGED made

\* handle_error with a handler whose trampoline ends in Rethrow.
Cleanup ==
    /\ mode = "raise" /\ handlers # <<>>
    /\ LET h == Last(handlers)
       IN  /\ h.route = "cleanup"
           /\ ctx' = Truncate(ctx, h.at - 1)
           /\ marks' = Marked(h)
           /\ caught' = Truncate(caught, h.caught_exception_len)
           /\ handlers' = Front(handlers)
    /\ perr' = exc /\ pval' = Captured
    /\ mode' = "rethrow" /\ exc' = None
    /\ UNCHANGED made

\* Rethrow: resume the exception on top of the marks, if there is one.
Resume ==
    IF marks = <<>>
    THEN mode' = "run" /\ exc' = None /\ UNCHANGED <<marks, pval>>
    ELSE /\ marks' = Front(marks)
         /\ pval' = Last(marks).val
         /\ mode' = "raise" /\ exc' = Last(marks).err

Rethrow ==
    /\ mode = "rethrow"
    /\ Resume
    /\ UNCHANGED <<ctx, handlers, caught, perr, made>>

-----------------------------------------------------------------------------
(***************************************************************************)
(* rethrow() and rethrow(e).                                               *)
(***************************************************************************)
\* The open catch clauses.
Catches == {k \in 1..Len(ctx) : InClause(ctx[k], "catch")}

\* The innermost clause, through calls, is a catch clause, or none is one.
DirectlyInCatch ==
    \/ \E k \in Catches : \A j \in k + 1..Len(ctx) : ~IsTry(ctx[j])
    \/ Catches = {}

RethrowCurrent ==
    /\ mode = "run"
    /\ "again" \in Shapes \/ DirectlyInCatch
    /\ IF caught # <<>>
       THEN /\ caught' = Front(caught)
            /\ pval' = Last(caught).val
            /\ Raise(Last(caught).err)
            /\ UNCHANGED <<perr, made>>
       ELSE IF perr # None
       THEN /\ perr' = None
            /\ Raise(perr)
            /\ UNCHANGED <<caught, pval, made>>
       ELSE /\ made < MaxExc
            /\ made' = made + 1
            /\ pval' = made'
            /\ Raise(made')
            /\ UNCHANGED <<caught, perr>>
    /\ UNCHANGED <<ctx, handlers, marks>>

\* rethrow(e): e is new, and so is the error outside a catch block.
RethrowOther ==
    /\ mode = "run" /\ made < MaxExc
    /\ "again" \in Shapes \/ DirectlyInCatch
    /\ caught' = Truncate(caught, Len(caught) - 1)
    /\ made' = made + 1
    /\ pval' = made'
    /\ Raise(made')
    /\ UNCHANGED <<ctx, handlers, perr, marks>>

-----------------------------------------------------------------------------
(***************************************************************************)
(* Clauses that reach their end.                                           *)
(***************************************************************************)
\* A clause pops its handler, and control goes on to the next clause, or past
\* the try.
MoveOn(next, hs) ==
    IF next = "end"
    THEN ctx' = Front(ctx) /\ handlers' = hs
    ELSE /\ ctx' = ToClause(Len(ctx), next, None)
         /\ handlers' = PushHandler(hs, ctx', Len(caught'), Len(marks))

\* Mutant: a catch clause that ends keeps its handler.
PopHandlerNotInCatch ==
    IF Installs(Top) /\ Top.clause # "catch" THEN Front(handlers) ELSE handlers

PopHandler == IF Installs(Top) THEN Front(handlers) ELSE handlers

EndTry ==
    /\ AtTop("try")
    /\ UNCHANGED caught
    /\ MoveOn(IF Top.has.e THEN "else" ELSE IF Top.has.f THEN "finally" ELSE "end",
              PopHandler)
    /\ UNCHANGED <<perr, pval, marks, mode, exc, made>>

EndElse ==
    /\ AtTop("else")
    /\ UNCHANGED caught
    /\ MoveOn(IF Top.has.f THEN "finally" ELSE "end", PopHandler)
    /\ UNCHANGED <<perr, pval, marks, mode, exc, made>>

\* PopCaughtException, then PopHandler.
EndCatch ==
    /\ AtTop("catch")
    /\ caught' = Truncate(caught, Len(caught) - 1)
    /\ MoveOn(IF Top.has.f THEN "finally" ELSE "end", PopHandler)
    /\ UNCHANGED <<perr, pval, marks, mode, exc, made>>

\* PopHandler, then Rethrow.
EndFinally ==
    /\ AtTop("finally")
    /\ ctx' = Front(ctx)
    /\ handlers' = PopHandler
    /\ Resume
    /\ UNCHANGED <<caught, perr, made>>

-----------------------------------------------------------------------------
(***************************************************************************)
(* return (break and continue are compiled in the same way): the finally   *)
(* blocks of the function run inline, innermost first, with every handler  *)
(* still installed; then the handlers and the caught exceptions go.        *)
(***************************************************************************)
Frames == {k \in 1..Len(ctx) : ctx[k].kind = "call"}
Base == IF Frames = {} THEN 0 ELSE Max(Frames)

\* A return in a finally is compiled into itself without end: not a program.
MayReturn ==
    \A k \in Base + 1..Len(ctx) : IsTry(ctx[k]) /\ ctx[k].clause # "finally"

\* The try statements of finally_stack below depth k, and the last of them.
Finals(k) == {i \in Base + 1..k - 1 : IsTry(ctx[i]) /\ ctx[i].has.f}

\* pop_handlers_for_return
ForReturn(hs, ips) ==
    SubSeq(hs, 1, Cardinality({i \in 1..Len(hs) :
        \E j \in i..Len(hs) : hs[j].return_ip_len <= ips}))

\* Mutant: a return out of a catch clause leaves its exception current.
LeaveFunctionStillCaught ==
    LET owned == Cardinality({i \in Base + 1..Len(ctx) : Installs(ctx[i])})
        left == Truncate(handlers, Len(handlers) - owned)
    IN  /\ ctx' = Truncate(ctx, Base - 1)
        /\ handlers' = ForReturn(left, ReturnIps(ctx'))
        /\ UNCHANGED caught

\* emit_scope_cleanup_for_return and the return itself.
LeaveFunction ==
    LET open == {i \in Base + 1..Len(ctx) : IsTry(ctx[i])}
        owned == Cardinality({i \in open : Installs(ctx[i])})
        catches == Cardinality({i \in open : InClause(ctx[i], "catch")})
        left == Truncate(handlers, Len(handlers) - owned)
    IN  /\ ctx' = Truncate(ctx, Base - 1)
        /\ caught' = Truncate(caught, Len(caught) - catches)
        /\ handlers' = ForReturn(left, ReturnIps(ctx'))

\* The next finally that the return runs: that of the try at depth k.
RunInline(s, k) ==
    /\ ctx' = [Append(s, Inline(k)) EXCEPT ![k].runs = @ + 1]
    /\ UNCHANGED <<caught, handlers>>

Return ==
    /\ mode = "run" /\ Base # 0 /\ MayReturn
    /\ LET f == Finals(Len(ctx) + 1)
       IN IF f = {} THEN LeaveFunction ELSE RunInline(ctx, Max(f))
    /\ UNCHANGED <<perr, pval, marks, mode, exc, made>>

EndInline ==
    /\ mode = "run" /\ ctx # <<>> /\ Top.kind = "inline"
    /\ LET f == Finals(Top.of)
       IN IF f = {} THEN LeaveFunction ELSE RunInline(Front(ctx), Max(f))
    /\ UNCHANGED <<perr, pval, marks, mode, exc, made>>

Next ==
    \/ EnterTry \/ Call \/ Throw \/ BuiltinError
    \/ Uncaught \/ Catch \/ ToFinally \/ Cleanup \/ Rethrow
    \/ RethrowCurrent \/ RethrowOther
    \/ EndTry \/ EndElse \/ EndCatch \/ EndFinally
    \/ Return \/ EndInline

Spec == Init /\ [][Next]_vars

-----------------------------------------------------------------------------
(***************************************************************************)
(* Properties.                                                             *)
(***************************************************************************)
Entry == [err : Exc, val : Exc]

Activation ==
    [kind : {"try"}, has : AllStatements, clause : {"try", "else", "catch", "finally"},
     by : Exc \cup {None}, runs : Nat]
    \cup {Frame} \cup {Inline(k) : k \in 1..MaxDepth}

Handler ==
    [at : 1..MaxDepth, route : {"catch", "finally", "cleanup"}, return_ip_len : Nat,
     caught_exception_len : Nat, finally_pending_len : Nat]

\* Types of the exception state.
TypeOK ==
    /\ ctx \in Seq(Activation)
    /\ handlers \in Seq(Handler)
    /\ caught \in Seq(Entry) /\ marks \in Seq(Entry)
    /\ perr \in Exc \cup {None} /\ pval \in Exc \cup {None}
    /\ mode \in {"run", "raise", "rethrow", "dead"}
    /\ exc \in Exc \cup {None} /\ (mode = "raise" => exc # None)
    /\ made \in 0..MaxExc

\* The open clauses that run under a handler.
Guarded == {k \in 1..Len(ctx) : Installs(ctx[k])}

\* The handlers are those of the open clauses, in the order in which these were
\* entered and with the route of the clause, whatever way the clauses inside
\* were left: at their end, by an exception or by a return.
HandlersExact ==
    mode \in {"run", "rethrow"} =>
        /\ Len(handlers) = Cardinality(Guarded)
        /\ \A k \in Guarded :
              LET h == handlers[Rank(Guarded, k)]
              IN  h.at = k /\ h.route = Route(ctx[k])

\* rethrow() finds the exceptions of the open catch clauses and nothing else,
\* each with the value that belongs to it.
CaughtExact ==
    mode = "run" =>
        /\ Len(caught) = Cardinality(Catches)
        /\ \A k \in Catches :
              caught[Rank(Catches, k)] = [err |-> ctx[k].by, val |-> ctx[k].by]

\* A finally that an exception entered resumes exactly this exception at its
\* end, and one that was entered otherwise lets control go on.
FinallyResumes ==
    [][EndFinally => IF Top.by = None THEN mode' = "run"
                                      ELSE mode' = "raise" /\ exc' = Top.by]_vars

\* A try with a finally is left, in whatever way, only after its finally was
\* entered exactly once.
FinallyOnce ==
    [][\A k \in 1..Len(ctx) :
          /\ IsTry(ctx[k]) /\ ctx[k].has.f
          /\ Len(ctx') < k \/ mode' = "dead"
          => ctx[k].runs = 1]_vars

=============================================================================
