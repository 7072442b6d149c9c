------------------------------ MODULE ReplSession ------------------------------
(***************************************************************************)
(* The REPL session: what is carried from one input to the next.           *)
(*                                                                         *)
(* A session keeps the same program three times: as a mirror (the values   *)
(* and the source definitions a rebuild starts from), as a compiled prefix *)
(* (persistent_compile) and as the VM that ran the last input (live_vm).   *)
(* An input runs on the live VM (try_live_delta_run), on a new VM with the *)
(* compiled prefix (the fresh delta), or on a new VM built from the mirror *)
(* (the full path), and it may throw after any of its statements.          *)
(*                                                                         *)
(* An input runs to its end before the next one starts, so a whole eval is *)
(* one step.  A value, a method body and the state of a module are stamped *)
(* with the number of the input that wrote them.  Errors are raised by the *)
(* statements of main.  A module has state, which its body and its         *)
(* __init__ write.  Nominal types, macros, type aliases and ans are left   *)
(* out, and so are values that cannot be carried over to a new VM.         *)
(***************************************************************************)
EXTENDS SequencesExt, Integers, Ranks

CONSTANTS
    Vars,         \* global variables
    Fns,          \* generic functions, one method each
    Modules,      \* modules a user types in; all of them simple (LV5)
    Packages,     \* names a using can import
    AutoImports,  \* auto_import_modules, a subset of Packages
    Inputs,       \* the inputs, sequences of Statements
    MaxEvals,     \* bound: inputs in a session
    Shapes        \* inputs that are allowed, a subset of AllShapes

\* Inputs the properties are known to fail for (README, "REPL session"):
\*   stale_vm      an error leaves the VM of an earlier input parked
\*   unaligned     an error parks a new VM without its compiled prefix
\*   redefinition  an error comes before the new definition of a method that
\*                 the full path compiled
\*   late_using    an error comes before a using, and something was defined
\*   module_error  an error comes after a module
\*   late_module   an error comes before a module, which has run all the same
\*   early_call    a call comes before the new definition of its module, and
\*                 reaches the new one
\*   fresh_error   an error on the fresh delta path, after a statement
AllShapes == {"stale_vm", "unaligned", "redefinition", "late_using",
              "module_error", "late_module", "early_call", "fresh_error"}

\* x = ..., a method definition, using, module ... end, a call that changes
\* the state of a module.
Statements ==
    ({"set"} \X Vars) \cup ({"def"} \X Fns) \cup ({"using"} \X Packages)
    \cup ({"module"} \X Modules) \cup ({"call"} \X Modules)

ASSUME ReplSessionAssumption ==
    /\ AutoImports \subseteq Packages
    /\ Inputs \subseteq Seq(Statements)
    /\ MaxEvals \in Nat
    /\ Shapes \subseteq AllShapes

VARIABLES
    globals,             \* REPLSession::globals
    functions,           \* REPLSession::functions, in the order they came
    usings,              \* REPLSession::usings
    modules,             \* REPLSession::modules
    module_globals,      \* REPLSession::module_globals
    initialized,         \* REPLSession::initialized_module_paths
    persistent_compile,  \* REPLSession::persistent_compile
    live_vm,             \* REPLSession::live_vm
    eval_count,          \* REPLSession::eval_count
    truth,               \* history: what the statements that ran have made
    inits                \* history: runs of __init__ since the module of that
                         \* name was last defined

session == <<globals, functions, usings, modules, module_globals>>
vars == <<session, initialized, persistent_compile, live_vm, eval_count, truth, inits>>

Stamp == eval_count + 1     \* of the input that is being evaluated
Initial == 2 * Stamp        \* the state a body and its __init__ leave behind
Changed == 2 * Stamp + 1    \* the state a call leaves behind
None == [none |-> TRUE]
IsSome(o) == o # None

-----------------------------------------------------------------------------
(***************************************************************************)
(* Statements and what they make of a world: the globals, the methods that *)
(* can be called, the imports, the modules and their state.                *)
(***************************************************************************)
Named(stmts, kind) == {s[2] : s \in {t \in ToSet(stmts) : t[1] = kind}}

Bodies(stmts) ==
    LET defs == InOrder({i \in DOMAIN stmts : stmts[i][1] = "def"})
    IN  [n \in DOMAIN defs |-> <<stmts[defs[n]][2], Stamp>>]

Without(bodies, names) ==
    LET kept == InOrder({i \in DOMAIN bodies : bodies[i][1] \notin names})
    IN  [n \in DOMAIN kept |-> bodies[kept[n]]]

\* A definition that is reached replaces the method of that name.
NewBodies(stmts) == {<<f, Stamp>> : f \in Named(stmts, "def")}
Activate(active, stmts) ==
    {b \in active : b[1] \notin Named(stmts, "def")} \cup NewBodies(stmts)

\* The modules whose body runs, and runs after all calls into them.
Begun(stmts) ==
    {m \in Modules :
        \E j \in DOMAIN stmts :
            /\ stmts[j] = <<"module", m>>
            /\ \A i \in DOMAIN stmts : stmts[i] = <<"call", m>> => i < j}

Run(w, stmts) ==
    [vals   |-> [x \in Vars |-> IF x \in Named(stmts, "set") THEN Stamp ELSE w.vals[x]],
     active |-> Activate(w.active, stmts),
     uses   |-> w.uses \cup Named(stmts, "using"),
     mods   |-> [m \in Modules |-> IF m \in Named(stmts, "module") THEN Stamp ELSE w.mods[m]],
     state  |-> [m \in Modules |->
                    IF m \in Begun(stmts) THEN Initial
                    ELSE IF m \in Named(stmts, "call") THEN Changed ELSE w.state[m]]]

NoModule == [m \in Modules |-> 0]
EmptyWorld(uses) ==
    [vals |-> [x \in Vars |-> 0], active |-> {}, uses |-> uses,
     mods |-> NoModule, state |-> NoModule]

Mirror == [vals |-> globals, active |-> ToSet(functions), uses |-> usings,
           mods |-> modules, state |-> module_globals]

Init ==
    /\ globals = [x \in Vars |-> 0]
    /\ functions = <<>>
    /\ usings = AutoImports
    /\ modules = NoModule
    /\ module_globals = NoModule
    /\ initialized = {}
    /\ persistent_compile = None
    /\ live_vm = None
    /\ eval_count = 0
    /\ truth = EmptyWorld(AutoImports)
    /\ inits = NoModule

-----------------------------------------------------------------------------
(***************************************************************************)
(* Which path an input takes.                                              *)
(***************************************************************************)
\* An input to evaluate; it only calls into modules that exist by then.
Given(in) ==
    /\ eval_count < MaxEvals
    /\ \A i \in DOMAIN in : in[i][1] = "call" =>
          \/ truth.mods[in[i][2]] # 0
          \/ in[i][2] \in Named(SubSeq(in, 1, i - 1), "module")

DefinitionFree(in) == Named(in, "def") \cup Named(in, "using") \cup Named(in, "module") = {}

\* persistent_delta_eligible: a definition is of a name without a body, or of
\* a method the prefix owns.  The body of a definition that was not reached
\* counts as a body.
Eligible(in) ==
    /\ IsSome(persistent_compile)
    /\ usings \subseteq AutoImports
    /\ Named(in, "module") \cup Named(in, "using") = {}
    /\ \A f \in Named(in, "def") :
          (\E i \in DOMAIN persistent_compile.table : persistent_compile.table[i][1] = f)
             => \E b \in persistent_compile.active : b[1] = f

LivePossible(in) ==
    /\ Given(in)
    /\ Eligible(in)
    /\ IsSome(live_vm)
    /\ Named(in, "def") # {} => Len(live_vm.table) = Len(persistent_compile.table)

FreshDelta(in) ==
    /\ Given(in)
    /\ Eligible(in)
    /\ ~IsSome(live_vm)
    /\ Named(in, "def") = {}
    /\ modules = NoModule

-----------------------------------------------------------------------------
(***************************************************************************)
(* Writing a run back into the session.                                    *)
(***************************************************************************)
\* Mutant: a redefinition is appended instead of replacing the old method.
StoredAppended(stmts) == functions \o Bodies(stmts)

\* store_definitions: methods are replaced in place or appended.
Stored(stmts) ==
    [i \in DOMAIN functions |->
        IF functions[i][1] \in Named(stmts, "def") THEN <<functions[i][1], Stamp>>
        ELSE functions[i]]
    \o Without(Bodies(stmts), {b[1] : b \in ToSet(functions)})

\* Mutant: module state is only read back from modules the input defines.
ExtractOwn(world) ==
    /\ globals' = world.vals
    /\ module_globals' = [m \in Modules |->
                             IF world.mods[m] = Stamp THEN world.state[m] ELSE module_globals[m]]

\* extract_globals_from_vm and extract_module_globals_from_vm: the state of a
\* module the VM does not have is left as it was.
Extract(world) ==
    /\ globals' = world.vals
    /\ module_globals' = [m \in Modules |->
                             IF world.mods[m] = 0 THEN module_globals[m] ELSE world.state[m]]

\* A run that stays in the session: truth is told what was reached in the
\* source, inits the modules whose __init__ was called, reached or not.
Counted(reached, called) ==
    /\ eval_count' = eval_count + 1
    /\ truth' = Run(truth, reached)
    /\ inits' = [m \in Modules |->
                    (IF m \in Named(reached, "module") THEN 0 ELSE inits[m])
                    + (IF m \in called THEN 1 ELSE 0)]

-----------------------------------------------------------------------------
(***************************************************************************)
(* The live path: the bodies of the input are appended to the parked VM,   *)
(* dormant until their definition is reached.                              *)
(***************************************************************************)
Reentered(reached) == Run(live_vm.world, reached)

\* Mutant: the definitions that were not reached are published too.
AdvancedAll(in, reached) ==
    [table  |-> persistent_compile.table \o Bodies(in),
     active |-> Activate(persistent_compile.active, in)]

\* The compiled prefix after the definitions of reached; in is what was appended.
Advanced(in, reached) ==
    [table  |-> persistent_compile.table \o Bodies(in),
     active |-> Activate(persistent_compile.active, reached)]

EvalLive(in) ==
    /\ LivePossible(in)
    /\ live_vm' = [world |-> Reentered(in), table |-> live_vm.table \o Bodies(in)]
    /\ Extract(Reentered(in))
    /\ functions' = Stored(in)
    /\ persistent_compile' =
          IF Named(in, "def") = {} THEN persistent_compile ELSE Advanced(in, in)
    /\ Counted(in, {})
    /\ UNCHANGED <<usings, modules, initialized>>

\* The input throws after reached, and some of its definitions were reached or
\* a value refers to an appended helper: the bodies stay, the others dormant.
CheckpointLive(in, reached) ==
    /\ LivePossible(in)
    /\ live_vm' = [world |-> Reentered(reached), table |-> live_vm.table \o Bodies(in)]
    /\ Extract(Reentered(reached))
    /\ functions' = Stored(reached)
    /\ persistent_compile' =
          IF Named(in, "def") = {} THEN persistent_compile ELSE Advanced(in, reached)
    /\ Counted(reached, {})
    /\ UNCHANGED <<usings, modules, initialized>>

\* rollback_unobserved_repl_function_append: no definition was reached, and
\* the appended bodies are removed again.
RollbackLive(in, reached) ==
    /\ LivePossible(in)
    /\ Named(in, "def") # {}
    /\ Named(reached, "def") = {}
    /\ live_vm' = [world |-> Reentered(reached), table |-> live_vm.table]
    /\ Extract(Reentered(reached))
    /\ Counted(reached, {})
    /\ UNCHANGED <<functions, usings, modules, initialized, persistent_compile>>

-----------------------------------------------------------------------------
(***************************************************************************)
(* The fresh delta path: a new VM with the compiled prefix and the carried *)
(* globals.  The prefix stays as it is.                                    *)
(***************************************************************************)
FreshWorld(reached) == Run([Mirror EXCEPT !.active = persistent_compile.active], reached)

EvalFreshDelta(in) ==
    /\ FreshDelta(in)
    /\ live_vm' = [world |-> FreshWorld(in), table |-> persistent_compile.table]
    /\ Extract(FreshWorld(in))
    /\ Counted(in, {})
    /\ UNCHANGED <<functions, usings, modules, initialized, persistent_compile>>

\* There is no recovery plan: what the input did is lost.
FailFreshDelta(in, reached) ==
    /\ FreshDelta(in)
    /\ reached # <<>> => "fresh_error" \in Shapes
    /\ live_vm' = None
    /\ Counted(reached, {})
    /\ UNCHANGED <<session, initialized, persistent_compile>>

-----------------------------------------------------------------------------
(***************************************************************************)
(* The full path: the input is merged with everything the session knows    *)
(* and runs on a new VM.  It is taken when the other two are not, and when *)
(* the relocatable compiler rejects the input.                             *)
(***************************************************************************)
EarlyCall(in) ==
    \E i, j \in DOMAIN in : i < j /\ in[i][1] = "call" /\ in[j] = <<"module", in[i][2]>>

FullPath(in) ==
    /\ Given(in)
    /\ ~FreshDelta(in)
    /\ EarlyCall(in) => "early_call" \in Shapes

\* merge_definitions: the input's own methods come first; prior ones with
\* the same signature, and prior modules with the same name, are dropped.
FullTable(in) == Bodies(in) \o Without(functions, Named(in, "def"))

\* Mutant: __init__ is suppressed for no module.
ReplayedAll == {m \in Modules : modules[m] # 0}

\* suppress_module_reinit: the modules of the session whose __init__ is left.
Replayed == {m \in Modules : modules[m] # 0} \ initialized

\* restore_module_globals: the bodies of the session's modules run again, and
\* give them the state they had.
Restored(in) ==
    [Mirror EXCEPT
        !.active = ToSet(Without(functions, Named(in, "def"))),
        !.state = [m \in Modules |-> IF m \in Replayed THEN Initial ELSE @[m]]]

\* The bodies of the modules and their __init__ are compiled in front of main:
\* all of them have run when main starts.
Executed(in, reached) ==
    LET bodies == InOrder({i \in DOMAIN in : in[i][1] = "module"})
        main == InOrder({i \in DOMAIN reached : reached[i][1] # "module"})
    IN  [n \in DOMAIN bodies |-> in[bodies[n]]] \o [n \in DOMAIN main |-> reached[main[n]]]

FullWorld(in, reached) == Run(Restored(in), Executed(in, reached))

\* The modules whose __init__ is called.
Called(in) == Named(in, "module") \cup Replayed

EvalFull(in) ==
    /\ FullPath(in)
    /\ live_vm' = [world |-> FullWorld(in, in), table |-> FullTable(in)]
    /\ Extract(FullWorld(in, in))
    /\ functions' = Stored(in)
    /\ usings' = usings \cup Named(in, "using")
    /\ modules' = FullWorld(in, in).mods
    /\ initialized' = initialized \cup Named(in, "module")
    /\ persistent_compile' = [table |-> FullTable(in), active |-> FullWorld(in, in).active]
    /\ Counted(in, Called(in))

LateUsings(in, reached) == Named(in, "using") \ (usings \cup Named(reached, "using"))

\* The inputs that are left out unless their shape is allowed.
Allowed(in, reached) ==
    LET parks == LateUsings(in, reached) \cup Named(reached, "module") = {}
        late(kind) == Named(in, kind) \ Named(reached, kind)
    IN  /\ ~parks /\ IsSome(live_vm) => "stale_vm" \in Shapes
        /\ parks /\ Named(in, "def") = {} /\ IsSome(persistent_compile)
              /\ FullTable(in) # persistent_compile.table => "unaligned" \in Shapes
        /\ (\E b \in ToSet(functions) : b[1] \in late("def")) => "redefinition" \in Shapes
        /\ late("module") # {} => "late_module" \in Shapes
        /\ Named(in, "def") \cup Named(reached, "module") # {} /\ LateUsings(in, reached) # {}
              => "late_using" \in Shapes
        /\ Named(reached, "module") # {} => "module_error" \in Shapes

\* The input throws and has a recovery plan: it defines a method or a module or
\* imports something.  There is a checkpoint if a method was compiled or a module
\* stands before the error; with one, from_reached counts all modules of the input
\* as reached, since all of them have their bindings by now.  The new VM is parked
\* unless it knows of an import that was not reached or of a module that was;
\* then the old one, if any, stays.
RecoverFull(in, reached) ==
    LET world == FullWorld(in, reached)
        checkpoint == Named(in, "def") \cup Named(reached, "module") # {}
    IN  /\ FullPath(in)
        /\ ~DefinitionFree(in)
        /\ Allowed(in, reached)
        /\ Extract(world)
        /\ functions' = Stored(reached)
        /\ usings' = usings \cup Named(IF checkpoint THEN in ELSE reached, "using")
        /\ modules' = IF checkpoint THEN world.mods ELSE modules
        /\ persistent_compile' =
              IF checkpoint THEN [table |-> FullTable(in), active |-> world.active]
              ELSE persistent_compile
        /\ live_vm' =
              IF LateUsings(in, reached) \cup Named(reached, "module") = {}
              THEN [world |-> world, table |-> FullTable(in)]
              ELSE live_vm
        /\ Counted(reached, Called(in))
        /\ UNCHANGED initialized

\* The input throws and defines nothing: the rebuilt VM and its compiled
\* prefix are kept, with what the input did.
RecoverExpression(in, reached) ==
    LET world == FullWorld(in, reached)
    IN  /\ FullPath(in)
        /\ DefinitionFree(in)
        /\ Extract(world)
        /\ persistent_compile' = [table |-> FullTable(in), active |-> world.active]
        /\ live_vm' = [world |-> world, table |-> FullTable(in)]
        /\ Counted(reached, Called(in))
        /\ UNCHANGED <<functions, usings, modules, initialized>>

-----------------------------------------------------------------------------
\* An error that Julia code cannot catch (cancellation, an internal error), on
\* any path: the VM is dropped, and with it all the input did.
Abort ==
    /\ eval_count < MaxEvals
    /\ live_vm' = None
    /\ eval_count' = eval_count + 1
    /\ UNCHANGED <<session, initialized, persistent_compile, truth, inits>>

\* reset: the automatic imports are cleared with the others.
Reset ==
    /\ globals' = [x \in Vars |-> 0]
    /\ functions' = <<>>
    /\ usings' = {}
    /\ modules' = NoModule
    /\ module_globals' = NoModule
    /\ initialized' = {}
    /\ persistent_compile' = None
    /\ live_vm' = None
    /\ eval_count' = 0
    /\ truth' = EmptyWorld({})
    /\ inits' = NoModule

Succeed(in) == EvalLive(in) \/ EvalFreshDelta(in) \/ EvalFull(in)

\* The input throws after the statements in reached.
Throw(in, reached) ==
    \/ CheckpointLive(in, reached)
    \/ RollbackLive(in, reached)
    \/ FailFreshDelta(in, reached)
    \/ RecoverFull(in, reached)
    \/ RecoverExpression(in, reached)

Next ==
    \/ \E in \in Inputs : Succeed(in)
    \/ \E in \in Inputs : \E k \in 0..Len(in) : Throw(in, SubSeq(in, 1, k))
    \/ Abort
    \/ Reset

Spec == Init /\ [][Next]_vars

-----------------------------------------------------------------------------
(***************************************************************************)
(* Properties.                                                             *)
(***************************************************************************)
Stamps == 0..MaxEvals
States == 0..(2 * MaxEvals + 1)
World == [vals : [Vars -> Stamps], active : SUBSET (Fns \X Stamps), uses : SUBSET Packages,
          mods : [Modules -> Stamps], state : [Modules -> States]]
OnePerName(bodies) == \A a, b \in bodies : a[1] = b[1] => a = b
IsTable(t) == t \in Seq(Fns \X Stamps) /\ IsInjective(t)

\* The session's data is of its type, and there is one definition of a method
\* in the session, and one active in the compiled prefix and in the live VM.
TypeOK ==
    /\ Mirror \in World /\ truth \in World
    /\ functions \in Seq(Fns \X Stamps)
    /\ OnePerName(ToSet(functions)) /\ IsInjective(functions)
    /\ initialized \subseteq Modules
    /\ eval_count \in Stamps
    /\ inits \in [Modules -> Nat]
    /\ IsSome(persistent_compile) =>
          /\ IsTable(persistent_compile.table)
          /\ persistent_compile.active \subseteq ToSet(persistent_compile.table)
          /\ OnePerName(persistent_compile.active)
    /\ IsSome(live_vm) =>
          /\ IsTable(live_vm.table)
          /\ live_vm.world \in World
          /\ live_vm.world.active \subseteq ToSet(live_vm.table)
          /\ OnePerName(live_vm.world.active)

\* Between two inputs the session says exactly what the statements that ran
\* have made, on whichever paths they ran and wherever they stopped: no
\* completed statement is lost, none that was not reached takes effect.
SessionExact == Mirror = truth

\* The compiled prefix that an input may be compiled against calls what the
\* session has defined and nothing else; and the VM such an input may be appended
\* to has the session's values, methods and modules, and the bodies of the prefix
\* at the places the prefix says.
LiveExact ==
    Eligible(<<>>) =>
        /\ persistent_compile.active = ToSet(functions)
        /\ IsSome(live_vm) =>
              live_vm.world = Mirror /\ live_vm.table = persistent_compile.table

\* The __init__ of a module has run once since the module was defined, however
\* often the session was rebuilt, and not at all where no definition of the module
\* was reached.
InitOnce == \A m \in Modules : inits[m] = IF truth.mods[m] = 0 THEN 0 ELSE 1

\* A module that the session keeps is one whose definition was reached:
\* source-later modules are not persisted (store_recovered_modules).
LaterNotPersisted == \A m \in Modules : modules[m] # 0 => truth.mods[m] # 0
=============================================================================
