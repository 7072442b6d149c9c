CONSTANTS
    Vars = {x}
    Fns = {f, g}
    Modules = {M}
    Packages = {U, A}
    AutoImports = {A}
    Inputs <- MCInputs
    MaxEvals = 4
    Shapes = {}
SYMMETRY Methods
SPECIFICATION Spec
INVARIANTS
    TypeOK
    SessionExact
    LiveExact
    InitOnce
