CONSTANTS
    Vars = {x}
    Fns = {f, g}
    Modules = {M}
    Packages = {U, A}
    AutoImports = {A}
    Inputs <- MCInputs
    MaxEvals = 4
    Shapes = {"late_module"}
SPECIFICATION Spec
INVARIANT LaterNotPersisted
