CONSTANTS
    Vars = {x}
    Fns = {f, g}
    Modules = {M}
    Packages = {U, A}
    AutoImports = {A}
    Inputs <- MCInputs
    MaxEvals = 4
    Shapes = {"stale_vm"}
SPECIFICATION Spec
INVARIANT LiveExact
