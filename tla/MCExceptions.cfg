CONSTANTS
    MaxDepth = 5
    MaxExc = 3
    Statements <- SomeStatements
    Shapes = {}
SPECIFICATION Spec
INVARIANTS
    TypeOK
    HandlersExact
    CaughtExact
PROPERTIES
    FinallyResumes
    FinallyOnce
CHECK_DEADLOCK FALSE
