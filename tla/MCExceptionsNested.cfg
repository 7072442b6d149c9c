CONSTANTS
    MaxDepth = 5
    MaxExc = 3
    Statements <- SomeStatements
    Shapes = {"nested"}
SPECIFICATION Spec
PROPERTIES
    FinallyResumes
CHECK_DEADLOCK FALSE
