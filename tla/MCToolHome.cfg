SPECIFICATION Spec
CONSTANTS
    Procs = {p1, p2}
    Packages = {a, b}
    MaxVersion = 2
    Names <- ToolNames
    Paths <- ToolPaths
    Reserved <- RootCommands
    None = None
    Torn = Torn
    Environments <- OneOrTwo
SYMMETRY Symmetry
INVARIANTS TypeOK ToolsWork NoStrays NoConflicts CliStarts
PROPERTY FailedAddBreaksNothing
CHECK_DEADLOCK FALSE
