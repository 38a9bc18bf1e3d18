SPECIFICATION Spec
CONSTANTS
    Procs = {p1, p2}
    Packages = {a, b}
    MaxVersion = 2
    Names <- ToolNames
    Paths <- ToolPaths
    Reserved <- RootCommands
    None = None
    Torn = Torn
    Environments <- Again
SYMMETRY Symmetry
INVARIANT OneEntry
CHECK_DEADLOCK FALSE
