CONSTANTS
    Graphs <- MCGraphs
    Unknown = Unknown
    NoName = ""
SPECIFICATION Spec
INVARIANT ReadsIntact
