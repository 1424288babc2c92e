CONSTANTS
    Graphs <- MCCapturedGraphs
    Unknown = Unknown
    NoName = ""
SPECIFICATION Spec
INVARIANT CapturesIntact
