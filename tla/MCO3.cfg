SPECIFICATION Spec
CONSTANTS
    None = None
    Arch = {"a"}
    Fixed = {"m"}
    Phys = {"p1", "p2", "p3"}
    Programs <- MCPrograms
    MaxBad <- MCMaxBad
    DecodeWidth = 2
    RenameWidth = 2
    CommitWidth = 2
    SquashWidth = 1
    NumEntries = 4
    LongestLatency = 3
CHECK_DEADLOCK FALSE
INVARIANTS AssertsHold RegistersConserved HistoryRestoresCommitted SerializedAlone
PROPERTIES CommitsWithoutGaps PipelineDrains
