SPECIFICATION FairJobSpec
CONSTANTS
    j1 = j1
    j2 = j2
    triggered = triggered
    Nobody = Nobody
    Job = {j1, j2}
    Mixes <- MCMixes
    KeyOf <- MCKeyOf
    NameOf <- MCNameOf
    NStages = 1
    MaxConcurrent = 2
    MaxRuns = 2
    MaxFaults = 1
INVARIANT RowRunAndFileAgree
PROPERTIES FinishedStays QueuedIsFinished
CHECK_DEADLOCK FALSE
