SPECIFICATION Spec
CONSTANTS
    Event <- MCEvent
    Timeout = 1
    MaxActiveFlows = 1
    MaxTime = 3
INVARIANTS WindowsAndCounters LabelsAgree
PROPERTY ImplementsLedger
