SPECIFICATION FairSenderSpec
CONSTANTS
    FlowEvent = {e1, e2, e3}
    Unreadable = {e3}
    BatchSize = 2
    MaxFaults = 3
PROPERTIES AccountedFor BufferedIsStored
CHECK_DEADLOCK FALSE
