SPECIFICATION FairSpec
CONSTANTS
    Event <- MCEvent
    MaxConn = 2
    TcpWorkers = 1
    QueueSize = 1
    BatchSize = 2
    MaxEps = 2
    PerIpMaxEps = 1
    MaxTime = 1
    None = None
INVARIANTS EventsInOnePlace StopDrains
PROPERTY EverybodyIsServed
CHECK_DEADLOCK FALSE
