SPECIFICATION Spec
CONSTANTS
    a1 = a1
    q1 = q1
    healthy = healthy
    broken = broken
    NoRow = NoRow
    None = None
    Monitor = {1, 2}
    Analysis = {a1}
    Query = {q1}
    Content = {healthy, broken}
    ResultOf <- MCResultOf
    Bare = {broken}
    PairOf <- MCPairOf
    Cooldown = 0
    Assignee <- MCAssignee
    Outcome <- MCOutcome
    Baseline <- MCBaseline
    Rule <- MCRule
    MaxRuns = 2
    MaxRequests = 2
    MaxTime = 1
INVARIANTS NoOrphanHistory 
PROPERTIES ClosedStaysClosed
CHECK_DEADLOCK FALSE
