SPECIFICATION Spec
CONSTANTS
  None = None
  Tune <- MCTune
  Srcs <- MCSrcs
  FlowKinds <- MCFlowKinds
  SuppRules <- MCSuppRules
  Rule <- MCRule
  Assets <- MCAssets
  Bases <- MCBases
  Statuses = {"open", "resolved"}
  Private = {}
  Suspects = {"a"}
  Step = 10
  MaxTime = 20
  FlowWindow = 10
  Merge = 10
  Idle = 5
  Close = 10
  Ttl = 15
  MaxIncidents = 2
  MaxRequests = 3
INVARIANTS NoTwins ToldAndPriced ListsTakeEffect
CHECK_DEADLOCK FALSE
