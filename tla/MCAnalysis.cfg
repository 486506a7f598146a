SPECIFICATION Spec
CHECK_DEADLOCK FALSE
CONSTANTS
  None = None
  Packet <- MCPacket
  Gap <- MCGap
  Profiles = {"balanced"}
  MaxPackets = 3
  MaxAttempts = 2
  Limit <- MCLimit
  Private = {1, 2}
  Sensitive = {22}
  WellKnown <- MCWellKnown
  Many = 1
  Suppressions <- MCSuppressions
  Whitelists <- MCWhitelists
INVARIANTS ExchangesPaired FindingsAgree VerdictsAgree RegressionsTold
