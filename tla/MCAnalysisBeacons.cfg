SPECIFICATION Spec
CHECK_DEADLOCK FALSE
CONSTANTS
  None = None
  Packet <- BeaconPacket
  Gap = {1}
  Profiles = {"balanced"}
  MaxPackets = 6
  MaxAttempts = 1
  Limit <- MCLimit
  Private = {1, 2}
  Sensitive = {22}
  WellKnown <- MCWellKnown
  Many = 1
  Suppressions <- BeaconSuppressions
  Whitelists <- MCWhitelists
INVARIANT UnmatchedStayActive
