SPECIFICATION Spec
CONSTANTS
  User = {"ada", "bob"}
  Admin = {"ada"}
  Analysis = {x, y}
  Finding = {"f"}
  Request = {q1, q2, q3}
  State = {"in_progress", "dismissed"}
  Verdict = {"correct", "incorrect"}
  AlertLimit = 1
  Nobody = Nobody
  Gone = Gone
SYMMETRY Symmetry
INVARIANTS AssigneeWasTold OpenWorkIsQueued
PROPERTIES StaleRightsNeedOverlap DecisionsStand
CHECK_DEADLOCK FALSE
