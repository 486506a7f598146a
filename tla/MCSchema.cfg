SPECIFICATION Spec
CONSTANTS MaxCommands = 5  MaxKills = 2
INVARIANTS RevisionsApply HeadFitsModels
CHECK_DEADLOCK FALSE
