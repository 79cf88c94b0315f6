SPECIFICATION Spec
CONSTANTS
  FilterKeys <- MCFilterKeys
  PowerKeys <- MCPowerKeys
  PatternKey = "pattern"
  Values = {0, 1}
  FactoryValue = 0
  Targets = {"home", "m1"}
  SsidTargets = {"home"}
  MaxTargets = 1
  MaxFailed = 1
 
PROPERTIES CutKeepsOldOrNew EverySetterReturns TargetsPersist
CHECK_DEADLOCK TRUE
