SPECIFICATION MCZoneSpec
CONSTANTS
  OwnPayloads = {"a"}
  OtherPayloads = {"x"}
  OwnConfigs = {"d"}
  OtherConfigs = {}
  Depth = 2
  StaleSlots = 1
  MaxL1Blocks = 4
  MaxFundings = 1
  MaxBreaks = 1
INVARIANT ZoneIsSound
CHECK_DEADLOCK FALSE
