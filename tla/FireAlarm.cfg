\* Three sizes, all given in the module.
SPECIFICATION FireFairSpec
INVARIANTS
  MediansOfReadings
  HeatIsSustained
  NeverTooHot
PROPERTIES
  HeatRaisesAlarms
