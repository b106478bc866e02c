SPECIFICATION Spec
CONSTANTS
  MaxStreams = 2
  MaxData = 1
  MaxWaiting = 2
INVARIANT SurvivesPluginCrash
CHECK_DEADLOCK FALSE
