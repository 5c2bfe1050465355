CONSTANTS
  MaxEvents = 3
  MaxCommits = 3
  ChannelSize = 1
SPECIFICATION Spec
INVARIANTS
  TypeOK
  ConfigBetween
  TriggeredOnce
  SkippedNotTriggered
PROPERTY PushBuilt
CHECK_DEADLOCK FALSE
