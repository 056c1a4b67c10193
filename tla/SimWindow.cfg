SPECIFICATION FairSpec
CONSTANTS
  QueueSize = 3
  Settings = 2
  Batch = 2
  Keys <- MCKeys
  Break = 240
  MaxTyped = 3
  MaxWritten = 3
INVARIANTS
  KeysInOrder
  OneStepAtATime
  SettingsInPlace
PROPERTIES
  ResetHolds
  StartRuns
  ButtonSeen
