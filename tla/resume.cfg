SPECIFICATION Spec
CONSTANTS
  NoThread = NoThread
  NoLoop = NoLoop
  Msg <- MCMsg
  Channel <- MCChannel
  Thread <- MCThread
  Loop <- MCLoop
  Corrupt <- MCCorrupt
  HomeKnown = TRUE
  Staleness = 1
  Downtimes = {0, 1, 2}
  MaxBoots = 2
  MaxDeploys = 1
  MaxFaults = 1
CHECK_DEADLOCK FALSE
INVARIANTS
  InterruptedIsReplayed
  RunsOncePerInterrupt
PROPERTIES
  DroppedOnlyForALock
  ResumesOwnTranscript
  InterruptedIsSettled
