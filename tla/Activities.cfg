SPECIFICATION FairSpec
CONSTANTS
  Instances <- MCInstances
  MaxStack = 1
INVARIANTS TypeOK DrawsTheCurrent WaitedForItsFrame
PROPERTIES UpdateDrawn TransitionDone WaitEnds
