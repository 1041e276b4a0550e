SPECIFICATION FairSpec
CONSTANTS
  w1 = w1
  w2 = w2
  p1 = p1
  Worker <- TwoWorkers
  UserProc <- OneProc
  Boot = Boot
  Idle = Idle
  Kernel = Kernel
  None = None
  Preempt <- InUnblock
INVARIANTS
  TypeOK
  NoDanglingThread
  NoDanglingProcess
  
  NoThreadLost
  CountMatches
  AddressSpaceFollows
PROPERTIES
  NoOvertaking
  DeadStayDead
  EnqueuedRuns
  SweptProcessReaped
  ExitHitsOnlyExited
