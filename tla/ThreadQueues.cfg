SPECIFICATION FairSpec
CONSTANTS
  a = a
  b = b
  c = c
  Worker <- Three
  Doomed <- TwoDoomed
  Queue0 <- QueueAB
  Preempt <- NoPreempt
  Boot = Boot
  Idle = Idle
  None = None
  Irq = Irq
PROPERTIES
  ImplementsFifo
  ReadyRuns
