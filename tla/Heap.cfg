SPECIFICATION Spec
CONSTANTS
  c1 = c1
  c2 = c2
  Caller <- TwoCallers
  Request <- Requests
  HeapSize = 20
  Header = 1
  Align = 2
  Live = 2
  Preempt <- Nowhere
INVARIANTS Exclusive BlocksFill ChurnBounded
