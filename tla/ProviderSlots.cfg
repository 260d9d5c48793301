\* Four calls over two providers at ceilings of three and one.
SPECIFICATION Spec
CONSTANTS
  Calls = {a1, a2, a3, a4}
  ChainLength = 2
  Models <- ModelsOfChain
  Keys <- KeysOfChain
  MaxRetries = 1
  Ceiling <- Tight
  Threshold = 1
SYMMETRY Callers
INVARIANTS TypeOK SlotsMatchHolders NoIdleSlot QueuesListWaiters NoCircularWait
PROPERTIES FirstComeFirstServed CallsAdvance
