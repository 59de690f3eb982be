CONSTANTS
  Width <- MCWidth
  MaxMsgs <- MCMaxMsgs
  MaxCredit <- MCMaxCredit
  MaxFlows <- MCMaxFlows
SPECIFICATION Spec
INVARIANT DetachedHoldsNoQueuedSends
CHECK_DEADLOCK FALSE
