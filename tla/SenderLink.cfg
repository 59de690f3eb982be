CONSTANTS
  Width <- MCWidth
  MaxMsgs <- MCMaxMsgs
  MaxCredit <- MCMaxCredit
  MaxFlows <- MCMaxFlows
SPECIFICATION Spec
INVARIANT TypeOK
INVARIANT InSendOrder
INVARIANT PendingOnlyWhenStarved
INVARIANT PromiseAccounted
 
CHECK_DEADLOCK FALSE
