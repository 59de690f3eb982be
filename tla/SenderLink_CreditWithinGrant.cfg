CONSTANTS
  Width <- MCWidth
  MaxMsgs <- MCMaxMsgs
  MaxCredit <- MCMaxCredit
  MaxFlows <- MCMaxFlows
SPECIFICATION Spec
INVARIANT CreditWithinGrant
CHECK_DEADLOCK FALSE
