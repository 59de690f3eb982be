CONSTANTS
  FixedCredit <- MCFixedCredit
  MaxCalls <- MCMaxCalls
  MaxTransfers <- MCMaxTransfers
  MaxOverruns <- MCMaxOverruns
SPECIFICATION Spec
INVARIANT TypeOK
INVARIANT InArrivalOrder
PROPERTY TransfersDelivered
CHECK_DEADLOCK FALSE
