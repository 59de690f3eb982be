CONSTANTS
  FixedCredit <- MCFixedCredit
  MaxCalls <- MCMaxCalls
  MaxTransfers <- MCMaxTransfers
  MaxOverruns <- MCMaxOverruns
SPECIFICATION Spec
CHECK_DEADLOCK FALSE
INVARIANT FlowCarriesDeliveryCount
