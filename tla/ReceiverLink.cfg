CONSTANTS
  Width <- MCWidth
  MaxGrant <- MCMaxGrant
  MaxGrants <- MCMaxGrants
  MaxTransfers <- MCMaxTransfers
  MaxOverruns <- MCMaxOverruns
  MaxCloses <- MCMaxCloses
SPECIFICATION Spec
INVARIANT TypeOK
INVARIANT LimitDetachOnlyForOverrun
PROPERTY TransfersDelivered
PROPERTY ImplementsLossyChannel
CHECK_DEADLOCK FALSE
