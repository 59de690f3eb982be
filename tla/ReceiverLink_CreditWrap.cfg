CONSTANTS
  Width <- MCWidthSmall
  MaxGrant <- MCMaxGrant
  MaxGrants <- MCMaxGrantsWrap
  MaxTransfers <- MCMaxTransfers
  MaxOverruns <- MCMaxOverruns
  MaxCloses <- MCMaxCloses
SPECIFICATION Spec
INVARIANT LimitDetachOnlyForOverrun
CHECK_DEADLOCK FALSE
