CONSTANTS
  Width <- MCWidth
  MaxGrant <- MCMaxGrant
  MaxGrants <- MCMaxGrants
  MaxTransfers <- MCMaxTransfers
  MaxOverruns <- MCMaxOverruns
  MaxCloses <- MCMaxCloses
SPECIFICATION Spec
PROPERTY StreamEndsAfterDetach
CHECK_DEADLOCK FALSE
