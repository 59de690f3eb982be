CONSTANTS
  None = NoneValue
  NoneValue = NoneValue
  LocalChoices <- MCLocalChoices
  RemoteChoices <- MCRemoteChoices
  MaxTime <- MCMaxTime
  MaxQueued <- MCMaxQueued
SPECIFICATION Spec
INVARIANT TypeOK
INVARIANT NoEarlyClose
INVARIANT HeartbeatInTime
CHECK_DEADLOCK FALSE
