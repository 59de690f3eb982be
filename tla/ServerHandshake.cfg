CONSTANT MaxClientMsgs <- MCMaxClientMsgs
SPECIFICATION Spec
INVARIANT TypeOK
INVARIANT RepliesMatchRequests
INVARIANT DispatchOnlyWhenEstablished
CHECK_DEADLOCK FALSE
