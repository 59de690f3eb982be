CONSTANT MaxClientMsgs <- MCMaxClientMsgs
SPECIFICATION Spec
INVARIANT ServiceErrorClosed
CHECK_DEADLOCK FALSE
