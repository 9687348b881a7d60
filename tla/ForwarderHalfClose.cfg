\* A tcp request: one peer finishes while the other stays idle.
CONSTANTS
  c1 = c1
  Conns <- MCConns
  Nets = {"tcp"}
  MaxMsgs = 1

SPECIFICATION Spec

PROPERTY HandlerReturnsAfterFirstCopier

CHECK_DEADLOCK FALSE
