\* SOCKS4 CONNECT through the user connect handler.
CONSTANTS
  c1 = c1
  Conns <- MCConns
  MaxMsgs = 1
  Listeners = {"socks"}
  FirstBytes = {4}
  HasCredentials = FALSE
  S5Commands = {"connect"}
  S4Commands = {"connect", "other"}
  HttpKinds = {"connect"}
  HttpEarlyData = FALSE
  HandlerModes = {"user"}

SPECIFICATION Spec

INVARIANT ReplyBeforeData

CHECK_DEADLOCK FALSE
