\* SOCKS5 and HTTP CONNECT whose tunnel dial may fail.
CONSTANTS
  c1 = c1
  Conns <- MCConns
  MaxMsgs = 1
  Listeners = {"socks", "http"}
  FirstBytes = {5}
  HasCredentials = FALSE
  S5Commands = {"connect"}
  S4Commands = {"connect", "other"}
  HttpKinds = {"connect"}
  HttpEarlyData = FALSE
  HandlerModes = {"user"}

SPECIFICATION Spec

INVARIANT NoGrantOnDialFailure

CHECK_DEADLOCK FALSE
