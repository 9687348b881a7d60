\* HTTP CONNECT whose client sends tunnel data right behind its request,
\* before the 200 reply (HttpEarlyData), as pipelining clients do.
CONSTANTS
  c1 = c1
  Conns <- MCConns
  MaxMsgs = 1
  Listeners = {"http"}
  FirstBytes = {5}
  HasCredentials = FALSE
  S5Commands = {"connect"}
  S4Commands = {"connect"}
  HttpKinds = {"connect"}
  HttpEarlyData = TRUE
  HandlerModes = {"user"}

SPECIFICATION Spec

INVARIANT NoDataLostAtClose

CHECK_DEADLOCK FALSE
