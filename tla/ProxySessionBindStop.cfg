\* SOCKS5 BIND clients while the proxy may be stopped; a remote host may
\* connect to the BIND listener before or after the Stop.
CONSTANTS
  c1 = c1
  Conns <- MCConns
  MaxMsgs = 1
  Listeners = {"socks"}
  FirstBytes = {5}
  HasCredentials = FALSE
  S5Commands = {"bind"}
  S4Commands = {"connect", "other"}
  HttpKinds = {"connect"}
  HttpEarlyData = FALSE
  HandlerModes = {"user"}

SPECIFICATION Spec

PROPERTY BindReleasedAfterStop

CHECK_DEADLOCK FALSE
