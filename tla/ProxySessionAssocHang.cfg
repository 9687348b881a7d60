\* SOCKS5 UDP ASSOCIATE clients that may hang up before any datagram.
CONSTANTS
  c1 = c1
  Conns <- MCConns
  MaxMsgs = 1
  Listeners = {"socks"}
  FirstBytes = {5}
  HasCredentials = FALSE
  S5Commands = {"associate"}
  S4Commands = {"connect", "other"}
  HttpKinds = {"connect"}
  HttpEarlyData = FALSE
  HandlerModes = {"user"}

SPECIFICATION Spec

PROPERTY HangupEndsSession

CHECK_DEADLOCK FALSE
