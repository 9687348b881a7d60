\* One connection on either listener, with the servers built with vt.handler or
\* without user handlers; SOCKS4, SOCKS5 (credentials configured) and
\* HTTP clients, each request handed to the forwarder; each peer sends up to
\* two messages, so one can be pending while the other side half-closes.
CONSTANTS
  c1 = c1
  Conns <- MCConns
  MaxMsgs = 2
  Listeners = {"socks", "http"}
  FirstBytes = {4, 5, 0}
  HasCredentials = TRUE
  S5Commands = {"connect", "bind", "associate", "other"}
  S4Commands = {"connect", "bind", "other"}
  HttpKinds = {"connectip", "connectip_nocap", "connect", "absolute", "malformed"}
  HttpEarlyData = FALSE
  HandlerModes = {"user", "embedded"}

SPECIFICATION Spec

INVARIANT AuthGate
INVARIANT RepliesWellFormed
 
INVARIANT BindPeerChecked
PROPERTY BindCleanup
PROPERTY UdpHandlerReturns
INVARIANT NoDataLostAtClose
INVARIANT EmbeddedReplyFollowsDial
PROPERTY AssociationTiedToControl
PROPERTY AcceptLoopsReturn

\* Every connection ends closed and a silent peer may never act again.
CHECK_DEADLOCK FALSE
