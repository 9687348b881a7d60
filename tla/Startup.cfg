\* Startup and shutdown with the code's deadlines, two peers and both
\* listeners configured.
CONSTANTS
  p1 = p1
  p2 = p2
  Peers <- MCPeers
  HsDeadline = 15
  ProbeDeadline = 10
  Configured = {"socks", "http"}

SPECIFICATION Spec

INVARIANT ListenersOnlyOverLiveTunnel
INVARIANT NoListenerLeftOnFailure

PROPERTY StartupTerminates
PROPERTY LifecycleRefinement

\* The process exits; nothing runs afterwards.
CHECK_DEADLOCK FALSE
