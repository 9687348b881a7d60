--------------------------- MODULE MCProxySession ---------------------------
(* Model-checking instance of ProxySession: one accepted connection.       *)
EXTENDS ProxySession

CONSTANTS c1

MCConns == {c1}
=============================================================================
