---------------------------- MODULE MCForwarder ----------------------------
(* Model-checking instance of Forwarder.  Requests share no state in the   *)
(* handler (each has its own connections, goroutines and done channel), so *)
(* one request whose network is chosen from Nets covers the behaviours.    *)
EXTENDS Forwarder

CONSTANTS c1

MCConns == {c1}
=============================================================================
