----------------------------- MODULE Forwarder -----------------------------
(***************************************************************************)
(* The forwarding handler of the virtual tunnel (src/vtun.go):             *)
(* virtualTun.handler dials the destination through the netstack, starts   *)
(* two copier goroutines running copyConnTimeout (client -> tunnel and     *)
(* tunnel -> client), receives twice from the `done` channel (capacity 1)  *)
(* and only then, in its deferred function, closes both connections.      *)
(*                                                                         *)
(* Bytes are abstracted to counted messages.  The two peers (the proxy     *)
(* client and the remote host reached through the tunnel) are the          *)
(* environment: they send, half-close (FIN, seen as io.EOF) or reset       *)
(* (ECONNRESET) whenever they like, and are never obliged to act.          *)
(***************************************************************************)
EXTENDS Naturals, Sequences

CONSTANTS
  Conns,     \* the ProxyRequests handed to the handler (model values)
  Nets,      \* the Network strings front-ends may put in a ProxyRequest
  MaxMsgs    \* bound on the messages each peer sends on one connection

ASSUME MaxMsgs \in Nat \ {0}

Networks    == {"tcp", "tcp4", "tcp6", "udp", "udp4", "udp6"}
UdpNetworks == {"udp", "udp4", "udp6"}

ASSUME Nets \subseteq Networks

Sides == {"client", "remote"}
Dirs  == {"up", "down"}        \* up: req.Conn -> conn; down: conn -> req.Conn

Src(d) == IF d = "up" THEN "client" ELSE "remote"
Dst(d) == IF d = "up" THEN "remote" ELSE "client"

\* Copier results sent on `done`; "nil" is a nil error (clean io.EOF).
Results == {"nil", "reset", "timeout", "writeErr"}

VARIABLES
  hpc,        \* handler program counter
  net,        \* net[c]: req.Network ("none" before the request arrives)
  cpc,        \* cpc[c][d]: copier goroutine of direction d
  cerr,       \* cerr[c][d]: the error a copier is about to send on done
  doneq,      \* doneq[c]: contents of the buffered `done` channel
  firstErr,   \* the error received first (only logged by the code)
  result,     \* what handler returned ("none" while it runs)
  peer,       \* peer[c][s]: "none" (not dialed), "open", "fin" or "rst"
  pending,    \* pending[c][s]: messages s's peer sent that we have not read
  sent,       \* sent[c][s]: messages s's peer has sent in total
  delivered,  \* delivered[c][s]: messages written by us to side s
  closed      \* closed[c][s]: our end of side s is closed

vars == <<hpc, net, cpc, cerr, doneq, firstErr, result, peer, pending, sent,
          delivered, closed>>

HandlerStates == {"idle", "dial", "wait1", "wait2", "done"}
CopierStates  == {"none", "run", "send", "exit"}
PeerStates    == {"none", "open", "fin", "rst"}

-----------------------------------------------------------------------------
(* Helpers translated from the code.                                       *)

\* Fault variant: no read deadline for any network.
TimeoutNone(c) == 0

\* handler: `timeout := 0`; 15s for the udp networks.  Only its being zero
\* or not matters to the model: a non-zero timeout arms a read deadline.
Timeout(c) == IF net[c] \in UdpNetworks THEN 15 ELSE 0

\* A datagram endpoint has no FIN or RST: the tunnel side of a udp request
\* can only send.
CanClose(c, s) == ~(s = "remote" /\ net[c] \in UdpNetworks)

\* Copier 1 (client -> tunnel) turns ECONNRESET into nil; copier 2 does not.
ResetResult(d) == IF d = "up" THEN "nil" ELSE "reset"

SetCopier(c, d, st, e) ==
  /\ cpc'  = [cpc  EXCEPT ![c][d] = st]
  /\ cerr' = [cerr EXCEPT ![c][d] = e]

-----------------------------------------------------------------------------
(* Handler actions.                                                        *)

\* A protocol front-end hands a ProxyRequest of network n to the handler;
\* `lost` of the client's unread messages were consumed by the front end's
\* own reader and are not in req.Conn any more.
Submit(c, n, lost) ==
  /\ hpc[c] = "idle"
  /\ lost <= pending[c]["client"]
  /\ hpc' = [hpc EXCEPT ![c] = "dial"]
  /\ net' = [net EXCEPT ![c] = n]
  /\ pending' = [pending EXCEPT ![c]["client"] = @ - lost]
  /\ UNCHANGED <<cpc, cerr, doneq, firstErr, result, peer, sent,
                 delivered, closed>>

\* vt.Tnet.Dial fails: the error is returned; nothing is closed here.
DialFail(c) ==
  /\ hpc[c] = "dial"
  /\ hpc'    = [hpc EXCEPT ![c] = "done"]
  /\ result' = [result EXCEPT ![c] = "dialErr"]
  /\ UNCHANGED <<net, cpc, cerr, doneq, firstErr, peer, pending, sent,
                 delivered, closed>>

\* Dial succeeds, the timeout is chosen, the deferred close is registered
\* and both copier goroutines start, each taking a buffer from the pool.
DialOk(c) ==
  /\ hpc[c] = "dial"
  /\ hpc'  = [hpc EXCEPT ![c] = "wait1"]
  /\ peer' = [peer EXCEPT ![c]["remote"] = "open"]
  /\ cpc'  = [cpc EXCEPT ![c] = [d \in Dirs |-> "run"]]
  /\ UNCHANGED <<net, cerr, doneq, firstErr, result, pending, sent, delivered,
                 closed>>

RecvFirst(c) ==
  /\ hpc[c] = "wait1"
  /\ doneq[c] # <<>>
  /\ firstErr' = [firstErr EXCEPT ![c] = Head(doneq[c])]
  /\ doneq'    = [doneq EXCEPT ![c] = Tail(@)]
  /\ hpc'      = [hpc EXCEPT ![c] = "wait2"]
  /\ UNCHANGED <<net, cpc, cerr, result, peer, pending, sent, delivered, closed>>

\* <-done, then return nil: the deferred function closes conn and req.Conn.
RecvSecond(c) ==
  /\ hpc[c] = "wait2"
  /\ doneq[c] # <<>>
  /\ doneq'  = [doneq EXCEPT ![c] = Tail(@)]
  /\ hpc'    = [hpc EXCEPT ![c] = "done"]
  /\ closed' = [closed EXCEPT ![c] = [s \in Sides |-> TRUE]]
  /\ result' = [result EXCEPT ![c] = "nil"]
  /\ UNCHANGED <<net, cpc, cerr, firstErr, peer, pending, sent, delivered>>

-----------------------------------------------------------------------------
(* Copier actions: one iteration of the copyConnTimeout loop each.  The    *)
(* read deadline is re-armed before every read, so it can only expire     *)
(* while the source stays idle.                                            *)

\* src.Read returns a message and dst.Write writes all of it.  A peer
\* that sent FIN can still receive; one that reset cannot.
CopyData(c, d) ==
  /\ cpc[c][d] = "run"
  /\ pending[c][Src(d)] > 0
  /\ peer[c][Src(d)] # "rst"
  /\ pending' = [pending EXCEPT ![c][Src(d)] = @ - 1]
  /\ \/ /\ peer[c][Dst(d)] # "rst"
        /\ delivered' = [delivered EXCEPT ![c][Dst(d)] = @ + 1]
        /\ UNCHANGED <<cpc, cerr>>
     \/ /\ peer[c][Dst(d)] = "rst"
        /\ SetCopier(c, d, "send", "writeErr")
        /\ UNCHANGED delivered
  /\ UNCHANGED <<net, hpc, doneq, firstErr, result, peer, sent, closed>>

\* Fault variant: the error is checked before the bytes returned with it
\* are written, so the data read together with io.EOF is dropped.
CopyEOFDropsTail(c, d) ==
  /\ cpc[c][d] = "run"
  /\ peer[c][Src(d)] = "fin"
  /\ pending' = [pending EXCEPT ![c][Src(d)] = 0]
  /\ SetCopier(c, d, "send", "nil")
  /\ UNCHANGED <<net, hpc, doneq, firstErr, result, peer, sent, delivered, closed>>

\* src.Read returns io.EOF: the loop breaks with a nil error.
CopyEOF(c, d) ==
  /\ cpc[c][d] = "run"
  /\ pending[c][Src(d)] = 0
  /\ peer[c][Src(d)] = "fin"
  /\ SetCopier(c, d, "send", "nil")
  /\ UNCHANGED <<net, hpc, doneq, firstErr, result, peer, pending, sent,
                 delivered, closed>>

\* src.Read returns ECONNRESET; unread data is discarded by the kernel.
CopyReset(c, d) ==
  /\ cpc[c][d] = "run"
  /\ peer[c][Src(d)] = "rst"
  /\ pending' = [pending EXCEPT ![c][Src(d)] = 0]
  /\ SetCopier(c, d, "send", ResetResult(d))
  /\ UNCHANGED <<net, hpc, doneq, firstErr, result, peer, sent, delivered, closed>>

\* The read deadline (udp only) expires while the source is idle.
CopyTimeout(c, d) ==
  /\ cpc[c][d] = "run"
  /\ Timeout(c) # 0
  /\ pending[c][Src(d)] = 0
  /\ peer[c][Src(d)] = "open"
  /\ SetCopier(c, d, "send", "timeout")
  /\ UNCHANGED <<net, hpc, doneq, firstErr, result, peer, pending, sent,
                 delivered, closed>>

\* done <- err blocks while the channel holds a value; afterwards the
\* deferred pool.Put returns the buffer and the goroutine exits.
CopierSend(c, d) ==
  /\ cpc[c][d] = "send"
  /\ Len(doneq[c]) < 1
  /\ doneq' = [doneq EXCEPT ![c] = Append(@, cerr[c][d])]
  /\ cpc'   = [cpc EXCEPT ![c][d] = "exit"]
  /\ UNCHANGED <<net, hpc, cerr, firstErr, result, peer, pending, sent,
                 delivered, closed>>

-----------------------------------------------------------------------------
(* The peers.  Nothing obliges them to act.                                *)

PeerSend(c, s) ==
  /\ peer[c][s] = "open"
  /\ ~closed[c][s]
  /\ sent[c][s] < MaxMsgs
  /\ sent'    = [sent EXCEPT ![c][s] = @ + 1]
  /\ pending' = [pending EXCEPT ![c][s] = @ + 1]
  /\ UNCHANGED <<net, hpc, cpc, cerr, doneq, firstErr, result, peer, delivered,
                 closed>>

PeerFin(c, s) ==
  /\ peer[c][s] = "open"
  /\ CanClose(c, s)
  /\ peer' = [peer EXCEPT ![c][s] = "fin"]
  /\ UNCHANGED <<net, hpc, cpc, cerr, doneq, firstErr, result, pending, sent,
                 delivered, closed>>

PeerReset(c, s) ==
  /\ peer[c][s] \in {"open", "fin"}
  /\ CanClose(c, s)
  /\ net[c] \notin UdpNetworks
  /\ peer' = [peer EXCEPT ![c][s] = "rst"]
  /\ UNCHANGED <<net, hpc, cpc, cerr, doneq, firstErr, result, pending, sent,
                 delivered, closed>>

-----------------------------------------------------------------------------

Init ==
  /\ hpc       = [c \in Conns |-> "idle"]
  /\ net       = [c \in Conns |-> "none"]
  /\ cpc       = [c \in Conns |-> [d \in Dirs |-> "none"]]
  /\ cerr      = [c \in Conns |-> [d \in Dirs |-> "nil"]]
  /\ doneq     = [c \in Conns |-> <<>>]
  /\ firstErr  = [c \in Conns |-> "nil"]
  /\ result    = [c \in Conns |-> "none"]
  /\ peer      = [c \in Conns |-> [s \in Sides |->
                     IF s = "client" THEN "open" ELSE "none"]]
  /\ pending   = [c \in Conns |-> [s \in Sides |-> 0]]
  /\ sent      = [c \in Conns |-> [s \in Sides |-> 0]]
  /\ delivered = [c \in Conns |-> [s \in Sides |-> 0]]
  /\ closed    = [c \in Conns |-> [s \in Sides |-> FALSE]]

HandlerStep(c) ==
  \/ DialFail(c) \/ DialOk(c) \/ RecvFirst(c) \/ RecvSecond(c)

CopierStep(c, d) ==
  \/ CopyData(c, d) \/ CopyEOF(c, d) \/ CopyReset(c, d)
  \/ CopyTimeout(c, d) \/ CopierSend(c, d)

PeerStep(c, s) ==
  \/ PeerSend(c, s) \/ PeerFin(c, s) \/ PeerReset(c, s)

Next ==
  \E c \in Conns :
    \/ \E n \in Nets : Submit(c, n, 0)
    \/ HandlerStep(c)
    \/ \E d \in Dirs : CopierStep(c, d)
    \/ \E s \in Sides : PeerStep(c, s)

\* The handler and its goroutines are scheduled fairly by the Go runtime,
\* and a read deadline that stays armed over an idle source does expire.
\* The peers get no fairness.
Fairness ==
  \A c \in Conns :
    /\ WF_vars(\E n \in Nets : Submit(c, n, 0))
    /\ WF_vars(HandlerStep(c))
    /\ \A d \in Dirs : WF_vars(CopierStep(c, d))

Spec == Init /\ [][Next]_vars /\ Fairness

-----------------------------------------------------------------------------
(* Properties.                                                             *)

TypeOK ==
  /\ hpc       \in [Conns -> HandlerStates]
  /\ net       \in [Conns -> Networks \cup {"none"}]
  /\ cpc       \in [Conns -> [Dirs -> CopierStates]]
  /\ cerr      \in [Conns -> [Dirs -> Results]]
  /\ doneq     \in [Conns -> Seq(Results)]
  /\ firstErr  \in [Conns -> Results]
  /\ result    \in [Conns -> {"none", "nil", "dialErr"}]
  /\ peer      \in [Conns -> [Sides -> PeerStates]]
  /\ pending   \in [Conns -> [Sides -> 0..MaxMsgs]]
  /\ sent      \in [Conns -> [Sides -> 0..MaxMsgs]]
  /\ delivered \in [Conns -> [Sides -> 0..MaxMsgs]]
  /\ closed    \in [Conns -> [Sides -> BOOLEAN]]

(* No message is lost at close (handler's deferred Close): when the        *)
(* handler of a tcp request has returned, everything a peer sent has been  *)
(* written to the other side unless one of the two peers reset.  A         *)
(* half-closed (FIN) receiver still gets its data.  (A udp copier that     *)
(* timed out stops reading, so later datagrams are dropped by design.)     *)
NoDataLostAtClose ==
  \A c \in Conns, s \in Sides :
    LET o == IF s = "client" THEN "remote" ELSE "client" IN
    (/\ net[c] \notin UdpNetworks
     /\ result[c] = "nil"
     /\ peer[c][s] # "rst"
     /\ peer[c][o] # "rst")
      => delivered[c][o] = sent[c][s]

(* A copier goroutine never runs against a connection the handler has      *)
(* already closed, and the handler never returns before both copiers have  *)
(* handed their result to `done` (no goroutine outlives its handler).      *)
CopiersOutliveNoClose ==
  \A c \in Conns :
    /\ \A d \in Dirs : cpc[c][d] \in {"run", "send"} =>
                         ~closed[c][Src(d)] /\ ~closed[c][Dst(d)]
    /\ hpc[c] = "done" => \A d \in Dirs : cpc[c][d] \in {"none", "exit"}

(* Spec 4.3 step 6: once the first copier has returned, the handler closes *)
(* both connections and so returns without waiting on either peer.         *)
HandlerReturnsAfterFirstCopier ==
  \A c \in Conns : hpc[c] = "wait2" ~> hpc[c] = "done"

(* For udp requests the 15s read deadline re-armed on every read bounds    *)
(* the life of both copiers, so the handler always returns.                *)
UdpHandlerReturns ==
  \A c \in Conns :
    (hpc[c] = "dial" /\ net[c] \in UdpNetworks) ~> hpc[c] = "done"

=============================================================================
