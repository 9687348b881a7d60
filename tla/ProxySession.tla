---------------------------- MODULE ProxySession ----------------------------
(***************************************************************************)
(* One accepted client connection of the local proxy, from accept to the  *)
(* close in the accept loop's deferred function, composed with the        *)
(* forwarding handler it is handed to.                                     *)
(*                                                                         *)
(* Front doors (src/unnamed/part_002, startSocksProxy / startHttpProxy):   *)
(*   - the SOCKS listener peeks one byte and dispatches to the SOCKS5 or   *)
(*     SOCKS4 server (src/proxy/socks/socks4/server.go handleConnection);  *)
(*   - the HTTP listener parses one request (src/unnamed/part_003).        *)
(* wiresocks installs vt.handler as the user connect handler of all three *)
(* servers and as the SOCKS5 user associate handler.  Built without user  *)
(* handlers, as the socks and http packages may be used on their own, the *)
(* servers take their embedded paths instead: they dial first and reply  *)
(* after, and SOCKS5 relays UDP itself.  `handlers` says which.  SOCKS    *)
(* BIND always takes the embedded path (embedHandleBind), modelled with:  *)
(* its listener, the SOCKS5 accept goroutine and acceptChan, the remote    *)
(* peer that connects, and Stop cancelling the server context.             *)
(*                                                                         *)
(* Wire bytes are abstracted to the decisions they drive: the client's    *)
(* request is a choice from small sets, a reply is a token naming the     *)
(* reply the code writes.  The client hanging up is the forwarder's       *)
(* client peer leaving the "open" state.                                   *)
(***************************************************************************)
EXTENDS Naturals, Sequences, SequencesExt

CONSTANTS
  Conns,           \* accepted client connections (model values)
  MaxMsgs,         \* bound on data messages per peer (see Forwarder)
  Listeners,       \* subset of {"socks", "http"}: the listeners that exist
  FirstBytes,      \* first bytes a client may send to the SOCKS listener
  HasCredentials,  \* SOCKS5 server configured with a CredentialStore
  S5Commands,      \* SOCKS5 CMD values clients send
  S4Commands,      \* SOCKS4 CD values clients send
  HttpKinds,       \* the shapes of HTTP request a client sends
  HttpEarlyData,   \* HTTP clients may send tunnel data before the answer
  HandlerModes     \* subset of {"user", "embedded"}: how the servers are built

ASSUME Listeners \subseteq {"socks", "http"}
ASSUME FirstBytes \subseteq {4, 5, 0}          \* 0: any other byte
ASSUME HasCredentials \in BOOLEAN
ASSUME S5Commands \subseteq {"connect", "bind", "associate", "other"}
ASSUME S4Commands \subseteq {"connect", "bind", "other"}
ASSUME HttpKinds \subseteq {"connectip", "connectip_nocap", "connect",
                            "absolute", "malformed"}
ASSUME HttpEarlyData \in BOOLEAN
ASSUME HandlerModes \subseteq {"user", "embedded"} /\ HandlerModes # {}

\* The UDP addresses datagrams reach the embedded relay from: the client's,
\* and two hosts on the tunnel side.
Hosts == {"cli", "t1", "t2"}

\* SOCKS5 method codes: 0 no-auth, 1 GSSAPI, 2 username/password, 3 other.
MethodCodes == {0, 1, 2, 3}

VARIABLES
  spc,       \* spc[c]: where the serving goroutine of c is
  proto,     \* proto[c]: the protocol the front door chose
  req,       \* req[c]: the request kind once parsed
  offered,   \* offered[c]: the SOCKS5 methods the client offered
  method,    \* method[c]: the SOCKS5 method the server selected
  authOk,    \* authOk[c]: RFC 1929 credentials were accepted
  replies,   \* replies[c]: the replies written to the client, in order
  \* BIND (embedHandleBind)
  bln,       \* bln[c]: the BIND listener: "none", "open", "closed"
  agpc,      \* agpc[c]: the SOCKS5 accept goroutine: "none", "accept", "exit"
  acceptq,   \* acceptq[c]: the contents of acceptChan (capacity 1)
  remote,    \* remote[c]: the incoming peer: "none", "queued" (in the
             \*   listen backlog), "accepted", "closed"
  allowed,   \* allowed[c]: its source IP passes the DST.ADDR check
  stopped,   \* the ProxyServer context (the servers' Context) is cancelled
  lnOpen,    \* lnOpen[l]: proxy listener l is open (ProxyServer.Stop and the
             \*   accept loop's deferred call close it)
  alp,       \* alp[l]: the accept loop of l: "accept" (blocked in Accept),
             \*   "select" (back at ctx.Done() with the context already done;
             \*   with it not done the loop goes straight on to Accept) or
             \*   "returned"
  handlers,  \* "user": vt.handler is installed; "embedded": no user handlers
  edial,     \* edial[c]: the embedded ProxyDial: "none", "ok", "err"
  \* the embedded UDP relay (embedHandleAssociate)
  udp,       \* udp[c]: the UDP endpoint: "none", "open", "closed"
  rdr,       \* rdr[c]: the goroutine reading the TCP control connection:
             \*   "none", "reading", "exit"
  rsrc,      \* rsrc[c]: sourceAddr, "none" until the first datagram
  rtgt,      \* rtgt[c]: targetAddr, "none" until the first request parsed
  \* the forwarder's variables (see Forwarder)
  hpc, net, cpc, cerr, doneq, firstErr, result, peer, pending, sent,
  delivered, closed

fwdVars  == <<hpc, net, cpc, cerr, doneq, firstErr, result, peer, pending,
              sent, delivered, closed>>
bindVars == <<bln, agpc, acceptq, remote, allowed, stopped, lnOpen, alp>>
embVars  == <<handlers, edial, udp, rdr, rsrc, rtgt>>
sessVars == <<spc, proto, req, offered, method, authOk, replies, bindVars,
              embVars>>
vars     == <<sessVars, fwdVars>>

Fwd == INSTANCE Forwarder WITH Nets <- {"tcp", "udp"}

SessionStates == {"listen", "peek", "s5auth", "s5userpass", "s5req",
                  "s5assoc", "s5wait", "s5bind", "s5bwait", "s4req",
                  "s4bind", "s4bwait", "btun", "httpreq", "ipproxy",
                  "edial", "etun", "relay", "fwd", "end"}

\* States in which the goroutine is blocked reading the client connection.
ReadingStates == {"peek", "s5auth", "s5userpass", "s5req", "s4req",
                  "httpreq", "ipproxy"}

MethodReplies == {"noauth", "userpass", "gssapi", "noacceptable"}
ReplyTokens   == MethodReplies \cup
                 {"auth_ok", "auth_fail", "s5_granted", "s5_bound",
                  "s5_failed", "s5_notallowed", "cmd_unsupported",
                  "atyp_unsupported", "s4_granted", "s4_rejected",
                  "h101", "h200", "h400", "h503"}

\* Replies that tell the client its tunnel is established.
Grants == {"s5_granted", "s5_bound", "h200"}

-----------------------------------------------------------------------------
(* Helpers translated from the code.                                       *)

ClientOpen(c) == peer[c]["client"] = "open"

\* The goroutine returns; the accept loop's deferred conn.Close() runs.
Finish(c) ==
  /\ spc'    = [spc EXCEPT ![c] = "end"]
  /\ closed' = [closed EXCEPT ![c]["client"] = TRUE]

Reply(c, r) == replies' = [replies EXCEPT ![c] = Append(@, r)]

\* server.authenticate: the method selection order.
SelectMethod(m) ==
  CASE 1 \in m                      -> "gssapi"
    [] HasCredentials /\ 2 \in m    -> "userpass"
    [] 0 \in m                      -> "noauth"
    [] OTHER                        -> "noacceptable"

\* A front end hands a ProxyRequest of network n to vt.handler, `lost` of
\* the client's messages having been consumed by its reader.
Handoff(c, n, lost) ==
  /\ Fwd!Submit(c, n, lost)
  /\ spc' = [spc EXCEPT ![c] = "fwd"]

fwdButClosed == <<hpc, net, cpc, cerr, doneq, firstErr, result, peer,
                  pending, sent, delivered>>

-----------------------------------------------------------------------------
(* Accept loops and the SOCKS front door.                                  *)

\* listener.Accept returns c on listener l; a goroutine starts serving it.
\* The loop checks ctx.Done() only before it blocks in Accept, so a loop
\* already blocked there still accepts between Stop's cancel and its close
\* of the listener. The loop then selects again: it returns if the context
\* is done and is back in Accept otherwise.
Accept(c, l) ==
  /\ spc[c] = "listen"
  /\ alp[l] = "accept" /\ lnOpen[l]
  /\ alp'   = [alp EXCEPT ![l] = IF stopped THEN "select" ELSE "accept"]
  /\ spc'   = [spc EXCEPT ![c] = IF l = "socks" THEN "peek" ELSE "httpreq"]
  /\ proto' = [proto EXCEPT ![c] = IF l = "socks" THEN "socks" ELSE "http"]
  /\ UNCHANGED <<req, offered, method, authOk, replies, fwdVars, bln, agpc,
                 acceptq, remote, allowed, stopped, lnOpen, embVars>>

\* A loop back at its select after Stop's cancel returns ctx.Err(); the
\* deferred Close of its listener runs.
LoopReturn(l) ==
  /\ stopped
  /\ alp[l]  = "select"
  /\ alp'    = [alp EXCEPT ![l] = "returned"]
  /\ lnOpen' = [lnOpen EXCEPT ![l] = FALSE]
  /\ UNCHANGED <<spc, proto, req, offered, method, authOk, replies, fwdVars,
                 bln, agpc, acceptq, remote, allowed, stopped, embVars>>

\* handleConnection peeks one byte; SOCKS5 ServeConn re-reads it as the
\* version and SOCKS4 NewRequest checks it again, both of which pass.
Peek(c, b) ==
  /\ spc[c] = "peek"
  /\ ClientOpen(c)
  /\ proto' = [proto EXCEPT ![c] = CASE b = 5 -> "socks5"
                                     [] b = 4 -> "socks4"
                                     [] OTHER -> "socks"]
  /\ IF b \in {4, 5}
       THEN /\ spc' = [spc EXCEPT ![c] = IF b = 5 THEN "s5auth" ELSE "s4req"]
            /\ UNCHANGED closed
       ELSE Finish(c)
  /\ UNCHANGED <<req, offered, method, authOk, replies, fwdButClosed, bindVars, embVars>>

\* A read on the client connection fails (EOF or reset): the serving
\* function returns the error and the connection is closed.  For connect-ip
\* this is io.Copy(io.Discard, conn) returning.
ReadFails(c) ==
  /\ spc[c] \in ReadingStates
  /\ ~ClientOpen(c)
  /\ Finish(c)
  /\ UNCHANGED <<proto, req, offered, method, authOk, replies, fwdButClosed, bindVars, embVars>>

-----------------------------------------------------------------------------
(* SOCKS5 (src/proxy/socks/socks5/auth.go).                                *)

\* authenticate: read the offered methods, answer with the selection.
Authenticate(c, m) ==
  /\ spc[c] = "s5auth"
  /\ ClientOpen(c)
  /\ LET sel == SelectMethod(m) IN
       /\ offered' = [offered EXCEPT ![c] = m]
       /\ method'  = [method EXCEPT ![c] = sel]
       /\ Reply(c, sel)
       /\ CASE sel = "userpass" -> spc' = [spc EXCEPT ![c] = "s5userpass"]
                                   /\ UNCHANGED closed
            [] sel = "noauth"   -> spc' = [spc EXCEPT ![c] = "s5req"]
                                   /\ UNCHANGED closed
            [] OTHER            -> Finish(c)
  /\ UNCHANGED <<proto, req, authOk, fwdButClosed, bindVars, embVars>>

\* Fault variant: a rejected password is answered with 0x01 0x01 but the
\* nil error of that write is returned, so the request is served anyway.
UserPassAuthFailOpen(c, v, valid) ==
  /\ spc[c] = "s5userpass"
  /\ ClientOpen(c)
  /\ \/ /\ v # 1
        /\ Finish(c)
        /\ UNCHANGED <<authOk, replies>>
     \/ /\ v = 1
        /\ authOk' = [authOk EXCEPT ![c] = valid]
        /\ Reply(c, IF valid THEN "auth_ok" ELSE "auth_fail")
        /\ spc' = [spc EXCEPT ![c] = "s5req"]
        /\ UNCHANGED closed
  /\ UNCHANGED <<proto, req, offered, method, fwdButClosed, bindVars, embVars>>

\* handleUsernamePasswordAuth: sub-negotiation version v, then the
\* credentials, which the CredentialStore finds valid or not.
UserPassAuth(c, v, valid) ==
  /\ spc[c] = "s5userpass"
  /\ ClientOpen(c)
  /\ \/ /\ v # 1
        /\ Finish(c)
        /\ UNCHANGED <<authOk, replies>>
     \/ /\ v = 1 /\ valid
        /\ authOk' = [authOk EXCEPT ![c] = TRUE]
        /\ Reply(c, "auth_ok")
        /\ spc' = [spc EXCEPT ![c] = "s5req"]
        /\ UNCHANGED closed
     \/ /\ v = 1 /\ ~valid
        /\ Reply(c, "auth_fail")
        /\ Finish(c)
        /\ UNCHANGED authOk
  /\ UNCHANGED <<proto, req, offered, method, fwdButClosed, bindVars, embVars>>

\* Fault variant: after the 0x08 reply for an unknown ATYP the function
\* goes on to handle the command instead of returning.
RequestAtypFallsThrough(c, v, cmd, atypOk) ==
  /\ spc[c] = "s5req"
  /\ ClientOpen(c)
  /\ v = 5 /\ ~atypOk /\ cmd = "connect"
  /\ req' = [req EXCEPT ![c] = cmd]
  /\ replies' = [replies EXCEPT ![c] = @ \o <<"atyp_unsupported", "s5_granted">>]
  /\ Handoff(c, "tcp", 0)
  /\ UNCHANGED <<proto, offered, method, authOk, cpc, cerr, doneq, firstErr,
                 result, peer, pending, sent, delivered, bindVars, embVars>>

\* handleRequest and handle: header version v, command cmd, and whether
\* readAddr recognises the ATYP.  A CONNECT is answered with success and
\* handed to handleConnect's user handler: vt.handler over tcp.
Request(c, v, cmd, atypOk) ==
  /\ spc[c] = "s5req"
  /\ ClientOpen(c)
  /\ req' = [req EXCEPT ![c] = IF v = 5 /\ atypOk THEN cmd ELSE @]
  /\ \/ /\ v # 5
        /\ Finish(c)
        /\ UNCHANGED <<replies, hpc, net>>
     \/ /\ v = 5 /\ ~atypOk
        /\ Reply(c, "atyp_unsupported")
        /\ Finish(c)
        /\ UNCHANGED <<hpc, net>>
     \/ /\ v = 5 /\ atypOk /\ cmd = "connect" /\ handlers = "user"
        /\ Reply(c, "s5_granted")
        /\ Handoff(c, "tcp", 0)
     \/ /\ v = 5 /\ atypOk /\ cmd = "connect" /\ handlers = "embedded"
        /\ spc' = [spc EXCEPT ![c] = "edial"]
        /\ UNCHANGED <<replies, closed, hpc, net>>
     \/ /\ v = 5 /\ atypOk /\ cmd \in {"bind", "associate"}
        /\ spc' = [spc EXCEPT ![c] = IF cmd = "bind" THEN "s5bind"
                                                    ELSE "s5assoc"]
        /\ UNCHANGED <<replies, closed, hpc, net>>
     \/ /\ v = 5 /\ atypOk /\ cmd = "other"
        /\ Reply(c, "cmd_unsupported")
        /\ Finish(c)
        /\ UNCHANGED <<hpc, net>>
  /\ UNCHANGED <<proto, offered, method, authOk, cpc, cerr, doneq, firstErr,
                 result, peer, pending, sent, delivered, bindVars, embVars>>

\* handleAssociate: ProxyListenPacket succeeds or fails; on success the
\* advertised address (defaultReplyPacketForwardAddress) is sent.  Without
\* a user associate handler, embedHandleAssociate then defers the close of
\* the UDP endpoint, starts the goroutine reading the control connection,
\* and enters its relay loop.
Associate(c, listenOk) ==
  /\ spc[c] = "s5assoc"
  /\ IF listenOk
       THEN /\ Reply(c, "s5_bound")
            /\ UNCHANGED closed
            /\ IF handlers = "user"
                 THEN /\ spc' = [spc EXCEPT ![c] = "s5wait"]
                      /\ UNCHANGED <<udp, rdr>>
                 ELSE /\ spc' = [spc EXCEPT ![c] = "relay"]
                      /\ udp' = [udp EXCEPT ![c] = "open"]
                      /\ rdr' = [rdr EXCEPT ![c] = "reading"]
       ELSE /\ Reply(c, "s5_failed")
            /\ Finish(c)
            /\ UNCHANGED <<udp, rdr>>
  /\ UNCHANGED <<proto, req, offered, method, authOk, fwdButClosed, bindVars,
                 handlers, edial, rsrc, rtgt>>

\* handleAssociate: `<-cConn.frc` returns once the first datagram arrived;
\* the user associate handler, vt.handler, then runs over udp.
FirstPacket(c) ==
  /\ spc[c] = "s5wait"
  /\ Handoff(c, "udp", 0)
  /\ UNCHANGED <<proto, req, offered, method, authOk, replies, bindVars, embVars>>


-----------------------------------------------------------------------------
(* BIND: embedHandleBind of SOCKS5 (auth.go) and of SOCKS4 (server.go).    *)

\* The function returns: its deferred calls close the accepted remote
\* connection (SOCKS5: registered only after the select, so only when
\* closeRemote), then the listener, which refuses a connection still in
\* its backlog; the accept loop then closes the client connection.
BindReturn(c, closeRemote) ==
  /\ Finish(c)
  /\ bln'    = [bln EXCEPT ![c] = IF @ = "open" THEN "closed" ELSE @]
  /\ remote' = [remote EXCEPT ![c] =
                  IF @ = "queued" \/ (@ = "accepted" /\ closeRemote)
                    THEN "closed" ELSE @]

\* net.ListenTCP (SOCKS5, on the client conn's local IP) or net.Listen
\* (SOCKS4, 0.0.0.0:0) succeeds or fails.  On failure: serverFailure or
\* 0x5B.  On success the first reply carries the bound address; SOCKS5
\* then starts the accept goroutine and selects, SOCKS4 calls Accept.
BindListen(c, ok) ==
  /\ spc[c] \in {"s5bind", "s4bind"}
  /\ LET v5 == spc[c] = "s5bind" IN
       IF ok
         THEN /\ bln'  = [bln EXCEPT ![c] = "open"]
              /\ agpc' = [agpc EXCEPT ![c] = IF v5 THEN "accept" ELSE @]
              /\ Reply(c, IF v5 THEN "s5_bound" ELSE "s4_granted")
              /\ spc'  = [spc EXCEPT ![c] = IF v5 THEN "s5bwait" ELSE "s4bwait"]
              /\ UNCHANGED closed
         ELSE /\ Reply(c, IF v5 THEN "s5_failed" ELSE "s4_rejected")
              /\ Finish(c)
              /\ UNCHANGED <<bln, agpc>>
  /\ UNCHANGED <<proto, req, offered, method, authOk, acceptq, remote,
                 allowed, stopped, lnOpen, alp, fwdButClosed, embVars>>

\* Fault variant: acceptChan is unbuffered, so the goroutine's send
\* completes only while embedHandleBind is blocked in its select.
BindAcceptUnbuffered(c) ==
  /\ agpc[c] = "accept"
  /\ spc[c] = "s5bwait"
  /\ remote[c] = "queued" \/ bln[c] = "closed"
  /\ acceptq' = [acceptq EXCEPT ![c] =
                   Append(@, IF remote[c] = "queued" THEN "ok" ELSE "err")]
  /\ remote'  = [remote EXCEPT ![c] = IF @ = "queued" THEN "accepted" ELSE @]
  /\ agpc'    = [agpc EXCEPT ![c] = "exit"]
  /\ UNCHANGED <<spc, proto, req, offered, method, authOk, replies, bln,
                 allowed, stopped, lnOpen, alp, fwdVars, embVars>>

\* The SOCKS5 accept goroutine: listener.Accept returns the queued peer,
\* or an error once the listener is closed; the result is sent on
\* acceptChan, whose one slot is free since this is its only send.
BindAccept(c) ==
  /\ agpc[c] = "accept"
  /\ remote[c] = "queued" \/ bln[c] = "closed"
  /\ Len(acceptq[c]) < 1
  /\ acceptq' = [acceptq EXCEPT ![c] =
                   Append(@, IF remote[c] = "queued" THEN "ok" ELSE "err")]
  /\ remote'  = [remote EXCEPT ![c] = IF @ = "queued" THEN "accepted" ELSE @]
  /\ agpc'    = [agpc EXCEPT ![c] = "exit"]
  /\ UNCHANGED <<spc, proto, req, offered, method, authOk, replies, bln,
                 allowed, stopped, lnOpen, alp, fwdVars, embVars>>

\* Fault variant: the DST.ADDR check on the accepted peer is left out.
BindSelectNoCheck(c) ==
  /\ spc[c] = "s5bwait"
  /\ \/ /\ acceptq[c] # <<>>
        /\ acceptq' = [acceptq EXCEPT ![c] = Tail(@)]
        /\ IF Head(acceptq[c]) = "ok"
             THEN /\ Reply(c, "s5_granted")
                  /\ spc' = [spc EXCEPT ![c] = "btun"]
                  /\ UNCHANGED <<closed, bln, remote>>
             ELSE /\ Reply(c, "s5_failed")
                  /\ BindReturn(c, FALSE)
     \/ /\ stopped
        /\ Reply(c, "s5_failed")
        /\ BindReturn(c, FALSE)
        /\ UNCHANGED acceptq
  /\ UNCHANGED <<proto, req, offered, method, authOk, agpc, allowed, stopped, lnOpen, alp,
                 fwdButClosed, embVars>>

\* SOCKS5: the select on acceptChan and ctx.Done() (the server context,
\* cancelled by ProxyServer.Stop); Go takes either case when both are
\* ready.  An accept error or the cancellation answers serverFailure.  An
\* accepted peer whose source IP differs from a specified DST.ADDR gets
\* ruleFailure; otherwise the second success reply and statute.Tunnel.
BindSelect(c) ==
  /\ spc[c] = "s5bwait"
  /\ \/ /\ acceptq[c] # <<>>
        /\ acceptq' = [acceptq EXCEPT ![c] = Tail(@)]
        /\ CASE Head(acceptq[c]) = "err" ->
                  /\ Reply(c, "s5_failed")
                  /\ BindReturn(c, FALSE)
             [] ~allowed[c] ->
                  /\ Reply(c, "s5_notallowed")
                  /\ BindReturn(c, TRUE)
             [] OTHER ->
                  /\ Reply(c, "s5_granted")
                  /\ spc' = [spc EXCEPT ![c] = "btun"]
                  /\ UNCHANGED <<closed, bln, remote>>
     \/ /\ stopped
        /\ Reply(c, "s5_failed")
        /\ BindReturn(c, FALSE)
        /\ UNCHANGED acceptq
  /\ UNCHANGED <<proto, req, offered, method, authOk, agpc, allowed, stopped, lnOpen, alp,
                 fwdButClosed, embVars>>

\* SOCKS4: ln.Accept() returns the queued peer (its address is not
\* checked); the second 0x5A, then statute.Tunnel.  Accept fails only on
\* a closed listener, and this one is closed only when the function
\* returns, so the failure branch is unreachable.
BindAccept4(c) ==
  /\ spc[c] = "s4bwait"
  /\ remote[c] = "queued"
  /\ remote' = [remote EXCEPT ![c] = "accepted"]
  /\ Reply(c, "s4_granted")
  /\ spc' = [spc EXCEPT ![c] = "btun"]
  /\ UNCHANGED <<proto, req, offered, method, authOk, bln, agpc, acceptq,
                 allowed, stopped, lnOpen, alp, fwdVars, embVars>>

\* statute.Tunnel (outside src/) returns; the deferred closes run.
BindTunnelEnds(c) ==
  /\ spc[c] = "btun"
  /\ BindReturn(c, TRUE)
  /\ UNCHANGED <<proto, req, offered, method, authOk, replies, agpc,
                 acceptq, allowed, stopped, lnOpen, alp, fwdButClosed, embVars>>

\* A remote host connects to the BIND listener; a:  its source IP passes
\* the DST.ADDR check (or DST.ADDR is unspecified).
RemoteConnect(c, a) ==
  /\ bln[c] = "open"
  /\ remote[c] = "none"
  /\ remote'  = [remote EXCEPT ![c] = "queued"]
  /\ allowed' = [allowed EXCEPT ![c] = a]
  /\ UNCHANGED <<spc, proto, req, offered, method, authOk, replies, bln,
                 agpc, acceptq, stopped, lnOpen, alp, fwdVars, embVars>>

\* ProxyServer.Stop: s.cancel() on the context shared by the servers ...
Stop ==
  /\ ~stopped
  /\ stopped' = TRUE
  /\ UNCHANGED <<spc, proto, req, offered, method, authOk, replies, bln,
                 agpc, acceptq, remote, allowed, lnOpen, alp, fwdVars, embVars>>

\* The loops blocked in Accept on the listeners ls that are being closed:
\* Accept fails, the error is logged, the loop continues to its select,
\* finds the context done and returns (its deferred Close is a no-op).
\* Nothing else reads the loop's state, so its wake-up is taken with the
\* close that causes it.
UnblockedLoops(ls) ==
  [l \in Listeners |-> IF l \in ls /\ alp[l] = "accept" THEN "returned"
                                                         ELSE alp[l]]

\* Fault variant: Stop closes the HTTP listener only.
StopCloseHttpOnly ==
  /\ stopped /\ "http" \in Listeners /\ lnOpen["http"]
  /\ lnOpen' = [lnOpen EXCEPT !["http"] = FALSE]
  /\ alp'    = UnblockedLoops({"http"})
  /\ UNCHANGED <<spc, proto, req, offered, method, authOk, replies, bln,
                 agpc, acceptq, remote, allowed, stopped, fwdVars, embVars>>

\* ... then the HTTP and the SOCKS listener are closed.
StopClose ==
  /\ stopped /\ \E l \in Listeners : lnOpen[l]
  /\ lnOpen' = [l \in Listeners |-> FALSE]
  /\ alp'    = UnblockedLoops(Listeners)
  /\ UNCHANGED <<spc, proto, req, offered, method, authOk, replies, bln,
                 agpc, acceptq, remote, allowed, stopped, fwdVars, embVars>>

-----------------------------------------------------------------------------
(* SOCKS4 (src/proxy/socks/socks4/server.go).                              *)

\* ServeConn after NewRequest: a CONNECT goes straight to the user connect
\* handler over tcp (without one, to embedHandleConnect), a BIND to embedHandleBind (no user bind handler is
\* installed), any other command returns an error.  Neither the CONNECT
\* nor the error path writes a reply.
Socks4Request(c, cmd) ==
  /\ spc[c] = "s4req"
  /\ ClientOpen(c)
  /\ req' = [req EXCEPT ![c] = cmd]
  /\ CASE cmd = "connect" /\ handlers = "user" -> Handoff(c, "tcp", 0)
       [] cmd = "connect" /\ handlers = "embedded" ->
                             /\ spc' = [spc EXCEPT ![c] = "edial"]
                             /\ UNCHANGED <<closed, hpc, net>>
       [] cmd = "bind"    -> /\ spc' = [spc EXCEPT ![c] = "s4bind"]
                             /\ UNCHANGED <<closed, hpc, net>>
       [] OTHER           -> /\ Finish(c)
                             /\ UNCHANGED <<hpc, net>>
  /\ UNCHANGED <<proto, offered, method, authOk, replies, cpc, cerr, doneq,
                 firstErr, result, peer, pending, sent, delivered, bindVars,
                 embVars>>

-----------------------------------------------------------------------------
(* HTTP (src/unnamed/part_003).                                            *)

\* ServeConn reads one request of kind k through its own bufio.Reader,
\* whose fill may also take in `lost` of the messages the client sent
\* after the request; the handler is given the raw conn, so those are
\* gone.  connect-ip without the Capsule-Protocol header gets 400; with
\* it, 101 and then the connection is drained until the client closes.
\* CONNECT writes 200 before the port is parsed; absolute-form writes
\* nothing.  portOk: strconv.Atoi accepts the port getTarget extracted.
HttpRequest(c, k, portOk, lost) ==
  /\ spc[c] = "httpreq"
  /\ ClientOpen(c)
  /\ req' = [req EXCEPT ![c] = k]
  /\ \/ /\ k = "malformed"
        /\ Finish(c)
        /\ UNCHANGED <<replies, hpc, net, pending>>
     \/ /\ k = "connectip_nocap"
        /\ Reply(c, "h400")
        /\ Finish(c)
        /\ UNCHANGED <<hpc, net, pending>>
     \/ /\ k = "connectip"
        /\ Reply(c, "h101")
        /\ spc' = [spc EXCEPT ![c] = "ipproxy"]
        /\ UNCHANGED <<closed, hpc, net, pending>>
     \/ /\ k \in {"connect", "absolute"} /\ handlers = "embedded"
        /\ spc' = [spc EXCEPT ![c] = "edial"]
        /\ UNCHANGED <<replies, closed, hpc, net, pending>>
     \/ /\ k \in {"connect", "absolute"} /\ handlers = "user"
        /\ IF k = "connect" THEN Reply(c, "h200") ELSE UNCHANGED replies
        /\ IF portOk
             THEN Handoff(c, "tcp", lost)
             ELSE /\ Finish(c)
                  /\ UNCHANGED <<hpc, net, pending>>
  /\ UNCHANGED <<proto, offered, method, authOk, cpc, cerr, doneq, firstErr,
                 result, peer, sent, delivered, bindVars, embVars>>

-----------------------------------------------------------------------------
(* The embedded paths, taken when no user handler is installed.            *)

\* Fault variant: the success reply is written before the dial, as the
\* user paths do, and a failed dial is not answered.
EmbedConnectGrantFirst(c, ok, grant, fail) ==
  /\ spc[c] = "edial"
  /\ edial' = [edial EXCEPT ![c] = IF ok THEN "ok" ELSE "err"]
  /\ replies' = [replies EXCEPT ![c] =
                   @ \o (IF grant = "none" THEN <<>> ELSE <<grant>>)]
  /\ IF ok THEN spc' = [spc EXCEPT ![c] = "etun"] /\ UNCHANGED closed
          ELSE Finish(c)
  /\ UNCHANGED <<proto, req, offered, method, authOk, fwdButClosed, bindVars,
                 handlers, udp, rdr, rsrc, rtgt>>

\* What embedHandleConnect (SOCKS5, SOCKS4) and embedHandleHTTP share:
\* ProxyDial(s.Context, "tcp", target) first.  On error the failure reply
\* `fail`, and return.  Else the deferred target.Close, the success reply
\* `grant` ("none": an absolute-form request is written to the target
\* instead), then statute.Tunnel.
EmbedConnect(c, ok, grant, fail) ==
  /\ spc[c] = "edial"
  /\ edial' = [edial EXCEPT ![c] = IF ok THEN "ok" ELSE "err"]
  /\ IF ok
       THEN /\ IF grant = "none" THEN UNCHANGED replies ELSE Reply(c, grant)
            /\ spc' = [spc EXCEPT ![c] = "etun"]
            /\ UNCHANGED closed
       ELSE /\ Reply(c, fail)
            /\ Finish(c)
  /\ UNCHANGED <<proto, req, offered, method, authOk, fwdButClosed, bindVars,
                 handlers, udp, rdr, rsrc, rtgt>>

\* SOCKS5 embedHandleConnect: errToReply's failure codes, then success
\* with the target's local address (the netstack's conns always have a
\* *net.TCPAddr, so the assertion's failure branch is unreachable).
S5EmbedConnect(c, ok) ==
  /\ proto[c] = "socks5"
  /\ EmbedConnect(c, ok, "s5_granted", "s5_failed")

\* SOCKS4 embedHandleConnect: 0x5B on a failed dial, else 0x5A.
S4EmbedConnect(c, ok) ==
  /\ proto[c] = "socks4"
  /\ EmbedConnect(c, ok, "s4_granted", "s4_rejected")

\* embedHandleHTTP: 503 on a failed dial; else 200 for CONNECT, or the
\* request written to the target for absolute form.
HttpEmbedConnect(c, ok) ==
  /\ proto[c] = "http"
  /\ EmbedConnect(c, ok, IF req[c] = "connect" THEN "h200" ELSE "none", "h503")

\* statute.Tunnel (outside src/) returns; the deferred target.Close runs
\* and the serving goroutine returns.
EmbedTunnelEnds(c) ==
  /\ spc[c] = "etun"
  /\ Finish(c)
  /\ UNCHANGED <<proto, req, offered, method, authOk, replies, fwdButClosed,
                 bindVars, embVars>>

\* Fault variant: the control reader exits without closing the endpoint.
RelayControlEndsNoClose(c) ==
  /\ rdr[c] = "reading"
  /\ ~ClientOpen(c) \/ closed[c]["client"]
  /\ rdr' = [rdr EXCEPT ![c] = "exit"]
  /\ UNCHANGED <<spc, proto, req, offered, method, authOk, replies, fwdVars,
                 bindVars, handlers, edial, udp, rsrc, rtgt>>

\* embedHandleAssociate's goroutine: req.Conn.Read fails once the client
\* has closed the control connection, or the connection was closed when
\* the handler returned; it closes the UDP endpoint and exits.
RelayControlEnds(c) ==
  /\ rdr[c] = "reading"
  /\ ~ClientOpen(c) \/ closed[c]["client"]
  /\ udp' = [udp EXCEPT ![c] = "closed"]
  /\ rdr' = [rdr EXCEPT ![c] = "exit"]
  /\ UNCHANGED <<spc, proto, req, offered, method, authOk, replies, fwdVars,
                 bindVars, handlers, edial, rsrc, rtgt>>

\* The relay loop's ReadFrom returns a datagram from host h.  The first
\* sender becomes sourceAddr.  From the source, a datagram that is at
\* least 3 bytes and whose address readAddr accepts (parsed) names d; the
\* first such fixes targetAddr, and it is sent on only when d is the
\* target.  From the target, it is sent to the source once the target is
\* known.  Anything else is ignored.  A failed WriteTo (wOk false) returns,
\* closing the endpoint by the deferred call.
RelayDatagram(c, h, d, parsed, wOk) ==
  /\ spc[c] = "relay"
  /\ udp[c] = "open"
  /\ LET src == IF rsrc[c] = "none" THEN h ELSE rsrc[c]
         tgt == IF rtgt[c] = "none" /\ h = src /\ parsed THEN d ELSE rtgt[c]
         out == \/ h = src /\ parsed /\ d = tgt
                \/ h # src /\ rtgt[c] # "none" /\ h = rtgt[c]
     IN /\ rsrc' = [rsrc EXCEPT ![c] = src]
        /\ rtgt' = [rtgt EXCEPT ![c] = tgt]
        /\ IF out /\ ~wOk
             THEN /\ udp' = [udp EXCEPT ![c] = "closed"]
                  /\ Finish(c)
             ELSE UNCHANGED <<spc, closed, udp>>
  /\ UNCHANGED <<proto, req, offered, method, authOk, replies, fwdButClosed,
                 bindVars, handlers, edial, rdr>>

\* ReadFrom fails on the closed endpoint: the loop returns the error.
RelayReturn(c) ==
  /\ spc[c] = "relay"
  /\ udp[c] = "closed"
  /\ Finish(c)
  /\ UNCHANGED <<proto, req, offered, method, authOk, replies, fwdButClosed,
                 bindVars, embVars>>

-----------------------------------------------------------------------------

\* Fault variant: the serving goroutine does not wait for vt.handler.
HandlerReturnedEarly(c) ==
  /\ spc[c] = "fwd"
  /\ Finish(c)
  /\ UNCHANGED <<proto, req, offered, method, authOk, replies, fwdButClosed, bindVars, embVars>>

\* vt.handler returns; so does the serving goroutine, closing the conn.
HandlerReturned(c) ==
  /\ spc[c] = "fwd"
  /\ hpc[c] = "done"
  /\ Finish(c)
  /\ UNCHANGED <<proto, req, offered, method, authOk, replies, fwdButClosed, bindVars, embVars>>

Init ==
  /\ spc     = [c \in Conns |-> "listen"]
  /\ proto   = [c \in Conns |-> "none"]
  /\ req     = [c \in Conns |-> "none"]
  /\ offered = [c \in Conns |-> {}]
  /\ method  = [c \in Conns |-> "none"]
  /\ authOk  = [c \in Conns |-> FALSE]
  /\ replies = [c \in Conns |-> <<>>]
  /\ bln     = [c \in Conns |-> "none"]
  /\ agpc    = [c \in Conns |-> "none"]
  /\ acceptq = [c \in Conns |-> <<>>]
  /\ remote  = [c \in Conns |-> "none"]
  /\ allowed = [c \in Conns |-> FALSE]
  /\ stopped = FALSE
  /\ lnOpen  = [l \in Listeners |-> TRUE]
  /\ alp     = [l \in Listeners |-> "accept"]
  /\ handlers \in HandlerModes
  /\ edial   = [c \in Conns |-> "none"]
  /\ udp     = [c \in Conns |-> "none"]
  /\ rdr     = [c \in Conns |-> "none"]
  /\ rsrc    = [c \in Conns |-> "none"]
  /\ rtgt    = [c \in Conns |-> "none"]
  /\ Fwd!Init

\* The serving goroutine's steps that the client drives by what it sends.
ClientDriven(c) ==
  \/ \E b \in FirstBytes : Peek(c, b)
  \/ \E m \in SUBSET MethodCodes : Authenticate(c, m)
  \/ \E v \in {1, 2}, valid \in BOOLEAN : UserPassAuth(c, v, valid)
  \/ \E v \in {5, 4}, cmd \in S5Commands, ok \in BOOLEAN : Request(c, v, cmd, ok)
  \/ \E cmd \in S4Commands : Socks4Request(c, cmd)
  \/ \E k \in HttpKinds, ok \in BOOLEAN, n \in 0..MaxMsgs :
       HttpRequest(c, k, ok, n)
  \/ FirstPacket(c)

\* The steps the server takes on its own once they are enabled.
ServerDriven(c) ==
  \/ ReadFails(c)
  \/ \E ok \in BOOLEAN : Associate(c, ok)
  \/ \E ok \in BOOLEAN : BindListen(c, ok)
  \/ BindSelect(c)
  \/ BindAccept4(c)
  \/ HandlerReturned(c)
  \/ \E ok \in BOOLEAN : \/ S5EmbedConnect(c, ok)
                         \/ S4EmbedConnect(c, ok)
                         \/ HttpEmbedConnect(c, ok)
  \/ RelayReturn(c)

\* The environment of a BIND: the remote host and statute.Tunnel.
BindEnv(c) ==
  \/ \E a \in BOOLEAN : RemoteConnect(c, a)
  \/ BindTunnelEnds(c)

\* The environment of the embedded paths: statute.Tunnel, and the
\* datagrams that reach the relay's UDP endpoint.
EmbedEnv(c) ==
  \/ EmbedTunnelEnds(c)
  \/ \E h \in Hosts, d \in Hosts \ {"cli"}, parsed, wOk \in BOOLEAN :
       RelayDatagram(c, h, d, parsed, wOk)

\* Unless HttpEarlyData, a client sends no tunnel data before its request
\* has been accepted and answered by the HTTP server.
ClientMaySend(c, s) ==
  HttpEarlyData \/ s # "client" \/ spc[c] \notin {"listen", "httpreq"}

SessionStep(c) ==
  \/ \E l \in Listeners : Accept(c, l)
  \/ ClientDriven(c)
  \/ ServerDriven(c)
  \/ BindAccept(c)
  \/ BindEnv(c)
  \/ RelayControlEnds(c)
  \/ EmbedEnv(c)

Next ==
  \/ Stop
  \/ StopClose
  \/ \E l \in Listeners : LoopReturn(l)
  \/ \E c \in Conns :
      \/ SessionStep(c)
      \/ Fwd!HandlerStep(c) /\ UNCHANGED sessVars
      \/ \E d \in Fwd!Dirs : Fwd!CopierStep(c, d) /\ UNCHANGED sessVars
      \/ \E s \in Fwd!Sides : /\ ClientMaySend(c, s)
                              /\ Fwd!PeerStep(c, s) /\ UNCHANGED sessVars

\* Goroutines are scheduled fairly, Run's among them once it has begun
\* ProxyServer.Stop; clients, remote peers, the remote host of a BIND,
\* statute.Tunnel and the operator (Stop) are not obliged to act.
Fairness ==
  /\ WF_vars(StopClose)
  /\ \A l \in Listeners : WF_vars(LoopReturn(l))
  /\ \A c \in Conns :
       /\ WF_vars(ServerDriven(c))
       /\ WF_vars(BindAccept(c))
       /\ WF_vars(RelayControlEnds(c))
       /\ WF_vars(Fwd!HandlerStep(c) /\ UNCHANGED sessVars)
       /\ \A d \in Fwd!Dirs :
            WF_vars(Fwd!CopierStep(c, d) /\ UNCHANGED sessVars)

Spec == Init /\ [][Next]_vars /\ Fairness

-----------------------------------------------------------------------------
(* Properties.                                                             *)

TypeOK ==
  /\ spc     \in [Conns -> SessionStates]
  /\ proto   \in [Conns -> {"none", "socks", "socks5", "socks4", "http"}]
  /\ req     \in [Conns -> {"none", "connect", "bind", "associate", "other"} \cup
                           HttpKinds]
  /\ offered \in [Conns -> SUBSET MethodCodes]
  /\ method  \in [Conns -> MethodReplies \cup {"none"}]
  /\ authOk  \in [Conns -> BOOLEAN]
  /\ replies \in [Conns -> Seq(ReplyTokens)]
  /\ bln     \in [Conns -> {"none", "open", "closed"}]
  /\ agpc    \in [Conns -> {"none", "accept", "exit"}]
  /\ acceptq \in [Conns -> Seq({"ok", "err"})]
  /\ remote  \in [Conns -> {"none", "queued", "accepted", "closed"}]
  /\ allowed \in [Conns -> BOOLEAN]
  /\ stopped \in BOOLEAN
  /\ lnOpen  \in [Listeners -> BOOLEAN]
  /\ alp     \in [Listeners -> {"select", "accept", "returned"}]
  /\ handlers \in HandlerModes
  /\ edial   \in [Conns -> {"none", "ok", "err"}]
  /\ udp     \in [Conns -> {"none", "open", "closed"}]
  /\ rdr     \in [Conns -> {"none", "reading", "exit"}]
  /\ rsrc    \in [Conns -> Hosts \cup {"none"}]
  /\ rtgt    \in [Conns -> Hosts \cup {"none"}]
  /\ Fwd!TypeOK

(* SOCKS5 access control (authenticate, handleUsernamePasswordAuth): a    *)
(* request is acted on only after an accepted negotiation.  The method    *)
(* selected is no-auth or username/password, the latter only with valid   *)
(* credentials, and when credentials are configured a client that offered *)
(* username/password cannot have been let in without them.                 *)
AuthGate ==
  \A c \in Conns :
    (proto[c] = "socks5" /\ req[c] # "none") =>
      /\ method[c] \in {"noauth", "userpass"}
      /\ method[c] = "userpass" => authOk[c]
      /\ (HasCredentials /\ 2 \in offered[c]) => authOk[c]

\* The reply sequences RFC 1928/1929 and spec 4.4-4.6 allow per protocol.
LegalReplies(p) ==
  CASE p = "socks5" ->
         {<<"gssapi">>, <<"noacceptable">>, <<"userpass", "auth_fail">>}
         \cup {n \o t : n \in {<<"noauth">>, <<"userpass", "auth_ok">>},
                         t \in {<<"s5_granted">>, <<"s5_failed">>,
                                <<"cmd_unsupported">>, <<"atyp_unsupported">>,
                                <<"s5_bound", "s5_granted">>,
                                <<"s5_bound", "s5_failed">>,
                                <<"s5_bound", "s5_notallowed">>}}
    [] p = "http"   -> {<<"h400">>, <<"h101">>, <<"h200">>, <<"h503">>}
    [] p = "socks4" -> {<<"s4_granted", "s4_granted">>, <<"s4_rejected">>}
    [] OTHER        -> {<<>>}

(* The replies written on a connection follow the protocol: what the      *)
(* client has received is a prefix of a legal sequence (nothing after a   *)
(* failure reply, one negotiation answer, one request answer), and a      *)
(* connection is handed to vt.handler, or tunneled by an embedded path,   *)
(* only right after a grant (HTTP absolute-form, which has no reply of    *)
(* its own, excepted; SOCKS4's user path, which writes none, is the       *)
(* subject of ReplyBeforeData).                                            *)
RepliesWellFormed ==
  \A c \in Conns :
    /\ \E l \in LegalReplies(proto[c]) : IsPrefix(replies[c], l)
    /\ (spc[c] = "fwd" /\ req[c] # "absolute" /\ proto[c] # "socks4") =>
         replies[c] # <<>> /\ Last(replies[c]) \in Grants
    /\ (spc[c] = "etun" /\ req[c] # "absolute") =>
         replies[c] # <<>> /\ Last(replies[c]) \in Grants \cup {"s4_granted"}

NoDataLostAtClose == Fwd!NoDataLostAtClose

(* The 15 s read deadline that vt.handler arms for udp before every read  *)
(* makes every udp ASSOCIATE flow end, however the peers behave.          *)
UdpHandlerReturns == Fwd!UdpHandlerReturns

(* SOCKS5 BIND (spec 4.5): data is tunneled only with the one peer that  *)
(* was accepted on the BIND listener and, when DST.ADDR is specified,     *)
(* whose source IP matches it; SOCKS4 BIND tunnels its accepted peer.     *)
BindPeerChecked ==
  \A c \in Conns :
    spc[c] = "btun" =>
      /\ remote[c] = "accepted"
      /\ bln[c] = "open"
      /\ proto[c] = "socks5" => allowed[c]

(* Once embedHandleBind has returned, its listener is closed and its      *)
(* accept goroutine eventually exits: the listener close makes Accept    *)
(* fail, and the send on acceptChan does not block although nobody will  *)
(* receive it any more.                                                   *)
BindCleanup ==
  \A c \in Conns :
    spc[c] = "end" ~> (bln[c] # "open" /\ agpc[c] # "accept")

(* Spec section 5: every blocking point is interruptible by the         *)
(* orchestrator's cancellation.  Once ProxyServer.Stop has cancelled the  *)
(* servers' context, every BIND session that is not tunneling eventually  *)
(* holds neither its listener nor a remote connection: embedHandleBind    *)
(* selects on ctx.Done() (SOCKS5) or blocks in ln.Accept (SOCKS4), and    *)
(* the remote conn's deferred Close is registered after the select.       *)
BindReleasedAfterStop ==
  \A c \in Conns :
    stopped ~> \/ spc[c] = "btun"
               \/ bln[c] # "open" /\ remote[c] \notin {"queued", "accepted"}

(* Spec 8, cancellation propagation: after ProxyServer.Stop, every accept *)
(* loop returns: Stop cancels the context the loops select on and closes  *)
(* their listeners, so a loop blocked in Accept fails, continues, sees    *)
(* the context done and returns, closing its listener.                     *)
AcceptLoopsReturn ==
  stopped ~> \A l \in Listeners : alp[l] = "returned" /\ ~lnOpen[l]

(* Spec section 5: the protocol's success reply is written before any     *)
(* tunneled byte reaches the client (SOCKS4: 0x5A, spec scenario 3).       *)
ReplyBeforeData ==
  \A c \in Conns :
    (delivered[c]["client"] > 0 /\ req[c] # "absolute") =>
      replies[c] # <<>> /\ Last(replies[c]) \in Grants \cup {"s4_granted"}

(* Spec 4.4/4.5 and the error table: a CONNECT whose dial through the     *)
(* tunnel fails is answered with a failure reply (SOCKS5 0x01-0x06,       *)
(* SOCKS4 0x5B, HTTP 503), never with the success reply.                   *)
NoGrantOnDialFailure ==
  \A c \in Conns :
    (req[c] = "connect" /\ result[c] = "dialErr") =>
      \A i \in 1..Len(replies[c]) : replies[c][i] \notin Grants

(* Spec 4.4-4.6 and the error table, on the embedded paths the socks and  *)
(* http packages take without user handlers: a CONNECT (or absolute-form  *)
(* request) is granted only after ProxyDial succeeded, and a failed dial  *)
(* is answered with the protocol's failure reply (0x01-0x06, 0x5B, 503).  *)
EmbeddedReplyFollowsDial ==
  \A c \in Conns :
    (handlers = "embedded" /\ req[c] \in {"connect", "absolute"}) =>
      /\ (\E i \in 1..Len(replies[c]) :
            replies[c][i] \in Grants \cup {"s4_granted"}) => edial[c] = "ok"
      /\ (edial[c] = "err" /\ spc[c] = "end") =>
            replies[c] # <<>> /\
            Last(replies[c]) \in {"s5_failed", "s4_rejected", "h503"}

(* RFC 1928 and spec 4.5: the embedded UDP relay lives only as long as its *)
(* TCP control connection.  Once the client has closed that connection, or *)
(* the handler has returned (a failed WriteTo), the relay loop returns,   *)
(* its UDP endpoint is closed, the control connection is closed and the    *)
(* goroutine reading it exits; no datagram has to arrive for that.         *)
AssociationTiedToControl ==
  \A c \in Conns :
    (rdr[c] = "reading" /\ (~ClientOpen(c) \/ spc[c] = "end"))
      ~> (spc[c] = "end" /\ udp[c] = "closed" /\ rdr[c] = "exit")

(* Spec section 5 (blocking points are interruptible): once the client    *)
(* has hung up, a connection still being negotiated is eventually closed  *)
(* by its serving goroutine.                                               *)
HangupEndsSession ==
  \A c \in Conns :
    (spc[c] \notin {"listen", "fwd", "end"} /\ ~ClientOpen(c))
      ~> spc[c] = "end"

=============================================================================
