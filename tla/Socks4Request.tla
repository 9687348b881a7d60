--------------------------- MODULE Socks4Request ---------------------------
(***************************************************************************)
(* Parsing of a SOCKS4/4a request (src/proxy/socks/socks4/common.go).       *)
(*                                                                         *)
(*   NewRequest reads VN and CD (2 bytes), DSTPORT and DSTIP (6 bytes),    *)
(*   the NUL-terminated USERID, and, when isSocks4a holds of the address,  *)
(*   the NUL-terminated host name.  Bytes are naturals, streams sequences *)
(*   of them.  DSTIP is kept as Go keeps it: net.IPv4 returns the 16-byte  *)
(*   IPv4-in-IPv6 form.                                                    *)
(*                                                                         *)
(*   A behaviour is one client: it writes some prefix of an encoded        *)
(*   request followed by payload bytes, then the server parses it.  The    *)
(*   wire format of the spec (VN | CD | DSTPORT | DSTIP | USERID | 0 |     *)
(*   [DOMAIN | 0 if DSTIP = 0.0.0.x, x # 0]) is the reference.              *)
(***************************************************************************)
EXTENDS Naturals, Sequences, SequencesExt

CONSTANTS
  Commands,   \* CD values the clients send
  Ports,      \* DSTPORT values
  Addrs,      \* DSTIP values, as 4-byte sequences
  Users,      \* USERID byte strings (no NUL)
  Hosts,      \* SOCKS4a host names (no NUL, non-empty)
  Payloads,   \* bytes the client sends after its request
  LocalAddrs, \* IPv4 addresses (4-byte sequences) the server's sockets get
  LocalPorts  \* their ports

Socks4Version == 4

\* Reply: VN is ReplyVersion; CD 0x5A granted, 0x5B rejected or failed.
ReplyVersion  == 0
GrantedReply  == 90
RejectedReply == 91

-----------------------------------------------------------------------------
(* The code.                                                               *)

\* net.IPv4(a, b, c, d): the 16-byte form, v4InV6Prefix then the 4 bytes.
IPv4(a, b, c, d) ==
  <<0, 0, 0, 0, 0, 0, 0, 0, 0, 0, 255, 255, a, b, c, d>>

\* Go slices index from 0, sequences from 1: IP[i] is ip[i + 1].
IsSocks4a(ip) == ip[1] = 0 /\ ip[2] = 0 /\ ip[3] = 0 /\ ip[4] # 0

\* Fault variant: the end of the stream is taken for the terminator.
ReadUntilNullAtEOF(s) ==
  LET i == SelectInSeq(s, LAMBDA b : b = 0)
  IN IF i = 0 THEN [ok |-> TRUE, val |-> s, rest |-> <<>>]
              ELSE [ok |-> TRUE, val |-> SubSeq(s, 1, i - 1),
                    rest |-> SubSeq(s, i + 1, Len(s))]

\* Fault variant: the terminating NUL is kept in the string.
ReadUntilNullKeepsNul(s) ==
  LET i == SelectInSeq(s, LAMBDA b : b = 0)
  IN IF i = 0 THEN [ok |-> FALSE, val |-> <<>>, rest |-> <<>>]
              ELSE [ok |-> TRUE, val |-> SubSeq(s, 1, i),
                    rest |-> SubSeq(s, i + 1, Len(s))]

\* readUntilNull: one byte per Read; a read error (the stream ends) fails,
\* a 0 ends the string, anything else is appended.
RECURSIVE ReadUntilNull(_)
ReadUntilNull(s) ==
  IF s = <<>> THEN [ok |-> FALSE, val |-> <<>>, rest |-> <<>>]
  ELSE IF Head(s) = 0 THEN [ok |-> TRUE, val |-> <<>>, rest |-> Tail(s)]
  ELSE LET r == ReadUntilNull(Tail(s))
       IN [r EXCEPT !.val = <<Head(s)>> \o @]

\* net.IP.To4: a 4-byte IP as it is, the IPv4-in-IPv6 16-byte form its
\* last four bytes, anything else nil (<<>>).
IPTo4(ip) ==
  CASE Len(ip) = 4                                  -> ip
    [] Len(ip) = 16 /\ SubSeq(ip, 1, 12) = SubSeq(IPv4(0, 0, 0, 0), 1, 12)
                                                    -> SubSeq(ip, 13, 16)
    [] OTHER                                        -> <<>>

\* An Address with no IP and port 0: what WriteReply makes of nil.
NoAddress == [ip |-> <<>>, port |-> 0]

\* Fault variant: the IP is copied without To4.
WriteReplyNoTo4(reply, addr) ==
  LET ip == IF addr.ip = <<>> THEN IPv4(0, 0, 0, 0) ELSE addr.ip
      p  == addr.port % 65536
  IN <<ReplyVersion, reply, p \div 256, p % 256>> \o SubSeq(ip, 1, 4)

\* WriteReply: nil becomes &Address{} and a nil IP net.IPv4zero (16 bytes);
\* DSTPORT is uint16(Port) big-endian; copy(b[4:8], IP.To4()) copies the
\* four bytes, or nothing when To4 is nil, leaving zeros.
WriteReply(reply, addr) ==
  LET ip == IF addr.ip = <<>> THEN IPv4(0, 0, 0, 0) ELSE addr.ip
      p  == addr.port % 65536
      v4 == IPTo4(ip)
  IN <<ReplyVersion, reply, p \div 256, p % 256>>
       \o (IF v4 = <<>> THEN <<0, 0, 0, 0>> ELSE v4)

\* The result of NewRequest: err is "none" for a request, else the error.
NoRequest ==
  [err |-> "none", version |-> 0, command |-> 0, port |-> 0,
   ip |-> <<>>, user |-> <<>>, name |-> <<>>, rest |-> <<>>]

Fail(e) == [NoRequest EXCEPT !.err = e]

\* NewRequest over the stream s; rest is what is left unread on the conn.
NewRequest(s) ==
  IF Len(s) < 2 THEN Fail("io")
  ELSE IF s[1] # Socks4Version THEN Fail("version")
  ELSE IF Len(s) < 8 THEN Fail("io")
  ELSE
    LET ip   == IPv4(s[5], s[6], s[7], s[8])
        u    == ReadUntilNull(SubSeq(s, 9, Len(s)))
        req  == [err |-> "none", version |-> s[1], command |-> s[2],
                 port |-> s[3] * 256 + s[4], ip |-> ip, user |-> u.val,
                 name |-> <<>>, rest |-> u.rest]
        d    == ReadUntilNull(u.rest)
    IN CASE ~u.ok                    -> Fail("io")
         [] ~IsSocks4a(ip)           -> req
         [] ~d.ok                    -> Fail("io")
         [] OTHER                    -> [req EXCEPT !.name = d.val,
                                                    !.rest = d.rest]

-----------------------------------------------------------------------------
(* The reference: the wire format of the spec.                             *)

\* A request the client means to send.
Requests ==
  [command : Commands, port : Ports, addr : Addrs, user : Users, host : Hosts]

\* DSTIP = 0.0.0.x with x # 0 announces a host name.
Announces4a(a) == a[1] = 0 /\ a[2] = 0 /\ a[3] = 0 /\ a[4] # 0

Encode(r) ==
  <<Socks4Version, r.command, r.port \div 256, r.port % 256>> \o r.addr
    \o r.user \o <<0>> \o (IF Announces4a(r.addr) THEN r.host \o <<0>> ELSE <<>>)

\* IP.To4 on the 16-byte form: its last four bytes.
To4(ip) == SubSeq(ip, 13, 16)

VARIABLES
  input,    \* [req, payload, cut]: the client wrote the first cut bytes of
            \*   Encode(req) \o payload
  parsed,   \* the result of NewRequest, or NoRequest before it ran
  bound,    \* the reply the server means: [cd, addr (4 bytes), port]
  reply     \* the bytes of the reply written to the client (<<>> before)

vars == <<input, parsed, bound, reply>>

Wire(in) == SubSeq(Encode(in.req) \o in.payload, 1, in.cut)

Inputs ==
  UNION { [req : {r}, payload : {p}, cut : 0..Len(Encode(r) \o p)] :
            r \in Requests, p \in Payloads }

Init ==
  /\ input \in Inputs
  /\ parsed = NoRequest
  /\ bound  = [cd |-> 0, addr |-> <<>>, port |-> 0]
  /\ reply  = <<>>

\* socks4 Server.ServeConn: NewRequest(conn).
Parse ==
  /\ parsed = NoRequest
  /\ parsed' = NewRequest(Wire(input))
  /\ UNCHANGED <<input, bound, reply>>

\* The first reply of an embedded handler: 0x5A with the local address ip
\* and port when the dial or listen succeeded, 0x5B with a nil address when
\* it failed.  The kernel's address reaches Go as a 16-byte IP (v16) or a
\* 4-byte one.  A request gets one such reply.
SendReply(ok, ip, port, v16) ==
  /\ reply = <<>>
  /\ LET goIP == IF v16 THEN IPv4(ip[1], ip[2], ip[3], ip[4]) ELSE ip
     IN IF ok
          THEN /\ bound' = [cd |-> GrantedReply, addr |-> ip, port |-> port]
               /\ reply' = WriteReply(GrantedReply, [ip |-> goIP, port |-> port])
          ELSE /\ bound' = [cd |-> RejectedReply, addr |-> <<0, 0, 0, 0>>,
                            port |-> 0]
               /\ reply' = WriteReply(RejectedReply, NoAddress)
  /\ UNCHANGED <<input, parsed>>

\* embedHandleConnect: ProxyDial fails (0x5B) or succeeds (0x5A with
\* target.LocalAddr()).
RespondConnect(ok, a, port, v16) ==
  /\ parsed.err = "none"
  /\ parsed.command = 1
  /\ SendReply(ok, a, port, v16)

\* embedHandleBind, first reply: net.Listen on 0.0.0.0:0 fails (0x5B) or
\* succeeds (0x5A with ln.Addr(), whose IP is 0.0.0.0).
RespondBind(ok, port, v16) ==
  /\ parsed.err = "none"
  /\ parsed.command = 2
  /\ SendReply(ok, <<0, 0, 0, 0>>, port, v16)

Next ==
  \/ Parse
  \/ \E ok \in BOOLEAN, a \in LocalAddrs, p \in LocalPorts, v16 \in BOOLEAN :
       RespondConnect(ok, a, p, v16)
  \/ \E ok \in BOOLEAN, p \in LocalPorts, v16 \in BOOLEAN :
       RespondBind(ok, p, v16)

Spec == Init /\ [][Next]_vars

-----------------------------------------------------------------------------
(* Properties.                                                             *)

\* The request was written in full.
Complete(in) == in.cut >= Len(Encode(in.req))

\* What the spec's wire format says NewRequest returns for a complete one.
Meant(in) ==
  [err |-> "none", version |-> Socks4Version, command |-> in.req.command,
   port |-> in.req.port, ip |-> in.req.addr, user |-> in.req.user,
   name |-> IF Announces4a(in.req.addr) THEN in.req.host ELSE <<>>,
   rest |-> SubSeq(Wire(in), Len(Encode(in.req)) + 1, in.cut)]

(* A complete plain SOCKS4 request is parsed into exactly its fields: the *)
(* big-endian DSTPORT, DSTIP (To4 of the 16-byte form), USERID without    *)
(* its NUL, and the payload that follows is left unread for the tunnel.   *)
PlainRequestParsed ==
  (parsed # NoRequest /\ Complete(input) /\ ~Announces4a(input.req.addr)) =>
    /\ parsed.err = "none"
    /\ [parsed EXCEPT !.ip = To4(@)] = Meant(input)

(* A plain SOCKS4 request cut short (the client hangs up inside it) is an *)
(* error of NewRequest, never a request built from what arrived.  (A cut  *)
(* SOCKS4a request is the subject of Socks4aParsed.)                       *)
TruncatedRejected ==
  (parsed # NoRequest /\ ~Complete(input) /\ ~Announces4a(input.req.addr))
    => parsed.err # "none"

(* Spec section 3: DSTIP 0.0.0.x, x # 0, announces SOCKS4a; NewRequest    *)
(* reads the host name and leaves only the payload on the conn.           *)
Socks4aParsed ==
  (parsed # NoRequest /\ Complete(input) /\ Announces4a(input.req.addr)) =>
    /\ parsed.err = "none"
    /\ [parsed EXCEPT !.ip = To4(@)] = Meant(input)

(* Spec 4.4: the client reads the reply as VN | CD | DSTPORT | DSTIP and *)
(* learns the outcome and the address the server bound: WriteReply must   *)
(* write the port big-endian and the IPv4 bytes of the Go IP, whose usual *)
(* 16-byte form keeps them at bytes 12..15 (the trap isSocks4a falls in). *)
ReplyAnnouncesBound ==
  reply # <<>> =>
    /\ Len(reply) = 8
    /\ reply[1] = ReplyVersion /\ reply[2] = bound.cd
    /\ reply[3] * 256 + reply[4] = bound.port
    /\ SubSeq(reply, 5, 8) = bound.addr

TypeOK ==
  /\ input \in Inputs
  /\ parsed.err \in {"none", "io", "version"}
  /\ reply \in Seq(0..255)

=============================================================================
