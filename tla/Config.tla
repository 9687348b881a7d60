------------------------------- MODULE Config -------------------------------
(***************************************************************************)
(* The configuration file: Configuration.String (src/config.go, second     *)
(* variant, with []netip.Prefix addresses) writes the INI text that        *)
(* ParseConfig / ParseInterface / ParsePeers read back.                     *)
(*                                                                         *)
(* Text is abstracted to the values it carries.  An INI section is a      *)
(* function from its key names to the comma-separated list of items of   *)
(* the key's value; go-ini is loaded Insensitive, so names are kept in    *)
(* lower case.  An item is a record naming what text it is: the base64    *)
(* form of a key, a prefix "ip/bits", a bare address, a decimal integer   *)
(* or free text (an endpoint).  The netip and base64 parsers accept an    *)
(* item exactly when it is text of their kind.                            *)
(***************************************************************************)
EXTENDS Naturals, Sequences, SequencesExt, TLC

CONSTANTS
  Keys,        \* 32-byte WireGuard keys (model values), kept as hex
  V4Addrs,     \* IPv4 addresses (model values)
  V6Addrs,     \* IPv6 addresses (model values)
  Endpoints,   \* peer endpoint texts (model values)
  MTUs,        \* MTU values, 0 meaning absent
  FwMarks,     \* FwMark values, 0 meaning absent
  KeepAlives,  \* PersistentKeepalive values, 0 meaning absent
  MaxList      \* bound on the length of address lists

\* The 64 '0' hex digits ParsePeers takes as the default PreSharedKey.
ZeroKey == "zero"

Addrs == V4Addrs \cup V6Addrs

\* A netip.Prefix; the bits of a bare address widened by ParseInterface.
NetPrefixes == [ip : V4Addrs, bits : {24, 32}] \cup [ip : V6Addrs, bits : {128}]

-----------------------------------------------------------------------------
(* Conversions between values and text items.                             *)

\* EncodeHexToBase64 (not in the repository; String calls it).
B64(k)        == [t |-> "b64", v |-> k]
PrefixText(p) == [t |-> "prefix", v |-> p]
AddrText(a)   == [t |-> "addr", v |-> a]
IntText(n)    == [t |-> "int", v |-> n]
Text(e)       == [t |-> "text", v |-> e]

\* EncodeBase64ToHex: base64 that decodes to 32 bytes, else an error
\* (the empty value of an absent key decodes to 0 bytes).
Base64ToHex(item) == IF item.t = "b64" THEN item.v ELSE "error"

\* One entry of a section, present only when `present`.
Entry(present, name, items) == IF present THEN (name :> items) ELSE <<>>

\* Section.GetKey succeeds only for a present key; Key returns an empty
\* key (no items) for an absent one.
Items(sec, name) == IF name \in DOMAIN sec THEN sec[name] ELSE <<>>

Ok(v)   == [ok |-> TRUE, v |-> v]
Err     == [ok |-> FALSE, v |-> "none"]

-----------------------------------------------------------------------------
(* Configuration.String.                                                   *)

InterfaceText(i) ==
  Entry(i.priv # "", "privatekey", <<B64(i.priv)>>)
  @@ Entry(i.addrs # <<>>, "address", [n \in DOMAIN i.addrs |-> PrefixText(i.addrs[n])])
  @@ Entry(i.dns # <<>>, "dns", [n \in DOMAIN i.dns |-> AddrText(i.dns[n])])
  @@ Entry(i.mtu # 0, "mtu", <<IntText(i.mtu)>>)

PeerText(p) ==
  Entry(p.pub # "", "publickey", <<B64(p.pub)>>)
  @@ Entry(p.psk \notin {"", ZeroKey}, "presharedkey", <<B64(p.psk)>>)
  @@ Entry(p.allowed # <<>>, "allowedips",
           [n \in DOMAIN p.allowed |-> PrefixText(p.allowed[n])])
  @@ Entry(p.endpoint # "", "endpoint", <<Text(p.endpoint)>>)
  @@ Entry(p.keepalive # 0, "persistentkeepalive", <<IntText(p.keepalive)>>)

String(c) ==
  [interfaces |-> <<InterfaceText(c.iface)>>,
   peers      |-> [n \in DOMAIN c.peers |-> PeerText(c.peers[n])]]

-----------------------------------------------------------------------------
(* ParseInterface, ParsePeers, ParseConfig.                                *)

\* An Address item: netip.ParsePrefix, else netip.ParseAddr widened to
\* /32 or /128.
AddressItem(item) ==
  CASE item.t = "prefix" -> Ok(item.v)
    [] item.t = "addr"   -> Ok([ip |-> item.v,
                                bits |-> IF item.v \in V4Addrs THEN 32 ELSE 128])
    [] OTHER             -> Err

\* Parse every item of a list with P, failing at the first error.
ParseList(items, P(_)) ==
  IF \A n \in DOMAIN items : P(items[n]).ok
    THEN Ok([n \in DOMAIN items |-> P(items[n]).v])
    ELSE Err

ParseInt(items) == IF items[1].t = "int" THEN Ok(items[1].v) ELSE Err
ParseAddr(item) == IF item.t = "addr" THEN Ok(item.v) ELSE Err
ParsePrefix(item) == IF item.t = "prefix" THEN Ok(item.v) ELSE Err

ParseInterface(doc) ==
  IF Len(doc.interfaces) # 1 THEN Err
  ELSE
    LET s    == doc.interfaces[1]
        addr == ParseList(Items(s, "address"), AddressItem)
        priv == Base64ToHex(IF "privatekey" \in DOMAIN s
                              THEN s["privatekey"][1] ELSE Text(""))
        dns  == IF "dns" \in DOMAIN s THEN ParseList(s["dns"], ParseAddr)
                                      ELSE Ok(<<>>)
        mtu  == IF "mtu" \in DOMAIN s THEN ParseInt(s["mtu"]) ELSE Ok(0)
        fw   == IF "fwmark" \in DOMAIN s THEN ParseInt(s["fwmark"]) ELSE Ok(0)
    IN IF addr.ok /\ priv # "error" /\ dns.ok /\ mtu.ok /\ fw.ok
         THEN Ok([priv |-> priv, addrs |-> addr.v, dns |-> dns.v,
                  mtu |-> mtu.v, fwmark |-> fw.v])
         ELSE Err

\* One [Peer] section; PreSharedKey defaults to the zero key.
ParsePeer(s) ==
  LET pub == IF "publickey" \in DOMAIN s THEN Base64ToHex(s["publickey"][1])
                                          ELSE ""
      psk == IF "presharedkey" \in DOMAIN s
               THEN Base64ToHex(s["presharedkey"][1]) ELSE ZeroKey
      ka  == IF "persistentkeepalive" \in DOMAIN s
               THEN ParseInt(s["persistentkeepalive"]) ELSE Ok(0)
      ips == IF "allowedips" \in DOMAIN s
               THEN ParseList(s["allowedips"], ParsePrefix) ELSE Ok(<<>>)
  IN IF pub # "error" /\ psk # "error" /\ ka.ok /\ ips.ok
       THEN Ok([pub |-> pub, psk |-> psk, allowed |-> ips.v,
                endpoint |-> IF "endpoint" \in DOMAIN s
                               THEN s["endpoint"][1].v ELSE "",
                keepalive |-> ka.v])
       ELSE Err

ParsePeers(doc) ==
  IF Len(doc.peers) < 1 THEN Err
  ELSE ParseList(doc.peers, ParsePeer)

ParseConfig(doc) ==
  LET i == ParseInterface(doc)
      p == ParsePeers(doc)
  IN IF i.ok /\ p.ok THEN Ok([iface |-> i.v, peers |-> p.v]) ELSE Err

-----------------------------------------------------------------------------
(* The configurations ParseConfig can return, one at a time.               *)

Lists(S) == BoundedSeq(S, MaxList)

Interfaces ==
  [priv : Keys, addrs : Lists(NetPrefixes), dns : Lists(Addrs), mtu : MTUs,
   fwmark : FwMarks]

PeerConfigs ==
  [pub : Keys \cup {""}, psk : Keys \cup {ZeroKey}, allowed : Lists(NetPrefixes),
   endpoint : Endpoints \cup {""}, keepalive : KeepAlives]

Accepted == [iface : Interfaces, peers : {<<p>> : p \in PeerConfigs}]

VARIABLES
  conf,     \* an accepted configuration
  reread    \* <<ParseConfig(conf.String())>>, or <<>> before it ran

vars == <<conf, reread>>

Init ==
  /\ conf \in Accepted
  /\ reread = <<>>

\* Write the configuration out and read it back.
RoundTrip ==
  /\ reread = <<>>
  /\ reread' = <<ParseConfig(String(conf))>>
  /\ UNCHANGED conf

Next == RoundTrip

Spec == Init /\ [][Next]_vars

-----------------------------------------------------------------------------
(* Properties.                                                             *)

(* Spec section 8 (config round-trip): re-encoding an accepted            *)
(* Configuration with String and re-parsing it with ParseConfig yields    *)
(* the same configuration (all-zero PSK omitted on emit).                 *)
RoundTripIdentity ==
  reread # <<>> => Head(reread).ok /\ Head(reread).v = conf

=============================================================================
