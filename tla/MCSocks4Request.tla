-------------------------- MODULE MCSocks4Request --------------------------
EXTENDS Socks4Request

\* A plain address, 0.0.0.0, 0.0.0.1 (SOCKS4a) and 0.0.1.0 (plain: only the
\* last byte may be non-zero).
MCAddrs == {<<10, 0, 0, 1>>, <<0, 0, 0, 0>>, <<0, 0, 0, 1>>, <<0, 0, 1, 0>>}

\* Empty and one-byte user ids and payloads; a port above 255 so that the
\* byte order of DSTPORT matters.
MCUsers    == {<<>>, <<117>>}
MCHosts    == {<<101>>}
MCPayloads == {<<>>, <<7>>}
MCPorts    == {80, 443}

\* A local address with four distinct bytes and ports on either side of
\* 255, up to the largest.
MCLocalAddrs == {<<10, 1, 2, 3>>}
MCLocalPorts == {80, 65535}
=============================================================================
