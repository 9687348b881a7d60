\* Every prefix of every request of the model's sets, with and without a
\* payload byte after it, parsed by NewRequest.
CONSTANTS
  Commands = {1, 2}
  Ports <- MCPorts
  Addrs <- MCAddrs
  Users <- MCUsers
  Hosts <- MCHosts
  Payloads <- MCPayloads
  LocalAddrs <- MCLocalAddrs
  LocalPorts <- MCLocalPorts

SPECIFICATION Spec

INVARIANT PlainRequestParsed
INVARIANT TruncatedRejected
INVARIANT ReplyAnnouncesBound

\* A behaviour ends once its one request has been parsed.
CHECK_DEADLOCK FALSE
