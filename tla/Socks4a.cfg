\* SOCKS4a requests (DSTIP 0.0.0.1) among the inputs.
CONSTANTS
  Commands = {1, 2}
  Ports <- MCPorts
  Addrs <- MCAddrs
  Users <- MCUsers
  Hosts <- MCHosts
  Payloads <- MCPayloads
  LocalAddrs <- MCLocalAddrs
  LocalPorts <- MCLocalPorts

SPECIFICATION Spec

INVARIANT Socks4aParsed

\* A behaviour ends once its one request has been parsed.
CHECK_DEADLOCK FALSE
