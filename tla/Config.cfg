\* Configurations with one key, one IPv4 and one IPv6 address, one peer,
\* lists of at most one item, and each optional number absent or set.
CONSTANTS
  k1 = k1
  v4 = v4
  v6 = v6
  e1 = e1
  Keys <- MCKeys
  V4Addrs <- MCV4Addrs
  V6Addrs <- MCV6Addrs
  Endpoints <- MCEndpoints
  MTUs = {0, 1420}
  FwMarks = {0, 51820}
  KeepAlives = {0, 25}
  MaxList = 1

SPECIFICATION Spec

INVARIANT RoundTripIdentity

\* A behaviour ends once its configuration has been re-read.
CHECK_DEADLOCK FALSE
