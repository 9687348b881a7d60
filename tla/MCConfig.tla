------------------------------ MODULE MCConfig ------------------------------
EXTENDS Config

CONSTANTS k1, v4, v6, e1

MCKeys      == {k1}
MCV4Addrs   == {v4}
MCV6Addrs   == {v6}
MCEndpoints == {e1}
=============================================================================
