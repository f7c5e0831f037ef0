--------------------------- MODULE MCBrokerStream ---------------------------
EXTENDS BrokerStream

CONSTANTS t1, p1
=============================================================================
