-------------------------- MODULE MCBrokerTransfer --------------------------
EXTENDS BrokerTransfer

CONSTANTS t1, o1, p1, k1
=============================================================================
