---------------------------- MODULE MCBrokerSync ----------------------------
EXTENDS BrokerSync, TLC
=============================================================================
