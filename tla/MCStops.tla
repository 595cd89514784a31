------------------------------ MODULE MCStops ------------------------------
EXTENDS Stops

MCGains == {-2, 1, 2, 3, 8}
=============================================================================
