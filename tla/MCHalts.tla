------------------------------ MODULE MCHalts ------------------------------
EXTENDS Halts
=============================================================================
