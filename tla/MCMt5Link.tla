------------------------------ MODULE MCMt5Link ------------------------------
EXTENDS Mt5Link, TLC
=============================================================================
