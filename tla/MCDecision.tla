----------------------------- MODULE MCDecision -----------------------------
EXTENDS Decision
=============================================================================
