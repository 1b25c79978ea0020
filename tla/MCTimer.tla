------------------------------- MODULE MCTimer -------------------------------
EXTENDS Timer
CONSTANTS e1, e2
=============================================================================
