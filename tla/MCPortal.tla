------------------------------ MODULE MCPortal ------------------------------
EXTENDS Portal

CONSTANTS t1, t2
=============================================================================
