-------------------------- MODULE MCSeccompSession --------------------------
EXTENDS SeccompSession, TLC

CONSTANTS t1, t2
=============================================================================
