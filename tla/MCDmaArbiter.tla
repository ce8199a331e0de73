---------------------------- MODULE MCDmaArbiter ----------------------------
EXTENDS DmaArbiter

MCRequest == [req : BOOLEAN, we : BOOLEAN]
=============================================================================
