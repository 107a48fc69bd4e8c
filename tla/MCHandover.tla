----------------------------- MODULE MCHandover -----------------------------
EXTENDS Handover, MCOurDao
============================================================================
