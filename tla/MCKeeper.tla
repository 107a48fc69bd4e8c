------------------------------ MODULE MCKeeper ------------------------------
EXTENDS Keeper, MCOurDao
============================================================================
