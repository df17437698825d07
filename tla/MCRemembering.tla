--------------------------- MODULE MCRemembering ---------------------------
EXTENDS Remembering, TLC
CONSTANTS o1
=============================================================================
