----------------------------- MODULE MCDecoding -----------------------------
EXTENDS Decoding, TLC
CONSTANTS o1, o2, a, f
=============================================================================
