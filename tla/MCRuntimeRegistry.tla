------------------------- MODULE MCRuntimeRegistry -------------------------
\* RuntimeRegistry for TLC: a starts without a takeover, b and c with one.
EXTENDS RuntimeRegistry

CONSTANTS a, b, c
=============================================================================
