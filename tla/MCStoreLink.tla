---------------------------- MODULE MCStoreLink ----------------------------
\* StoreLink for TLC: c and d are the ws clients of the first and the second start().
EXTENDS StoreLink

CONSTANTS c, d
=============================================================================
