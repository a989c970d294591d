---------------------------- MODULE MCNonceFilter ----------------------------
EXTENDS NonceFilter
=============================================================================
