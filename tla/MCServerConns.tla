--------------------------- MODULE MCServerConns ---------------------------
EXTENDS ServerConns
=============================================================================
