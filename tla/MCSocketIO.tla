---------------------------- MODULE MCSocketIO ----------------------------
\* Messages of one, two and three pieces.
EXTENDS SocketIO
=============================================================================
