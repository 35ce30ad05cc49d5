---------------------------- MODULE MCTcpClient ----------------------------
\* A client of a server that comes and goes.
EXTENDS TcpClient
=============================================================================
