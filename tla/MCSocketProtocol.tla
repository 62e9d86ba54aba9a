--------------------------- MODULE MCSocketProtocol ---------------------------
EXTENDS SocketProtocol
===============================================================================
