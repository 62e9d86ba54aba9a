--------------------------- MODULE MCSocketChannels ---------------------------
EXTENDS SocketChannels
===============================================================================
