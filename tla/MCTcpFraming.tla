---------------------------- MODULE MCTcpFraming ----------------------------
EXTENDS TcpFraming

\* The third packet does not fit into one read.
SomePackets == <<2, 3, 5, 2>>
=============================================================================
