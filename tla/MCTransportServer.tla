-------------------------- MODULE MCTransportServer --------------------------
EXTENDS TransportServer
=============================================================================
