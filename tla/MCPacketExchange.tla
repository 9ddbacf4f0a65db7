-------------------------- MODULE MCPacketExchange --------------------------
EXTENDS PacketExchange

=============================================================================
