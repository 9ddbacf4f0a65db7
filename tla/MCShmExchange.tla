--------------------------- MODULE MCShmExchange ---------------------------
EXTENDS ShmExchange

=============================================================================
