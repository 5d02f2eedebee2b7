--------------------------- MODULE MCSharedEngine ---------------------------
EXTENDS SharedEngine

=============================================================================
