--------------------------- MODULE MCPexExchange ---------------------------
\* PexExchange for TLC.
EXTENDS PexExchange, TLC
=============================================================================
