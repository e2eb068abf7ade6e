-------------------------- MODULE MC_McpTransport --------------------------
EXTENDS McpTransport
=============================================================================
