---------------------------- MODULE MCSSEBridge ----------------------------
EXTENDS SSEBridge
=============================================================================
