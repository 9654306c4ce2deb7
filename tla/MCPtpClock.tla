----------------------------- MODULE MCPtpClock -----------------------------
EXTENDS PtpClock
=============================================================================
