----------------------------- MODULE MCPowerman -----------------------------
\* The instance of Powerman for TLC.
EXTENDS Powerman
=============================================================================
