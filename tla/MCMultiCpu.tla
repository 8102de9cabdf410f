----------------------------- MODULE MCMultiCpu -----------------------------
\* Instances of MultiCpu for TLC.
EXTENDS MultiCpu
=============================================================================
