------------------------------ MODULE MCSandbox ------------------------------
\* Instances of Sandbox: three calls, as many machines as calls could create.
EXTENDS Sandbox, TLC
=============================================================================
