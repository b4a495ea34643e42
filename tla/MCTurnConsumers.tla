--------------------------- MODULE MCTurnConsumers ---------------------------
\* Instance of TurnConsumers: two model runs, one tool call, two interrupts.
EXTENDS TurnConsumers, TLC
=============================================================================
