------------------------------- MODULE MCTurn -------------------------------
EXTENDS Turn, TLC

=============================================================================
