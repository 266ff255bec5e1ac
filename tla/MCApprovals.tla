---------------------------- MODULE MCApprovals ----------------------------
EXTENDS Approvals, TLC

=============================================================================
