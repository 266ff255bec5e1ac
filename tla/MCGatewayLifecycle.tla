-------------------------- MODULE MCGatewayLifecycle --------------------------
EXTENDS GatewayLifecycle, TLC
CONSTANTS u1, u2
=============================================================================
