---------------------------- MODULE MCGatewayRPC ----------------------------
EXTENDS GatewayRPC, TLC
CONSTANTS c1, c2, s1
=============================================================================
