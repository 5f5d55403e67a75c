-------------------------- MODULE MCL2GatewayToken --------------------------
\* The instance of L2GatewayToken that TLC checks.
EXTENDS L2GatewayToken
=============================================================================
