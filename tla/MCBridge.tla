------------------------------ MODULE MCBridge ------------------------------
EXTENDS Bridge
CONSTANTS a, b
MCClients == {a, b}
MCSlow == {b}
=============================================================================
