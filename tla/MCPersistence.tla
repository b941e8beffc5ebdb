---------------------------- MODULE MCPersistence ----------------------------
EXTENDS Persistence, TLC

CONSTANTS b1, b2, p1, k1

MCBlobs == {b1, b2}
MCPaths == {p1}
MCStatKeys == {k1}

=============================================================================
