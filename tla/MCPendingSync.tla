--------------------------- MODULE MCPendingSync ----------------------------
EXTENDS PendingSync, TLC

CONSTANTS a1, a2, b1

TwoInOne == a1 :> b1 @@ a2 :> b1
=============================================================================
