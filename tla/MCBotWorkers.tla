---------------------------- MODULE MCBotWorkers ----------------------------
EXTENDS BotWorkers, TLC

CONSTANTS a, b, pa, pb

OneEach == a :> pa @@ b :> pb
=============================================================================
