---------------------------- MODULE MCBotControl ----------------------------
EXTENDS BotControl, TLC

CONSTANTS a1, a2, b1, pa, pb

\* Two configurations of one portfolio and one of another.
TwoOfOne == a1 :> pa @@ a2 :> pa @@ b1 :> pb

\* Calls are alike, and so are the two configurations of one portfolio.
Alike == Permutations(Callers) \cup Permutations({a1, a2})
=============================================================================
