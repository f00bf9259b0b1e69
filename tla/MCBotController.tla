--------------------------- MODULE MCBotController ---------------------------
(* An instance of BotController for TLC: callers and workers are alike.    *)
EXTENDS BotController, TLC

Symmetry == Permutations(Callers) \cup Permutations(Workers)
=============================================================================
