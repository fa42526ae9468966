---------------------------- MODULE MCBotManager ----------------------------
(* Any three of: two requests of the console, three posts of Telegram,      *)
(* restarts; on a bot whose token may be replaced by another.               *)
EXTENDS BotManager, TLC

CONSTANTS a1, a2, d1, d2, u1, u2

MCAdmins == {a1, a2}
MCDeliveries == {d1, d2}
MCUpdates == {u1, u2}
MCSymmetry == Permutations(MCAdmins) \cup Permutations(MCDeliveries) \cup Permutations(MCUpdates)
=============================================================================
