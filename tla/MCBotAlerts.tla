----------------------------- MODULE MCBotAlerts -----------------------------
(***************************************************************************)
(* One alert in two episodes, two users of Telegram, and one subscription  *)
(* to spare.  The users are alike.                                         *)
(***************************************************************************)
EXTENDS BotAlerts, TLC

UserSymmetry == Permutations(Users)
=============================================================================
