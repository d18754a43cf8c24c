--------------------------- MODULE MCTelegramChat ---------------------------
(* Small instances of TelegramChat: a few updates; a token is the name of  *)
(* the text update that made it.                                           *)
EXTENDS TelegramChat, TLC

UpdateSymmetry == Permutations(Reqs)
=============================================================================
