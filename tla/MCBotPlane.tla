------------------------------ MODULE MCBotPlane ------------------------------
(***************************************************************************)
(* The bot plane with a small number of slots for the updates that are     *)
(* handled at once; which of them an update takes makes no difference.     *)
(***************************************************************************)
EXTENDS BotPlane, TLC

AnySlot == Permutations(Slots)
=============================================================================
