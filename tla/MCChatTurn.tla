---------------------------- MODULE MCChatTurn ----------------------------
(* Instances of ChatTurn for TLC: an empty chat and one with a turn in it. *)
EXTENDS ChatTurn, TLC

CONSTANTS empty, old

MCChats       == {empty, old}
MCOldMessages == (empty :> 0) @@ (old :> 2)
=============================================================================
