----------------------------- MODULE MCMailSync -----------------------------
(* Instances of MailSync for TLC.                                          *)
EXTENDS MailSync, TLC
CONSTANTS idle, app, click

(* Where no one polls, the callers of sync_folder are alike.               *)
Alike == Permutations(Syncs)
=============================================================================
