---------------------------- MODULE MCAccounts ----------------------------
(* Instances of Accounts for TLC; values in the .cfg files.                *)
EXTENDS Accounts
=============================================================================
