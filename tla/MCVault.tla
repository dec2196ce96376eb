------------------------------ MODULE MCVault ------------------------------
(* Instances of Vault for TLC.                                             *)
EXTENDS Vault

CONSTANTS a, b, c, t1, t2, x, long

(* A link to b in either spelling, once beside a text, or the one text that *)
(* the embedding loop stumbles over, without a link.                        *)
MCBodies == {{b}, {x, Spaced(b)}} \cup {{y} : y \in Ragged}
MCAdded  == {c}
=============================================================================
