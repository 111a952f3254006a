----------------------------- MODULE MCUpgrade -----------------------------
(* The instances of Upgrade that TLC checks. *)
EXTENDS Upgrade
=============================================================================
