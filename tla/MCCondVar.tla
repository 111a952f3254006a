----------------------------- MODULE MCCondVar -----------------------------
(* The instances of CondVar that TLC checks. *)
EXTENDS CondVar
=============================================================================
