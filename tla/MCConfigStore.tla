---------------------------- MODULE MCConfigStore ----------------------------
(***************************************************************************)
(* ConfigStore for TLC: the special contents of a file are model values.   *)
(***************************************************************************)
EXTENDS ConfigStore
=============================================================================
