----------------------------- MODULE MCHotPlug -----------------------------
(* The instances of HotPlug that TLC checks: disk 0 is an SD socket, disk 7 *)
(* the first slot of a USB reader, and 4 on are the free drive letters.     *)
EXTENDS HotPlug
=============================================================================
