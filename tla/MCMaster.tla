------------------------------ MODULE MCMaster ------------------------------
(* Instances of Master for TLC: process ids and the administrator's habits. *)
EXTENDS Master

FivePids == 1 .. 5
SevenPids == 1 .. 7

Reloads   == {"HUP", "USR1", "WINCH", "QUIT", "TERM"}
Upgrades  == {"HUP", "USR2", "WINCH", "QUIT"}
Abandon   == {"USR2", "WINCH", "HUP", "QUIT"}
=============================================================================
