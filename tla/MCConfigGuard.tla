---------------------------- MODULE MCConfigGuard ----------------------------
(* ConfigGuard with a few changes; restarts and copies may fail.             *)
EXTENDS ConfigGuard

AnyFault == {"restart", "copy"}
=============================================================================
