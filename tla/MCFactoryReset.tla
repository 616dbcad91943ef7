---------------------------- MODULE MCFactoryReset ----------------------------
(* The instances of the factory reset that TLC checks. *)
EXTENDS FactoryReset
=============================================================================
