---------------------------- MODULE MCPeriphery ----------------------------
(***************************************************************************)
(* A small instance of Periphery for TLC.                                  *)
(***************************************************************************)
EXTENDS Periphery
=============================================================================
