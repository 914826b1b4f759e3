----------------------------- MODULE MCPresence -----------------------------
(***************************************************************************)
(* Small instances of Presence for TLC.                                    *)
(***************************************************************************)
EXTENDS Presence

CONSTANTS d1, d2
=============================================================================
