---------------------------- MODULE MCVolumeRamp ----------------------------
(***************************************************************************)
(* A small instance of VolumeRamp for TLC.                                 *)
(***************************************************************************)
EXTENDS VolumeRamp

CONSTANTS c1, c2

\* Neither is where mpv starts: both calls plan a ramp, three steps down to 0,
\* two up to 8.
MCLevels == {0, 8}
=============================================================================
