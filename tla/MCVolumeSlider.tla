--------------------------- MODULE MCVolumeSlider ---------------------------
(***************************************************************************)
(* A drag of three events, or two and the mute button, is enough.          *)
(***************************************************************************)
EXTENDS VolumeSlider
=============================================================================
