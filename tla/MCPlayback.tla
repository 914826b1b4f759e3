----------------------------- MODULE MCPlayback -----------------------------
(***************************************************************************)
(* Small instances of Playback for TLC.                                    *)
(***************************************************************************)
EXTENDS Playback

CONSTANTS h1, h2, a, b, c

MCOne == {h1}
MCTwo == {h1, h2}

MCTracks == {a, b}
MCStart == <<a, b>>
MCShortStart == <<a>>
MCPlaylists == {<<a>>, <<b, a>>}

\* Everything a user does, and natural ends.
MCUser == {"play", "next", "previous", "mode", "playTracks", "edit", "playItem",
           "stop", "pause", "eof"}

\* What changes the queue or the track, and failures.
MCEdits == {"play", "next", "edit", "eof", "error"}

\* What may interleave with the handler of another device or tab.
MCRacing == {"play", "next", "previous", "edit", "resume", "eof", "error", "report", "grace"}

MCPlayNext == {"play", "next"}
=============================================================================
