-------------------------- MODULE MCPlayerProcess --------------------------
(***************************************************************************)
(* A small instance of PlayerProcess for TLC.                              *)
(***************************************************************************)
EXTENDS PlayerProcess

CONSTANTS r1, r2, r3, r4, a, b, s1, s2, s3, c1, c2

MCResolves == {r1, r2, r3, r4}

\* Up, down, and nothing to do; the ramp from 0 to 5 has three steps.
MCLevels == {0, 5, 8}
=============================================================================
