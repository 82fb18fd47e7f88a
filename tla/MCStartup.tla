----------------------------- MODULE MCStartup -----------------------------
(* Small instances of Startup for TLC.  Sites are interchangeable, but the   *)
(* run checks liveness, for which a symmetry is not sound.                   *)
EXTENDS Startup

EnabledBackwards == <<2, 1>>
=============================================================================
