------------------------------- MODULE MCG4Rx -------------------------------
(* Six frames for three buffers, one of a single byte, some longer than a    *)
(* buffer.                                                                   *)
EXTENDS G4Rx
MCLens == <<2, 1, 3, 2, 4, 1>>
=============================================================================
