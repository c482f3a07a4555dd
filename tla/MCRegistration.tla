--------------------------- MODULE MCRegistration ---------------------------
(* Two builds of the DLL, in one or both of Explorer's locations.          *)
EXTENDS Registration
=============================================================================
