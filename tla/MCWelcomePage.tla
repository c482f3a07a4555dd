--------------------------- MODULE MCWelcomePage ---------------------------
(* Two thread identities: one more than the single-flight token should let *)
(* be in use.  No symmetry, since the run checks liveness.                 *)
EXTENDS WelcomePage

CONSTANTS t1, t2

MCThreads == {t1, t2}
=============================================================================
