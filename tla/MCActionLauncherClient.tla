----------------------- MODULE MCActionLauncherClient -----------------------
(* Six calls against the limit of the source.                              *)
EXTENDS ActionLauncherClient

CONSTANTS a1, a2, a3, a4, a5, a6

MCCalls == {a1, a2, a3, a4, a5, a6}
=============================================================================
