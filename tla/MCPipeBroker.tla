---------------------------- MODULE MCPipeBroker ----------------------------
(* Model values for TLC: up to two brokers and two clients. No symmetry,   *)
(* since both runs check liveness.                                         *)
EXTENDS PipeBroker

CONSTANTS b1, b2, c1, c2
=============================================================================
