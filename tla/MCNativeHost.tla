---------------------------- MODULE MCNativeHost ----------------------------
(* Model values for TLC.  Two thread identities: one more than the token   *)
(* should let be in use.                                                   *)
EXTENDS NativeHost

CONSTANTS t1, t2, b1
=============================================================================
