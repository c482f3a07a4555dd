------------------------ MODULE MCNamespaceExtension ------------------------
(* Three addresses hold a factory, a folder and a view at once.            *)
EXTENDS NamespaceExtension, TLC

Symmetry == Permutations(Objects)
=============================================================================
