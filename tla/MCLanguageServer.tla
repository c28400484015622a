-------------------------- MODULE MCLanguageServer --------------------------
(* Instances of LanguageServer for TLC. *)
EXTENDS LanguageServer, TLC

Symmetry == Permutations(Req)
=============================================================================
