---------------------------- MODULE MCOidcLogin ----------------------------
(* Small instances of OidcLogin for TLC. *)
EXTENDS OidcLogin, TLC

(* Workers and login codes are interchangeable. *)
Symmetry == Permutations(Workers) \union Permutations(Codes)
=============================================================================
