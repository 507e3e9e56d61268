------------------------ MODULE MCCredentialRemoval ------------------------
(* Two accounts and two record files.                                      *)
EXTENDS CredentialRemoval

CONSTANTS a, b, x, y
=============================================================================
