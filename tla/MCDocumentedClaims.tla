------------------------- MODULE MCDocumentedClaims -------------------------
(***************************************************************************)
(* The claims, with the constants of MCParserService.                      *)
(***************************************************************************)
EXTENDS DocumentedClaims, MCParserService
=============================================================================
