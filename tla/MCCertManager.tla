--------------------------- MODULE MCCertManager ---------------------------
(***************************************************************************)
(* Three issued certificates, the last two with the same key; a client     *)
(* connects besides the health check.                                      *)
(***************************************************************************)
EXTENDS CertManager
CONSTANTS k1, k2
MCKeyOf == [c \in Certs |-> IF c = 1 THEN k1 ELSE k2]
=============================================================================
