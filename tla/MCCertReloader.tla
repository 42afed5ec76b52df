--------------------------- MODULE MCCertReloader ---------------------------
(***************************************************************************)
(* Three certificates, the last two with the same key, and two concurrent  *)
(* handshakes; any file may be replaced, removed and put back.             *)
(***************************************************************************)
EXTENDS UbuntuReloader
CONSTANTS k1, k2
MCKeyOf == [c \in Certs |-> IF c = 1 THEN k1 ELSE k2]
=============================================================================
