----------------------------- MODULE MCKeyStore -----------------------------
(* Two keys, so that admins can revoke each other's, and two clients. *)
EXTENDS KeyStore

CONSTANTS k1, k2, c1, c2
=============================================================================
