--------------------------- MODULE MCSecretStore ---------------------------
(* Two tubers that share a key, a right and a wrong secret, a keyring that  *)
(* may fail, and a user who may forget the identity.                        *)
EXTENDS SecretStore
=============================================================================
