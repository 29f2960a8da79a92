---------------------------- MODULE MCKeystore ----------------------------
(* Two keys, a password, a KMS key, and no credential.                     *)
EXTENDS Keystore

CONSTANTS k1, k2, p, kms
=============================================================================
