---- MODULE MCVault ----
(* One request at a time backs up, uploads and restores; backups/ keeps    *)
(* two entries where the program keeps ten.                                *)
EXTENDS Vault
====
