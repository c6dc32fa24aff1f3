----------------------------- MODULE MCWalJournal -----------------------------
(* Small instances of WalJournal for TLC. *)
EXTENDS WalJournal
=============================================================================
