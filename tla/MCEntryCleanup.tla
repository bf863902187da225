--------------------------- MODULE MCEntryCleanup ---------------------------
(* Small instances of EntryCleanup. *)
EXTENDS EntryCleanup
=============================================================================
