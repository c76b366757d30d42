----------------------------- MODULE MCArchiver -----------------------------
(* Archiver on a short recording of a few short chunks. *)
EXTENDS Archiver

=============================================================================
