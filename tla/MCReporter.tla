----------------------------- MODULE MCReporter -----------------------------
(* Small instances of Reporter for TLC. *)
EXTENDS Reporter
=============================================================================
