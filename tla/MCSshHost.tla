----------------------------- MODULE MCSshHost -----------------------------
(* Small instances of SshHost for TLC. *)
EXTENDS SshHost
=============================================================================
