---------------------------- MODULE MCAuditStream ----------------------------
(* Finite instances of AuditStream. *)
EXTENDS AuditStream
=============================================================================
