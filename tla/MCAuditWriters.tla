--------------------------- MODULE MCAuditWriters ---------------------------
(***************************************************************************)
(* A small instance of AuditWriters for TLC.                               *)
(***************************************************************************)
EXTENDS AuditWriters

MCBodies == [stamp : {"ns"}, payload : {"canonical", "null"}]
=============================================================================
