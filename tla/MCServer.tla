------------------------------ MODULE MCServer ------------------------------
(***************************************************************************)
(* The books and outcomes of MCStore, before one server.                   *)
(***************************************************************************)
EXTENDS Server, MCStore
=============================================================================
