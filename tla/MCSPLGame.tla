----------------------------- MODULE MCSPLGame ------------------------------
(* Instances of SPLGame: see the .cfg files. *)
EXTENDS SPLGame

CONSTANT striker
=============================================================================
