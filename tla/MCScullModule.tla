--------------------------- MODULE MCScullModule ---------------------------
(* Small instances of ScullModule for TLC. *)
EXTENDS ScullModule

(* Every call may fail.                                                        *)
Every == Parts \X Calls
=============================================================================
