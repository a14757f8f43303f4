--------------------------- MODULE MCStatusStream ---------------------------
(* Small instance of StatusStream for TLC; its constants are given in the cfg. *)
EXTENDS StatusStream
=============================================================================
