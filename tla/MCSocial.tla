------------------------------- MODULE MCSocial -------------------------------
(* A small instance of Social for TLC. *)
EXTENDS Social
=============================================================================
