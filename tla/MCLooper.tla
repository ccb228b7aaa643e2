------------------------------ MODULE MCLooper ------------------------------
(* Instance of Looper for TLC. *)
EXTENDS Looper
=============================================================================
