------------------------------- MODULE MCCamera -------------------------------
(* Camera with a pool that fills, overflows and is opened a second time. *)
EXTENDS Camera
=============================================================================
