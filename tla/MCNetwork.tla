------------------------------ MODULE MCNetwork ------------------------------
(* Network with two explicit calls after a boot with or without autoconnect. *)
EXTENDS Network
=============================================================================
