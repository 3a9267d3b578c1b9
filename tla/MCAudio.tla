------------------------------ MODULE MCAudio ------------------------------
(* Two programs that open, route and close streams at two rates. *)
EXTENDS Audio
=============================================================================
