---------------------------- MODULE MCNativeTask ----------------------------
(* NativeTask with two nested programs and two call gates each: the second
   program meets what the teardown of the first left behind. *)
EXTENDS NativeTask
=============================================================================
