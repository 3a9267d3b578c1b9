------------------------------- MODULE MCTouch -------------------------------
(* One and two fingers that come, move and go, under a program that gains and
   loses the foreground. *)
EXTENDS Touch

Fingers == {<<>>, <<1>>, <<2, 1>>}
=============================================================================
