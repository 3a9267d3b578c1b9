----------------------------- MODULE MCKeyboard -----------------------------
(* Sym, a key with a code of its own and two that share one, and a program that
   has the console once. *)
EXTENDS Keyboard

CONSTANTS k, m, n

MCCode == [x \in Key |-> IF x = n THEN "b" ELSE "a"]

(* A key alone is any key: it is k. The others move while k is held, or last of
   all, and one of them at a time. *)
KInTheLead ==
  \A x \in {m, n} \cap hands :
    {m, n} \cap hands = {x} /\ (k \in hands \/ taps = MaxTaps)
=============================================================================
