----------------------------- MODULE KeyPromise -----------------------------
(***************************************************************************)
(* What the input service promises the programs that read it: that a       *)
(* generation tells them of everything they missed. It speaks of the part  *)
(* of Keyboard's state that they and the translator's matrix have.         *)
(***************************************************************************)
EXTENDS Naturals, Sequences

CONSTANTS
  Key,          \* ordinary keys
  Code,         \* [Key -> codes], base_mapping
  Sym,          \* the modifier, and its code
  Program,      \* the programs
  None          \* no program, no key

VARIABLES
  pressed,     \* pressed_keys
  binding,     \* logical_bindings
  todo,        \* events of one report, not submitted yet
  input,       \* the queue, its generation, and what is held
  down,        \* power_keys
  view         \* the keys each program believes down, on which layer, as of which generation

(* A key goes down on a layer, and comes up on it; one that a snapshot showed
   may be on any. *)
Learns(known, e) ==
  CASE e.type = "DOWN" -> (known \ {<<e.key, None>>}) \cup {<<e.key, e.layer>>}
    [] e.type = "UP" -> known \ {<<e.key, e.layer>>, <<e.key, None>>}
    [] OTHER -> known

(* What a program that knows some keys will know when it has read a queue *)
KnownAfter(known, queue) ==
  LET after[n \in 0 .. Len(queue)] ==
        IF n = 0 THEN known ELSE Learns(after[n - 1], queue[n].event)
  IN after[Len(queue)]

Learned(o) == KnownAfter(view[o].down, input.queue)

(* Codes of several keys: '1' and '!' have one. The service and the snapshot
   tell them apart no more. *)
SharedCodes == {Code[k] : k \in {j \in Key : \E i \in Key \ {j} : Code[i] = Code[j]}}

(* "Applications should release their guest keys on a generation change,
   resynchronize", and "Bindings last from initial press through repeats and
   release" (docs/sdk.md): while the generation is the one a program knows, its
   queue leads it to exactly the keys that are down, or to a second key of the
   same code that nobody released, each on the layer of the press of a key that
   is pressed (or whose event is being submitted) and on no other, and no event
   in it is of another generation, whatever overflowed, was repeated, latched,
   given to another program or reset in between. *)
GenerationTellsAll ==
  \A o \in Program : view[o].generation = input.generation =>
    /\ down \subseteq {b[1] : b \in Learned(o)}
    /\ {b[1] : b \in Learned(o)} \subseteq down \cup SharedCodes
    /\ \A b \in Learned(o) : b[1] # Sym =>
         \E k \in Key : /\ k \in pressed \/ todo # <<>>
                       /\ Code[k] = b[1] /\ b[2] \in {None, binding[k]}
    /\ \A i \in DOMAIN input.queue : input.queue[i].generation = input.generation
=============================================================================
