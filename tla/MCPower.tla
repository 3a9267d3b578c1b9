------------------------------- MODULE MCPower -------------------------------
(* Power with two participants: a chain registered against its order, a graph
   that cannot be ordered, one with a missing dependency; and, with displays
   that fail, no participant at all, as the firmware runs it. *)
EXTENDS Power

Graphs == {<<<<2>>, <<>>>>, <<<<2>>, <<1>>>>, <<<<>>, <<0>>>>}

Both ==
  {[deps |-> g, suspends |-> 2, faulty |-> FALSE] : g \in Graphs}
    \cup {[deps |-> <<>>, suspends |-> 1, faulty |-> TRUE]}

Policy(idle, off, panel) ==
  [active |-> 2, dim |-> 1, idleAfter |-> idle, screenOffAfter |-> off,
   panelOffAfter |-> panel, suspendAfter |-> 0, automatic |-> FALSE]

Stages == {Policy(1, 2, 3), Policy(2, 0, 0)}

(* With participants the clock stops where each stage has had its turn once. *)
EachStageOnce == deps # <<>> => now <= 3
=============================================================================
