------------------------------ MODULE ExecCall ------------------------------
(***************************************************************************)
(* What the exec gate promises to a program that calls tabos_exec, or      *)
(* spawns and waits. A call is for one program from beginning to end. It   *)
(* is refused, or the program runs in a place of its own; then it comes    *)
(* back only when that program has been unloaded, with the exit status     *)
(* that one had (docs/applications.md, tabos_exec). Process shows how      *)
(* process/process.c and loader/elf_application.c keep it.                 *)
(***************************************************************************)
CONSTANTS
  Caller,      \* places for a program
  Program,     \* what may be asked for
  Refusal      \* what a call returns whose program was not started

VARIABLES
  loaded,      \* the places in use
  call,        \* where the call of each is
  status,      \* its own exit status, which it and the kernel set as they like
  closed       \* the runtime was told to stop, or did not start

exchange == <<loaded, call, closed>>

Idle == [at |-> "idle"]
Asked(p) == [at |-> "asked", program |-> p]
Running(p, c) == [at |-> "running", program |-> p, child |-> c]
Answered(p, v) == [at |-> "answered", program |-> p, status |-> v]

Init == loaded = {} /\ call = [c \in Caller |-> Idle] /\ closed = FALSE

(* Process 0, which nobody asked for *)
Boot(c) ==
  /\ ~closed /\ loaded = {}
  /\ loaded' = {c}
  /\ UNCHANGED <<call, closed>>

Ask(c, p) ==
  /\ c \in loaded /\ call[c] = Idle
  /\ call' = [call EXCEPT ![c] = Asked(p)]
  /\ UNCHANGED <<loaded, closed>>

Refuse(c) ==
  /\ call[c].at = "asked"
  /\ \E v \in Refusal : call' = [call EXCEPT ![c] = Answered(@.program, v)]
  /\ UNCHANGED <<loaded, closed>>

Start(c, child) ==
  /\ call[c].at = "asked" /\ child \notin loaded
  /\ call' = [call EXCEPT ![c] = Running(@.program, child)]
  /\ loaded' = loaded \cup {child}
  /\ UNCHANGED closed

(* The child is gone and its caller has the answer, in one step. *)
Finish(c, child) ==
  /\ call[c].at = "running" /\ call[c].child = child /\ child \in loaded
  /\ loaded' = loaded \ {child}
  /\ call' = [call EXCEPT ![c] = Answered(@.program, status[child]), ![child] = Idle]
  /\ UNCHANGED closed

Return(c) ==
  /\ call[c].at = "answered"
  /\ call' = [call EXCEPT ![c] = Idle]
  /\ UNCHANGED <<loaded, closed>>

Close == loaded' = {} /\ call' = [c \in Caller |-> Idle] /\ closed' = TRUE

Next ==
  \/ \E c \in Caller : Boot(c) \/ Refuse(c) \/ Return(c)
  \/ \E c \in Caller, p \in Program : Ask(c, p)
  \/ \E c, child \in Caller : Start(c, child) \/ Finish(c, child)
  \/ Close

Spec == Init /\ [][Next]_exchange
=============================================================================
