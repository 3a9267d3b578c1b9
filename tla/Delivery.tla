------------------------------ MODULE Delivery ------------------------------
(***************************************************************************)
(* What the wake primitive of the runtime promises to everyone who calls   *)
(* platform_runtime_notify: readiness bits may coalesce, but as long as    *)
(* the loop has not been told to stop each of them reaches a call of       *)
(* kernel_runtime_update that begins after the notification.               *)
(* (platform/include, agents/architecture.md "Event and deadline wake      *)
(* foundation"). EventLoop shows how platform/esp32p4/runtime.c keeps it.  *)
(***************************************************************************)
CONSTANT Event        \* the readiness bits

VARIABLES
  owed,               \* notified, and not yet on their way to an update
  inHand,             \* on their way
  handled,            \* the argument of the last update that had some
  open                \* nobody asked the loop to stop

promise == <<owed, inHand, handled, open>>

Init == owed = {} /\ inHand = {} /\ handled = {} /\ open = TRUE

Post ==
  /\ \E events \in SUBSET Event : owed' = owed \cup events
  /\ UNCHANGED <<inHand, handled, open>>

(* All of them at once: two notifications of one bit are one. *)
Collect ==
  /\ owed # {} /\ inHand = {}
  /\ inHand' = owed /\ owed' = {}
  /\ UNCHANGED <<handled, open>>

Deliver ==
  /\ inHand # {}
  /\ handled' = inHand /\ inHand' = {}
  /\ UNCHANGED <<owed, open>>

Close ==
  /\ open' = FALSE
  /\ UNCHANGED <<owed, inHand, handled>>

(* Only a loop that was told to stop drops what it has collected. *)
Discard ==
  /\ ~open /\ inHand # {}
  /\ inHand' = {}
  /\ UNCHANGED <<owed, handled, open>>

Next == Post \/ Collect \/ Deliver \/ Close \/ Discard

Safety == Init /\ [][Next]_promise

Spec == Safety /\ WF_promise(open /\ Collect) /\ WF_promise(Deliver \/ Discard)
=============================================================================
