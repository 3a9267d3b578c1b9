--------------------------- MODULE PointerPromise ---------------------------
(***************************************************************************)
(* What the pointer service promises those who use it: the programs that   *)
(* read their streams, and the power manager. It speaks of the part of     *)
(* Touch's state that they see, whatever moves it.                         *)
(***************************************************************************)
EXTENDS Integers

CONSTANTS
  Contacts,    \* TABOS_POINTER_MAX_CONTACTS
  Owner        \* programs, each with at most one stream

Contact == 1 .. Contacts
Up == -1       \* the position of a contact that is not active

VARIABLES
  at,          \* where the runtime thread is
  state,       \* touch_state.contacts: their positions
  foreground,  \* foreground_owner
  stream,      \* the programs' streams
  power,       \* power_contacts
  held,        \* POWER_INHIBITOR_POINTER as last told to the power manager
  believed,    \* of each program: the contacts it believes are down
  lost         \* history: of these, those whose release was dropped

Active(positions) == {c \in Contact : positions[c] # Up}

(* What a program that knows some contacts to be down will believe when it has
   read a queue: of each contact what the last event about it says *)
BelievedAfter(known, queue) ==
  LET about(c) == {i \in DOMAIN queue : queue[i].contact = c}
  IN {c \in Contact :
        IF about(c) = {} THEN c \in known
        ELSE \E i \in about(c) : /\ queue[i].type \in {"DOWN", "MOVE"}
                                 /\ \A j \in about(c) : j <= i}

Believes(o) == BelievedAfter(believed[o], stream[o].queue)

(* A program that reads its queue to the end believes exactly the contacts the
   service has down for it, whatever overflowed, was refocused or removed in
   between ... and those whose release was in a queue that was emptied. Only
   the foreground has any: for the others there is nothing but cancellations. *)
NoOtherStuckContact ==
  \A o \in Owner :
    /\ stream[o].open => Believes(o) = stream[o].contacts \cup lost[o]
    /\ o # foreground \/ stream[o].hangup =>
         /\ stream[o].contacts = {}
         /\ \A i \in DOMAIN stream[o].queue : stream[o].queue[i].type = "CANCEL"

(* Between two updates the display is kept lit exactly while the controller's
   last report has a finger down; never after it was lost. *)
PowerFollows ==
  at = "idle" => power = Active(state) /\ held = (power # {})
=============================================================================
