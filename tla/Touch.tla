------------------------------- MODULE Touch -------------------------------
(***************************************************************************)
(* Touch input on the Tab5: the controller's interrupt and its bounded     *)
(* drain (platform/esp32p4/pointer.c, touch_interrupt.c), the pointer      *)
(* service that queues events for the foreground program (pointer/         *)
(* pointer.c), and the runtime's update that drives both and tells the     *)
(* power manager. The drain runs on the runtime thread, the interrupt and  *)
(* the panel when they like, programs open, read and close on threads of   *)
(* their own. Every call into the service is one critical section.         *)
(* What it promises to those who use it is in PointerPromise.              *)
(***************************************************************************)
EXTENDS PointerPromise, FiniteSets, SequencesExt

CONSTANTS
  Reports,     \* what the panel may report: sequences of positions
  NoOwner,     \* no foreground program
  Capacity,    \* POINTER_QUEUE_CAPACITY
  Passes,      \* passes of one drain
  MaxTouches   \* bound: changes of the panel

Constants ==
  /\ Contacts \in Nat \ {0} /\ Capacity \in Nat /\ Capacity > Contacts
  /\ Passes \in Nat \ {0} /\ MaxTouches \in Nat
  /\ <<>> \in Reports /\ NoOwner \notin Owner
  /\ \A r \in Reports : r \in Seq(Nat) /\ Len(r) <= Contacts

ASSUME TouchAssumption == Constants

VARIABLES
  panel,       \* the fingers on the panel
  touches,     \* bound: how often they changed
  line,        \* the interrupt line is asserted
  edge,        \* its interrupt handler is about to run, or to notify
  flag,        \* touch_interrupt_pending
  owed,        \* the POINTER bit is set (Delivery's owed)
  ready,       \* touch_ready, and the handler is installed
  left,        \* passes left in this drain
  todo,        \* events reconciled and not submitted yet
  detected,    \* of the service
  opening      \* programs that have passed the checks of pointer_service_open

external == <<panel, touches, line, edge>>
driver == <<flag, owed, ready, at, left, state, todo>>
service == <<detected, foreground, stream, power>>
programs == <<opening, believed, lost>>
vars == <<panel, touches, line, edge, flag, owed, ready, at, left, state, todo,
          detected, foreground, stream, opening, power, held, believed, lost>>

PointerEvent == [type : {"DOWN", "MOVE", "UP", "CANCEL"}, contact : Contact]
Stream == [open : BOOLEAN, queue : Seq(PointerEvent), contacts : SUBSET Contact, hangup : BOOLEAN]

Closed == [open |-> FALSE, queue |-> <<>>, contacts |-> {}, hangup |-> FALSE]

TypeOK ==
  /\ panel \in Reports /\ touches \in 0 .. MaxTouches
  /\ line \in BOOLEAN /\ edge \in {"none", "handler", "notify"}
  /\ flag \in BOOLEAN /\ owed \in BOOLEAN /\ ready \in BOOLEAN
  /\ at \in {"idle", "exchange", "level", "read", "submit", "faulting", "after",
             "still", "rearm", "power"}
  /\ left \in 0 .. Passes
  /\ state \in [Contact -> Nat \cup {Up}]
  /\ todo \in Seq(PointerEvent)
  /\ detected \in BOOLEAN
  /\ foreground \in Owner \cup {NoOwner}
  /\ stream \in [Owner -> Stream]
  /\ \A o \in Owner : Len(stream[o].queue) <= Capacity
  /\ opening \in SUBSET Owner
  /\ power \in SUBSET Contact /\ held \in BOOLEAN
  /\ believed \in [Owner -> SUBSET Contact] /\ lost \in [Owner -> SUBSET Contact]

(* platform_pointer_init has installed the handler; nobody has touched yet. *)
Init ==
  /\ panel = <<>> /\ touches = 0 /\ line = FALSE /\ edge = "none"
  /\ flag = FALSE /\ owed = FALSE /\ ready = TRUE
  /\ at = "idle" /\ left = 0 /\ state = [c \in Contact |-> Up] /\ todo = <<>>
  /\ detected = TRUE /\ foreground = NoOwner /\ stream = [o \in Owner |-> Closed]
  /\ opening = {} /\ power = {} /\ held = FALSE
  /\ believed = [o \in Owner |-> {}] /\ lost = [o \in Owner |-> {}]

-----------------------------------------------------------------------------
(* The controller (external) asserts its line for a new report, and releases
   it, at the latest, when it is read without having another one. The handler
   runs on a falling edge. *)
FingersMove ==
  /\ touches < MaxTouches
  /\ \E r \in Reports \ {panel} : panel' = r
  /\ touches' = touches + 1 /\ line' = TRUE
  /\ edge' = IF line \/ ~ready THEN edge ELSE "handler"
  /\ UNCHANGED <<driver, service, programs, held>>

(* touch_interrupt: the flag, then the notification *)
Interrupt ==
  /\ edge = "handler" /\ flag' = TRUE /\ edge' = "notify"
  /\ UNCHANGED <<panel, touches, line, owed, ready, at, left, state, todo, service,
                 programs, held>>

InterruptNotify ==
  /\ edge = "notify" /\ owed' = TRUE /\ edge' = "none"
  /\ UNCHANGED <<panel, touches, line, flag, ready, at, left, state, todo, service,
                 programs, held>>

-----------------------------------------------------------------------------
(* reconcile_points: each point goes to the nearest contact that has none yet,
   then contacts without a point are lifted, then the other points go down. *)

Event(type, c) == [type |-> type, contact |-> c]

distance(a, b) == (a - b) * (a - b)

(* What of the sequence s is in T, in order. *)
Select(s, T) ==
  LET kept[n \in 0 .. Len(s)] ==
        IF n = 0 THEN <<>>
        ELSE IF s[n] \in T THEN Append(kept[n - 1], s[n]) ELSE kept[n - 1]
  IN kept[Len(s)]

Each(type) == [c \in Contact |-> Event(type, c)]

Cancels(contacts) == Select(Each("CANCEL"), {e \in PointerEvent : e.contact \in contacts})

(* The first of the nearest. *)
Nearest(candidates, positions, point) ==
  CHOOSE c \in candidates : \A d \in candidates :
    \/ distance(positions[c], point) < distance(positions[d], point)
    \/ distance(positions[c], point) = distance(positions[d], point) /\ c <= d

(* The contact each point goes to, or none (0). *)
Matching(points) ==
  CHOOSE m \in [DOMAIN points -> Contact \cup {0}] :
    \A i \in DOMAIN points :
      LET candidates == Active(state) \ {m[j] : j \in 1 .. i - 1}
      IN m[i] = IF candidates = {} THEN 0 ELSE Nearest(candidates, state, points[i])

(* When points are left over, every contact that was active has a point. *)
Reconciled(points, m) ==
  LET rest == {i \in DOMAIN points : m[i] = 0}
      goesTo(i) == {c \in Contact \ Active(state) :
                     Cardinality({d \in 1 .. c - 1 : state[d] = Up})
                       = Cardinality({j \in rest : j < i})}
      of(c) == {i \in DOMAIN points : m[i] = c} \cup {i \in rest : c \in goesTo(i)}
  IN [c \in Contact |-> IF of(c) = {} THEN Up ELSE points[Min(of(c))]]

(* The events in their order: what moved, point by point, then what is up and
   what is down, contact by contact. *)
Events(points, m, new) ==
  LET moved == {e \in PointerEvent : new[e.contact] # state[e.contact]}
      lifted == {e \in PointerEvent : state[e.contact] # Up /\ new[e.contact] = Up}
      landed == {e \in PointerEvent : state[e.contact] = Up /\ new[e.contact] # Up}
  IN Select([i \in DOMAIN points |-> Event("MOVE", m[i])], moved)
       \o Select(Each("UP"), lifted) \o Select(Each("DOWN"), landed)

-----------------------------------------------------------------------------
(* The service. pointer_service_submit and its effect on a stream. *)

(* cancel_contacts: the queue is emptied, also of releases not read yet. *)
Cancelled(s) == [s EXCEPT !.queue = Cancels(s.contacts), !.contacts = {}]

Enqueued(s, e) ==
  [s EXCEPT !.queue = Append(@, e),
     !.contacts = IF e.type \in {"DOWN", "MOVE"} THEN @ \cup {e.contact}
                  ELSE @ \ {e.contact}]

Serves(o) == stream[o].open /\ o = foreground /\ ~stream[o].hangup

Full(o) == Len(stream[o].queue) = Capacity

(* Mutant: an overflow forgets the contacts that are down. *)
SubmittedForgetting(o, e) ==
  IF ~Serves(o) THEN stream[o]
  ELSE Enqueued(IF Full(o) THEN [stream[o] EXCEPT !.queue = <<>>] ELSE stream[o], e)

Submitted(o, e) ==
  IF ~Serves(o) THEN stream[o]
  ELSE Enqueued(IF Full(o) THEN Cancelled(stream[o]) ELSE stream[o], e)

(* What emptying a queue leaves the reader believing. *)
Dropped(o) == believed[o] \ stream[o].contacts

(* Mutant: only a cancellation ends a contact for the display. *)
submitUntilCancelled(e) ==
  /\ power' = CASE e.type = "DOWN" -> power \cup {e.contact}
                [] e.type = "CANCEL" -> power \ {e.contact}
                [] OTHER -> power
  /\ stream' = [o \in Owner |-> Submitted(o, e)]
  /\ lost' = [o \in Owner |->
       IF ~Serves(o) THEN lost[o]
       ELSE (IF Full(o) THEN lost[o] \cup Dropped(o) ELSE lost[o]) \ {e.contact}]
  /\ UNCHANGED <<detected, foreground>>

submit(e) ==
  /\ power' = CASE e.type = "DOWN" -> power \cup {e.contact}
                [] e.type \in {"UP", "CANCEL"} -> power \ {e.contact}
                [] OTHER -> power
  /\ stream' = [o \in Owner |-> Submitted(o, e)]
  /\ lost' = [o \in Owner |->
       IF ~Serves(o) THEN lost[o]
       ELSE (IF Full(o) THEN lost[o] \cup Dropped(o) ELSE lost[o]) \ {e.contact}]
  /\ UNCHANGED <<detected, foreground>>

-----------------------------------------------------------------------------
(* The runtime thread: platform_pointer_update, then the part of
   kernel_runtime_update that asks for activity. *)

Rest == <<external, held, opening, believed>>

(* An update that has the POINTER bit, or for another reason. *)
Wake ==
  /\ at = "idle" /\ owed
  /\ owed' = FALSE /\ at' = IF ready THEN "exchange" ELSE "power"
  /\ UNCHANGED <<flag, ready, left, state, todo, service, lost, Rest>>

Exchange ==
  /\ at = "exchange"
  /\ flag' = FALSE /\ left' = Passes /\ at' = IF flag THEN "read" ELSE "level"
  /\ UNCHANGED <<owed, ready, state, todo, service, lost, Rest>>

Level ==
  /\ at = "level"
  /\ at' = IF line THEN "read" ELSE "power"
  /\ UNCHANGED <<flag, owed, ready, left, state, todo, service, lost, Rest>>

(* read_points and reconcile_points. *)
ReadPoints ==
  /\ at = "read"
  /\ line' \in {FALSE, line}
  /\ LET m == Matching(panel)
     IN /\ state' = Reconciled(panel, m)
        /\ todo' = Events(panel, m, Reconciled(panel, m))
  /\ at' = "submit" /\ left' = left - 1
  /\ UNCHANGED <<panel, touches, edge, flag, owed, ready, service, programs, held>>

(* The controller cannot be read: the drain cancels what is down. *)
ReadFails ==
  /\ at = "read"
  /\ state' = [c \in Contact |-> Up] /\ todo' = Cancels(Active(state))
  /\ at' = "faulting"
  /\ UNCHANGED <<flag, owed, ready, left, service, lost, Rest>>

SubmitNext ==
  /\ at \in {"submit", "faulting"} /\ todo # <<>>
  /\ submit(Head(todo)) /\ todo' = Tail(todo)
  /\ UNCHANGED <<flag, owed, ready, at, left, state, Rest>>

(* interrupt_asserted *)
Asserted ==
  /\ at = "submit" /\ todo = <<>>
  /\ at' = IF ~line THEN "after" ELSE IF left > 0 THEN "read" ELSE "still"
  /\ UNCHANGED <<flag, owed, ready, left, state, todo, service, lost, Rest>>

(* Mutant: what is still pending after the last pass is left to the handler. *)
AfterDrainQuietly ==
  /\ at \in {"after", "still"}
  /\ flag' = FALSE /\ at' = IF flag THEN "rearm" ELSE "power"
  /\ UNCHANGED <<owed, ready, left, state, todo, service, lost, Rest>>

AfterDrain ==
  /\ at \in {"after", "still"}
  /\ flag' = IF at = "still" THEN flag ELSE FALSE
  /\ at' = IF at = "still" \/ flag THEN "rearm" ELSE "power"
  /\ UNCHANGED <<owed, ready, left, state, todo, service, lost, Rest>>

Rearm ==
  /\ at = "rearm"
  /\ flag' = TRUE /\ owed' = TRUE /\ at' = "power"
  /\ UNCHANGED <<ready, left, state, todo, service, lost, Rest>>

(* pointer_service_remove_device *)
RemoveDevice ==
  /\ stream' = [o \in Owner |->
       IF stream[o].open THEN [Cancelled(stream[o]) EXCEPT !.hangup = TRUE]
       ELSE stream[o]]
  /\ lost' = [o \in Owner |->
       IF stream[o].open THEN lost[o] \cup Dropped(o) ELSE lost[o]]
  /\ power' = {} /\ detected' = FALSE
  /\ UNCHANGED foreground

(* touch_fault, which ends with it; the DEVICE bit it notifies too is not
   modelled. *)
Fault ==
  /\ at = "faulting" /\ todo = <<>>
  /\ ready' = FALSE /\ flag' = FALSE /\ edge' = "none" /\ owed' = TRUE
  /\ RemoveDevice
  /\ at' = "power"
  /\ UNCHANGED <<panel, touches, line, left, state, todo, held, opening, believed>>

(* pointer_service_take_power_activity, power_manager_set_dim_inhibitors *)
TellPower ==
  /\ at = "power"
  /\ held' = (power # {}) /\ at' = "idle"
  /\ UNCHANGED <<external, flag, owed, ready, left, state, todo, service, programs>>

(* pointer_service_set_foreground_owner, from the process system's update *)
SetForeground(o) ==
  /\ at = "idle" /\ o # foreground
  /\ foreground' = o
  /\ stream' = [p \in Owner |->
       IF stream[p].open /\ p = foreground THEN Cancelled(stream[p]) ELSE stream[p]]
  /\ lost' = [p \in Owner |->
       IF stream[p].open /\ p = foreground THEN lost[p] \cup Dropped(p) ELSE lost[p]]
  /\ UNCHANGED <<external, driver, detected, power, held, opening, believed>>

-----------------------------------------------------------------------------
(* The programs *)

(* pointer_service_open tests whether there is a device before it locks. *)
Open(o) ==
  /\ detected /\ ~stream[o].open /\ o \notin opening
  /\ opening' = opening \cup {o}
  /\ UNCHANGED <<external, driver, service, held, believed, lost>>

OpenStream(o) ==
  /\ o \in opening
  /\ opening' = opening \ {o}
  /\ stream' = [stream EXCEPT ![o] = [Closed EXCEPT !.open = TRUE]]
  /\ UNCHANGED <<external, driver, detected, foreground, power, held, believed, lost>>

Read(o) ==
  LET e == Head(stream[o].queue)
  IN /\ stream[o].open /\ o = foreground /\ stream[o].queue # <<>>
     /\ stream' = [stream EXCEPT ![o].queue = Tail(@)]
     /\ believed' = [believed EXCEPT ![o] = IF e.type \in {"DOWN", "MOVE"}
                                          THEN @ \cup {e.contact} ELSE @ \ {e.contact}]
     /\ UNCHANGED <<external, driver, detected, foreground, power, held, opening, lost>>

(* pointer_service_close, or close_owner when the program ends, on the runtime
   thread, which also gives up the foreground *)
Forget(o) ==
  /\ stream' = [stream EXCEPT ![o] = Closed]
  /\ believed' = [believed EXCEPT ![o] = {}] /\ lost' = [lost EXCEPT ![o] = {}]

Close(o) ==
  /\ stream[o].open /\ Forget(o)
  /\ UNCHANGED <<external, driver, detected, foreground, power, held, opening>>

CloseOwner(o) ==
  /\ at = "idle" /\ o \notin opening
  /\ Forget(o)
  /\ foreground' = IF foreground = o THEN NoOwner ELSE foreground
  /\ UNCHANGED <<external, driver, detected, power, held, opening>>

-----------------------------------------------------------------------------
Thread ==
  \/ Wake \/ Exchange \/ Level \/ ReadPoints \/ SubmitNext \/ Asserted
  \/ AfterDrain \/ Rearm \/ Fault \/ TellPower

Next ==
  \/ FingersMove \/ Interrupt \/ InterruptNotify
  \/ Wake \/ Exchange \/ Level \/ ReadPoints \/ ReadFails \/ SubmitNext \/ Asserted
  \/ AfterDrain \/ Rearm \/ Fault \/ TellPower
  \/ \E o \in Owner \cup {NoOwner} : SetForeground(o)
  \/ \E o \in Owner : Open(o)
  \/ \E o \in Owner : OpenStream(o)
  \/ \E o \in Owner : Read(o)
  \/ \E o \in Owner : Close(o)
  \/ \E o \in Owner : CloseOwner(o)

Spec == Init /\ [][Next]_vars

(* The runtime thread goes on while it has something to do, and an interrupt
   is served. *)
Fairness == WF_vars(Thread) /\ WF_vars(Interrupt) /\ WF_vars(InterruptNotify)

FairSpec == Spec /\ Fairness

-----------------------------------------------------------------------------
(* When the fingers rest, the contacts come to agree with them, also if they
   moved during a drain, or after its last pass: or the controller is lost. *)
Agrees ==
  /\ Cardinality(Active(state)) = Len(panel)
  /\ {state[c] : c \in Active(state)} = Range(panel)

TouchSettles == <>[](~ready \/ Agrees)
=============================================================================
