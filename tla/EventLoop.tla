----------------------------- MODULE EventLoop -----------------------------
(***************************************************************************)
(* The runtime thread of the Tab5 and the primitive that wakes it          *)
(* (platform/esp32p4/runtime.c): an atomic set of readiness bits, the      *)
(* FreeRTOS notification of the task, and the loop that takes the bits,    *)
(* runs kernel_runtime_update with them and blocks until the next bit or   *)
(* the next deadline. Tasks, callbacks and interrupts notify at any time,  *)
(* also before platform_run has published the task, and the runtime thread *)
(* itself does so from inside an update.                                   *)
(***************************************************************************)
EXTENDS Integers

CONSTANTS
  Source,     \* the threads and interrupts that notify
  Event,      \* the bits of platform_runtime_events_t, all but DEADLINE
  SHUTDOWN,   \* the bit of platform_stop_run_loop
  DEADLINE    \* the bit the loop adds itself

ASSUME EventAssumption == SHUTDOWN \in Event /\ DEADLINE \notin Event

VARIABLES
  bits,       \* runtime_events
  task,       \* runtime_task is published
  token,      \* the notification value of the task is not zero
  stop,       \* stop_requested
  action,     \* requested_system_action is set
  loop,       \* where the runtime thread is
  events,     \* what the wait returns
  deadline,   \* "none", still "ahead", or "due"
  who,        \* where each source is in its notification
  handled     \* history: the last bits an update was given

vars == <<bits, task, token, stop, action, loop, events, deadline, who, handled>>

Places == {"start", "exchange", "look", "block", "clear", "while", "update",
           "again", "ended"}
Steps == {"idle", "request", "stopping", "load", "give"}

TypeOK ==
  /\ bits \in SUBSET Event
  /\ task \in BOOLEAN /\ token \in BOOLEAN /\ stop \in BOOLEAN /\ action \in BOOLEAN
  /\ loop \in Places
  /\ events \in SUBSET (Event \cup {DEADLINE})
  /\ deadline \in {"none", "ahead", "due"}
  /\ who \in [Source -> Steps]
  /\ handled \in SUBSET Event

(* platform_init, and kernel_runtime_start, which may launch programs that
   notify before platform_run is entered. *)
Init ==
  /\ bits = {} /\ task = FALSE /\ token = FALSE /\ stop = FALSE /\ action = FALSE
  /\ loop = "start" /\ events = {} /\ deadline = "none"
  /\ who = [s \in Source |-> "idle"]
  /\ handled = {}

loopVars == <<loop, events, deadline, handled>>

-----------------------------------------------------------------------------
(* platform_runtime_notify and platform_runtime_notify_from_isr *)

(* atomic_fetch_or *)
Publish(s, some) ==
  /\ bits' = bits \cup some
  /\ who' = [who EXCEPT ![s] = "load"]

Notify(s) ==
  /\ who[s] = "idle"
  /\ \E some \in SUBSET Event : some # {} /\ Publish(s, some)
  /\ UNCHANGED <<task, token, stop, action, loop, events, deadline, handled>>

(* The task is read after the bits are published: a loop that starts in
   between finds them without being woken. *)
LoadTask(s) ==
  /\ who[s] = "load"
  /\ who' = [who EXCEPT ![s] = IF task THEN "give" ELSE "idle"]
  /\ UNCHANGED <<bits, task, token, stop, action, loop, events, deadline, handled>>

GiveToken(s) ==
  /\ who[s] = "give"
  /\ token' = TRUE
  /\ who' = [who EXCEPT ![s] = "idle"]
  /\ UNCHANGED <<bits, task, stop, action, loop, events, deadline, handled>>

(* kernel_runtime_request_system_action: the first request wins, and stops
   the loop (platform_stop_run_loop). *)
RequestAction(s) ==
  /\ who[s] = "idle"
  /\ ~action
  /\ action' = TRUE
  /\ who' = [who EXCEPT ![s] = "request"]
  /\ UNCHANGED <<bits, task, token, stop, loop, events, deadline, handled>>

RequestStop(s) ==
  /\ who[s] = "request"
  /\ stop' = TRUE
  /\ who' = [who EXCEPT ![s] = "stopping"]
  /\ UNCHANGED <<bits, task, token, action, loop, events, deadline, handled>>

NotifyStop(s) ==
  /\ who[s] = "stopping"
  /\ Publish(s, {SHUTDOWN})
  /\ UNCHANGED <<task, token, stop, action, loop, events, deadline, handled>>

-----------------------------------------------------------------------------
(* platform_run and platform_runtime_wait_until *)

(* The first wait is until now: the loop starts with an update. *)
Run ==
  /\ loop = "start"
  /\ task' = TRUE /\ deadline' = "due" /\ loop' = "exchange"
  /\ UNCHANGED <<bits, token, stop, action, events, who, handled>>

Exchange ==
  /\ loop = "exchange"
  /\ events' = bits /\ bits' = {}
  /\ loop' = "look"
  /\ UNCHANGED <<task, token, stop, action, deadline, who, handled>>

Seen == IF deadline = "due" THEN events \cup {DEADLINE} ELSE events

(* Mutant: a due deadline replaces the bits. *)
LookOnlyDeadline ==
  /\ loop = "look"
  /\ events' = IF deadline = "due" THEN {DEADLINE} ELSE events
  /\ loop' = IF events' = {} THEN "block" ELSE "clear"
  /\ UNCHANGED <<bits, task, token, stop, action, deadline, who, handled>>

(* Mutant: the notification is cleared before the loop blocks. *)
LookAndClear ==
  /\ loop = "look"
  /\ events' = Seen
  /\ loop' = IF Seen = {} THEN "block" ELSE "clear"
  /\ token' = FALSE
  /\ UNCHANGED <<bits, task, stop, action, deadline, who, handled>>

Look ==
  /\ loop = "look"
  /\ events' = Seen
  /\ loop' = IF Seen = {} THEN "block" ELSE "clear"
  /\ UNCHANGED <<bits, task, token, stop, action, deadline, who, handled>>

(* ulTaskNotifyTake(pdTRUE, wait_ticks): with a deadline ahead the rounded
   number of ticks may elapse before it. *)
Block ==
  /\ loop = "block"
  /\ token \/ deadline # "none"
  /\ token' = FALSE /\ loop' = "exchange"
  /\ UNCHANGED <<bits, task, stop, action, events, deadline, who, handled>>

(* ulTaskNotifyTake(pdTRUE, 0U), on the way out with something to do *)
Clear ==
  /\ loop = "clear"
  /\ token' = FALSE /\ loop' = "while"
  /\ UNCHANGED <<bits, task, stop, action, events, deadline, who, handled>>

End ==
  /\ loop' = "ended" /\ task' = FALSE /\ events' = {}
  /\ UNCHANGED <<bits, token, stop, action, deadline, who, handled>>

While ==
  /\ loop = "while"
  /\ \/ stop /\ End
     \/ /\ ~stop
        /\ loop' = "update"
        /\ UNCHANGED <<bits, task, token, stop, action, events, deadline, who, handled>>

(* kernel_runtime_update(events) *)
Update ==
  /\ loop = "update"
  /\ handled' = IF events \subseteq {DEADLINE} THEN handled ELSE events \ {DEADLINE}
  /\ events' = {} /\ loop' = "again"
  /\ UNCHANGED <<bits, task, token, stop, action, deadline, who>>

(* kernel_runtime_next_deadline: the earliest of the services, or now while
   a program is runnable. *)
Again ==
  /\ loop = "again"
  /\ \/ stop /\ End
     \/ /\ ~stop
        /\ deadline' \in {"none", "ahead", "due"}
        /\ loop' = "exchange"
        /\ UNCHANGED <<bits, task, token, stop, action, events, who, handled>>

TimePasses ==
  /\ deadline = "ahead"
  /\ deadline' = "due"
  /\ UNCHANGED <<bits, task, token, stop, action, loop, events, who, handled>>

-----------------------------------------------------------------------------
Thread == Run \/ Exchange \/ Look \/ Block \/ Clear \/ While \/ Update \/ Again

Continue(s) == LoadTask(s) \/ GiveToken(s) \/ RequestStop(s) \/ NotifyStop(s)

Next ==
  \/ \E s \in Source : Notify(s)
  \/ \E s \in Source : LoadTask(s)
  \/ \E s \in Source : GiveToken(s)
  \/ \E s \in Source : RequestAction(s)
  \/ \E s \in Source : RequestStop(s)
  \/ \E s \in Source : NotifyStop(s)
  \/ Run
  \/ Exchange
  \/ Look
  \/ Block
  \/ Clear
  \/ While
  \/ Update
  \/ Again
  \/ TimePasses

Spec == Init /\ [][Next]_vars

(* The scheduler runs the runtime thread, and a notification or a stop that
   was begun is finished; time passes. Nobody has to notify. *)
Fairness ==
  /\ WF_vars(Thread)
  /\ WF_vars(TimePasses)
  /\ \A s \in Source : WF_vars(Continue(s))

FairSpec == Spec /\ Fairness

-----------------------------------------------------------------------------
(* A loop that blocks, or has decided to, while a bit is set, has been
   notified or is about to be: between the exchange that found nothing and
   the wait no notification is lost (platform_runtime_notify publishes the
   bit before it reads the task and gives the token), with or without a
   deadline that would end the wait. *)
Notified == token \/ \E s \in Source : who[s] \in {"load", "give"}

NoLostWakeup == loop = "block" /\ bits # {} => Notified

Promise ==
  INSTANCE Delivery WITH
    owed <- bits, inHand <- events \ {DEADLINE}, handled <- handled, open <- ~stop

(* The loop keeps the promise of the wake primitive: every bit notified while
   it is not told to stop is collected and handed to an update, whole. A stop
   ends it, also one asked for by a program that was launched before
   platform_run was entered, and wherever the loop was. *)
KeepsThePromise == Promise!Spec /\ (stop ~> loop = "ended")
=============================================================================
