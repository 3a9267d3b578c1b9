------------------------------- MODULE Network -------------------------------
(***************************************************************************)
(* The Wi-Fi connection of TabOS on the Tab5: the portable service with    *)
(* its retries (net/network.c), the platform beneath it and its driver     *)
(* events (platform/esp32p4/runtime.c), and the task that brings the       *)
(* ESP32-C6 up while the rest of the system runs (wifi_startup.c,          *)
(* wifi_driver.c).                                                         *)
(*                                                                         *)
(* Four threads meet here: the runtime thread (network_service_update),    *)
(* an application task (connect, disconnect), the start-up task and the    *)
(* event task of the driver. operation_mutex serialises the first two;     *)
(* nothing serialises them with the others but single atomic variables.    *)
(* What the service keeps under state_mutex is changed by the holder of    *)
(* operation_mutex only.                                                   *)
(***************************************************************************)
EXTENDS Naturals, Sequences

CONSTANTS
  Attempts,  \* NETWORK_AUTOCONNECT_ATTEMPTS
  MaxCalls   \* bound: explicit connects and disconnects

ASSUME AttemptsAssumption == Attempts \in Nat \ {0}
ASSUME MaxCallsAssumption == MaxCalls \in Nat

VARIABLES
  service,   \* current, retry_suppressed and initialized of net/network.c
  timer,     \* retry_timer
  pending,   \* status_pending, which the runtime is notified of
  op,        \* what the holder of operation_mutex does
  wifi,      \* wifi_state, wifi_initialized, wifi_disconnect_requested, ..
  boot,      \* the start-up task
  link,      \* the station of the C6
  events,    \* driver events not yet delivered
  handler,   \* network_event on the driver's event task
  wish,      \* history: the last explicit request; "failed" for a disconnect
             \* that was asked for and has not succeeded
  tried,     \* history: platform connects since then
  calls      \* explicit calls so far

outside == <<boot, link, events, handler>>
history == <<wish, tried, calls>>
vars == <<service, timer, pending, op, wifi, boot, link, events, handler,
          wish, tried, calls>>

Steps == {"free", "apply", "attempt", "refused",
          "disconnect", "forget", "expect", "drop", "offline", "undo", "dropped",
          "connect", "starting", "remember", "announce",
          "clear", "connecting", "join", "failed", "cancel", "unload", "down"}

TypeOK ==
  /\ service \in [state : {"OFFLINE", "CONNECTING", "ONLINE", "DISCONNECTING", "FAILED"},
                  attempts : 0 .. Attempts, suppressed : BOOLEAN, up : BOOLEAN]
  /\ timer \in {"off", "running", "due"}
  /\ pending \in BOOLEAN
  /\ op \in [pc : Steps, call : {"none", "update", "connect", "disconnect", "shutdown"},
             asked : BOOLEAN, result : {"ok", "idle", "error"}]
  /\ wifi \in [state : {"STARTING", "OFFLINE", "CONNECTING", "ONLINE", "FAILED"},
               initialized : BOOLEAN, dropping : BOOLEAN, queued : BOOLEAN,
               cancelled : BOOLEAN]
  /\ boot \in {"reset", "look", "driver", "clear", "publish", "again", "queued",
               "connecting", "join", "failed", "offline", "finish", "finished"}
  /\ link \in {"idle", "joining", "joined"}
  /\ events \in Seq({"disconnected", "got_ip"})
  /\ handler \in {"idle", "OFFLINE", "FAILED", "ONLINE"}
  /\ wish \in {"connect", "disconnect", "failed"} /\ tried \in 0 .. Attempts /\ calls \in 0 .. MaxCalls

Free == [pc |-> "free", call |-> "none", asked |-> FALSE, result |-> "ok"]

(* network_service_init, after platform_network_init: the start-up task runs,
   and a saved profile with autoconnect makes the first attempt. *)
Init ==
  /\ \E auto \in BOOLEAN :
       /\ service = [state |-> IF auto THEN "CONNECTING" ELSE "OFFLINE",
                     attempts |-> IF auto THEN 1 ELSE 0,
                     suppressed |-> FALSE, up |-> TRUE]
       /\ op = IF auto THEN [Free EXCEPT !.pc = "connect", !.call = "update"] ELSE Free
       /\ wish = IF auto THEN "connect" ELSE "disconnect"
       /\ tried = IF auto THEN 1 ELSE 0
  /\ timer = "off"
  /\ pending = TRUE
  /\ wifi = [state |-> "STARTING", initialized |-> FALSE, dropping |-> FALSE,
             queued |-> FALSE, cancelled |-> FALSE]
  /\ boot = "reset" /\ link = "idle" /\ events = <<>> /\ handler = "idle"
  /\ calls = 0

-----------------------------------------------------------------------------
(* Shared pieces. *)

Step(from, to) == op.pc = from /\ op' = [op EXCEPT !.pc = to]

(* set_wifi_state stores the state before network_event raises the flag: an
   update between the two reads the new state, and reads it again later. *)
set_wifi_state(s) == wifi' = [wifi EXCEPT !.state = s] /\ pending' = TRUE

(* esp_wifi_connect may refuse; it does when the station is busy. *)
esp_wifi_connect(ok) ==
  /\ ok => link \in {"idle", "joining"}
  /\ link' = IF ok THEN "joining" ELSE link

(* esp_wifi_disconnect ends what the station does, and reports it later. *)
esp_wifi_disconnect(result) ==
  /\ result = "idle" => link = "idle"
  /\ LET drops == result = "ok" /\ link # "idle"
     IN /\ link' = IF drops THEN "idle" ELSE link
        /\ events' = IF drops THEN Append(events, "disconnected") ELSE events

set_failure == [service EXCEPT !.state = "FAILED"]

(* prepare_attempt; perform_attempt then calls the platform. *)
perform_attempt ==
  IF service.attempts < Attempts
  THEN /\ service' = [service EXCEPT !.attempts = @ + 1, !.state = "CONNECTING"]
       /\ tried' = tried + 1
       /\ op' = [op EXCEPT !.pc = "connect"]
  ELSE /\ service' = set_failure
       /\ op' = Free
       /\ UNCHANGED tried

-----------------------------------------------------------------------------
(* network_service_update, on the runtime thread. *)

UpdateBegin ==
  /\ op.pc = "free" /\ service.up
  /\ pending \/ timer = "due"
  /\ op' = [Free EXCEPT !.pc = "apply", !.call = "update", !.asked = pending]
  /\ pending' = FALSE
  /\ UNCHANGED <<service, timer, wifi, outside, history>>

(* Mutant: a failure counts only while an attempt is being made. *)
SeenConnecting(s) ==
  CASE s = "ONLINE" \/ s = "CONNECTING" -> [service EXCEPT !.state = s]
    [] s \in {"FAILED", "OFFLINE"} /\ service.state = "CONNECTING" ->
         [service EXCEPT !.state = s]
    [] OTHER -> service

Seen(s) ==
  CASE s = "ONLINE" \/ s = "CONNECTING" -> [service EXCEPT !.state = s]
    [] s \in {"FAILED", "OFFLINE"} /\ ~service.suppressed -> [service EXCEPT !.state = s]
    [] OTHER -> service

(* A failure is retried while attempts are left, if it ended an attempt. *)
TimerSeen(s) ==
  CASE s = "ONLINE" -> "off"
    [] /\ s = "FAILED" /\ ~service.suppressed /\ service.state = "CONNECTING"
       /\ service.attempts < Attempts -> "running"
    [] OTHER -> timer

Apply ==
  /\ op.pc = "apply"
  /\ service' = IF op.asked THEN Seen(wifi.state) ELSE service
  /\ LET polled == IF op.asked THEN TimerSeen(wifi.state) ELSE timer
     IN /\ timer' = IF polled = "due" THEN "off" ELSE polled
        /\ op' = IF polled = "due" THEN [op EXCEPT !.pc = "attempt"] ELSE Free
  /\ UNCHANGED <<pending, wifi, outside, history>>

Attempt ==
  /\ op.pc = "attempt"
  /\ perform_attempt
  /\ UNCHANGED <<timer, pending, wifi, outside, wish, calls>>

Tick ==
  /\ timer = "running"
  /\ timer' = "due"
  /\ UNCHANGED <<service, pending, op, wifi, outside, history>>

-----------------------------------------------------------------------------
(* Explicit calls, on a task of an application. *)

network_service_connect ==
  /\ op.pc = "free" /\ service.up /\ calls < MaxCalls
  /\ service' = [service EXCEPT !.suppressed = TRUE, !.state = "DISCONNECTING"]
  /\ timer' = "off"
  /\ op' = [Free EXCEPT !.pc = "disconnect", !.call = "connect"]
  /\ wish' = "connect"
  /\ calls' = calls + 1
  /\ UNCHANGED <<pending, wifi, outside, tried>>

(* Mutant: a disconnect leaves the retry timer running. *)
disconnect_keeping_timer ==
  /\ op.pc = "free" /\ service.up /\ calls < MaxCalls
  /\ service' = [service EXCEPT !.suppressed = TRUE, !.state = "DISCONNECTING"]
  /\ op' = [Free EXCEPT !.pc = "disconnect", !.call = "disconnect"]
  /\ wish' = "failed"
  /\ calls' = calls + 1
  /\ UNCHANGED <<timer, pending, wifi, outside, tried>>

network_service_disconnect ==
  /\ op.pc = "free" /\ service.up /\ calls < MaxCalls
  /\ service' = [service EXCEPT !.suppressed = TRUE, !.state = "DISCONNECTING"]
  /\ timer' = "off"
  /\ op' = [Free EXCEPT !.pc = "disconnect", !.call = "disconnect"]
  /\ wish' = "failed"
  /\ calls' = calls + 1
  /\ UNCHANGED <<pending, wifi, outside, tried>>

network_service_shutdown ==
  /\ op.pc = "free" /\ service.up
  /\ service' = [service EXCEPT !.suppressed = TRUE, !.up = FALSE]
  /\ timer' = "off"
  /\ op' = [Free EXCEPT !.pc = "disconnect", !.call = "shutdown"]
  /\ UNCHANGED <<pending, wifi, outside, history>>

(* What each call does once the platform has disconnected; a connect does not
   look at the result. *)
Dropped ==
  /\ op.pc = "dropped"
  /\ CASE op.call = "connect" ->
            /\ service' = [service EXCEPT !.attempts = 0, !.suppressed = FALSE]
            /\ tried' = 0
            /\ op' = [op EXCEPT !.pc = "attempt"]
            /\ UNCHANGED wish
       [] op.call = "disconnect" ->
            /\ service' = IF op.result = "error" THEN set_failure
                          ELSE [service EXCEPT !.state = "OFFLINE"]
            /\ wish' = IF op.result = "error" THEN wish ELSE "disconnect"
            /\ op' = Free
            /\ UNCHANGED tried
       [] op.call = "shutdown" ->
            /\ op' = [op EXCEPT !.pc = "cancel"]
            /\ UNCHANGED <<service, wish, tried>>
  /\ UNCHANGED <<timer, pending, wifi, outside, calls>>

-----------------------------------------------------------------------------
(* platform_network_disconnect. *)

Disconnect ==
  /\ Step("disconnect", IF wifi.initialized THEN "expect" ELSE "forget")
  /\ UNCHANGED <<service, timer, pending, wifi, outside, history>>

Forget ==
  /\ Step("forget", "offline")
  /\ wifi' = [wifi EXCEPT !.queued = FALSE]
  /\ UNCHANGED <<service, timer, pending, outside, history>>

ExpectEvent ==
  /\ Step("expect", "drop")
  /\ wifi' = [wifi EXCEPT !.dropping = TRUE]
  /\ UNCHANGED <<service, timer, pending, outside, history>>

Drop ==
  /\ op.pc = "drop"
  /\ \E result \in {"ok", "idle", "error"} :
       /\ esp_wifi_disconnect(result)
       /\ op' = [op EXCEPT !.pc = "offline", !.result = result]
  /\ UNCHANGED <<service, timer, pending, wifi, boot, handler, history>>

Offline ==
  /\ Step("offline", "undo")
  /\ set_wifi_state("OFFLINE")
  /\ UNCHANGED <<service, timer, outside, history>>

Undo ==
  /\ Step("undo", "dropped")
  /\ wifi' = [wifi EXCEPT !.dropping = @ /\ op.result = "ok"]
  /\ UNCHANGED <<service, timer, pending, outside, history>>

-----------------------------------------------------------------------------
(* platform_network_connect. *)

Connect ==
  /\ Step("connect", IF wifi.initialized THEN "clear" ELSE "starting")
  /\ UNCHANGED <<service, timer, pending, wifi, outside, history>>

(* The request is left to the start-up task if that is still running. *)
Starting ==
  /\ Step("starting", IF boot # "finished" THEN "remember" ELSE "refused")
  /\ UNCHANGED <<service, timer, pending, wifi, outside, history>>

Remember ==
  /\ Step("remember", "announce")
  /\ wifi' = [wifi EXCEPT !.queued = TRUE]
  /\ UNCHANGED <<service, timer, pending, outside, history>>

Announce ==
  /\ op.pc = "announce"
  /\ op' = Free
  /\ set_wifi_state("CONNECTING")
  /\ UNCHANGED <<service, timer, outside, history>>

Clear ==
  /\ Step("clear", "connecting")
  /\ wifi' = [wifi EXCEPT !.dropping = FALSE]
  /\ UNCHANGED <<service, timer, pending, outside, history>>

Connecting ==
  /\ Step("connecting", "join")
  /\ set_wifi_state("CONNECTING")
  /\ UNCHANGED <<service, timer, outside, history>>

Join ==
  /\ op.pc = "join"
  /\ \E ok \in BOOLEAN :
       /\ esp_wifi_connect(ok)
       /\ op' = IF ok THEN Free ELSE [op EXCEPT !.pc = "failed"]
  /\ UNCHANGED <<service, timer, pending, wifi, boot, events, handler, history>>

Failed ==
  /\ Step("failed", "refused")
  /\ set_wifi_state("FAILED")
  /\ UNCHANGED <<service, timer, outside, history>>

Refused ==
  /\ op.pc = "refused"
  /\ op' = Free
  /\ service' = set_failure
  /\ UNCHANGED <<timer, pending, wifi, outside, history>>

-----------------------------------------------------------------------------
(* platform_network_shutdown: the start-up task is cancelled and joined, then
   the driver is taken down; unregistering a handler waits for its event. *)

CancelStartup ==
  /\ Step("cancel", "unload")
  /\ wifi' = [wifi EXCEPT !.cancelled = TRUE]
  /\ UNCHANGED <<service, timer, pending, outside, history>>

UnloadDriver ==
  /\ handler = "idle"
  /\ link' = "idle"
  /\ events' = <<>>
  /\ UNCHANGED handler

(* Mutant: the start-up task is cancelled and not joined. *)
UnloadUnjoined ==
  /\ Step("unload", "down")
  /\ UnloadDriver
  /\ wifi' = [wifi EXCEPT !.initialized = FALSE]
  /\ service' = [service EXCEPT !.state = "OFFLINE", !.attempts = 0]
  /\ pending' = FALSE
  /\ UNCHANGED <<timer, boot, history>>

Unload ==
  /\ boot = "finished"
  /\ Step("unload", "down")
  /\ UnloadDriver
  /\ wifi' = [wifi EXCEPT !.initialized = FALSE]
  /\ service' = [service EXCEPT !.state = "OFFLINE", !.attempts = 0]
  /\ pending' = FALSE
  /\ UNCHANGED <<timer, boot, history>>

-----------------------------------------------------------------------------
(* wifi_start, on a task of its own. *)

Boots(from, to) == boot = from /\ boot' = to

inside == <<service, timer, op, history>>

Reset ==
  /\ \E to \in {"look", "failed"} : Boots("reset", to)
  /\ UNCHANGED <<inside, pending, wifi, link, events, handler>>

Look ==
  /\ Boots("look", IF wifi.cancelled THEN "finish" ELSE "driver")
  /\ UNCHANGED <<inside, pending, wifi, link, events, handler>>

DriverFails ==
  /\ Boots("driver", "failed")
  /\ UNCHANGED <<inside, pending, wifi, link, events, handler>>

DriverStarts ==
  /\ Boots("driver", "clear")
  /\ set_wifi_state("OFFLINE")
  /\ UNCHANGED <<inside, link, events, handler>>

ClearAtStart ==
  /\ Boots("clear", "publish")
  /\ wifi' = [wifi EXCEPT !.dropping = FALSE]
  /\ UNCHANGED <<inside, pending, link, events, handler>>

Publish ==
  /\ Boots("publish", "again")
  /\ wifi' = [wifi EXCEPT !.initialized = TRUE]
  /\ UNCHANGED <<inside, pending, link, events, handler>>

LookAgain ==
  /\ ~wifi.cancelled
  /\ Boots("again", "queued")
  /\ UNCHANGED <<inside, pending, wifi, link, events, handler>>

GiveUp ==
  /\ wifi.cancelled
  /\ Boots("again", "finish")
  /\ UnloadDriver
  /\ wifi' = [wifi EXCEPT !.initialized = FALSE]
  /\ UNCHANGED <<inside, pending>>

TakeQueued ==
  /\ Boots("queued", IF wifi.queued THEN "connecting" ELSE "offline")
  /\ UNCHANGED <<inside, pending, wifi, link, events, handler>>

ConnectQueued ==
  /\ Boots("connecting", "join")
  /\ set_wifi_state("CONNECTING")
  /\ UNCHANGED <<inside, link, events, handler>>

JoinQueued ==
  /\ \E ok \in BOOLEAN :
       /\ esp_wifi_connect(ok)
       /\ Boots("join", IF ok THEN "finish" ELSE "failed")
  /\ UNCHANGED <<inside, pending, wifi, events, handler>>

NothingQueued ==
  /\ Boots("offline", "finish")
  /\ set_wifi_state("OFFLINE")
  /\ UNCHANGED <<inside, link, events, handler>>

StartupFailed ==
  /\ Boots("failed", "finish")
  /\ set_wifi_state("FAILED")
  /\ UNCHANGED <<inside, link, events, handler>>

Finish ==
  /\ Boots("finish", "finished")
  /\ UNCHANGED <<inside, pending, wifi, link, events, handler>>

-----------------------------------------------------------------------------
(* The station: an attempt ends, and a connection may be lost. *)

Report(from, to, event) ==
  /\ link = from
  /\ link' = to
  /\ events' = Append(events, event)
  /\ UNCHANGED <<inside, pending, wifi, boot, handler>>

AttemptEnds ==
  Report("joining", "joined", "got_ip") \/ Report("joining", "idle", "disconnected")

LinkLost == Report("joined", "idle", "disconnected")

(* network_event: a disconnection that was asked for is no failure. *)
Deliver ==
  /\ handler = "idle" /\ events # <<>>
  /\ events' = Tail(events)
  /\ IF Head(events) = "got_ip"
     THEN handler' = "ONLINE" /\ UNCHANGED wifi
     ELSE /\ handler' = IF wifi.dropping THEN "OFFLINE" ELSE "FAILED"
          /\ wifi' = [wifi EXCEPT !.dropping = FALSE]
  /\ UNCHANGED <<inside, pending, boot, link>>

Store ==
  /\ handler # "idle"
  /\ set_wifi_state(handler)
  /\ handler' = "idle"
  /\ UNCHANGED <<inside, boot, link, events>>

-----------------------------------------------------------------------------
Update == UpdateBegin \/ Apply \/ Attempt

Call == network_service_connect \/ network_service_disconnect \/ network_service_shutdown

Operation ==
  \/ Dropped \/ Disconnect \/ Forget \/ ExpectEvent \/ Drop \/ Offline \/ Undo
  \/ Connect \/ Starting \/ Remember \/ Announce
  \/ Clear \/ Connecting \/ Join \/ Failed \/ Refused
  \/ CancelStartup \/ Unload

Startup ==
  \/ Reset \/ Look \/ DriverFails \/ DriverStarts \/ ClearAtStart \/ Publish
  \/ LookAgain \/ GiveUp \/ TakeQueued \/ ConnectQueued \/ JoinQueued
  \/ NothingQueued \/ StartupFailed \/ Finish

Events == Deliver \/ Store

Next ==
  \/ Update \/ Tick \/ Call \/ Operation \/ Startup
  \/ AttemptEnds \/ LinkLost \/ Events

(* Every thread goes on with what it began; the runtime is woken by the flag's
   event and by the deadline of the timer; an attempt of the station ends. *)
Fairness ==
  /\ WF_vars(Update) /\ WF_vars(Operation) /\ WF_vars(Startup)
  /\ WF_vars(Events) /\ WF_vars(AttemptEnds)

Spec == Init /\ [][Next]_vars

FairSpec == Spec /\ Fairness

-----------------------------------------------------------------------------
(* Properties *)

(* "Attempt autoconnect at most three times. [...] Make explicit disconnect
   cancel pending connection and retry work and suppress further autoconnect"
   (agents/milestone-networking.md): the service asks the platform to connect
   at most so often for each request, and only for a request that stands. *)
OnlyWantedAttempts ==
  /\ tried <= Attempts
  /\ op.pc = "attempt" => wish = "connect"

(* A connect call that found the driver not yet started *)
Queueing == op.pc \in {"starting", "remember", "announce"}

Settled == ~service.up \/ service.state \in {"OFFLINE", "ONLINE", "FAILED"}

(* The status follows the station, whatever else the four threads store
   meanwhile: an attempt, of the service or of the start-up task, is not left
   CONNECTING, and the loss of a connection that is wanted does not go unnoticed.
   The start-up task's attempt is spoken of unless a connect call is still to store
   its own CONNECTING (runtime.c:252), which may come last of all, or a disconnect
   has come meanwhile, after which the service looks at no failure (network.c:165). *)
StatusFollows ==
  /\ (op.pc = "join") ~> Settled
  /\ (boot = "join" /\ ~Queueing) ~> (Settled \/ wish # "connect")
  /\ (service.state = "ONLINE" /\ link # "joined") ~>
       (service.state # "ONLINE" \/ link = "joined" \/ wish # "connect")

(* Nobody uses what a finished shutdown has deleted: no task and no event
   stores a state after it. *)
QuietAfterShutdown == [][op.pc = "down" => UNCHANGED <<wifi, pending, handler>>]_vars

(* Nothing is under way, and nothing is left to be told. *)
Quiet ==
  /\ op.pc = "free" /\ boot = "finished" /\ events = <<>> /\ handler = "idle"
  /\ ~pending

(* "Make explicit disconnect cancel pending connection and retry work"
   (agents/milestone-networking.md): when all is quiet after a disconnect that
   succeeded, the station is not connected and the status does not say so. *)
DisconnectSticks ==
  Quiet /\ wish = "disconnect" => service.state # "ONLINE" /\ link = "idle"
=============================================================================
