------------------------------- MODULE Audio -------------------------------
(***************************************************************************)
(* The audio service (audio/audio.c) over the Tab5's codecs, audio worker  *)
(* and headphone monitor (platform/esp32p4/audio.c). The service's mutex   *)
(* is released while the platform starts, stops or changes the route;      *)
(* "reconfiguring" keeps others out of a start or a stop, and nothing      *)
(* orders two changes of the route. Each program is a thread with at most  *)
(* one stream; samples and rings are left out. The headphone and the       *)
(* microphone route differ in nothing that is modelled.                    *)
(***************************************************************************)
EXTENDS Integers, FiniteSets

CONSTANTS
  Owner,        \* programs
  Rate,         \* sample rates
  Closed,       \* the codecs are closed
  MaxMonitors   \* bound: headphone monitors at one time

ASSUME AudioAssumption ==
  Owner # {} /\ Rate # {} /\ Closed \notin Rate /\ MaxMonitors \in Nat \ {0}

Route == {"speaker", "other"}

VARIABLES
  stream,          \* of each program
  reconfiguring, hardware_active, active_sample_rate,
  ready, error,    \* platform_info
  call,            \* where each program is in the service and the platform
  codec,           \* the rate the codecs are open at
  hardware,        \* audio_hardware_active
  running, active, \* audio_running, audio_task_active
  worker,          \* where audio_worker is
  monitor,         \* headphone_monitor_running, headphone_task_active, the tasks
  route            \* speaker_route_requested, headphones_inserted, speaker_enabled

service == <<stream, reconfiguring, hardware_active, active_sample_rate, ready, error>>
platform == <<codec, hardware, running, active, worker, monitor, route>>
vars == <<service, platform, call>>

Idle == [at |-> "idle", job |-> "none", rate |-> Closed, route |-> "other", ok |-> TRUE]

NoStream == [open |-> FALSE, faulted |-> FALSE, rate |-> Closed]

streams_open == \E o \in Owner : stream[o].open

Places == {"idle", "start", "hush", "hushed", "apply", "check", "run", "create",
           "revoke", "task", "decide", "stop", "join", "shut", "reopen", "close"}

Jobs == {"none", "open", "later", "route", "failed", "abandon", "close"}

TypeOK ==
  /\ stream \in [Owner -> [open : BOOLEAN, faulted : BOOLEAN, rate : Rate \cup {Closed}]]
  /\ reconfiguring \in BOOLEAN /\ hardware_active \in BOOLEAN
  /\ active_sample_rate \in Rate \cup {Closed}
  /\ ready \in BOOLEAN /\ error \in BOOLEAN
  /\ call \in [Owner -> [at : Places, job : Jobs, rate : Rate \cup {Closed},
                         route : Route, ok : BOOLEAN]]
  /\ codec \in Rate \cup {Closed} /\ hardware \in BOOLEAN
  /\ running \in BOOLEAN /\ active \in BOOLEAN
  /\ worker \in {"none", "loop", "error", "ending"}
  /\ monitor \in [running : BOOLEAN, active : BOOLEAN, polling : Nat, leaving : Nat]
  /\ route \in [requested : BOOLEAN, inserted : BOOLEAN, speaker : BOOLEAN]

(* platform_audio_init succeeded; the default rate is one of Rate. *)
Init ==
  /\ stream = [o \in Owner |-> NoStream]
  /\ reconfiguring = FALSE /\ hardware_active = FALSE /\ active_sample_rate \in Rate
  /\ ready = TRUE /\ error = FALSE
  /\ call = [o \in Owner |-> Idle]
  /\ codec = Closed /\ hardware = FALSE /\ running = FALSE /\ active = FALSE
  /\ worker = "none"
  /\ monitor = [running |-> FALSE, active |-> FALSE, polling |-> 0, leaving |-> 0]
  /\ route = [requested |-> FALSE, inserted |-> FALSE, speaker |-> FALSE]

-----------------------------------------------------------------------------
(* Threads *)

At(o, place) == call[o].at = place

Goto(o, place) == call' = [call EXCEPT ![o].at = place]

(* The first place of set_output_route *)
Enter(r) == IF r = "speaker" THEN "apply" ELSE "hush"

(* What follows set_output_route *)
Routed(o, ok) ==
  call' = [call EXCEPT ![o] =
    CASE @.job = "open" /\ ok -> [@ EXCEPT !.at = "task"]
      [] @.job = "open" /\ ~ok -> [@ EXCEPT !.at = "stop", !.job = "failed"]
      [] @.job = "later" /\ ~ok -> [@ EXCEPT !.at = "close"]
      [] OTHER -> Idle]

(* What follows platform_audio_stop *)
Stopped(o) ==
  call' = [call EXCEPT ![o] =
    IF @.job = "failed" THEN [@ EXCEPT !.at = "decide", !.ok = FALSE]
    ELSE [@ EXCEPT !.at = "reopen"]]

-----------------------------------------------------------------------------
(* The service *)

Install(o, rate) ==
  stream' = [stream EXCEPT ![o] = [open |-> TRUE, faulted |-> FALSE, rate |-> rate]]

(* audio_service_open, the first stream: the start follows. *)
OpenFirst(o, rate, r) ==
  /\ At(o, "idle") /\ ~streams_open /\ ~reconfiguring
  /\ reconfiguring' = TRUE /\ error' = FALSE
  /\ call' = [call EXCEPT ![o] = [Idle EXCEPT !.at = "start", !.job = "open",
                                    !.rate = rate, !.route = r]]
  /\ UNCHANGED <<stream, hardware_active, active_sample_rate, ready, platform>>

(* Mutant: a later stream opens whatever its rate. *)
OpenLaterAtAnyRate(o, rate, r) ==
  /\ At(o, "idle") /\ ~stream[o].open /\ streams_open
  /\ ~reconfiguring /\ ready
  /\ Install(o, rate)
  /\ call' = [call EXCEPT ![o] = [Idle EXCEPT !.at = IF hardware THEN Enter(r) ELSE "close",
                                    !.job = "later", !.route = r]]
  /\ UNCHANGED <<reconfiguring, hardware_active, active_sample_rate, ready, error, platform>>

(* A later stream is installed, then sets its route. *)
OpenLater(o, rate, r) ==
  /\ At(o, "idle") /\ ~stream[o].open /\ streams_open
  /\ ~reconfiguring /\ ready /\ rate = active_sample_rate
  /\ Install(o, rate)
  /\ call' = [call EXCEPT ![o] = [Idle EXCEPT !.at = IF hardware THEN Enter(r) ELSE "close",
                                    !.job = "later", !.route = r]]
  /\ UNCHANGED <<reconfiguring, hardware_active, active_sample_rate, ready, error, platform>>

(* Mutant: a start that returned is taken for a success. *)
DecideOnReturn(o) ==
  /\ At(o, "decide")
  /\ LET start_failed == ~call[o].ok
     IN IF start_failed
        THEN /\ ready' = FALSE /\ error' = TRUE
             /\ Goto(o, "reopen")
             /\ UNCHANGED <<stream, reconfiguring, hardware_active, active_sample_rate>>
        ELSE /\ ready' = TRUE /\ error' = FALSE /\ reconfiguring' = FALSE
             /\ hardware_active' = TRUE /\ active_sample_rate' = call[o].rate
             /\ Install(o, call[o].rate)
             /\ call' = [call EXCEPT ![o] = Idle]
  /\ UNCHANGED platform

(* The start has returned, and an error may have come before the lock. *)
Decide(o) ==
  /\ At(o, "decide")
  /\ LET start_failed == ~call[o].ok \/ error
     IN IF start_failed
        THEN /\ ready' = FALSE /\ error' = TRUE
             /\ call' = [call EXCEPT ![o].at = IF call[o].ok THEN "stop" ELSE "reopen",
                                     ![o].job = "abandon"]
             /\ UNCHANGED <<stream, reconfiguring, hardware_active, active_sample_rate>>
        ELSE /\ ready' = TRUE /\ error' = FALSE /\ reconfiguring' = FALSE
             /\ hardware_active' = TRUE /\ active_sample_rate' = call[o].rate
             /\ Install(o, call[o].rate)
             /\ call' = [call EXCEPT ![o] = Idle]
  /\ UNCHANGED platform

Reopen(o) ==
  /\ At(o, "reopen")
  /\ reconfiguring' = FALSE /\ call' = [call EXCEPT ![o] = Idle]
  /\ UNCHANGED <<stream, hardware_active, active_sample_rate, ready, error, platform>>

(* Mutant: the last close does not keep others out of the stop. *)
CloseUnguarded(o) ==
  /\ call[o].at \in {"idle", "close"} /\ stream[o].open
  /\ stream' = [stream EXCEPT ![o] = NoStream]
  /\ LET stop_hardware == hardware_active /\ \A p \in Owner \ {o} : ~stream[p].open
     IN /\ hardware_active' = IF stop_hardware THEN FALSE ELSE hardware_active
        /\ call' = [call EXCEPT ![o] =
                      IF stop_hardware THEN [Idle EXCEPT !.at = "stop", !.job = "close"]
                      ELSE Idle]
  /\ UNCHANGED <<reconfiguring, active_sample_rate, ready, error, platform>>

(* audio_service_close, also for audio_service_close_owner and for a later
   stream whose route was refused *)
Close(o) ==
  /\ call[o].at \in {"idle", "close"} /\ stream[o].open
  /\ stream' = [stream EXCEPT ![o] = NoStream]
  /\ LET stop_hardware == hardware_active /\ \A p \in Owner \ {o} : ~stream[p].open
     IN /\ reconfiguring' = (reconfiguring \/ stop_hardware)
        /\ hardware_active' = (hardware_active /\ ~stop_hardware)
        /\ call' = [call EXCEPT ![o] =
                      IF stop_hardware THEN [Idle EXCEPT !.at = "stop", !.job = "close"]
                      ELSE Idle]
  /\ UNCHANGED <<active_sample_rate, ready, error, platform>>

(* audio_service_set_route, platform_audio_set_route; without hardware it is
   refused *)
SetRoute(o, r) ==
  /\ At(o, "idle") /\ stream[o].open /\ hardware
  /\ call' = [call EXCEPT ![o] = [Idle EXCEPT !.at = Enter(r), !.job = "route", !.route = r]]
  /\ UNCHANGED <<service, platform>>

-----------------------------------------------------------------------------
(* platform_audio_start *)

(* The hardware is active already, or configure_codecs fails. *)
StartRefused(o) ==
  /\ At(o, "start")
  /\ call' = [call EXCEPT ![o].at = "decide", ![o].ok = FALSE]
  /\ UNCHANGED <<service, platform>>

ConfigureCodecs(o) ==
  /\ At(o, "start") /\ ~hardware
  /\ codec' = call[o].rate /\ hardware' = TRUE
  /\ Goto(o, Enter(call[o].route))
  /\ UNCHANGED <<service, running, active, worker, monitor, route>>

(* start_audio_task *)
StartTask(o) ==
  /\ At(o, "task")
  /\ running' = TRUE /\ active' = TRUE /\ worker' = "loop"
  /\ Goto(o, "decide")
  /\ UNCHANGED <<service, codec, hardware, monitor, route>>

StartTaskFails(o) ==
  /\ At(o, "task")
  /\ running' = FALSE /\ active' = FALSE
  /\ call' = [call EXCEPT ![o].at = "stop", ![o].job = "failed"]
  /\ UNCHANGED <<service, codec, hardware, worker, monitor, route>>

(* set_output_route, start_headphone_monitor. Hush and Hushed are
   stop_headphone_monitor, for platform_audio_stop too. *)
Hush(o) ==
  /\ At(o, "hush")
  /\ monitor' = [monitor EXCEPT !.running = FALSE] /\ Goto(o, "hushed")
  /\ UNCHANGED <<service, codec, hardware, running, active, worker, route>>

Hushed(o) ==
  /\ At(o, "hushed") /\ ~monitor.active
  /\ IF call[o].job \in {"open", "later", "route"} THEN Goto(o, "apply")
     ELSE IF hardware THEN Goto(o, "shut") ELSE Stopped(o)
  /\ UNCHANGED <<service, platform>>

Enabled(r) == r.requested /\ ~r.inserted

(* Under route_mutex: the jack is sampled for the speaker. *)
Apply(o) ==
  /\ At(o, "apply")
  /\ \E inserted \in IF call[o].route = "speaker" THEN BOOLEAN ELSE {route.inserted} :
       LET r == [route EXCEPT !.requested = (call[o].route = "speaker"),
                              !.inserted = inserted]
       IN route' = [r EXCEPT !.speaker = Enabled(r)]
  /\ IF call[o].route = "speaker" THEN Goto(o, "check") ELSE Routed(o, TRUE)
  /\ UNCHANGED <<service, codec, hardware, running, active, worker, monitor>>

(* The jack or the amplifier failed; what was before is applied again. *)
ApplyFails(o) ==
  /\ At(o, "apply")
  /\ \/ call[o].route = "speaker"
     \/ route.speaker
  /\ \E s \in {route.speaker, Enabled(route)} : route' = [route EXCEPT !.speaker = s]
  /\ Routed(o, FALSE)
  /\ UNCHANGED <<service, codec, hardware, running, active, worker, monitor>>

Check(o) ==
  /\ At(o, "check")
  /\ IF monitor.active THEN Routed(o, TRUE)
     ELSE monitor.polling + monitor.leaving < MaxMonitors /\ Goto(o, "run")
  /\ UNCHANGED <<service, platform>>

Run(o) ==
  /\ At(o, "run")
  /\ monitor' = [monitor EXCEPT !.running = TRUE, !.active = TRUE] /\ Goto(o, "create")
  /\ UNCHANGED <<service, codec, hardware, running, active, worker, route>>

Create(o) ==
  /\ At(o, "create")
  /\ monitor' = [monitor EXCEPT !.polling = @ + 1]
  /\ Routed(o, TRUE)
  /\ UNCHANGED <<service, codec, hardware, running, active, worker, route>>

CreateFails(o) ==
  /\ At(o, "create")
  /\ monitor' = [monitor EXCEPT !.running = FALSE, !.active = FALSE]
  /\ Goto(o, "revoke")
  /\ UNCHANGED <<service, codec, hardware, running, active, worker, route>>

(* The speaker is given up; turning it off may fail. *)
Off(r) == {[r EXCEPT !.requested = FALSE, !.speaker = s] : s \in {r.speaker, FALSE}}

Revoke(o) ==
  /\ At(o, "revoke")
  /\ route' \in Off(route) /\ Routed(o, FALSE)
  /\ UNCHANGED <<service, codec, hardware, running, active, worker, monitor>>

-----------------------------------------------------------------------------
(* platform_audio_stop *)

Stop(o) ==
  /\ At(o, "stop")
  /\ running' = (running /\ ~hardware)
  /\ Goto(o, IF hardware THEN "join" ELSE "hush")
  /\ UNCHANGED <<service, codec, hardware, active, worker, monitor, route>>

Join(o) ==
  /\ At(o, "join") /\ ~active
  /\ Goto(o, "hush")
  /\ UNCHANGED <<service, platform>>

Shut(o) ==
  /\ At(o, "shut")
  /\ route' \in Off(route)
  /\ codec' = Closed /\ hardware' = FALSE
  /\ Stopped(o)
  /\ UNCHANGED <<service, running, active, worker, monitor>>

-----------------------------------------------------------------------------
(* audio_worker: a chunk that was moved changes nothing here. *)

WorkerStops ==
  /\ worker = "loop" /\ ~running
  /\ worker' = "ending"
  /\ UNCHANGED <<service, call, codec, hardware, running, active, monitor, route>>

WorkerFails ==
  /\ worker = "loop" /\ worker' = "error"
  /\ UNCHANGED <<service, call, codec, hardware, running, active, monitor, route>>

(* audio_service_error *)
ReportError ==
  /\ ready' = FALSE /\ error' = TRUE
  /\ stream' = [o \in Owner |-> IF stream[o].open THEN [stream[o] EXCEPT !.faulted = TRUE]
                                ELSE stream[o]]
  /\ UNCHANGED <<reconfiguring, hardware_active, active_sample_rate>>

(* Mutant: the worker returns from its error without saying so. *)
WorkerVanishes ==
  /\ worker = "error" /\ worker' = "none" /\ ReportError
  /\ UNCHANGED <<call, codec, hardware, running, active, monitor, route>>

WorkerReports ==
  /\ worker = "error" /\ worker' = "ending" /\ ReportError
  /\ UNCHANGED <<call, codec, hardware, running, active, monitor, route>>

WorkerEnds ==
  /\ worker = "ending" /\ worker' = "none" /\ active' = FALSE
  /\ UNCHANGED <<service, call, codec, hardware, running, monitor, route>>

(* headphone_worker: it may have read the flag before it was cleared. *)
JackChanges ==
  /\ monitor.polling > 0
  /\ LET r == [route EXCEPT !.inserted = ~@]
     IN route' = [r EXCEPT !.speaker = Enabled(r)]
  /\ UNCHANGED <<service, call, codec, hardware, running, active, worker, monitor>>

MonitorStops ==
  /\ monitor.polling > 0 /\ ~monitor.running
  /\ monitor' = [monitor EXCEPT !.polling = @ - 1, !.leaving = @ + 1]
  /\ UNCHANGED <<service, call, codec, hardware, running, active, worker, route>>

MonitorEnds ==
  /\ monitor.leaving > 0
  /\ monitor' = [monitor EXCEPT !.leaving = @ - 1, !.active = FALSE]
  /\ UNCHANGED <<service, call, codec, hardware, running, active, worker, route>>

-----------------------------------------------------------------------------
(* What a thread does once it is in a call. *)
Proceed(o) ==
  \/ Decide(o) \/ Reopen(o) \/ StartRefused(o) \/ ConfigureCodecs(o) \/ StartTask(o)
  \/ StartTaskFails(o) \/ Hush(o) \/ Hushed(o) \/ Apply(o) \/ ApplyFails(o) \/ Check(o)
  \/ Run(o) \/ Create(o) \/ CreateFails(o) \/ Revoke(o) \/ Stop(o) \/ Join(o) \/ Shut(o)
  \/ (At(o, "close") /\ Close(o))

Next ==
  \/ \E o \in Owner, rate \in Rate, r \in Route : OpenFirst(o, rate, r)
  \/ \E o \in Owner, rate \in Rate, r \in Route : OpenLater(o, rate, r)
  \/ \E o \in Owner, r \in Route : SetRoute(o, r)
  \/ \E o \in Owner : Close(o)
  \/ \E o \in Owner : Decide(o)
  \/ \E o \in Owner : Reopen(o)
  \/ \E o \in Owner : StartRefused(o)
  \/ \E o \in Owner : ConfigureCodecs(o)
  \/ \E o \in Owner : StartTask(o)
  \/ \E o \in Owner : StartTaskFails(o)
  \/ \E o \in Owner : Hush(o)
  \/ \E o \in Owner : Hushed(o)
  \/ \E o \in Owner : Apply(o)
  \/ \E o \in Owner : ApplyFails(o)
  \/ \E o \in Owner : Check(o)
  \/ \E o \in Owner : Run(o)
  \/ \E o \in Owner : Create(o)
  \/ \E o \in Owner : CreateFails(o)
  \/ \E o \in Owner : Revoke(o)
  \/ \E o \in Owner : Stop(o)
  \/ \E o \in Owner : Join(o)
  \/ \E o \in Owner : Shut(o)
  \/ WorkerStops \/ WorkerFails \/ WorkerReports \/ WorkerEnds
  \/ JackChanges \/ MonitorStops \/ MonitorEnds

Spec == Init /\ [][Next]_vars

(* Every thread goes on with a call it has begun, and so do the two tasks:
   codec transfers and the monitor's delay return. *)
Fairness ==
  /\ \A o \in Owner : WF_vars(Proceed(o))
  /\ WF_vars(WorkerStops) /\ WF_vars(WorkerReports) /\ WF_vars(WorkerEnds)
  /\ WF_vars(MonitorStops) /\ WF_vars(MonitorEnds)

FairSpec == Spec /\ Fairness

-----------------------------------------------------------------------------
(* Unless somebody is in the middle of a start or a stop, the hardware is on
   exactly while a stream is open, with the codecs at the rate of every one of
   them, and without a stream the worker is gone (docs/audio.md). *)
HardwareFollowsStreams ==
  ~reconfiguring =>
    /\ hardware = streams_open
    /\ \A o \in Owner : stream[o].open => codec = stream[o].rate
    /\ ~streams_open => codec = Closed /\ worker = "none" /\ ~active

(* A start or a stop runs with the mutex released, and alone: no other program
   starts, stops or routes the hardware meanwhile. *)
Reconfigures(o) == call[o].job \in {"open", "failed", "abandon", "close"}

ReconfiguresAlone ==
  \A o, p \in Owner : o # p /\ Reconfigures(o) => At(p, "idle")

(* A program is not left with a stream that nobody plays: while its stream is
   open and not faulted, the worker runs, or is about to report its error. *)
NobodyUnserved ==
  \A o \in Owner : stream[o].open /\ ~stream[o].faulted =>
    running /\ active /\ worker \in {"loop", "error"}

(* A reconfiguration ends, whatever fails in it, so the service does not stay
   busy: the last close finds the worker and the monitor ended. *)
ReconfigurationEnds == reconfiguring ~> ~reconfiguring
=============================================================================
