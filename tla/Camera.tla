-------------------------------- MODULE Camera --------------------------------
(***************************************************************************)
(* Camera capture on the Tab5: the stream of camera/camera.c with its pool *)
(* of frames and leases, and the capture worker of                         *)
(* platform/esp32p4/camera.c that fills it.                                *)
(*                                                                         *)
(* Three threads meet: the application that owns the stream, the runtime   *)
(* thread (teardown, removal of the device, shutdown) and the worker.      *)
(* pipeline_mutex serialises the operations of the first two (variable op) *)
(* and is never taken by the worker; the pool is changed under             *)
(* camera_mutex, one action per critical section. The worker is told to    *)
(* run by a task notification and says that it stopped by capture_idle.    *)
(*                                                                         *)
(* At most one stream is open, in slot 0: open_count is 1 while it is.     *)
(* Leases are named by their frame; the generation tags that make an old   *)
(* lease fail with EBADF, which changes nothing, are left out.             *)
(***************************************************************************)
EXTENDS Naturals, FiniteSetsExt

CONSTANTS
  Frames,     \* CAMERA_FRAME_CAPACITY
  MaxFrames,  \* bound: pictures the sensor delivers for one stream
  MaxOpens,   \* bound: streams opened
  Formats     \* formats an application asks for: "h264" and "packed", the rest

ASSUME FramesAssumption == Frames \in Nat \ {0}
ASSUME BoundsAssumption == MaxFrames \in Nat /\ MaxOpens \in Nat
ASSUME FormatsAssumption == Formats \subseteq {"h264", "packed"}

VARIABLES
  device,   \* platform_info: detected and ready, error
  stream,   \* streams[0] but for its frames
  frames,   \* streams[0].frames
  app,      \* the application: what it has or is calling
  op,       \* the holder of pipeline_mutex
  worker,   \* where the capture worker is
  signal,   \* its notification, capture_idle and capture_exited
  capture,  \* capture_active, capture_shutdown, camera_fd, the driver's format
  seen,     \* history: pictures submitted, acquired, and the last one acquired
  opens     \* streams opened so far

service == <<device, stream, frames>>
vars == <<device, stream, frames, app, op, worker, signal, capture, seen, opens>>

Frame == 0 .. Frames - 1

EmptyFrame == [ready |-> FALSE, leased |-> FALSE, sequence |-> 0]

ClosedStream ==
  [open |-> FALSE, format |-> "none", faulted |-> FALSE, hangup |-> FALSE,
   sequence |-> 0, drops |-> 0]

Free == [kind |-> "none", pc |-> "free"]

TypeOK ==
  /\ device \in [present : BOOLEAN, error : BOOLEAN]
  /\ stream \in [open : BOOLEAN, format : Formats \cup {"none"}, faulted : BOOLEAN,
                 hangup : BOOLEAN, sequence : 0 .. MaxFrames, drops : 0 .. MaxFrames]
  /\ frames \in [Frame -> [ready : BOOLEAN, leased : BOOLEAN, sequence : 0 .. MaxFrames]]
  /\ app \in {"none", "calling", "open", "released"}
  /\ op \in [kind : {"none", "open", "close", "owner", "remove", "resume", "shutdown"},
             pc : {"free", "configure", "drain", "activate", "signal", "stop",
                   "streamoff", "join", "release", "finish", "exit", "down"}]
  /\ worker \in {"wait", "look", "ready", "begin", "dequeue", "process", "requeue",
                 "idle", "gone", "crashed"}
  /\ signal \in [notified : BOOLEAN, idle : BOOLEAN, exited : BOOLEAN]
  /\ capture \in [active : BOOLEAN, shutdown : BOOLEAN,
                  device : {"closed", "on", "off"}, format : Formats \cup {"none"}]
  /\ seen \in [made : 0 .. MaxFrames, given : 0 .. MaxFrames, last : 0 .. MaxFrames]
  /\ opens \in 0 .. MaxOpens

(* camera_service_init with a camera that answered. *)
Init ==
  /\ device = [present |-> TRUE, error |-> FALSE]
  /\ stream = ClosedStream
  /\ frames = [f \in Frame |-> EmptyFrame]
  /\ app = "none"
  /\ op = Free
  /\ worker = "wait"
  /\ signal = [notified |-> FALSE, idle |-> FALSE, exited |-> FALSE]
  /\ capture = [active |-> FALSE, shutdown |-> FALSE, device |-> "closed",
                format |-> "none"]
  /\ seen = [made |-> 0, given |-> 0, last |-> 0]
  /\ opens = 0

-----------------------------------------------------------------------------
(* The pool. *)

Ready == {f \in Frame : frames[f].ready}
Unleased == {f \in Frame : ~frames[f].leased}
Empty == Unleased \ Ready

Older(f, g) == frames[f].sequence <= frames[g].sequence

Oldest(S) == CHOOSE f \in S : \A g \in S : Older(f, g)

Capturing == stream.open /\ ~stream.faulted /\ ~stream.hangup

(* Pictures that lose nothing wait for room. *)
camera_service_capture_ready ==
  Capturing /\ (stream.format = "h264" => Empty # {})

(* Mutant: a leased frame may be replaced too. *)
AnyReplaceable == Frame

(* What a picture that finds the pool full may replace. *)
Replaceable == Unleased

(* Mutant: a picture that finds every frame leased is not counted. *)
DroppedUncounted == stream

Dropped == [stream EXCEPT !.drops = @ + 1]

Filled(f, counted) ==
  /\ stream' = [counted EXCEPT !.sequence = @ + 1]
  /\ frames' = [frames EXCEPT ![f] = [@ EXCEPT !.ready = TRUE,
                                               !.sequence = stream.sequence + 1]]

Faulted == [stream EXCEPT !.faulted = TRUE]

(* A picture larger than its frame faults the stream. *)
Stored(f, counted) ==
  \/ Filled(f, counted)
  \/ /\ stream' = [counted EXCEPT !.faulted = TRUE]
     /\ UNCHANGED frames

camera_service_submit(format) ==
  IF ~(Capturing /\ format = stream.format) THEN UNCHANGED <<stream, frames>>
  ELSE IF Empty # {} THEN Stored(Min(Empty), stream)
  ELSE IF format = "h264" THEN stream' = Faulted /\ UNCHANGED frames
  ELSE IF Replaceable = {} THEN stream' = Dropped /\ UNCHANGED frames
  ELSE Stored(Oldest(Replaceable), Dropped)

camera_service_error ==
  /\ device' = [device EXCEPT !.error = TRUE]
  /\ stream' = IF stream.open THEN Faulted ELSE stream

free_stream ==
  /\ stream' = ClosedStream
  /\ frames' = [f \in Frame |-> EmptyFrame]

-----------------------------------------------------------------------------
(* What an application and the runtime thread do under pipeline_mutex. *)

Begin(kind, pc) == op' = [kind |-> kind, pc |-> pc]

Goto(pc) == op' = [op EXCEPT !.pc = pc]

At(pc) == op.pc = pc

(* camera_service_open claims the stream; every refusal changes nothing. *)
Open(format) ==
  /\ At("free") /\ app = "none" /\ opens < MaxOpens
  /\ device.present /\ ~device.error /\ ~stream.open
  /\ stream' = [ClosedStream EXCEPT !.open = TRUE, !.format = format]
  /\ frames' = [f \in Frame |-> EmptyFrame]
  /\ seen' = [made |-> 0, given |-> 0, last |-> 0]
  /\ opens' = opens + 1
  /\ app' = "calling"
  /\ Begin("open", "configure")
  /\ UNCHANGED <<device, worker, signal, capture>>

(* platform_camera_start: the driver streams, the buffers are mapped. *)
Configure ==
  /\ At("configure")
  /\ capture' = [capture EXCEPT !.device = "on", !.format = stream.format]
  /\ Goto("drain")
  /\ UNCHANGED <<service, app, worker, signal, seen, opens>>

(* Whatever fails, what was set up is released and the stream given up. *)
ConfigureFails ==
  /\ At("configure")
  /\ capture' = [capture EXCEPT !.active = FALSE, !.device = "closed",
                                !.format = stream.format]
  /\ free_stream
  /\ app' = "none"
  /\ op' = Free
  /\ UNCHANGED <<device, worker, signal, seen, opens>>

(* Start and resume discard the answer of an earlier stop of the worker. *)
Drain ==
  /\ At("drain")
  /\ signal' = [signal EXCEPT !.idle = FALSE]
  /\ Goto(IF op.kind = "open" THEN "activate" ELSE "signal")
  /\ UNCHANGED <<service, app, worker, capture, seen, opens>>

Activate ==
  /\ At("activate")
  /\ capture' = [capture EXCEPT !.active = TRUE]
  /\ Goto("signal")
  /\ UNCHANGED <<service, app, worker, signal, seen, opens>>

(* Mutant: the worker is left to find out by itself. *)
SignalNobody ==
  /\ At("signal")
  /\ app' = "open"
  /\ op' = Free
  /\ UNCHANGED <<service, worker, signal, capture, seen, opens>>

(* The worker is notified; the application has its stream, or goes on. *)
Signal ==
  /\ At("signal")
  /\ signal' = [signal EXCEPT !.notified = TRUE]
  /\ app' = "open"
  /\ op' = Free
  /\ UNCHANGED <<service, worker, capture, seen, opens>>

HangUp == stream' = [stream EXCEPT !.hangup = stream.open]

(* camera_service_close *)
Close ==
  /\ At("free") /\ app = "open" /\ stream.open
  /\ HangUp
  /\ app' = "calling"
  /\ Begin("close", "stop")
  /\ UNCHANGED <<device, frames, worker, signal, capture, seen, opens>>

(* camera_service_close_owner, for an application that was stopped outside its
   gates and is gone. *)
CloseOwner ==
  /\ At("free") /\ app = "open" /\ stream.open
  /\ HangUp
  /\ app' = "none"
  /\ Begin("owner", "stop")
  /\ UNCHANGED <<device, frames, worker, signal, capture, seen, opens>>

(* camera_service_remove_device, at any moment of the application. *)
RemoveDevice ==
  /\ At("free") /\ device.present
  /\ HangUp
  /\ Begin("remove", "stop")
  /\ UNCHANGED <<device, frames, app, worker, signal, capture, seen, opens>>

(* camera_service_shutdown, after every process was destroyed. *)
Shutdown ==
  /\ At("free") /\ app = "none" /\ ~capture.shutdown
  /\ Begin("shutdown", "stop")
  /\ UNCHANGED <<service, app, worker, signal, capture, seen, opens>>

(* platform_camera_stop *)
Deactivate ==
  /\ At("stop")
  /\ Goto(IF capture.active /\ capture.device # "closed" THEN "streamoff" ELSE "release")
  /\ capture' = [capture EXCEPT !.active = FALSE]
  /\ UNCHANGED <<service, app, worker, signal, seen, opens>>

StreamOff ==
  /\ At("streamoff")
  /\ capture' = [capture EXCEPT !.device = "off"]
  /\ signal' = [signal EXCEPT !.notified = TRUE]
  /\ Goto("join")
  /\ UNCHANGED <<service, app, worker, seen, opens>>

Join ==
  /\ At("join") /\ signal.idle
  /\ signal' = [signal EXCEPT !.idle = FALSE]
  /\ Goto("release")
  /\ UNCHANGED <<service, app, worker, capture, seen, opens>>

(* The buffers are unmapped, the encoders deleted and the device closed. *)
Release ==
  /\ At("release")
  /\ capture' = [capture EXCEPT !.device = "closed"]
  /\ Goto(IF op.kind = "shutdown" THEN "exit" ELSE "finish")
  /\ UNCHANGED <<service, app, worker, signal, seen, opens>>

FinishClose ==
  /\ At("finish") /\ op.kind \in {"close", "owner"}
  /\ free_stream
  /\ app' = "none"
  /\ op' = Free
  /\ UNCHANGED <<device, worker, signal, capture, seen, opens>>

FinishRemove ==
  /\ At("finish") /\ op.kind = "remove"
  /\ device' = [device EXCEPT !.present = FALSE]
  /\ op' = Free
  /\ UNCHANGED <<stream, frames, app, worker, signal, capture, seen, opens>>

(* platform_camera_shutdown ends the worker before it deletes what it uses. *)
EndWorker ==
  /\ At("exit") /\ ~capture.shutdown
  /\ capture' = [capture EXCEPT !.shutdown = TRUE]
  /\ signal' = [signal EXCEPT !.notified = TRUE]
  /\ UNCHANGED <<service, app, op, worker, seen, opens>>

JoinExit ==
  /\ At("exit") /\ signal.exited
  /\ Goto("down")
  /\ UNCHANGED <<service, app, worker, signal, capture, seen, opens>>

-----------------------------------------------------------------------------
(* The application between these calls. *)

(* Mutant: the first ready frame is handed out. *)
FirstReady == Min(Ready)

NextReady == Oldest(Ready)

(* camera_service_acquire; with nothing ready it changes nothing. *)
Acquire ==
  /\ app = "open" /\ stream.open /\ Ready # {}
  /\ frames' = [frames EXCEPT ![NextReady] = [@ EXCEPT !.ready = FALSE, !.leased = TRUE]]
  /\ seen' = [seen EXCEPT !.given = @ + 1, !.last = frames[NextReady].sequence]
  /\ UNCHANGED <<device, stream, app, op, worker, signal, capture, opens>>

(* camera_service_release, up to the call that wakes the worker. *)
ReleaseLease(f) ==
  /\ app = "open" /\ frames[f].leased
  /\ frames' = [frames EXCEPT ![f].leased = FALSE]
  /\ app' = IF stream.format = "h264" /\ Capturing THEN "released" ELSE "open"
  /\ UNCHANGED <<device, stream, op, worker, signal, capture, seen, opens>>

(* camera_service_resume_capture *)
Resume ==
  /\ At("free") /\ app = "released"
  /\ Begin("resume", "drain")
  /\ UNCHANGED <<service, app, worker, signal, capture, seen, opens>>

-----------------------------------------------------------------------------
(* The capture worker. *)

WorkerTo(pc) == worker' = pc /\ UNCHANGED <<app, op, capture, opens>>

(* Nothing else than its place changes. *)
Moves(from, to) ==
  /\ worker = from
  /\ WorkerTo(to)
  /\ UNCHANGED <<service, signal, seen>>

Woken ==
  /\ worker = "wait" /\ signal.notified
  /\ WorkerTo("look")
  /\ signal' = [signal EXCEPT !.notified = FALSE]
  /\ UNCHANGED <<service, seen>>

(* Mutant: with nothing to do the worker just waits again. *)
LookSilently == Moves("look", IF capture.active /\ ~capture.shutdown THEN "ready" ELSE "wait")

Look == Moves("look", IF capture.active /\ ~capture.shutdown THEN "ready" ELSE "idle")

LookReady == Moves("ready", IF camera_service_capture_ready THEN "begin" ELSE "idle")

BeginFrame == Moves("begin", IF capture.active THEN "dequeue" ELSE "idle")

(* The sensor delivers a picture. *)
Dequeued ==
  /\ capture.device = "on" /\ seen.made < MaxFrames
  /\ Moves("dequeue", "process")

(* A picture the driver flags is given back, until there were too many. *)
Flawed == capture.device = "on" /\ Moves("dequeue", "requeue")

(* The device failed, was turned off or kept the worker waiting; it may then
   wait for a notification before it looks again. *)
Missed ==
  /\ worker = "dequeue"
  /\ WorkerTo(IF capture.active THEN "look" ELSE "idle")
  /\ \/ UNCHANGED signal
     \/ capture.active /\ signal' = [signal EXCEPT !.notified = FALSE]
  /\ UNCHANGED <<service, seen>>

(* The conversion or encoding succeeded. *)
Submit ==
  /\ worker = "process"
  /\ camera_service_submit(capture.format)
  /\ seen' = IF Capturing /\ capture.format = stream.format
             THEN [seen EXCEPT !.made = @ + 1] ELSE seen
  /\ WorkerTo("requeue")
  /\ UNCHANGED <<device, signal>>

(* report_error, at any of its places. *)
Fails ==
  /\ \/ worker = "dequeue" /\ capture.device = "on" /\ WorkerTo("idle")
     \/ worker = "dequeue" /\ capture.device = "on" /\ WorkerTo("requeue")
     \/ worker = "process" /\ WorkerTo("idle")
     \/ worker = "process" /\ WorkerTo("requeue")
     \/ worker = "requeue" /\ capture.active /\ WorkerTo("look")
  /\ camera_service_error
  /\ UNCHANGED <<frames, signal, seen>>

Requeue == Moves("requeue", IF capture.active THEN "look" ELSE "idle")

(* The buffers or the encoder were taken away meanwhile. *)
Crash == capture.device = "closed" /\ Moves("process", "crashed")

GiveIdle ==
  /\ worker = "idle"
  /\ signal' = [signal EXCEPT !.idle = TRUE, !.exited = capture.shutdown]
  /\ WorkerTo(IF capture.shutdown THEN "gone" ELSE "wait")
  /\ UNCHANGED <<service, seen>>

-----------------------------------------------------------------------------
Operation ==
  \/ Configure \/ ConfigureFails \/ Drain \/ Activate \/ Signal
  \/ Deactivate \/ StreamOff \/ Join \/ Release
  \/ FinishClose \/ FinishRemove \/ EndWorker \/ JoinExit

Application ==
  \/ \E format \in Formats : Open(format)
  \/ Close \/ Acquire \/ \E f \in Frame : ReleaseLease(f)

Runtime == CloseOwner \/ RemoveDevice \/ Shutdown

Worker ==
  \/ Woken \/ Look \/ LookReady \/ BeginFrame \/ Dequeued \/ Flawed \/ Missed
  \/ Submit \/ Fails \/ Requeue \/ Crash \/ GiveIdle

Next == Operation \/ Application \/ Resume \/ Runtime \/ Worker

(* Calls that began go on, and so does the worker: a picture, the two seconds of
   the driver's own limit or the end of streaming wake it in DQBUF. A fault of
   the worker may stop the system at any time. *)
Fairness ==
  WF_vars(worker # "crashed" /\ (Operation \/ Resume)) /\ WF_vars(worker # "crashed" /\ Worker)

Spec == Init /\ [][Next]_vars

FairSpec == Spec /\ Fairness

-----------------------------------------------------------------------------
(* Properties *)

(* "Leased frames are never overwritten" (docs/camera.md): the picture under a
   lease is the one acquired until its owner releases it or the stream ends,
   whatever the worker submits meanwhile. *)
LeasedIsStable ==
  [][\A f \in Frame :
       frames[f].leased /\ frames'[f] # frames[f] =>
         frames'[f] = [frames[f] EXCEPT !.leased = FALSE] \/ ~stream'.open]_vars

(* "Encoded pictures retain their reference order" (docs/camera.md): pictures
   are acquired in the order they were captured in, encoded ones without a gap
   as long as the stream did not fault. *)
InOrder ==
  [][seen'.given > seen.given =>
       IF stream.format = "h264" THEN seen'.last = seen.last + 1
       ELSE seen'.last > seen.last]_vars

(* "Cumulative dropped-frame count" (docs/camera.md): every picture submitted was
   acquired, is ready or is counted as dropped. *)
DropsAreExact ==
  stream.open /\ ~stream.faulted =>
    seen.made = seen.given + Cardinality(Ready) + stream.drops

(* "Frame release wakes the worker" (docs/camera.md): a stream with room does not
   stay paused, although the release races the worker on its way to sleep. *)
RoomIsUsed ==
  (capture.active /\ camera_service_capture_ready) ~>
    (\/ worker \in {"dequeue", "process", "requeue", "crashed"}
     \/ ~capture.active \/ ~camera_service_capture_ready)

(* Close, teardown and shutdown come to an end with the worker in any state. *)
StopCompletes ==
  (op.pc \in {"stop", "exit"}) ~> (op.pc \in {"free", "down"} \/ worker = "crashed")

(* "Stop and shutdown join capture work before frame pools, DMA mappings, or
   mutexes are destroyed" (agents/architecture.md). *)
JoinedBeforeRelease ==
  worker \in {"dequeue", "process", "requeue"} => capture.device # "closed"
=============================================================================
