---------------------------- MODULE AudioProofs ----------------------------
(***************************************************************************)
(* Proofs about Audio: for any programs, any rates and any number of       *)
(* headphone monitors, reconfigurations exclude each other, the hardware   *)
(* is what the open streams need, and none of them is left unplayed.       *)
(***************************************************************************)
EXTENDS Audio, TLAPS

(* Where the mutex is free and the worker gone: nothing is on. *)
AllOff ==
  /\ ~hardware /\ codec = Closed
  /\ worker = "none" /\ ~running /\ ~active

Serving == running /\ active /\ worker \in {"loop", "error"}

Routing == {"hush", "hushed", "apply", "check", "run", "create", "revoke"}
Stopping == {"hush", "hushed", "shut"}

(* Which places belong to which call. *)
Fits(place, job) ==
  /\ job = "none" <=> place = "idle"
  /\ job = "open" => place \in Routing \cup {"start", "task", "decide"}
  /\ job = "failed" => place \in Stopping \cup {"stop", "join", "decide"}
  /\ job \in {"abandon", "close"} => place \in Stopping \cup {"stop", "join", "reopen"}
  /\ job = "later" => place \in Routing \cup {"close"}
  /\ job = "route" => place \in Routing

Placed == \A o \in Owner : Fits(call[o].at, call[o].job)

(* Who starts or stops the hardware is alone, and marked. *)
Exclusive ==
  /\ ReconfiguresAlone
  /\ reconfiguring <=> \E o \in Owner : Reconfigures(o)

(* The service's idea of the hardware is the streams; it reconfigures without
   any, and routes for one. *)
Streams ==
  /\ hardware_active <=> streams_open
  /\ reconfiguring => ~streams_open
  /\ \A o \in Owner : call[o].job \in {"later", "route"} => stream[o].open

TaskFlag == active <=> worker # "none"

(* How far a start has got with the hardware *)
StartingAt(o) ==
  call[o].job = "open" =>
    /\ call[o].rate \in Rate
    /\ call[o].at # "decide" => call[o].ok
    /\ call[o].at = "start" => AllOff
    /\ call[o].at \in Routing \cup {"task"} =>
         hardware /\ codec = call[o].rate /\ worker = "none"
    /\ call[o].at = "decide" /\ call[o].ok =>
         hardware /\ codec = call[o].rate /\ (error \/ Serving)
    /\ call[o].at = "decide" /\ ~call[o].ok => AllOff

Starting == \A o \in Owner : StartingAt(o)

(* ... and a stop, the one after a failed start included *)
EndingAt(o) ==
  call[o].job \in {"failed", "abandon", "close"} =>
    /\ call[o].at \in Stopping \cup {"stop", "join"} => hardware
    /\ call[o].at \in Stopping \cup {"join"} => ~running
    /\ call[o].at \in Stopping => worker = "none"
    /\ call[o].at \in {"decide", "reopen"} => AllOff
    /\ call[o].at = "decide" => ~call[o].ok

Ending == \A o \in Owner : EndingAt(o)

(* Between reconfigurations *)
Settled ==
  ~reconfiguring =>
    IF streams_open
    THEN /\ hardware /\ codec = active_sample_rate
         /\ \A o \in Owner : stream[o].open => stream[o].rate = active_sample_rate
    ELSE AllOff

(* A service that is ready has its worker; one that is not has told everybody. *)
Served ==
  /\ streams_open /\ ready => Serving
  /\ \A o \in Owner : stream[o].open /\ ~stream[o].faulted => ready

Hardware == TaskFlag /\ Starting /\ Ending /\ Settled /\ Served

IInv == TypeOK /\ Placed /\ Exclusive /\ Streams /\ Hardware

-----------------------------------------------------------------------------
(* What a step does to the calls *)

CallType == [at : Places, job : Jobs, rate : Rate \cup {Closed}, route : Route, ok : BOOLEAN]

Typed == call \in [Owner -> CallType]

LEMMA TypedCalls == TypeOK => Typed
  BY DEF TypeOK, Typed, CallType

(* Thread o, and no other, goes on to a place of a job. *)
Enters(o, place, job) ==
  /\ call' \in [Owner -> CallType]
  /\ \A p \in Owner \ {o} : call'[p] = call[p]
  /\ call'[o].at = place /\ call'[o].job = job

Moves(o, place, job) == Enters(o, place, job) /\ call'[o].rate = call[o].rate

Leaves(o) == Enters(o, "idle", "none")

LEMMA CallEnters ==
  ASSUME Typed, NEW o \in Owner, NEW c \in CallType, call' = [call EXCEPT ![o] = c],
         NEW place, NEW job, c.at = place, c.job = job
  PROVE  Enters(o, place, job) /\ call'[o] = c
  BY DEF Typed, Enters, CallType

LEMMA GotoMoves ==
  ASSUME Typed, NEW o \in Owner, NEW place \in Places, Goto(o, place)
  PROVE  Moves(o, place, call[o].job) /\ call'[o].ok = call[o].ok
  BY DEF Typed, Goto, Moves, Enters, CallType

LEMMA RoutedMoves ==
  ASSUME Typed, NEW o \in Owner, NEW ok \in BOOLEAN, Routed(o, ok),
         call[o].job \in {"open", "later", "route"}
  PROVE  IF call[o].job = "open" /\ ok THEN Moves(o, "task", "open") /\ call'[o].ok = call[o].ok
         ELSE IF call[o].job = "open" THEN Moves(o, "stop", "failed")
         ELSE IF call[o].job = "later" /\ ~ok THEN Moves(o, "close", "later")
         ELSE Leaves(o)
<1> USE DEF Typed, Routed, Moves, Leaves, Enters, CallType, Places, Jobs, Route
<1>1. CASE call[o].job = "open" /\ ok
  <2>1. call' = [call EXCEPT ![o] = [call[o] EXCEPT !.at = "task"]]
    BY <1>1
  <2> QED
    BY <1>1, <2>1
<1>2. CASE call[o].job = "open" /\ ~ok
  <2>1. call' = [call EXCEPT ![o] = [call[o] EXCEPT !.at = "stop", !.job = "failed"]]
    BY <1>2
  <2>2. [call[o] EXCEPT !.at = "stop", !.job = "failed"] \in CallType
    OBVIOUS
  <2> QED
    BY <1>2, <2>1, <2>2
<1>3. CASE call[o].job = "later" /\ ~ok
  <2>1. call' = [call EXCEPT ![o] = [call[o] EXCEPT !.at = "close"]]
    BY <1>3
  <2>2. [call[o] EXCEPT !.at = "close"] \in CallType
    OBVIOUS
  <2> QED
    BY <1>3, <2>1, <2>2
<1>4. CASE call[o].job # "open" /\ ~(call[o].job = "later" /\ ~ok)
  <2>1. call' = [call EXCEPT ![o] = Idle]
    BY <1>4
  <2>2. Idle \in CallType /\ Idle.at = "idle" /\ Idle.job = "none"
    BY DEF Idle
  <2> QED
    BY <1>4, <2>1, <2>2
<1> QED
  BY <1>1, <1>2, <1>3, <1>4

LEMMA StoppedMoves ==
  ASSUME Typed, NEW o \in Owner, Stopped(o)
  PROVE  IF call[o].job = "failed" THEN Moves(o, "decide", "failed") /\ ~call'[o].ok
         ELSE Moves(o, "reopen", call[o].job)
<1> USE DEF Typed, Stopped, CallType, Places
<1>1. CASE call[o].job = "failed"
  <2>1. call' = [call EXCEPT ![o] = [call[o] EXCEPT !.at = "decide", !.ok = FALSE]]
    BY <1>1
  <2>2. [call[o] EXCEPT !.at = "decide", !.ok = FALSE] \in CallType
    OBVIOUS
  <2> QED
    BY <1>1, <2>1, <2>2 DEF Moves, Enters
<1>2. CASE call[o].job # "failed"
  <2>1. call' = [call EXCEPT ![o] = [call[o] EXCEPT !.at = "reopen"]]
    BY <1>2
  <2>2. [call[o] EXCEPT !.at = "reopen"] \in CallType
    OBVIOUS
  <2> QED
    BY <1>2, <2>1, <2>2 DEF Moves, Enters
<1> QED
  BY <1>1, <1>2

LEMMA OpenFirstEnters ==
  ASSUME Typed, NEW o \in Owner, NEW rate \in Rate, NEW r \in Route, OpenFirst(o, rate, r)
  PROVE  Enters(o, "start", "open") /\ call'[o].rate = rate /\ call'[o].ok
<1> DEFINE c == [Idle EXCEPT !.at = "start", !.job = "open", !.rate = rate, !.route = r]
<1>1. c \in CallType
  BY DEF Idle, CallType, Places, Jobs, Route
<1>2. c.at = "start" /\ c.job = "open" /\ c.rate = rate /\ c.ok = TRUE
  BY DEF Idle
<1>3. call' = [call EXCEPT ![o] = c]
  BY DEF OpenFirst
<1> HIDE DEF c
<1> QED
  BY <1>1, <1>2, <1>3, CallEnters

LEMMA OpenLaterEnters ==
  ASSUME Typed, NEW o \in Owner, NEW rate \in Rate, NEW r \in Route, OpenLater(o, rate, r)
  PROVE  \E place \in {"hush", "apply", "close"} : Enters(o, place, "later")
<1> DEFINE place == IF hardware THEN Enter(r) ELSE "close"
           c == [Idle EXCEPT !.at = place, !.job = "later", !.route = r]
<1>1. place \in {"hush", "apply", "close"}
  BY DEF Enter
<1>2. call' = [call EXCEPT ![o] = c]
  BY DEF OpenLater
<1> HIDE DEF place
<1>3. c \in CallType
  BY <1>1 DEF Idle, CallType, Places, Jobs, Route
<1>4. c.at = place /\ c.job = "later"
  BY DEF Idle
<1> HIDE DEF c
<1> QED
  BY <1>1, <1>2, <1>3, <1>4, CallEnters

LEMMA SetRouteEnters ==
  ASSUME Typed, NEW o \in Owner, NEW r \in Route, SetRoute(o, r)
  PROVE  \E place \in {"hush", "apply"} : Enters(o, place, "route")
<1> DEFINE place == Enter(r)
           c == [Idle EXCEPT !.at = place, !.job = "route", !.route = r]
<1>1. place \in {"hush", "apply"}
  BY DEF Enter
<1>2. call' = [call EXCEPT ![o] = c]
  BY DEF SetRoute
<1> HIDE DEF place
<1>3. c \in CallType
  BY <1>1 DEF Idle, CallType, Places, Jobs, Route
<1>4. c.at = place /\ c.job = "route"
  BY DEF Idle
<1> HIDE DEF c
<1> QED
  BY <1>1, <1>2, <1>3, <1>4, CallEnters

(* A program that has ended its call, or has opened, is where it began. *)
LEMMA IdleLeaves ==
  ASSUME Typed, NEW o \in Owner, call' = [call EXCEPT ![o] = Idle]
  PROVE  Leaves(o)
<1>1. Idle \in CallType /\ Idle.at = "idle" /\ Idle.job = "none"
  BY DEF Idle, CallType, Places, Jobs, Route
<1> QED
  BY <1>1, CallEnters DEF Leaves

LEMMA CloseEnters ==
  ASSUME Typed, NEW o \in Owner, Close(o)
  PROVE  IF hardware_active /\ \A p \in Owner \ {o} : ~stream[p].open
         THEN Enters(o, "stop", "close") ELSE Leaves(o)
<1> DEFINE last == hardware_active /\ \A p \in Owner \ {o} : ~stream[p].open
           c == [Idle EXCEPT !.at = "stop", !.job = "close"]
<1>1. call' = [call EXCEPT ![o] = IF last THEN c ELSE Idle]
  BY DEF Close
<1>2. c \in CallType /\ c.at = "stop" /\ c.job = "close"
  BY DEF Idle, CallType, Places, Jobs, Route
<1> HIDE DEF c, last
<1>3. CASE last
  BY <1>1, <1>2, <1>3, CallEnters DEF last
<1>4. CASE ~last
  BY <1>1, <1>4, IdleLeaves DEF last
<1> QED
  BY <1>3, <1>4

LEMMA DecideEnters ==
  ASSUME Typed, NEW o \in Owner, Decide(o)
  PROVE  IF call[o].ok /\ ~error THEN Leaves(o)
         ELSE Enters(o, IF call[o].ok THEN "stop" ELSE "reopen", "abandon")
<1> DEFINE place == IF call[o].ok THEN "stop" ELSE "reopen"
           c == [call[o] EXCEPT !.at = place, !.job = "abandon"]
<1>1. CASE call[o].ok /\ ~error
  <2>1. call' = [call EXCEPT ![o] = Idle]
    BY <1>1 DEF Decide
  <2> QED
    BY <1>1, <2>1, IdleLeaves
<1>2. CASE ~(call[o].ok /\ ~error)
  <2>1. call' = [call EXCEPT ![o] = c]
    BY <1>2 DEF Decide, Typed
  <2>2. place \in Places
    BY DEF Places
  <2> HIDE DEF place
  <2>3. c \in CallType /\ c.at = place /\ c.job = "abandon"
    BY <2>2 DEF Typed, CallType, Jobs
  <2> HIDE DEF c
  <2>4. Enters(o, place, "abandon")
    BY <2>1, <2>3, CallEnters
  <2> QED
    BY <1>2, <2>4 DEF place
<1> QED
  BY <1>1, <1>2

LEMMA StartRefusedMoves ==
  ASSUME Typed, NEW o \in Owner, StartRefused(o)
  PROVE  Moves(o, "decide", call[o].job) /\ ~call'[o].ok
<1> DEFINE c == [call[o] EXCEPT !.at = "decide", !.ok = FALSE]
<1>1. call' = [call EXCEPT ![o] = c]
  BY DEF StartRefused, Typed
<1>2. c \in CallType /\ c.at = "decide" /\ c.job = call[o].job /\ c.rate = call[o].rate
      /\ c.ok = FALSE
  BY DEF Typed, CallType, Places
<1> HIDE DEF c
<1>3. Enters(o, "decide", call[o].job) /\ call'[o] = c
  BY <1>1, <1>2, CallEnters
<1> QED
  BY <1>2, <1>3 DEF Moves

LEMMA StartTaskFailsMoves ==
  ASSUME Typed, NEW o \in Owner, StartTaskFails(o)
  PROVE  Moves(o, "stop", "failed")
<1> DEFINE c == [call[o] EXCEPT !.at = "stop", !.job = "failed"]
<1>1. call' = [call EXCEPT ![o] = c]
  BY DEF StartTaskFails, Typed
<1>2. c \in CallType /\ c.at = "stop" /\ c.job = "failed" /\ c.rate = call[o].rate
  BY DEF Typed, CallType, Places, Jobs
<1> HIDE DEF c
<1>3. Enters(o, "stop", "failed") /\ call'[o] = c
  BY <1>1, <1>2, CallEnters
<1> QED
  BY <1>2, <1>3 DEF Moves

(* What follows set_output_route, for the three calls that set a route *)
AfterRoute(o) ==
  \/ call[o].job = "open" /\ Moves(o, "task", "open") /\ call'[o].ok = call[o].ok
  \/ call[o].job = "open" /\ Moves(o, "stop", "failed")
  \/ call[o].job = "later" /\ Moves(o, "close", "later")
  \/ call[o].job \in {"later", "route"} /\ Leaves(o)

LEMMA RouteEnds ==
  ASSUME Typed, Placed, NEW o \in Owner, NEW ok \in BOOLEAN, Routed(o, ok),
         call[o].at \in {"apply", "check", "create", "revoke"}
  PROVE  AfterRoute(o)
<1>1. call[o].job \in {"open", "later", "route"}
  BY DEF Typed, CallType, Jobs, Placed, Fits, Stopping
<1> QED
  BY <1>1, RoutedMoves DEF AfterRoute

(* ... and platform_audio_stop *)
AfterStop(o) ==
  \/ call[o].job = "failed" /\ Moves(o, "decide", "failed") /\ ~call'[o].ok
  \/ call[o].job \in {"abandon", "close"} /\ Moves(o, "reopen", call[o].job)

LEMMA StopEnds ==
  ASSUME Typed, NEW o \in Owner, Stopped(o), call[o].job \in {"failed", "abandon", "close"}
  PROVE  AfterStop(o)
  BY StoppedMoves DEF AfterStop

(* The old monitor has ended, for a new route or for a stop. *)
AfterHushed(o) ==
  \/ call[o].job \in {"open", "later", "route"} /\ Moves(o, "apply", call[o].job)
       /\ call'[o].ok = call[o].ok
  \/ call[o].job \in {"failed", "abandon", "close"} /\ hardware
       /\ Moves(o, "shut", call[o].job)
  \/ ~hardware /\ AfterStop(o)

LEMMA HushedEnds ==
  ASSUME Typed, Placed, NEW o \in Owner, Hushed(o)
  PROVE  AfterHushed(o)
<1>1. call[o].at = "hushed"
  BY DEF Hushed, At
<1>2. call[o].job \in {"open", "later", "route", "failed", "abandon", "close"}
  BY <1>1 DEF Typed, CallType, Jobs, Placed, Fits
<1>3. CASE call[o].job \in {"open", "later", "route"}
  <2>1. Goto(o, "apply")
    BY <1>3 DEF Hushed
  <2>2. Moves(o, "apply", call[o].job) /\ call'[o].ok = call[o].ok
    BY <2>1, GotoMoves DEF Places
  <2> QED
    BY <1>3, <2>2 DEF AfterHushed
<1>4. CASE call[o].job \in {"failed", "abandon", "close"} /\ hardware
  <2>1. Goto(o, "shut")
    BY <1>4 DEF Hushed
  <2>2. Moves(o, "shut", call[o].job)
    BY <2>1, GotoMoves DEF Places
  <2> QED
    BY <1>4, <2>2 DEF AfterHushed
<1>5. CASE call[o].job \in {"failed", "abandon", "close"} /\ ~hardware
  <2>1. Stopped(o)
    BY <1>5 DEF Hushed
  <2> QED
    BY <1>5, <2>1, StopEnds DEF AfterHushed
<1> QED
  BY <1>2, <1>3, <1>4, <1>5

LEMMA EntersPlaced ==
  ASSUME Placed, NEW o \in Owner, NEW place, NEW job, Enters(o, place, job), Fits(place, job)
  PROVE  Typed' /\ Placed'
  BY DEF Typed, Placed, Enters

LEMMA RoutedPlaced ==
  ASSUME Typed, Placed, NEW o \in Owner, AfterRoute(o)
  PROVE  Typed' /\ Placed'
<1> USE DEF Fits, Moves, Routing, Stopping
<1>1. CASE Enters(o, "task", "open")
  BY <1>1, EntersPlaced
<1>2. CASE Enters(o, "stop", "failed")
  BY <1>2, EntersPlaced
<1>3. CASE Enters(o, "close", "later")
  BY <1>3, EntersPlaced
<1>4. CASE Enters(o, "idle", "none")
  BY <1>4, EntersPlaced
<1> QED
  BY <1>1, <1>2, <1>3, <1>4 DEF AfterRoute, Leaves

LEMMA StoppedPlaced ==
  ASSUME Typed, Placed, NEW o \in Owner, AfterStop(o)
  PROVE  Typed' /\ Placed'
<1> USE DEF Fits, Moves, Routing, Stopping
<1>1. CASE Enters(o, "decide", "failed")
  BY <1>1, EntersPlaced
<1>2. CASE call[o].job \in {"abandon", "close"} /\ Enters(o, "reopen", call[o].job)
  BY <1>2, EntersPlaced
<1> QED
  BY <1>1, <1>2 DEF AfterStop

(* A step keeps every thread at a place of its call. *)
LEMMA PlacedNext == Typed /\ Placed /\ [Next]_vars => Typed' /\ Placed'
<1> SUFFICES ASSUME Typed, Placed, [Next]_vars PROVE Typed' /\ Placed'
  OBVIOUS
<1> USE DEF At
<1>1. ASSUME NEW o \in Owner, NEW rate \in Rate, NEW r \in Route, OpenFirst(o, rate, r)
    PROVE  Typed' /\ Placed'
  <2>1. Enters(o, "start", "open")
    BY <1>1, OpenFirstEnters
  <2> QED
    BY <2>1, EntersPlaced DEF Fits, Routing, Stopping
<1>2. ASSUME NEW o \in Owner, NEW rate \in Rate, NEW r \in Route, OpenLater(o, rate, r)
    PROVE  Typed' /\ Placed'
  <2>1. PICK place \in {"hush", "apply", "close"} : Enters(o, place, "later")
    BY <1>2, OpenLaterEnters
  <2> QED
    BY <2>1, EntersPlaced DEF Fits, Routing, Stopping
<1>3. ASSUME NEW o \in Owner, NEW r \in Route, SetRoute(o, r) PROVE  Typed' /\ Placed'
  <2>1. PICK place \in {"hush", "apply"} : Enters(o, place, "route")
    BY <1>3, SetRouteEnters
  <2> QED
    BY <2>1, EntersPlaced DEF Fits, Routing, Stopping
<1>4. ASSUME NEW o \in Owner, Close(o) PROVE  Typed' /\ Placed'
  <2>1. Enters(o, "stop", "close") \/ Enters(o, "idle", "none")
    BY <1>4, CloseEnters DEF Leaves
  <2> QED
    BY <2>1, EntersPlaced DEF Fits, Routing, Stopping
<1>5. ASSUME NEW o \in Owner, Decide(o) PROVE  Typed' /\ Placed'
  <2>1. \/ Enters(o, "idle", "none") \/ Enters(o, "stop", "abandon")
        \/ Enters(o, "reopen", "abandon")
    BY <1>5, DecideEnters DEF Leaves
  <2> QED
    BY <2>1, EntersPlaced DEF Fits, Routing, Stopping
<1>6. ASSUME NEW o \in Owner, Reopen(o) PROVE  Typed' /\ Placed'
  <2>1. Enters(o, "idle", "none")
    BY <1>6, IdleLeaves DEF Reopen, Leaves
  <2> QED
    BY <2>1, EntersPlaced DEF Fits, Routing, Stopping
<1>7. ASSUME NEW o \in Owner, StartRefused(o) PROVE  Typed' /\ Placed'
  <2>1. call[o].at = "start" /\ Enters(o, "decide", call[o].job)
    BY <1>7, StartRefusedMoves DEF StartRefused, Moves
  <2>2. Fits(call[o].at, call[o].job)
    BY DEF Placed
  <2> QED
    BY <2>1, <2>2, EntersPlaced DEF Fits, Routing, Stopping
<1>8. ASSUME NEW o \in Owner, ConfigureCodecs(o) PROVE  Typed' /\ Placed'
  <2>1. /\ call[o].at = "start"
        /\ Enters(o, "apply", call[o].job) \/ Enters(o, "hush", call[o].job)
    BY <1>8, GotoMoves DEF ConfigureCodecs, Enter, Moves, Places
  <2>2. Fits(call[o].at, call[o].job)
    BY DEF Placed
  <2> QED
    BY <2>1, <2>2, EntersPlaced DEF Fits, Routing, Stopping
<1>9. ASSUME NEW o \in Owner, StartTask(o) PROVE  Typed' /\ Placed'
  <2>1. call[o].at = "task" /\ Enters(o, "decide", call[o].job)
    BY <1>9, GotoMoves DEF StartTask, Moves, Places
  <2>2. Fits(call[o].at, call[o].job)
    BY DEF Placed
  <2> QED
    BY <2>1, <2>2, EntersPlaced DEF Fits, Routing, Stopping
<1>10. ASSUME NEW o \in Owner, StartTaskFails(o) PROVE  Typed' /\ Placed'
  <2>1. Enters(o, "stop", "failed")
    BY <1>10, StartTaskFailsMoves DEF Moves
  <2> QED
    BY <2>1, EntersPlaced DEF Fits, Routing, Stopping
<1>11. ASSUME NEW o \in Owner, Hush(o) PROVE  Typed' /\ Placed'
  <2>1. call[o].at = "hush" /\ Enters(o, "hushed", call[o].job)
    BY <1>11, GotoMoves DEF Hush, Moves, Places
  <2>2. Fits(call[o].at, call[o].job)
    BY DEF Placed
  <2> QED
    BY <2>1, <2>2, EntersPlaced DEF Fits, Routing, Stopping
<1>12. ASSUME NEW o \in Owner, Hushed(o) PROVE  Typed' /\ Placed'
  <2>1. AfterHushed(o)
    BY <1>12, HushedEnds
  <2>2. CASE /\ call[o].job \in {"open", "later", "route"}
             /\ Enters(o, "apply", call[o].job)
    BY <2>2, EntersPlaced DEF Fits, Routing, Stopping
  <2>3. CASE /\ call[o].job \in {"failed", "abandon", "close"}
             /\ Enters(o, "shut", call[o].job)
    BY <2>3, EntersPlaced DEF Fits, Routing, Stopping
  <2> QED
    BY <2>1, <2>2, <2>3, StoppedPlaced DEF AfterHushed, Moves
<1>13. ASSUME NEW o \in Owner, Apply(o) PROVE  Typed' /\ Placed'
  <2>1. call[o].at = "apply"
    BY <1>13 DEF Apply
  <2>2. CASE call[o].route = "speaker"
    <3>1. Enters(o, "check", call[o].job)
      BY <1>13, <2>2, GotoMoves DEF Apply, Moves, Places
    <3>2. Fits(call[o].at, call[o].job)
      BY DEF Placed
    <3> QED
      BY <2>1, <3>1, <3>2, EntersPlaced DEF Fits, Routing, Stopping
  <2>3. CASE call[o].route # "speaker"
    BY <1>13, <2>1, <2>3, RouteEnds, RoutedPlaced DEF Apply
  <2> QED
    BY <2>2, <2>3
<1>14. ASSUME NEW o \in Owner, ApplyFails(o) PROVE  Typed' /\ Placed'
  <2>1. AfterRoute(o)
    BY <1>14, RouteEnds DEF ApplyFails
  <2> QED
    BY <2>1, RoutedPlaced
<1>15. ASSUME NEW o \in Owner, Check(o) PROVE  Typed' /\ Placed'
  <2>1. call[o].at = "check"
    BY <1>15 DEF Check
  <2>2. CASE ~monitor.active
    <3>1. Enters(o, "run", call[o].job)
      BY <1>15, <2>2, GotoMoves DEF Check, Moves, Places
    <3>2. Fits(call[o].at, call[o].job)
      BY DEF Placed
    <3> QED
      BY <2>1, <3>1, <3>2, EntersPlaced DEF Fits, Routing, Stopping
  <2>3. CASE monitor.active
    BY <1>15, <2>1, <2>3, RouteEnds, RoutedPlaced DEF Check
  <2> QED
    BY <2>2, <2>3
<1>16. ASSUME NEW o \in Owner, Run(o) PROVE  Typed' /\ Placed'
  <2>1. call[o].at = "run" /\ Enters(o, "create", call[o].job)
    BY <1>16, GotoMoves DEF Run, Moves, Places
  <2>2. Fits(call[o].at, call[o].job)
    BY DEF Placed
  <2> QED
    BY <2>1, <2>2, EntersPlaced DEF Fits, Routing, Stopping
<1>17. ASSUME NEW o \in Owner, Create(o) PROVE  Typed' /\ Placed'
  <2>1. AfterRoute(o)
    BY <1>17, RouteEnds DEF Create
  <2> QED
    BY <2>1, RoutedPlaced
<1>18. ASSUME NEW o \in Owner, CreateFails(o) PROVE  Typed' /\ Placed'
  <2>1. call[o].at = "create" /\ Enters(o, "revoke", call[o].job)
    BY <1>18, GotoMoves DEF CreateFails, Moves, Places
  <2>2. Fits(call[o].at, call[o].job)
    BY DEF Placed
  <2> QED
    BY <2>1, <2>2, EntersPlaced DEF Fits, Routing, Stopping
<1>19. ASSUME NEW o \in Owner, Revoke(o) PROVE  Typed' /\ Placed'
  <2>1. AfterRoute(o)
    BY <1>19, RouteEnds DEF Revoke
  <2> QED
    BY <2>1, RoutedPlaced
<1>20. ASSUME NEW o \in Owner, Stop(o) PROVE  Typed' /\ Placed'
  <2>1. /\ call[o].at = "stop"
        /\ Enters(o, "join", call[o].job) \/ Enters(o, "hush", call[o].job)
    BY <1>20, GotoMoves DEF Stop, Moves, Places
  <2>2. Fits(call[o].at, call[o].job)
    BY DEF Placed
  <2> QED
    BY <2>1, <2>2, EntersPlaced DEF Fits, Routing, Stopping
<1>21. ASSUME NEW o \in Owner, Join(o) PROVE  Typed' /\ Placed'
  <2>1. call[o].at = "join" /\ Enters(o, "hush", call[o].job)
    BY <1>21, GotoMoves DEF Join, Moves, Places
  <2>2. Fits(call[o].at, call[o].job)
    BY DEF Placed
  <2> QED
    BY <2>1, <2>2, EntersPlaced DEF Fits, Routing, Stopping
<1>22. ASSUME NEW o \in Owner, Shut(o) PROVE  Typed' /\ Placed'
  <2>1. call[o].at = "shut" /\ Stopped(o)
    BY <1>22 DEF Shut
  <2>2. call[o].job \in {"failed", "abandon", "close"}
    BY <2>1 DEF Typed, CallType, Jobs, Placed, Fits, Routing
  <2> QED
    BY <2>1, <2>2, StopEnds, StoppedPlaced
<1>23. CASE UNCHANGED call
  BY <1>23 DEF Typed, Placed
<1> QED
  BY <1>1, <1>2, <1>3, <1>4, <1>5, <1>6, <1>7, <1>8, <1>9, <1>10, <1>11, <1>12, <1>13, <1>14,
     <1>15, <1>16, <1>17, <1>18, <1>19, <1>20, <1>21, <1>22, <1>23
     DEF Next, vars, WorkerStops, WorkerFails, WorkerReports, WorkerEnds, JackChanges,
         MonitorStops, MonitorEnds
-----------------------------------------------------------------------------
(* Types *)

StreamType == [open : BOOLEAN, faulted : BOOLEAN, rate : Rate \cup {Closed}]

Streamed == stream \in [Owner -> StreamType]

PlatformTyped ==
  /\ codec \in Rate \cup {Closed} /\ hardware \in BOOLEAN
  /\ running \in BOOLEAN /\ active \in BOOLEAN
  /\ worker \in {"none", "loop", "error", "ending"}

MonitorTyped ==
  /\ monitor \in [running : BOOLEAN, active : BOOLEAN, polling : Nat, leaving : Nat]
  /\ route \in [requested : BOOLEAN, inserted : BOOLEAN, speaker : BOOLEAN]

ServiceTyped ==
  /\ Streamed
  /\ reconfiguring \in BOOLEAN /\ hardware_active \in BOOLEAN
  /\ active_sample_rate \in Rate \cup {Closed}
  /\ ready \in BOOLEAN /\ error \in BOOLEAN

LEMMA TypeParts == TypeOK <=> Typed /\ ServiceTyped /\ PlatformTyped /\ MonitorTyped
  BY DEF TypeOK, Typed, CallType, ServiceTyped, Streamed, StreamType, PlatformTyped,
         MonitorTyped

LEMMA ServiceNext == Typed /\ Placed /\ ServiceTyped /\ [Next]_vars => ServiceTyped'
<1> SUFFICES ASSUME Typed, Placed, ServiceTyped, [Next]_vars PROVE ServiceTyped'
  OBVIOUS
<1>1. ASSUME NEW o \in Owner, NEW rate \in Rate, NEW r \in Route, OpenFirst(o, rate, r)
      PROVE  ServiceTyped'
  BY <1>1 DEF OpenFirst, ServiceTyped, Streamed
<1>2. ASSUME NEW o \in Owner, NEW rate \in Rate, Install(o, rate)
      PROVE  Streamed'
  BY <1>2 DEF Install, ServiceTyped, Streamed, StreamType
<1>3. ASSUME NEW o \in Owner, NEW rate \in Rate, NEW r \in Route, OpenLater(o, rate, r)
      PROVE  ServiceTyped'
  BY <1>2, <1>3 DEF OpenLater, ServiceTyped
<1>4. ASSUME NEW o \in Owner, Close(o) PROVE ServiceTyped'
  <2>1. Streamed'
    BY <1>4 DEF Close, NoStream, ServiceTyped, Streamed, StreamType
  <2> QED
    BY <1>4, <2>1 DEF Close, ServiceTyped
<1>5. ASSUME NEW o \in Owner, Decide(o) PROVE ServiceTyped'
  <2>1. call[o].rate \in Rate \cup {Closed}
    BY DEF Typed, CallType
  <2>2. CASE ~call[o].ok \/ error
    BY <1>5, <2>2 DEF Decide, ServiceTyped, Streamed
  <2>3. CASE call[o].ok /\ ~error
    <3>1. Install(o, call[o].rate)
      BY <1>5, <2>3 DEF Decide
    <3>2. Streamed'
      BY <2>1, <3>1 DEF Install, ServiceTyped, Streamed, StreamType
    <3> QED
      BY <1>5, <2>1, <2>3, <3>2 DEF Decide, ServiceTyped
  <2> QED
    BY <2>2, <2>3
<1>6. ASSUME NEW o \in Owner, Reopen(o) PROVE ServiceTyped'
  BY <1>6 DEF Reopen, ServiceTyped, Streamed
<1>7. CASE WorkerReports
  <2>1. Streamed'
    BY <1>7 DEF WorkerReports, ReportError, ServiceTyped, Streamed, StreamType
  <2> QED
    BY <1>7, <2>1 DEF WorkerReports, ReportError, ServiceTyped
<1>8. CASE UNCHANGED service
  BY <1>8 DEF service, ServiceTyped, Streamed
<1> QED
  BY <1>1, <1>3, <1>4, <1>5, <1>6, <1>7, <1>8
     DEF Next, vars, SetRoute, StartRefused, ConfigureCodecs, StartTask, StartTaskFails,
         Hush, Hushed, Apply, ApplyFails, Check, Run, Create, CreateFails, Revoke, Stop,
         Join, Shut, WorkerStops, WorkerFails, WorkerEnds, JackChanges, MonitorStops,
         MonitorEnds

LEMMA PlatformNext == Typed /\ PlatformTyped /\ [Next]_vars => PlatformTyped'
<1> SUFFICES ASSUME Typed, PlatformTyped, [Next]_vars PROVE PlatformTyped'
  OBVIOUS
<1> USE DEF PlatformTyped
<1>1. ASSUME NEW o \in Owner, ConfigureCodecs(o) PROVE PlatformTyped'
  BY <1>1 DEF ConfigureCodecs, Typed, CallType
<1>2. ASSUME NEW o \in Owner, StartTask(o) \/ StartTaskFails(o) PROVE PlatformTyped'
  BY <1>2 DEF StartTask, StartTaskFails
<1>3. ASSUME NEW o \in Owner, Stop(o) PROVE PlatformTyped'
  BY <1>3 DEF Stop
<1>4. ASSUME NEW o \in Owner, Shut(o) PROVE PlatformTyped'
  BY <1>4 DEF Shut
<1>5. CASE WorkerStops \/ WorkerFails \/ WorkerReports \/ WorkerEnds
  BY <1>5 DEF WorkerStops, WorkerFails, WorkerReports, WorkerEnds
<1>6. CASE UNCHANGED <<codec, hardware, running, active, worker>>
  BY <1>6
<1> QED
  BY <1>1, <1>2, <1>3, <1>4, <1>5, <1>6
     DEF Next, vars, platform, OpenFirst, OpenLater, SetRoute, Close, Decide, Reopen,
         StartRefused, Hush, Hushed, Apply, ApplyFails, Check, Run, Create, CreateFails,
         Revoke, Join, JackChanges, MonitorStops, MonitorEnds

LEMMA MonitorNext == MonitorTyped /\ [Next]_vars => MonitorTyped'
<1> SUFFICES ASSUME MonitorTyped, [Next]_vars PROVE MonitorTyped'
  OBVIOUS
<1> USE DEF MonitorTyped
<1>1. ASSUME NEW o \in Owner, Hush(o) \/ Run(o) \/ CreateFails(o) PROVE MonitorTyped'
  BY <1>1 DEF Hush, Run, CreateFails
<1>2. ASSUME NEW o \in Owner, Create(o) PROVE MonitorTyped'
  <2>1. monitor.polling + 1 \in Nat
    OBVIOUS
  <2>2. monitor' = [monitor EXCEPT !.polling = monitor.polling + 1] /\ route' = route
    BY <1>2 DEF Create
  <2> QED
    BY <2>1, <2>2
<1>3. ASSUME NEW o \in Owner, Apply(o) PROVE MonitorTyped'
  BY <1>3 DEF Apply, Enabled
<1>4. ASSUME NEW o \in Owner, ApplyFails(o) PROVE MonitorTyped'
  BY <1>4 DEF ApplyFails, Enabled
<1>5. ASSUME NEW o \in Owner, Revoke(o) \/ Shut(o) PROVE MonitorTyped'
  BY <1>5 DEF Revoke, Shut, Off
<1>6. CASE JackChanges
  BY <1>6 DEF JackChanges, Enabled
<1>7. CASE MonitorStops \/ MonitorEnds
  <2>1. CASE MonitorStops
    <3>1. monitor.polling - 1 \in Nat /\ monitor.leaving + 1 \in Nat
      BY <2>1 DEF MonitorStops
    <3>2. /\ monitor' = [monitor EXCEPT !.polling = monitor.polling - 1,
                                       !.leaving = monitor.leaving + 1]
          /\ route' = route
      BY <2>1 DEF MonitorStops
    <3> QED
      BY <3>1, <3>2
  <2>2. CASE MonitorEnds
    <3>1. monitor.leaving - 1 \in Nat
      BY <2>2 DEF MonitorEnds
    <3>2. /\ monitor' = [monitor EXCEPT !.leaving = monitor.leaving - 1, !.active = FALSE]
          /\ route' = route
      BY <2>2 DEF MonitorEnds
    <3> QED
      BY <3>1, <3>2
  <2> QED
    BY <1>7, <2>1, <2>2
<1>8. CASE UNCHANGED <<monitor, route>>
  BY <1>8
<1> QED
  BY <1>1, <1>2, <1>3, <1>4, <1>5, <1>6, <1>7, <1>8
     DEF Next, vars, platform, OpenFirst, OpenLater, SetRoute, Close, Decide, Reopen,
         StartRefused, ConfigureCodecs, StartTask, StartTaskFails, Hushed, Check, Stop,
         Join, WorkerStops, WorkerFails, WorkerReports, WorkerEnds

LEMMA TypeNext == TypeOK /\ Placed /\ [Next]_vars => TypeOK'
  BY TypeParts, PlacedNext, ServiceNext, PlatformNext, MonitorNext, PTL
-----------------------------------------------------------------------------
(* Who may start and stop *)

Guarded == TypeOK /\ Placed /\ Exclusive /\ Streams

Starts == {"open", "failed", "abandon", "close"}

(* A call that goes on does not change who is in one. *)
LEMMA GuardedMove ==
  ASSUME Guarded, Placed', NEW o \in Owner, NEW place, NEW job, Enters(o, place, job),
         UNCHANGED service,
         \/ call[o].job \in Starts /\ job \in Starts
         \/ call[o].job \in {"later", "route"} /\ job \in {"later", "route", "none"}
  PROVE  Exclusive' /\ Streams'
<1> USE DEF Guarded, Starts
<1>1. \A p \in Owner : Reconfigures(p)' <=> Reconfigures(p)
  BY DEF Enters, Reconfigures
<1>2. \A p \in Owner : At(p, "idle") => At(p, "idle")'
  <2>1. \A p \in Owner \ {o} : At(p, "idle") => At(p, "idle")'
    BY DEF Enters, At
  <2>2. ~At(o, "idle")
    BY DEF Placed, Fits, At
  <2> QED
    BY <2>1, <2>2
<1>3. Exclusive'
  BY <1>1, <1>2 DEF Exclusive, ReconfiguresAlone, service
<1>4. Streams'
  BY DEF Streams, streams_open, service, Enters
<1> QED
  BY <1>3, <1>4

LEMMA GuardedRoute ==
  ASSUME Guarded, Placed', NEW o \in Owner, AfterRoute(o), UNCHANGED service
  PROVE  Exclusive' /\ Streams'
<1>1. CASE call[o].job = "open" /\ Enters(o, "task", "open")
  BY <1>1, GuardedMove DEF Starts
<1>2. CASE call[o].job = "open" /\ Enters(o, "stop", "failed")
  BY <1>2, GuardedMove DEF Starts
<1>3. CASE call[o].job = "later" /\ Enters(o, "close", "later")
  BY <1>3, GuardedMove DEF Starts
<1>4. CASE call[o].job \in {"later", "route"} /\ Enters(o, "idle", "none")
  BY <1>4, GuardedMove DEF Starts
<1> QED
  BY <1>1, <1>2, <1>3, <1>4 DEF AfterRoute, Moves, Leaves

LEMMA GuardedStop ==
  ASSUME Guarded, Placed', NEW o \in Owner, AfterStop(o), UNCHANGED service
  PROVE  Exclusive' /\ Streams'
<1>1. CASE call[o].job = "failed" /\ Enters(o, "decide", "failed")
  BY <1>1, GuardedMove DEF Starts
<1>2. CASE call[o].job \in {"abandon", "close"} /\ Enters(o, "reopen", call[o].job)
  BY <1>2, GuardedMove DEF Starts
<1> QED
  BY <1>1, <1>2 DEF AfterStop, Moves

(* A call that stays in its job *)
LEMMA GuardedGoto ==
  ASSUME Guarded, Placed', NEW o \in Owner, NEW place, Enters(o, place, call[o].job),
         call[o].at # "idle", UNCHANGED service
  PROVE  Exclusive' /\ Streams'
<1>1. call[o].job \in Starts \/ call[o].job \in {"later", "route"}
  BY TypedCalls DEF Guarded, Typed, CallType, Jobs, Placed, Fits, Starts
<1> QED
  BY <1>1, GuardedMove

(* A step keeps those who start and stop apart. *)
LEMMA GuardedNext == Guarded /\ [Next]_vars => Guarded'
<1> SUFFICES ASSUME Guarded, [Next]_vars, Placed' PROVE Exclusive' /\ Streams'
  BY PlacedNext, TypedCalls, TypeNext DEF Guarded
<1>0. Typed /\ Placed /\ Exclusive /\ Streams
  BY TypedCalls DEF Guarded
<1>00. Streamed
  BY TypeParts DEF Guarded, ServiceTyped
<1> USE DEF At
<1>1. ASSUME NEW o \in Owner, NEW rate \in Rate, NEW r \in Route, OpenFirst(o, rate, r)
    PROVE  Exclusive' /\ Streams'
  <2>1. Enters(o, "start", "open")
    BY <1>0, <1>1, OpenFirstEnters
  <2>2. /\ ~streams_open /\ ~reconfiguring /\ reconfiguring'
        /\ UNCHANGED <<stream, hardware_active>>
    BY <1>1 DEF OpenFirst
  <2>3. \A p \in Owner : call[p].at = "idle" /\ call[p].job = "none"
    <3> TAKE p \in Owner
    <3>1. call[p].job \in Jobs
      BY <1>0 DEF Typed, CallType
    <3>2. call[p].job \notin Starts
      BY <1>0, <2>2 DEF Exclusive, Reconfigures, Starts
    <3>3. call[p].job \notin {"later", "route"}
      BY <1>0, <2>2 DEF Streams, streams_open
    <3> QED
      BY <1>0, <3>1, <3>2, <3>3 DEF Jobs, Starts, Placed, Fits
  <2>4. Exclusive'
    BY <2>1, <2>2, <2>3 DEF Exclusive, ReconfiguresAlone, Reconfigures, Enters
  <2>5. Streams'
    BY <1>0, <2>1, <2>2 DEF Streams, streams_open, Enters
  <2> QED
    BY <2>4, <2>5
<1>2. ASSUME NEW o \in Owner, NEW rate \in Rate, NEW r \in Route, OpenLater(o, rate, r)
    PROVE  Exclusive' /\ Streams'
  <2>1. PICK place \in {"hush", "apply", "close"} : Enters(o, place, "later")
    BY <1>0, <1>2, OpenLaterEnters
  <2>2. /\ call[o].at = "idle" /\ streams_open /\ ~reconfiguring
        /\ UNCHANGED <<reconfiguring, hardware_active>>
        /\ stream' = [stream EXCEPT ![o] = [open |-> TRUE, faulted |-> FALSE, rate |-> rate]]
    BY <1>2 DEF OpenLater, Install
  <2>3. Exclusive'
    BY <1>0, <2>1, <2>2 DEF Exclusive, ReconfiguresAlone, Reconfigures, Enters
  <2>4. /\ \A p \in Owner : stream[p].open => stream'[p].open
        /\ stream'[o].open
    BY <1>00, <2>2 DEF Streamed
  <2>5. Streams'
    BY <1>0, <2>1, <2>2, <2>4 DEF Streams, streams_open, Enters
  <2> QED
    BY <2>3, <2>5
<1>3. ASSUME NEW o \in Owner, NEW r \in Route, SetRoute(o, r) PROVE  Exclusive' /\ Streams'
  <2>1. PICK place \in {"hush", "apply"} : Enters(o, place, "route")
    BY <1>0, <1>3, SetRouteEnters
  <2>2. call[o].at = "idle" /\ stream[o].open /\ UNCHANGED service
    BY <1>3 DEF SetRoute
  <2>3. ~reconfiguring
    BY <1>0, <2>2 DEF Streams, streams_open
  <2>4. Exclusive'
    BY <1>0, <2>1, <2>2, <2>3 DEF Exclusive, ReconfiguresAlone, Reconfigures, Enters, service
  <2>5. Streams'
    BY <1>0, <2>1, <2>2 DEF Streams, streams_open, Enters, service
  <2> QED
    BY <2>4, <2>5
<1>4. ASSUME NEW o \in Owner, Close(o) PROVE  Exclusive' /\ Streams'
  <2>1. stream[o].open /\ hardware_active /\ ~reconfiguring
    BY <1>0, <1>4 DEF Close, Streams, streams_open
  <2>2. /\ \A p \in Owner \ {o} : stream'[p].open <=> stream[p].open
        /\ ~stream'[o].open
    BY <1>00, <1>4 DEF Close, NoStream, Streamed
  <2>3. \A p \in Owner : call[p].job \notin Starts
    BY <1>0, <2>1 DEF Exclusive, Reconfigures, Starts
  <2>4. CASE \A p \in Owner \ {o} : ~stream[p].open
    <3>1. Enters(o, "stop", "close")
      BY <1>0, <1>4, <2>1, <2>4, CloseEnters
    <3>2. reconfiguring' /\ ~hardware_active'
      BY <1>4, <2>1, <2>4 DEF Close
    <3>3. \A p \in Owner \ {o} : call[p].at = "idle"
      BY <1>0, <2>3, <2>4 DEF Streams, Typed, CallType, Jobs, Placed, Fits, Starts
    <3>4. Exclusive'
      BY <2>3, <3>1, <3>2, <3>3 DEF Exclusive, ReconfiguresAlone, Reconfigures, Enters, Starts
    <3>5. \A p \in Owner : call'[p].job \notin {"later", "route"}
      BY <1>0, <3>1, <3>3 DEF Enters, Placed, Fits
    <3>6. Streams'
      BY <2>2, <2>4, <3>2, <3>5 DEF Streams, streams_open
    <3> QED
      BY <3>4, <3>6
  <2>5. CASE \E p \in Owner \ {o} : stream[p].open
    <3>1. Enters(o, "idle", "none")
      BY <1>0, <1>4, <2>5, CloseEnters DEF Leaves
    <3>2. ~reconfiguring' /\ hardware_active'
      BY <1>4, <2>1, <2>5 DEF Close
    <3>3. Exclusive'
      BY <1>0, <2>1, <2>3, <3>1, <3>2 DEF Exclusive, ReconfiguresAlone, Reconfigures, Enters, Starts
    <3>4. Streams'
      BY <1>0, <2>1, <2>2, <2>5, <3>1, <3>2 DEF Streams, streams_open, Enters
    <3> QED
      BY <3>3, <3>4
  <2> QED
    BY <2>4, <2>5
<1>5. ASSUME NEW o \in Owner, Decide(o) PROVE  Exclusive' /\ Streams'
  <2>1. call[o].job \in {"open", "failed"}
    BY <1>0, <1>5 DEF Decide, Typed, CallType, Jobs, Placed, Fits, Routing, Stopping
  <2>2. CASE ~call[o].ok \/ error
    <3>1. UNCHANGED <<stream, reconfiguring, hardware_active>>
      BY <1>5, <2>2 DEF Decide
    <3>2. \E place : Enters(o, place, "abandon")
      BY <1>0, <1>5, <2>2, DecideEnters
    <3>3. Exclusive'
      BY <1>0, <1>5, <2>1, <3>1, <3>2 DEF Exclusive, ReconfiguresAlone, Reconfigures, Enters, Decide
    <3>4. Streams'
      BY <1>0, <3>1, <3>2 DEF Streams, streams_open, Enters
    <3> QED
      BY <3>3, <3>4
  <2>3. CASE call[o].ok /\ ~error
    <3>1. /\ ~reconfiguring' /\ hardware_active'
          /\ stream' = [stream EXCEPT ![o] =
                          [open |-> TRUE, faulted |-> FALSE, rate |-> call[o].rate]]
      BY <1>5, <2>3 DEF Decide, Install
    <3>2. stream'[o].open
      BY <1>00, <3>1 DEF Streamed
    <3>3. Enters(o, "idle", "none")
      BY <1>0, <1>5, <2>3, DecideEnters DEF Leaves
    <3>4. \A p \in Owner \ {o} : call[p].at = "idle" /\ call[p].job = "none"
      BY <1>0, <2>1 DEF Exclusive, ReconfiguresAlone, Reconfigures, Placed, Fits
    <3>5. \A p \in Owner : call'[p].at = "idle" /\ call'[p].job = "none"
      BY <3>3, <3>4 DEF Enters
    <3>6. Exclusive'
      BY <3>1, <3>5 DEF Exclusive, ReconfiguresAlone, Reconfigures
    <3>7. Streams'
      BY <3>1, <3>2, <3>5 DEF Streams, streams_open
    <3> QED
      BY <3>6, <3>7
  <2> QED
    BY <2>2, <2>3
<1>6. ASSUME NEW o \in Owner, Reopen(o) PROVE  Exclusive' /\ Streams'
  <2>1. Enters(o, "idle", "none")
    BY <1>0, <1>6, IdleLeaves DEF Reopen, Leaves
  <2>2. ~reconfiguring' /\ UNCHANGED <<stream, hardware_active>>
    BY <1>6 DEF Reopen
  <2>3. call[o].job \in Starts
    BY <1>0, <1>6 DEF Reopen, Typed, CallType, Jobs, Placed, Fits, Routing, Starts
  <2>4. \A p \in Owner \ {o} : call[p].at = "idle" /\ call[p].job = "none"
    BY <1>0, <2>3 DEF Exclusive, ReconfiguresAlone, Reconfigures, Placed, Fits, Starts
  <2>5. \A p \in Owner : call'[p].at = "idle" /\ call'[p].job = "none"
    BY <2>1, <2>4 DEF Enters
  <2>6. Exclusive'
    BY <2>2, <2>5 DEF Exclusive, ReconfiguresAlone, Reconfigures
  <2>7. Streams'
    BY <1>0, <2>2, <2>5 DEF Streams, streams_open
  <2> QED
    BY <2>6, <2>7
<1>7. ASSUME NEW o \in Owner, StartRefused(o) PROVE  Exclusive' /\ Streams'
  <2>1. call[o].at # "idle" /\ Enters(o, "decide", call[o].job) /\ UNCHANGED service
    BY <1>0, <1>7, StartRefusedMoves DEF StartRefused, Moves, Places
  <2> QED
    BY <2>1, GuardedGoto
<1>8. ASSUME NEW o \in Owner, ConfigureCodecs(o) PROVE  Exclusive' /\ Streams'
  <2>1. /\ call[o].at # "idle" /\ UNCHANGED service
        /\ Enters(o, "apply", call[o].job) \/ Enters(o, "hush", call[o].job)
    BY <1>0, <1>8, GotoMoves DEF ConfigureCodecs, Moves, Places, Enter
  <2> QED
    BY <2>1, GuardedGoto
<1>9. ASSUME NEW o \in Owner, StartTask(o) PROVE  Exclusive' /\ Streams'
  <2>1. call[o].at # "idle" /\ Enters(o, "decide", call[o].job) /\ UNCHANGED service
    BY <1>0, <1>9, GotoMoves DEF StartTask, Moves, Places
  <2> QED
    BY <2>1, GuardedGoto
<1>10. ASSUME NEW o \in Owner, StartTaskFails(o) PROVE  Exclusive' /\ Streams'
  <2>1. Enters(o, "stop", "failed") /\ call[o].at = "task" /\ UNCHANGED service
    BY <1>0, <1>10, StartTaskFailsMoves DEF StartTaskFails, Moves
  <2>2. call[o].job \in Starts
    BY <1>0, <2>1 DEF Typed, CallType, Jobs, Placed, Fits, Routing, Starts
  <2> QED
    BY <2>1, <2>2, GuardedMove DEF Starts
<1>11. ASSUME NEW o \in Owner, Hush(o) PROVE  Exclusive' /\ Streams'
  <2>1. call[o].at # "idle" /\ Enters(o, "hushed", call[o].job) /\ UNCHANGED service
    BY <1>0, <1>11, GotoMoves DEF Hush, Moves, Places
  <2> QED
    BY <2>1, GuardedGoto
<1>12. ASSUME NEW o \in Owner, Hushed(o) PROVE  Exclusive' /\ Streams'
  <2>1. AfterHushed(o) /\ call[o].at # "idle" /\ UNCHANGED service
    BY <1>0, <1>12, HushedEnds DEF Hushed
  <2> QED
    BY <2>1, GuardedGoto, GuardedStop DEF AfterHushed, Moves
<1>13. ASSUME NEW o \in Owner, Apply(o) PROVE  Exclusive' /\ Streams'
  <2>1. CASE call[o].route = "speaker"
    <3>1. call[o].at # "idle" /\ Enters(o, "check", call[o].job) /\ UNCHANGED service
      BY <1>0, <1>13, <2>1, GotoMoves DEF Apply, Moves, Places
    <3> QED
      BY <3>1, GuardedGoto
  <2>2. CASE ~(call[o].route = "speaker")
    <3>1. AfterRoute(o) /\ UNCHANGED service
      BY <1>0, <1>13, <2>2, RouteEnds DEF Apply
    <3> QED
      BY <3>1, GuardedRoute
  <2> QED
    BY <2>1, <2>2
<1>14. ASSUME NEW o \in Owner, ApplyFails(o) PROVE  Exclusive' /\ Streams'
  <2>1. AfterRoute(o) /\ UNCHANGED service
    BY <1>0, <1>14, RouteEnds DEF ApplyFails
  <2> QED
    BY <2>1, GuardedRoute
<1>15. ASSUME NEW o \in Owner, Check(o) PROVE  Exclusive' /\ Streams'
  <2>1. CASE ~monitor.active
    <3>1. call[o].at # "idle" /\ Enters(o, "run", call[o].job) /\ UNCHANGED service
      BY <1>0, <1>15, <2>1, GotoMoves DEF Check, Moves, Places
    <3> QED
      BY <3>1, GuardedGoto
  <2>2. CASE ~(~monitor.active)
    <3>1. AfterRoute(o) /\ UNCHANGED service
      BY <1>0, <1>15, <2>2, RouteEnds DEF Check
    <3> QED
      BY <3>1, GuardedRoute
  <2> QED
    BY <2>1, <2>2
<1>16. ASSUME NEW o \in Owner, Run(o) PROVE  Exclusive' /\ Streams'
  <2>1. call[o].at # "idle" /\ Enters(o, "create", call[o].job) /\ UNCHANGED service
    BY <1>0, <1>16, GotoMoves DEF Run, Moves, Places
  <2> QED
    BY <2>1, GuardedGoto
<1>17. ASSUME NEW o \in Owner, Create(o) PROVE  Exclusive' /\ Streams'
  <2>1. AfterRoute(o) /\ UNCHANGED service
    BY <1>0, <1>17, RouteEnds DEF Create
  <2> QED
    BY <2>1, GuardedRoute
<1>18. ASSUME NEW o \in Owner, CreateFails(o) PROVE  Exclusive' /\ Streams'
  <2>1. call[o].at # "idle" /\ Enters(o, "revoke", call[o].job) /\ UNCHANGED service
    BY <1>0, <1>18, GotoMoves DEF CreateFails, Moves, Places
  <2> QED
    BY <2>1, GuardedGoto
<1>19. ASSUME NEW o \in Owner, Revoke(o) PROVE  Exclusive' /\ Streams'
  <2>1. AfterRoute(o) /\ UNCHANGED service
    BY <1>0, <1>19, RouteEnds DEF Revoke
  <2> QED
    BY <2>1, GuardedRoute
<1>20. ASSUME NEW o \in Owner, Stop(o) PROVE  Exclusive' /\ Streams'
  <2>1. /\ call[o].at # "idle" /\ UNCHANGED service
        /\ Enters(o, "join", call[o].job) \/ Enters(o, "hush", call[o].job)
    BY <1>0, <1>20, GotoMoves DEF Stop, Moves, Places
  <2> QED
    BY <2>1, GuardedGoto
<1>21. ASSUME NEW o \in Owner, Join(o) PROVE  Exclusive' /\ Streams'
  <2>1. call[o].at # "idle" /\ Enters(o, "hush", call[o].job) /\ UNCHANGED service
    BY <1>0, <1>21, GotoMoves DEF Join, Moves, Places
  <2> QED
    BY <2>1, GuardedGoto
<1>22. ASSUME NEW o \in Owner, Shut(o) PROVE  Exclusive' /\ Streams'
  <2>1. call[o].at = "shut" /\ Stopped(o) /\ UNCHANGED service
    BY <1>22 DEF Shut
  <2>2. call[o].job \in {"failed", "abandon", "close"}
    BY <1>0, <2>1 DEF Typed, CallType, Jobs, Placed, Fits, Routing
  <2> QED
    BY <1>0, <2>1, <2>2, StopEnds, GuardedStop
<1>23. CASE WorkerReports
  <2>1. \A p \in Owner : stream'[p].open <=> stream[p].open
    BY <1>23 DEF WorkerReports, ReportError
  <2>2. UNCHANGED <<call, reconfiguring, hardware_active>>
    BY <1>23 DEF WorkerReports, ReportError
  <2> QED
    BY <1>0, <2>1, <2>2 DEF Exclusive, ReconfiguresAlone, Reconfigures, Streams, streams_open
<1>24. CASE UNCHANGED <<call, service>>
  BY <1>0, <1>24 DEF Exclusive, ReconfiguresAlone, Reconfigures, Streams, streams_open, service
<1> QED
  BY <1>1, <1>2, <1>3, <1>4, <1>5, <1>6, <1>7, <1>8, <1>9, <1>10, <1>11, <1>12, <1>13, <1>14,
     <1>15, <1>16, <1>17, <1>18, <1>19, <1>20, <1>21, <1>22, <1>23, <1>24
     DEF Next, vars, WorkerStops, WorkerFails, WorkerEnds, JackChanges, MonitorStops,
         MonitorEnds
-----------------------------------------------------------------------------
(* What is on *)

(* A thread that starts or stops the hardware is alone with it, and there is
   no stream: only its own progress counts. *)
LEMMA StartStep ==
  ASSUME Guarded, NEW o \in Owner, call[o].job \in Starts, NEW place, NEW job,
         Enters(o, place, job), UNCHANGED service, TaskFlag', StartingAt(o)', EndingAt(o)'
  PROVE  Hardware'
<1> USE DEF Guarded
<1>1. reconfiguring /\ ~streams_open
  BY DEF Exclusive, Reconfigures, Starts, Streams
<1>2. reconfiguring' /\ ~streams_open'
  BY <1>1 DEF service, streams_open
<1>3. \A p \in Owner \ {o} : call'[p].job = "none"
  BY DEF Exclusive, ReconfiguresAlone, Reconfigures, Starts, Placed, Fits, At, Enters
<1>4. Starting' /\ Ending'
  BY <1>3 DEF Starting, StartingAt, Ending, EndingAt
<1>5. Settled' /\ Served'
  BY <1>2 DEF Settled, Served, streams_open
<1> QED
  BY <1>4, <1>5 DEF Hardware

Switches == <<codec, hardware, running, active, worker>>

(* A thread that sets the route of its open stream changes nothing of it. *)
LEMMA RouteStep ==
  ASSUME Hardware, NEW o \in Owner, NEW place, NEW job \in {"later", "route", "none"},
         Enters(o, place, job), UNCHANGED service, UNCHANGED Switches
  PROVE  Hardware'
<1> USE DEF Hardware, Switches, service
<1>1. TaskFlag'
  BY DEF TaskFlag
<1>2. Starting'
  <2>1. ASSUME NEW p \in Owner, p # o PROVE StartingAt(p)'
    BY <2>1 DEF Starting, StartingAt, Enters, AllOff, Serving
  <2>2. StartingAt(o)'
    BY DEF StartingAt, Enters
  <2> QED
    BY <2>1, <2>2 DEF Starting
<1>3. Ending'
  <2>1. ASSUME NEW p \in Owner, p # o PROVE EndingAt(p)'
    BY <2>1 DEF Ending, EndingAt, Enters, AllOff
  <2>2. EndingAt(o)'
    BY DEF EndingAt, Enters
  <2> QED
    BY <2>1, <2>2 DEF Ending
<1>4. Settled' /\ Served'
  BY DEF Settled, Served, streams_open, AllOff, Serving
<1> QED
  BY <1>1, <1>2, <1>3, <1>4

(* set_output_route, whoever called it. *)
LEMMA RouteGoes ==
  ASSUME Guarded, Hardware, NEW o \in Owner, call[o].at \in Routing,
         call[o].job \in {"open", "later", "route"},
         UNCHANGED service, UNCHANGED Switches, NEW place \in Routing,
         Moves(o, place, call[o].job), call'[o].ok = call[o].ok
  PROVE  Hardware'
<1>1. CASE call[o].job = "open"
  <2>1. StartingAt(o)
    BY DEF Hardware, Starting
  <2>2. StartingAt(o)'
    BY <1>1, <2>1 DEF StartingAt, Moves, Enters, Switches, Routing
  <2>3. EndingAt(o)'
    BY <1>1 DEF EndingAt, Moves, Enters
  <2>4. TaskFlag'
    BY DEF Hardware, TaskFlag, Switches
  <2> QED
    BY <1>1, <2>2, <2>3, <2>4, StartStep DEF Moves, Starts
<1>2. CASE call[o].job \in {"later", "route"}
  BY <1>2, RouteStep DEF Moves
<1> QED
  BY <1>1, <1>2

LEMMA RouteDone ==
  ASSUME Guarded, Hardware, NEW o \in Owner, call[o].at \in Routing, AfterRoute(o),
         UNCHANGED service, UNCHANGED Switches
  PROVE  Hardware'
<1>0. TaskFlag'
  BY DEF Hardware, TaskFlag, Switches
<1>1. CASE call[o].job = "open"
  <2>1. StartingAt(o)
    BY DEF Hardware, Starting
  <2>2. CASE Moves(o, "task", "open") /\ call'[o].ok = call[o].ok
    <3>1. StartingAt(o)'
      BY <1>1, <2>1, <2>2 DEF StartingAt, Moves, Enters, Switches, Routing
    <3>2. EndingAt(o)'
      BY <2>2 DEF EndingAt, Moves, Enters
    <3> QED
      BY <1>0, <1>1, <2>2, <3>1, <3>2, StartStep DEF Moves, Starts
  <2>3. CASE Moves(o, "stop", "failed")
    <3>1. StartingAt(o)'
      BY <2>3 DEF StartingAt, Moves, Enters
    <3>2. EndingAt(o)'
      BY <1>1, <2>1, <2>3 DEF StartingAt, EndingAt, Moves, Enters, Switches, Stopping
    <3> QED
      BY <1>0, <1>1, <2>3, <3>1, <3>2, StartStep DEF Moves, Starts
  <2> QED
    BY <1>1, <2>2, <2>3 DEF AfterRoute
<1>2. CASE call[o].job # "open"
  BY <1>2, RouteStep DEF AfterRoute, Moves, Leaves
<1> QED
  BY <1>1, <1>2
(* A step keeps what is on in agreement with who is in which call. *)
LEMMA HardwareNext == IInv /\ [Next]_vars => Hardware'
<1> SUFFICES ASSUME IInv, [Next]_vars, Guarded, Guarded' PROVE Hardware'
  BY GuardedNext DEF IInv, Guarded
<1>0. Typed /\ Placed /\ Exclusive /\ Streams /\ Hardware
  BY TypedCalls DEF IInv
<1>00. Streamed
  BY TypeParts DEF IInv, ServiceTyped
<1> USE DEF At
<1>1. ASSUME NEW o \in Owner, NEW rate \in Rate, NEW r \in Route,
           OpenFirst(o, rate, r)
    PROVE  Hardware'
  <2>1. Enters(o, "start", "open") /\ call'[o].rate = rate /\ call'[o].ok
    BY <1>0, <1>1, OpenFirstEnters
  <2>2. /\ ~streams_open /\ ~reconfiguring /\ reconfiguring'
        /\ UNCHANGED <<stream, Switches>>
    BY <1>1 DEF OpenFirst, Switches, platform
  <2>3. AllOff'
    BY <1>0, <2>2 DEF Hardware, Settled, AllOff, Switches
  <2>4. \A p \in Owner \ {o} : call'[p].job = "none"
    BY <2>1 DEF Guarded, Exclusive, ReconfiguresAlone, Reconfigures, Placed, Fits, Enters
  <2>5. Starting' /\ Ending'
    BY <2>1, <2>3, <2>4 DEF Starting, StartingAt, Ending, EndingAt, Enters, Routing
  <2>6. TaskFlag'
    BY <1>0, <2>2 DEF Hardware, TaskFlag, Switches
  <2>7. Settled' /\ Served'
    BY <2>2 DEF Settled, Served, streams_open
  <2> QED
    BY <2>5, <2>6, <2>7 DEF Hardware
<1>2. ASSUME NEW o \in Owner, NEW rate \in Rate, NEW r \in Route,
           OpenLater(o, rate, r)
    PROVE  Hardware'
  <2>1. /\ streams_open /\ ~reconfiguring /\ ready /\ rate = active_sample_rate
        /\ UNCHANGED <<reconfiguring, active_sample_rate, ready, Switches>>
        /\ stream' = [stream EXCEPT ![o] = [open |-> TRUE, faulted |-> FALSE, rate |-> rate]]
    BY <1>2 DEF OpenLater, Install, Switches, platform
  <2>2. /\ \A p \in Owner \ {o} : stream'[p] = stream[p]
        /\ stream'[o].open /\ stream'[o].rate = active_sample_rate
    BY <1>00, <2>1 DEF Streamed
  <2>3. ~reconfiguring'
    BY <2>1
  <2>4. \A p \in Owner : call'[p].job \notin Starts
    BY <2>3 DEF Guarded, Exclusive, Reconfigures, Starts
  <2>5. Starting' /\ Ending'
    BY <2>4 DEF Starting, StartingAt, Ending, EndingAt, Starts
  <2>6. TaskFlag'
    BY <1>0, <2>1 DEF Hardware, TaskFlag, Switches
  <2>7. Settled'
    BY <1>0, <2>1, <2>2 DEF Hardware, Settled, Switches, streams_open
  <2>8. Served'
    BY <1>0, <2>1, <2>2 DEF Hardware, Served, Serving, Switches
  <2> QED
    BY <2>5, <2>6, <2>7, <2>8 DEF Hardware
<1>3. ASSUME NEW o \in Owner, NEW r \in Route, SetRoute(o, r) PROVE Hardware'
  <2>1. PICK place \in {"hush", "apply"} : Enters(o, place, "route")
    BY <1>0, <1>3, SetRouteEnters
  <2>2. UNCHANGED service /\ UNCHANGED Switches
    BY <1>3 DEF SetRoute, Switches, platform
  <2> QED
    BY <1>0, <2>1, <2>2, RouteStep
<1>4. ASSUME NEW o \in Owner, Close(o) PROVE Hardware'
  <2>1. stream[o].open /\ hardware_active /\ ~reconfiguring /\ streams_open
    BY <1>0, <1>4 DEF Close, Streams, streams_open
  <2>2. /\ \A p \in Owner \ {o} : stream'[p] = stream[p]
        /\ ~stream'[o].open
    BY <1>00, <1>4 DEF Close, NoStream, Streamed
  <2>3. UNCHANGED <<active_sample_rate, ready, error, Switches>>
    BY <1>4 DEF Close, Switches, platform
  <2>4. TaskFlag'
    BY <1>0, <2>3 DEF Hardware, TaskFlag, Switches
  <2>5. CASE \A p \in Owner \ {o} : ~stream[p].open
    <3>1. Enters(o, "stop", "close")
      BY <1>0, <1>4, <2>1, <2>5, CloseEnters
    <3>2. reconfiguring' /\ ~streams_open'
      BY <1>4, <2>1, <2>2, <2>5 DEF Close, streams_open
    <3>3. \A p \in Owner \ {o} : call'[p].job = "none"
      BY <3>1 DEF Guarded, Exclusive, ReconfiguresAlone, Reconfigures, Placed, Fits, Enters
    <3>4. hardware'
      BY <1>0, <2>1, <2>3 DEF Hardware, Settled, Switches
    <3>5. Starting' /\ Ending'
      BY <3>1, <3>3, <3>4 DEF Starting, StartingAt, Ending, EndingAt, Enters, Stopping
    <3>6. Settled' /\ Served'
      BY <3>2 DEF Settled, Served, streams_open
    <3> QED
      BY <2>4, <3>5, <3>6 DEF Hardware
  <2>6. CASE \E p \in Owner \ {o} : stream[p].open
    <3>1. ~reconfiguring' /\ streams_open'
      BY <1>4, <2>1, <2>2, <2>6 DEF Close, streams_open
    <3>2. \A p \in Owner : call'[p].job \notin Starts
      BY <3>1 DEF Guarded, Exclusive, Reconfigures, Starts
    <3>3. Starting' /\ Ending'
      BY <3>2 DEF Starting, StartingAt, Ending, EndingAt, Starts
    <3>4. Settled'
      BY <1>0, <2>1, <2>2, <2>3, <3>1 DEF Hardware, Settled, Switches
    <3>5. Served'
      BY <1>0, <2>1, <2>2, <2>3 DEF Hardware, Served, Serving, Switches
    <3> QED
      BY <2>4, <3>3, <3>4, <3>5 DEF Hardware
  <2> QED
    BY <2>5, <2>6
<1>5. ASSUME NEW o \in Owner, Decide(o) PROVE Hardware'
  <2>1. call[o].at = "decide" /\ call[o].job \in {"open", "failed"}
    BY <1>0, <1>5 DEF Decide, Typed, CallType, Jobs, Placed, Fits, Routing, Stopping
  <2>2. UNCHANGED Switches
    BY <1>5 DEF Decide, Switches, platform
  <2>3. StartingAt(o) /\ EndingAt(o) /\ TaskFlag
    BY <1>0 DEF Hardware, Starting, Ending
  <2>4. TaskFlag'
    BY <2>2, <2>3 DEF TaskFlag, Switches
  <2>5. \A p \in Owner \ {o} : call[p].job = "none"
    BY <1>0, <2>1 DEF Exclusive, ReconfiguresAlone, Reconfigures, Placed, Fits
  <2>6. reconfiguring /\ ~streams_open
    BY <1>0, <2>1 DEF Exclusive, Reconfigures, Streams
  <2>7. CASE ~call[o].ok \/ error
    <3>1. UNCHANGED <<stream, reconfiguring>>
      BY <1>5, <2>7 DEF Decide
    <3>2. Enters(o, IF call[o].ok THEN "stop" ELSE "reopen", "abandon")
      BY <1>0, <1>5, <2>7, DecideEnters
    <3>3. \A p \in Owner \ {o} : call'[p].job = "none"
      BY <2>5, <3>2 DEF Enters
    <3>4. EndingAt(o)'
      <4>1. CASE call[o].ok
        BY <2>1, <2>2, <2>3, <3>2, <4>1 DEF StartingAt, EndingAt, Enters, Switches, Stopping
      <4>2. CASE ~call[o].ok
        BY <2>1, <2>2, <2>3, <3>2, <4>2
           DEF StartingAt, EndingAt, Enters, Switches, Stopping, AllOff
      <4> QED
        BY <4>1, <4>2
    <3>5. Starting' /\ Ending'
      BY <3>2, <3>3, <3>4 DEF Starting, StartingAt, Ending, EndingAt, Enters
    <3>6. Settled' /\ Served'
      BY <2>6, <3>1 DEF Settled, Served, streams_open
    <3> QED
      BY <2>4, <3>5, <3>6 DEF Hardware
  <2>8. CASE call[o].ok /\ ~error
    <3>1. /\ ready' /\ ~reconfiguring' /\ active_sample_rate' = call[o].rate
          /\ stream' = [stream EXCEPT ![o] =
                          [open |-> TRUE, faulted |-> FALSE, rate |-> call[o].rate]]
      BY <1>5, <2>8 DEF Decide, Install
    <3>2. /\ stream'[o].open /\ stream'[o].rate = call[o].rate
          /\ \A p \in Owner \ {o} : ~stream'[p].open
      BY <1>00, <2>6, <3>1 DEF Streamed, streams_open
    <3>3. hardware /\ codec = call[o].rate /\ Serving
      BY <2>1, <2>3, <2>8 DEF StartingAt, EndingAt
    <3>4. \A p \in Owner : call'[p].job \notin Starts
      BY <3>1 DEF Guarded, Exclusive, Reconfigures, Starts
    <3>5. Starting' /\ Ending'
      BY <3>4 DEF Starting, StartingAt, Ending, EndingAt, Starts
    <3>6. Settled'
      BY <2>2, <3>1, <3>2, <3>3 DEF Settled, Switches, streams_open
    <3>7. Served'
      BY <2>2, <3>1, <3>3 DEF Served, Serving, Switches
    <3> QED
      BY <2>4, <3>5, <3>6, <3>7 DEF Hardware
  <2> QED
    BY <2>7, <2>8
<1>6. ASSUME NEW o \in Owner, Reopen(o) PROVE Hardware'
  <2>1. call[o].at = "reopen" /\ call[o].job \in {"abandon", "close"}
    BY <1>0, <1>6 DEF Reopen, Typed, CallType, Jobs, Placed, Fits, Routing, Stopping
  <2>2. ~reconfiguring' /\ UNCHANGED <<stream, ready, Switches>>
    BY <1>6 DEF Reopen, Switches, platform
  <2>3. AllOff'
    BY <1>0, <2>1, <2>2 DEF Hardware, Ending, EndingAt, AllOff, Switches
  <2>4. ~streams_open'
    BY <1>0, <2>1, <2>2 DEF Exclusive, Reconfigures, Streams, streams_open
  <2>5. \A p \in Owner : call'[p].job \notin Starts
    BY <2>2 DEF Guarded, Exclusive, Reconfigures, Starts
  <2>6. Starting' /\ Ending'
    BY <2>5 DEF Starting, StartingAt, Ending, EndingAt, Starts
  <2>7. Settled' /\ Served'
    BY <2>3, <2>4 DEF Settled, Served, streams_open
  <2>8. TaskFlag'
    BY <1>0, <2>2 DEF Hardware, TaskFlag, Switches
  <2> QED
    BY <2>6, <2>7, <2>8 DEF Hardware
<1>7. ASSUME NEW o \in Owner, StartRefused(o) PROVE Hardware'
  <2>1. call[o].at = "start" /\ call[o].job = "open"
    BY <1>0, <1>7 DEF StartRefused, Typed, CallType, Jobs, Placed, Fits, Routing, Stopping
  <2>2. Moves(o, "decide", call[o].job) /\ ~call'[o].ok
    BY <1>0, <1>7, StartRefusedMoves DEF StartRefused
  <2>3. StartingAt(o) /\ EndingAt(o) /\ TaskFlag /\ UNCHANGED service
    BY <1>0, <1>7 DEF Hardware, Starting, Ending, StartRefused
  <2>4. UNCHANGED Switches
    BY <1>7 DEF StartRefused, Switches, platform
  <2>5. StartingAt(o)'
    BY <2>1, <2>2, <2>3, <2>4 DEF StartingAt, EndingAt, Moves, Enters, AllOff, Switches, Routing
  <2>6. EndingAt(o)' /\ TaskFlag'
    BY <2>1, <2>2, <2>3, <2>4 DEF StartingAt, EndingAt, Moves, Enters, TaskFlag, Switches
  <2> QED
    BY <2>1, <2>2, <2>4, <2>5, <2>6, <2>3, StartStep DEF Moves, Starts
<1>8. ASSUME NEW o \in Owner, ConfigureCodecs(o) PROVE Hardware'
  <2>1. call[o].at = "start" /\ call[o].job = "open"
    BY <1>0, <1>8 DEF ConfigureCodecs, Typed, CallType, Jobs, Placed, Fits, Routing, Stopping
  <2>2. PICK place \in {"apply", "hush"} :
          Moves(o, place, call[o].job) /\ call'[o].ok = call[o].ok
    BY <1>0, <1>8, GotoMoves DEF ConfigureCodecs, Enter, Places
  <2>3. StartingAt(o) /\ EndingAt(o) /\ TaskFlag /\ UNCHANGED service
    BY <1>0, <1>8 DEF Hardware, Starting, Ending, ConfigureCodecs
  <2>4. hardware' /\ codec' = call[o].rate /\ UNCHANGED <<worker, active>>
    BY <1>8 DEF ConfigureCodecs
  <2>5. StartingAt(o)'
    BY <2>1, <2>2, <2>3, <2>4 DEF StartingAt, EndingAt, Moves, Enters, AllOff, Routing
  <2>6. EndingAt(o)' /\ TaskFlag'
    BY <2>1, <2>2, <2>3, <2>4 DEF StartingAt, EndingAt, Moves, Enters, TaskFlag
  <2> QED
    BY <2>1, <2>2, <2>4, <2>5, <2>6, <2>3, StartStep DEF Moves, Starts
<1>9. ASSUME NEW o \in Owner, StartTask(o) PROVE Hardware'
  <2>1. call[o].at = "task" /\ call[o].job = "open"
    BY <1>0, <1>9 DEF StartTask, Typed, CallType, Jobs, Placed, Fits, Routing, Stopping
  <2>2. Moves(o, "decide", call[o].job) /\ call'[o].ok = call[o].ok
    BY <1>0, <1>9, GotoMoves DEF StartTask, Places
  <2>3. StartingAt(o) /\ EndingAt(o) /\ TaskFlag /\ UNCHANGED service
    BY <1>0, <1>9 DEF Hardware, Starting, Ending, StartTask
  <2>4. running' /\ active' /\ worker' = "loop" /\ UNCHANGED <<hardware, codec>>
    BY <1>9 DEF StartTask
  <2>5. StartingAt(o)'
    BY <2>1, <2>2, <2>3, <2>4 DEF StartingAt, EndingAt, Moves, Enters, Serving, Routing
  <2>6. EndingAt(o)' /\ TaskFlag'
    BY <2>1, <2>2, <2>3, <2>4 DEF StartingAt, EndingAt, Moves, Enters, TaskFlag
  <2> QED
    BY <2>1, <2>2, <2>4, <2>5, <2>6, <2>3, StartStep DEF Moves, Starts
<1>10. ASSUME NEW o \in Owner, StartTaskFails(o) PROVE Hardware'
  <2>1. call[o].at = "task" /\ call[o].job = "open"
    BY <1>0, <1>10 DEF StartTaskFails, Typed, CallType, Jobs, Placed, Fits, Routing, Stopping
  <2>2. Moves(o, "stop", "failed")
    BY <1>0, <1>10, StartTaskFailsMoves DEF StartTaskFails
  <2>3. StartingAt(o) /\ EndingAt(o) /\ TaskFlag /\ UNCHANGED service
    BY <1>0, <1>10 DEF Hardware, Starting, Ending, StartTaskFails
  <2>4. ~running' /\ ~active' /\ UNCHANGED <<hardware, codec, worker>>
    BY <1>10 DEF StartTaskFails
  <2>5. StartingAt(o)' /\ TaskFlag'
    BY <2>1, <2>2, <2>3, <2>4 DEF StartingAt, EndingAt, Moves, Enters, TaskFlag
  <2>6. EndingAt(o)'
    BY <2>1, <2>2, <2>3, <2>4 DEF StartingAt, EndingAt, Moves, Enters, Stopping
  <2> QED
    BY <2>1, <2>2, <2>4, <2>5, <2>6, <2>3, StartStep DEF Moves, Starts
<1>11. ASSUME NEW o \in Owner, Hush(o) PROVE Hardware'
  <2>1. call[o].at = "hush" /\ Moves(o, "hushed", call[o].job) /\ call'[o].ok = call[o].ok
    BY <1>0, <1>11, GotoMoves DEF Hush, Places
  <2>2. UNCHANGED service /\ UNCHANGED Switches
    BY <1>11 DEF Hush, Switches, platform
  <2>3. CASE call[o].job \in {"open", "later", "route"}
    BY <1>0, <2>1, <2>2, <2>3, RouteGoes DEF Routing
  <2>4. CASE call[o].job \in {"failed", "abandon", "close"}
    <3>1. StartingAt(o)' /\ EndingAt(o)' /\ TaskFlag'
      BY <1>0, <2>1, <2>2, <2>4
         DEF Hardware, Ending, StartingAt, EndingAt, Moves, Enters, TaskFlag, Switches, Stopping
    <3> QED
      BY <2>1, <2>2, <2>4, <3>1, StartStep DEF Moves, Starts
  <2> QED
    BY <1>0, <2>1, <2>3, <2>4 DEF Typed, CallType, Jobs, Placed, Fits
<1>12. ASSUME NEW o \in Owner, Hushed(o) PROVE Hardware'
  <2>1. call[o].at = "hushed" /\ AfterHushed(o)
    BY <1>0, <1>12, HushedEnds DEF Hushed
  <2>2. UNCHANGED service /\ UNCHANGED Switches
    BY <1>12 DEF Hushed, Switches, platform
  <2>3. CASE /\ call[o].job \in {"open", "later", "route"} /\ Moves(o, "apply", call[o].job)
             /\ call'[o].ok = call[o].ok
    BY <1>0, <2>1, <2>2, <2>3, RouteGoes DEF Routing
  <2>4. CASE call[o].job \in {"failed", "abandon", "close"} /\ Moves(o, "shut", call[o].job)
    <3>1. StartingAt(o)' /\ EndingAt(o)' /\ TaskFlag'
      BY <1>0, <2>1, <2>2, <2>4
         DEF Hardware, Ending, StartingAt, EndingAt, Moves, Enters, TaskFlag, Switches, Stopping
    <3> QED
      BY <2>2, <2>4, <3>1, StartStep DEF Moves, Starts
  <2>5. CASE call[o].job \in {"failed", "abandon", "close"} /\ ~hardware
    BY <1>0, <2>1, <2>5 DEF Hardware, Ending, EndingAt, Stopping
  <2> QED
    BY <2>1, <2>3, <2>4, <2>5 DEF AfterHushed, AfterStop
<1>13. ASSUME NEW o \in Owner, Apply(o) PROVE Hardware'
  <2>1. call[o].at = "apply"
    BY <1>13 DEF Apply
  <2>2. UNCHANGED service /\ UNCHANGED Switches
    BY <1>13 DEF Apply, Switches, platform
  <2>3. call[o].job \in {"open", "later", "route"} /\ call[o].at \in Routing
    BY <1>0, <2>1 DEF Typed, CallType, Jobs, Placed, Fits, Stopping, Routing
  <2>4. CASE call[o].route = "speaker"
    <3>1. Moves(o, "check", call[o].job) /\ call'[o].ok = call[o].ok
      BY <1>0, <1>13, <2>4, GotoMoves DEF Apply, Places
    <3> QED
      BY <1>0, <2>2, <2>3, <3>1, RouteGoes DEF Routing
  <2>5. CASE ~(call[o].route = "speaker")
    <3>1. AfterRoute(o)
      BY <1>0, <1>13, <2>5, RouteEnds DEF Apply
    <3> QED
      BY <1>0, <2>2, <2>3, <3>1, RouteDone
  <2> QED
    BY <2>4, <2>5
<1>14. ASSUME NEW o \in Owner, ApplyFails(o) PROVE Hardware'
  <2>1. call[o].at = "apply" /\ AfterRoute(o)
    BY <1>0, <1>14, RouteEnds DEF ApplyFails
  <2>2. UNCHANGED service /\ UNCHANGED Switches
    BY <1>14 DEF ApplyFails, Switches
  <2> QED
    BY <1>0, <2>1, <2>2, RouteDone DEF Routing
<1>15. ASSUME NEW o \in Owner, Check(o) PROVE Hardware'
  <2>1. call[o].at = "check"
    BY <1>15 DEF Check
  <2>2. UNCHANGED service /\ UNCHANGED Switches
    BY <1>15 DEF Check, Switches, platform
  <2>3. call[o].job \in {"open", "later", "route"} /\ call[o].at \in Routing
    BY <1>0, <2>1 DEF Typed, CallType, Jobs, Placed, Fits, Stopping, Routing
  <2>4. CASE ~monitor.active
    <3>1. Moves(o, "run", call[o].job) /\ call'[o].ok = call[o].ok
      BY <1>0, <1>15, <2>4, GotoMoves DEF Check, Places
    <3> QED
      BY <1>0, <2>2, <2>3, <3>1, RouteGoes DEF Routing
  <2>5. CASE ~(~monitor.active)
    <3>1. AfterRoute(o)
      BY <1>0, <1>15, <2>5, RouteEnds DEF Check
    <3> QED
      BY <1>0, <2>2, <2>3, <3>1, RouteDone
  <2> QED
    BY <2>4, <2>5
<1>16. ASSUME NEW o \in Owner, Run(o) PROVE Hardware'
  <2>1. call[o].at = "run" /\ Moves(o, "create", call[o].job) /\ call'[o].ok = call[o].ok
    BY <1>0, <1>16, GotoMoves DEF Run, Places
  <2>2. UNCHANGED service /\ UNCHANGED Switches
    BY <1>16 DEF Run, Switches, platform
  <2>3. call[o].job \in {"open", "later", "route"} /\ call[o].at \in Routing
    BY <1>0, <2>1 DEF Typed, CallType, Jobs, Placed, Fits, Stopping, Routing
  <2> QED
    BY <1>0, <2>1, <2>2, <2>3, RouteGoes DEF Routing
<1>17. ASSUME NEW o \in Owner, Create(o) PROVE Hardware'
  <2>1. call[o].at = "create" /\ AfterRoute(o)
    BY <1>0, <1>17, RouteEnds DEF Create
  <2>2. UNCHANGED service /\ UNCHANGED Switches
    BY <1>17 DEF Create, Switches
  <2> QED
    BY <1>0, <2>1, <2>2, RouteDone DEF Routing
<1>18. ASSUME NEW o \in Owner, CreateFails(o) PROVE Hardware'
  <2>1. call[o].at = "create" /\ Moves(o, "revoke", call[o].job) /\ call'[o].ok = call[o].ok
    BY <1>0, <1>18, GotoMoves DEF CreateFails, Places
  <2>2. UNCHANGED service /\ UNCHANGED Switches
    BY <1>18 DEF CreateFails, Switches, platform
  <2>3. call[o].job \in {"open", "later", "route"} /\ call[o].at \in Routing
    BY <1>0, <2>1 DEF Typed, CallType, Jobs, Placed, Fits, Stopping, Routing
  <2> QED
    BY <1>0, <2>1, <2>2, <2>3, RouteGoes DEF Routing
<1>19. ASSUME NEW o \in Owner, Revoke(o) PROVE Hardware'
  <2>1. call[o].at = "revoke" /\ AfterRoute(o)
    BY <1>0, <1>19, RouteEnds DEF Revoke
  <2>2. UNCHANGED service /\ UNCHANGED Switches
    BY <1>19 DEF Revoke, Switches
  <2> QED
    BY <1>0, <2>1, <2>2, RouteDone DEF Routing
<1>20. ASSUME NEW o \in Owner, Stop(o) PROVE Hardware'
  <2>1. call[o].at = "stop" /\ call[o].job \in {"failed", "abandon", "close"}
    BY <1>0, <1>20 DEF Stop, Typed, CallType, Jobs, Placed, Fits, Routing
  <2>2. StartingAt(o) /\ EndingAt(o) /\ TaskFlag /\ UNCHANGED service
    BY <1>0, <1>20 DEF Hardware, Starting, Ending, Stop
  <2>3. hardware
    BY <2>1, <2>2 DEF EndingAt
  <2>4. Moves(o, "join", call[o].job)
    BY <1>0, <1>20, <2>3, GotoMoves DEF Stop, Places
  <2>5. ~running' /\ UNCHANGED <<codec, hardware, active, worker>>
    BY <1>20, <2>3 DEF Stop
  <2>6. StartingAt(o)' /\ EndingAt(o)' /\ TaskFlag'
    BY <2>1, <2>2, <2>3, <2>4, <2>5 DEF StartingAt, EndingAt, Moves, Enters, TaskFlag, Stopping
  <2> QED
    BY <2>1, <2>2, <2>4, <2>6, StartStep DEF Moves, Starts
<1>21. ASSUME NEW o \in Owner, Join(o) PROVE Hardware'
  <2>1. call[o].at = "join" /\ call[o].job \in {"failed", "abandon", "close"}
    BY <1>0, <1>21 DEF Join, Typed, CallType, Jobs, Placed, Fits, Routing
  <2>2. StartingAt(o) /\ EndingAt(o) /\ TaskFlag /\ UNCHANGED service
    BY <1>0, <1>21 DEF Hardware, Starting, Ending, Join
  <2>3. Moves(o, "hush", call[o].job)
    BY <1>0, <1>21, GotoMoves DEF Join, Places
  <2>4. ~active /\ UNCHANGED Switches
    BY <1>21 DEF Join, Switches, platform
  <2>5. StartingAt(o)' /\ EndingAt(o)' /\ TaskFlag'
    BY <2>1, <2>2, <2>3, <2>4 DEF StartingAt, EndingAt, Moves, Enters, TaskFlag, Switches, Stopping
  <2> QED
    BY <2>1, <2>2, <2>3, <2>5, StartStep DEF Moves, Starts
<1>22. ASSUME NEW o \in Owner, Shut(o) PROVE Hardware'
  <2>1. call[o].at = "shut" /\ call[o].job \in {"failed", "abandon", "close"}
    BY <1>0, <1>22 DEF Shut, Typed, CallType, Jobs, Placed, Fits, Routing
  <2>2. StartingAt(o) /\ EndingAt(o) /\ TaskFlag /\ UNCHANGED service
    BY <1>0, <1>22 DEF Hardware, Starting, Ending, Shut
  <2>3. AfterStop(o)
    BY <1>0, <1>22, <2>1, StopEnds DEF Shut
  <2>4. ~hardware' /\ codec' = Closed /\ UNCHANGED <<running, active, worker>>
    BY <1>22 DEF Shut
  <2>5. AllOff'
    BY <2>1, <2>2, <2>4 DEF EndingAt, Stopping, AllOff, TaskFlag
  <2>6. TaskFlag'
    BY <2>2, <2>4 DEF TaskFlag
  <2>7. CASE Enters(o, "decide", "failed") /\ ~call'[o].ok
    <3>1. StartingAt(o)' /\ EndingAt(o)'
      BY <2>5, <2>7 DEF StartingAt, EndingAt, Enters, Stopping
    <3> QED
      BY <2>1, <2>2, <2>6, <2>7, <3>1, StartStep DEF Starts
  <2>8. CASE call[o].job \in {"abandon", "close"} /\ Enters(o, "reopen", call[o].job)
    <3>1. StartingAt(o)' /\ EndingAt(o)'
      BY <2>5, <2>8 DEF StartingAt, EndingAt, Enters, Stopping
    <3> QED
      BY <2>1, <2>2, <2>6, <2>8, <3>1, StartStep DEF Starts
  <2> QED
    BY <2>3, <2>7, <2>8 DEF AfterStop, Moves
<1>23. CASE WorkerStops
  <2>1. /\ worker = "loop" /\ ~running /\ worker' = "ending" /\ active' = active
        /\ UNCHANGED <<call, codec, hardware, running>>
        /\ UNCHANGED <<stream, reconfiguring, active_sample_rate, ready, error>>
    BY <1>23 DEF WorkerStops, service
  <2>2. TaskFlag'
    BY <1>0, <2>1 DEF Hardware, TaskFlag
  <2>3. Starting'
    BY <1>0, <2>1 DEF Hardware, Starting, StartingAt, AllOff, Serving
  <2>4. Ending'
    BY <1>0, <2>1 DEF Hardware, Ending, EndingAt, AllOff
  <2>5. Settled'
    BY <1>0, <2>1 DEF Hardware, Settled, AllOff, streams_open
  <2>6. Served'
    BY <1>0, <2>1 DEF Hardware, Served, Serving, streams_open
  <2> QED
    BY <2>2, <2>3, <2>4, <2>5, <2>6 DEF Hardware
<1>24. CASE WorkerFails
  <2>1. /\ worker = "loop" /\ worker' = "error" /\ active' = active
        /\ UNCHANGED <<call, codec, hardware, running>>
        /\ UNCHANGED <<stream, reconfiguring, active_sample_rate, ready, error>>
    BY <1>24 DEF WorkerFails, service
  <2>2. TaskFlag'
    BY <1>0, <2>1 DEF Hardware, TaskFlag
  <2>3. Starting'
    BY <1>0, <2>1 DEF Hardware, Starting, StartingAt, AllOff, Serving
  <2>4. Ending'
    BY <1>0, <2>1 DEF Hardware, Ending, EndingAt, AllOff
  <2>5. Settled'
    BY <1>0, <2>1 DEF Hardware, Settled, AllOff, streams_open
  <2>6. Served'
    BY <1>0, <2>1 DEF Hardware, Served, Serving, streams_open
  <2> QED
    BY <2>2, <2>3, <2>4, <2>5, <2>6 DEF Hardware
<1>25. CASE WorkerReports
  <2>1. /\ worker = "error" /\ worker' = "ending" /\ active' = active /\ ~ready' /\ error'
        /\ \A p \in Owner : /\ stream'[p].open <=> stream[p].open
                            /\ stream[p].open => stream'[p].faulted
                            /\ stream'[p].rate = stream[p].rate
        /\ UNCHANGED <<call, codec, hardware, running>>
        /\ UNCHANGED <<reconfiguring, active_sample_rate>>
    BY <1>25 DEF WorkerReports, service, ReportError
  <2>2. TaskFlag'
    BY <1>0, <2>1 DEF Hardware, TaskFlag
  <2>3. Starting'
    BY <1>0, <2>1 DEF Hardware, Starting, StartingAt, AllOff, Serving
  <2>4. Ending'
    BY <1>0, <2>1 DEF Hardware, Ending, EndingAt, AllOff
  <2>5. Settled'
    BY <1>0, <2>1 DEF Hardware, Settled, AllOff, streams_open
  <2>6. Served'
    BY <1>0, <2>1 DEF Hardware, Served, Serving, streams_open
  <2> QED
    BY <2>2, <2>3, <2>4, <2>5, <2>6 DEF Hardware
<1>26. CASE WorkerEnds
  <2>1. /\ worker = "ending" /\ worker' = "none" /\ ~active'
        /\ UNCHANGED <<call, codec, hardware, running>>
        /\ UNCHANGED <<stream, reconfiguring, active_sample_rate, ready, error>>
    BY <1>26 DEF WorkerEnds, service
  <2>2. TaskFlag'
    BY <1>0, <2>1 DEF Hardware, TaskFlag
  <2>3. Starting'
    BY <1>0, <2>1 DEF Hardware, Starting, StartingAt, AllOff, Serving
  <2>4. Ending'
    BY <1>0, <2>1 DEF Hardware, Ending, EndingAt, AllOff
  <2>5. Settled'
    BY <1>0, <2>1 DEF Hardware, Settled, AllOff, streams_open
  <2>6. Served'
    BY <1>0, <2>1 DEF Hardware, Served, Serving, streams_open
  <2> QED
    BY <2>2, <2>3, <2>4, <2>5, <2>6 DEF Hardware
<1>27. CASE UNCHANGED <<call, service, Switches>>
  <2>1. UNCHANGED <<call, codec, hardware, running, worker, active, stream, reconfiguring,
                    active_sample_rate, ready, error>>
    BY <1>27 DEF service, Switches
  <2> QED
    BY <1>0, <2>1 DEF Hardware, TaskFlag, Starting, StartingAt, Ending, EndingAt, Settled,
                          Served, AllOff, Serving, streams_open
<1> QED
  BY <1>1, <1>2, <1>3, <1>4, <1>5, <1>6, <1>7, <1>8, <1>9, <1>10, <1>11, <1>12,
     <1>13, <1>14, <1>15, <1>16, <1>17, <1>18, <1>19, <1>20,
     <1>21, <1>22, <1>23, <1>24, <1>25, <1>26, <1>27
     DEF Next, vars, platform, Switches, JackChanges, MonitorStops, MonitorEnds

-----------------------------------------------------------------------------
LEMMA InitInv == Init => IInv
<1> SUFFICES ASSUME Init PROVE IInv
  OBVIOUS
<1>1. \A o \in Owner : call[o].at = "idle" /\ call[o].job = "none" /\ ~stream[o].open
  BY DEF Init, Idle, NoStream
<1>2. TypeOK
  <2>1. Idle \in CallType /\ NoStream \in StreamType
    BY DEF Idle, NoStream, CallType, StreamType, Places, Jobs, Route
  <2>2. Typed /\ ServiceTyped
    BY <2>1 DEF Init, Typed, ServiceTyped, Streamed
  <2>3. PlatformTyped /\ MonitorTyped
    BY DEF Init, PlatformTyped, MonitorTyped
  <2> QED
    BY <2>2, <2>3, TypeParts
<1>3. Placed /\ Exclusive /\ Streams
  BY <1>1 DEF Init, Placed, Fits, Exclusive, ReconfiguresAlone, Reconfigures, Streams,
              streams_open
<1>4. Hardware
  BY <1>1 DEF Init, Hardware, TaskFlag, Starting, StartingAt, Ending, EndingAt, Settled,
              Served, AllOff, streams_open
<1> QED
  BY <1>2, <1>3, <1>4 DEF IInv

LEMMA NextInv == IInv /\ [Next]_vars => IInv'
  BY GuardedNext, HardwareNext DEF IInv, Guarded

(* Every reachable state of the audio service satisfies IInv, whatever the
   programs, the rates and the number of monitors. *)
THEOREM Invariance == Spec => []IInv
  BY InitInv, NextInv, PTL DEF Spec

(* A start or a stop of the hardware, done with the service's mutex released,
   runs while every other program is outside the service. *)
THEOREM Exclusion == Spec => []ReconfiguresAlone
<1>1. IInv => ReconfiguresAlone
  BY DEF IInv, Exclusive
<1> QED
  BY <1>1, Invariance, PTL

(* Between reconfigurations the hardware is on exactly while a stream is open,
   at the rate of every one of them, and without any the worker is gone. *)
THEOREM HardwareIsStreams == Spec => []HardwareFollowsStreams
<1>1. IInv => HardwareFollowsStreams
  <2> SUFFICES ASSUME IInv, ~reconfiguring
               PROVE  /\ hardware = streams_open
                      /\ \A o \in Owner : stream[o].open => codec = stream[o].rate
                      /\ ~streams_open => codec = Closed /\ worker = "none" /\ ~active
    BY DEF HardwareFollowsStreams
  <2>1. hardware \in BOOLEAN /\ streams_open \in BOOLEAN
    BY DEF IInv, TypeOK, streams_open
  <2>2. CASE streams_open
    <3>1. hardware /\ \A o \in Owner : stream[o].open => codec = stream[o].rate
      BY <2>2 DEF IInv, Hardware, Settled
    <3> QED
      BY <2>1, <2>2, <3>1
  <2>3. CASE ~streams_open
    <3>1. AllOff
      BY <2>3 DEF IInv, Hardware, Settled
    <3>2. \A o \in Owner : ~stream[o].open
      BY <2>3 DEF streams_open
    <3> QED
      BY <2>1, <2>3, <3>1, <3>2 DEF AllOff
  <2> QED
    BY <2>2, <2>3
<1> QED
  BY <1>1, Invariance, PTL

(* An open stream that has not been told of an error has a worker that plays
   it, or is about to tell it. *)
THEOREM StreamsAreServed == Spec => []NobodyUnserved
<1>1. IInv => NobodyUnserved
  BY DEF IInv, Hardware, Served, Serving, NobodyUnserved, streams_open
<1> QED
  BY <1>1, Invariance, PTL
=============================================================================
