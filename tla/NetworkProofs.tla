---------------------------- MODULE NetworkProofs ----------------------------
(***************************************************************************)
(* Proofs about Network, for any number of attempts and of explicit calls: *)
(* what the service may ask the platform for, however the four threads     *)
(* interleave, and that nobody is left to use what a shutdown has deleted. *)
(***************************************************************************)
EXTENDS Network, TLAPS

(* Each attempt is counted, until a shutdown forgets the count. *)
Counted == op.pc # "down" => tried = service.attempts

(* Without a saved profile nothing connects before somebody asks for it. *)
Untouched ==
  wish # "connect" /\ ~service.suppressed =>
    /\ service.state # "CONNECTING" /\ wifi.state # "CONNECTING" /\ ~wifi.queued
    /\ boot \notin {"connecting", "join"}
    /\ op.pc \in {"free", "apply"}

(* A retry is under way only while a connection is wanted, ... *)
Retries == timer # "off" \/ op.pc = "attempt" => wish = "connect"

(* ... and so is every explicit connect; a disconnect has withdrawn the wish. *)
Wanted ==
  /\ op.call = "connect" /\ op.pc # "free" => wish = "connect"
  /\ op.call = "disconnect" /\ op.pc # "free" => wish # "connect"

(* Whoever disconnects the platform has been called to. *)
Calling ==
  op.pc \in {"disconnect", "forget", "expect", "drop", "offline", "undo", "dropped"} =>
    op.call \in {"connect", "disconnect", "shutdown"}

(* A shutdown has joined the start-up task and the driver's events. *)
Joined ==
  op.pc = "down" => boot = "finished" /\ handler = "idle" /\ events = <<>> /\ link = "idle"

Rest == Counted /\ Untouched /\ Retries /\ Wanted /\ Calling /\ Joined

IInv == TypeOK /\ Rest

USE DEF outside, inside, history

(* The types, with names *)
State == {"OFFLINE", "CONNECTING", "ONLINE", "DISCONNECTING", "FAILED"}
Service == [state : State, attempts : 0 .. Attempts, suppressed : BOOLEAN, up : BOOLEAN]
CallName == {"none", "update", "connect", "disconnect", "shutdown"}
Result == {"ok", "idle", "error"}
Op == [pc : Steps, call : CallName, asked : BOOLEAN, result : Result]
WifiState == {"STARTING", "OFFLINE", "CONNECTING", "ONLINE", "FAILED"}
Wifi ==
  [state : WifiState, initialized : BOOLEAN, dropping : BOOLEAN, queued : BOOLEAN,
   cancelled : BOOLEAN]

EventName == {"disconnected", "got_ip"}

Typed ==
  /\ service \in Service /\ op \in Op /\ wifi \in Wifi
  /\ timer \in {"off", "running", "due"} /\ pending \in BOOLEAN
  /\ boot \in {"reset", "look", "driver", "clear", "publish", "again", "queued",
               "connecting", "join", "failed", "offline", "finish", "finished"}
  /\ link \in {"idle", "joining", "joined"}
  /\ events \in Seq(EventName)
  /\ handler \in {"idle", "OFFLINE", "FAILED", "ONLINE"}
  /\ wish \in {"connect", "disconnect", "failed"}
  /\ tried \in 0 .. Attempts /\ calls \in 0 .. MaxCalls

(* The named sets make up the type invariant. *)
LEMMA TypedIsTypeOK == Typed <=> TypeOK
  BY DEF Typed, TypeOK, State, Service, CallName, Result, Op, WifiState, Wifi,
     EventName

(* The places of an operation *)
LEMMA Places ==
  /\ "free" \in Steps /\ "apply" \in Steps /\ "attempt" \in Steps /\ "refused" \in Steps
  /\ "disconnect" \in Steps /\ "forget" \in Steps /\ "expect" \in Steps /\ "drop" \in Steps
  /\ "offline" \in Steps /\ "undo" \in Steps /\ "dropped" \in Steps
  /\ "connect" \in Steps /\ "starting" \in Steps /\ "remember" \in Steps
  /\ "announce" \in Steps /\ "clear" \in Steps /\ "connecting" \in Steps /\ "join" \in Steps
  /\ "failed" \in Steps /\ "cancel" \in Steps /\ "unload" \in Steps /\ "down" \in Steps
  BY DEF Steps

(* The records an action may leave behind *)
LEMMA ServiceMoves ==
  ASSUME service \in Service
  PROVE  /\ service.attempts \in 0 .. Attempts /\ service.suppressed \in BOOLEAN
         /\ \A s \in State : [service EXCEPT !.state = s] \in Service
         /\ \A s \in State : [service EXCEPT !.suppressed = TRUE, !.state = s] \in Service
         /\ [service EXCEPT !.suppressed = TRUE, !.up = FALSE] \in Service
         /\ [service EXCEPT !.attempts = 0, !.suppressed = FALSE] \in Service
         /\ [service EXCEPT !.state = "OFFLINE", !.attempts = 0] \in Service
         /\ \A n \in 0 .. Attempts :
              [service EXCEPT !.attempts = n, !.state = "CONNECTING"] \in Service
<1>1. 0 \in 0 .. Attempts
  BY AttemptsAssumption
<1> USE DEF Service
<1>2. service.attempts \in 0 .. Attempts /\ service.suppressed \in BOOLEAN
  OBVIOUS
<1>3. /\ \A s \in State : [service EXCEPT !.state = s] \in Service
      /\ \A s \in State : [service EXCEPT !.suppressed = TRUE, !.state = s] \in Service
      /\ [service EXCEPT !.suppressed = TRUE, !.up = FALSE] \in Service
  OBVIOUS
<1>4. /\ [service EXCEPT !.attempts = 0, !.suppressed = FALSE] \in Service
      /\ [service EXCEPT !.state = "OFFLINE", !.attempts = 0] \in Service
      /\ \A n \in 0 .. Attempts :
           [service EXCEPT !.attempts = n, !.state = "CONNECTING"] \in Service
  BY <1>1 DEF State
<1> QED
  BY <1>2, <1>3, <1>4

LEMMA OpMoves ==
  ASSUME op \in Op
  PROVE  /\ Free \in Op
         /\ [Free EXCEPT !.pc = "apply", !.call = "update", !.asked = TRUE] \in Op
         /\ [Free EXCEPT !.pc = "apply", !.call = "update", !.asked = FALSE] \in Op
         /\ \A call \in CallName : [Free EXCEPT !.pc = "disconnect", !.call = call] \in Op
         /\ \A at \in Steps : [op EXCEPT !.pc = at] \in Op
         /\ \A result \in Result : [op EXCEPT !.pc = "offline", !.result = result] \in Op
<1>1. Free \in Op
  BY Places DEF Op, Free, CallName, Result
<1>2. /\ [Free EXCEPT !.pc = "apply", !.call = "update", !.asked = TRUE] \in Op
      /\ [Free EXCEPT !.pc = "apply", !.call = "update", !.asked = FALSE] \in Op
      /\ \A call \in CallName : [Free EXCEPT !.pc = "disconnect", !.call = call] \in Op
  BY Places DEF Op, Free, CallName, Result
<1>3. /\ \A at \in Steps : [op EXCEPT !.pc = at] \in Op
      /\ \A result \in Result : [op EXCEPT !.pc = "offline", !.result = result] \in Op
  BY Places DEF Op
<1> QED
  BY <1>1, <1>2, <1>3

LEMMA WifiMoves ==
  ASSUME wifi \in Wifi
  PROVE  /\ \A s \in WifiState : [wifi EXCEPT !.state = s] \in Wifi
         /\ \A b \in BOOLEAN :
              /\ [wifi EXCEPT !.initialized = b] \in Wifi
              /\ [wifi EXCEPT !.dropping = b] \in Wifi
              /\ [wifi EXCEPT !.queued = b] \in Wifi
              /\ [wifi EXCEPT !.cancelled = b] \in Wifi
         /\ wifi.dropping \in BOOLEAN
  BY DEF Wifi

(* The list of undelivered events *)
LEMMA EventLists ==
  ASSUME NEW s \in Seq(EventName), NEW e \in EventName
  PROVE  /\ Append(s, e) \in Seq(EventName) /\ <<>> \in Seq(EventName)
         /\ s # <<>> => Tail(s) \in Seq(EventName)
  OBVIOUS

(* A step from one place to another, and a change of the published state *)
LEMMA OpKept ==
  ASSUME op \in Op, NEW from \in Steps, NEW to \in Steps, Step(from, to)
  PROVE  op' \in Op
  BY OpMoves DEF Step

LEMMA StateKept ==
  ASSUME wifi \in Wifi, NEW s \in WifiState, set_wifi_state(s)
  PROVE  wifi' \in Wifi /\ pending' \in BOOLEAN
  BY WifiMoves DEF set_wifi_state
(* The counters stay in their bounds. *)
LEMMA ZeroAttempts == 0 \in 0 .. Attempts
  BY AttemptsAssumption

LEMMA CallsCounted ==
  ASSUME Typed, network_service_connect \/ network_service_disconnect
  PROVE  calls' \in 0 .. MaxCalls
  BY MaxCallsAssumption DEF Typed, network_service_connect, network_service_disconnect

(* Every step keeps the types: those of an update, ... *)
LEMMA AttemptTypes ==
  ASSUME IInv, Attempt
  PROVE  Typed'
<1> USE DEF Attempt, perform_attempt
<1>1. Typed /\ op.pc = "attempt" /\ tried = service.attempts
  BY TypedIsTypeOK DEF IInv, Rest, Counted
<1>2. service.attempts \in 0 .. Attempts
  BY <1>1, ServiceMoves DEF Typed, State
<1>3. CASE service.attempts < Attempts
  <2>1. service.attempts + 1 \in 0 .. Attempts
    BY <1>2, <1>3, AttemptsAssumption
  <2>2. /\ service' = [service EXCEPT !.attempts = service.attempts + 1, !.state = "CONNECTING"]
        /\ tried' = service.attempts + 1 /\ op' = [op EXCEPT !.pc = "connect"]
    BY <1>1, <1>3
  <2>3. service' \in Service /\ op' \in Op
    BY <1>1, <2>1, <2>2, ServiceMoves, OpMoves, Places DEF Typed
  <2> QED
    BY <1>1, <2>1, <2>2, <2>3 DEF Typed
<1>4. CASE ~(service.attempts < Attempts)
  <2>1. service' = [service EXCEPT !.state = "FAILED"] /\ op' = Free /\ tried' = tried
    BY <1>4 DEF set_failure
  <2>2. service' \in Service /\ op' \in Op
    BY <1>1, <1>2, <2>1, ServiceMoves, OpMoves, Places DEF Typed, State, CallName, Result
  <2> QED
    BY <1>1, <2>1, <2>2 DEF Typed
<1> QED
  BY <1>3, <1>4

LEMMA UpdateTypes ==
  ASSUME IInv,
         \/ UpdateBegin \/ Apply \/ Attempt \/ Tick
  PROVE  Typed'
<1>0. Typed
  BY TypedIsTypeOK DEF IInv
<1>1. CASE UpdateBegin
  <2>1. op' \in Op
    BY <1>0, <1>1, OpMoves DEF UpdateBegin, Typed
  <2> QED
    BY <1>0, <1>1, <2>1 DEF UpdateBegin, Typed
<1>2. CASE Apply
  <2>1. wifi.state \in WifiState
    BY <1>0 DEF Typed, Wifi
  <2>2. Seen(wifi.state) \in Service
    BY <1>0, <2>1, ServiceMoves DEF Seen, Typed, State, WifiState
  <2>3. TimerSeen(wifi.state) \in {"off", "running", "due"}
    BY <1>0 DEF TimerSeen, Typed
  <2>4. service' \in Service
    BY <1>0, <1>2, <2>2 DEF Apply, Typed
  <2>5. timer' \in {"off", "running", "due"}
    BY <1>0, <1>2, <2>3 DEF Apply, Typed
  <2>6. op' \in Op
    BY <1>0, <1>2, OpMoves, Places DEF Apply, Typed
  <2> QED
    BY <1>0, <1>2, <2>4, <2>5, <2>6 DEF Apply, Typed
<1>3. CASE Attempt
  BY <1>3, AttemptTypes
<1>4. CASE Tick
  BY <1>0, <1>4 DEF Tick, Typed
<1> QED
  BY <1>1, <1>2, <1>3, <1>4

(* ... of an explicit call, ... *)
LEMMA CallTypes ==
  ASSUME IInv,
         \/ network_service_connect \/ network_service_disconnect
         \/ network_service_shutdown
  PROVE  Typed'
<1>0. Typed
  BY TypedIsTypeOK DEF IInv
<1>1. CASE network_service_connect
  <2>1. service' \in Service
    BY <1>0, <1>1, ServiceMoves DEF network_service_connect, Typed, State
  <2>2. op' \in Op
    BY <1>0, <1>1, OpMoves DEF network_service_connect, Typed, CallName
  <2>3. calls' \in 0 .. MaxCalls
    BY <1>0, <1>1, CallsCounted
  <2> QED
    BY <1>0, <1>1, <2>1, <2>2, <2>3 DEF network_service_connect, Typed
<1>2. CASE network_service_disconnect
  <2>1. service' \in Service
    BY <1>0, <1>2, ServiceMoves DEF network_service_disconnect, Typed, State
  <2>2. op' \in Op
    BY <1>0, <1>2, OpMoves DEF network_service_disconnect, Typed, CallName
  <2>3. calls' \in 0 .. MaxCalls
    BY <1>0, <1>2, CallsCounted
  <2> QED
    BY <1>0, <1>2, <2>1, <2>2, <2>3 DEF network_service_disconnect, Typed
<1>3. CASE network_service_shutdown
  <2>1. service' \in Service
    BY <1>0, <1>3, ServiceMoves DEF network_service_shutdown, Typed, State
  <2>2. op' \in Op
    BY <1>0, <1>3, OpMoves DEF network_service_shutdown, Typed, CallName
  <2> QED
    BY <1>0, <1>3, <2>1, <2>2 DEF network_service_shutdown, Typed
<1> QED
  BY <1>1, <1>2, <1>3

(* ... of the platform's disconnect, ... *)
LEMMA DroppedTypes ==
  ASSUME IInv, Dropped
  PROVE  Typed'
<1>0. Typed
  BY TypedIsTypeOK DEF IInv
<1>1. UNCHANGED <<timer, pending, wifi, boot, link, events, handler, calls>>
  BY DEF Dropped
<1>2. CASE op.call = "connect"
  <2>1. /\ service' = [service EXCEPT !.attempts = 0, !.suppressed = FALSE]
        /\ op' = [op EXCEPT !.pc = "attempt"] /\ tried' = 0 /\ wish' = wish
    BY <1>2 DEF Dropped
  <2>2. service' \in Service /\ op' \in Op
    BY <1>0, <2>1, ServiceMoves, OpMoves, Places DEF Typed
  <2> QED
    BY <1>0, <1>1, <2>1, <2>2, ZeroAttempts DEF Typed
<1>3. CASE op.call = "disconnect"
  <2>1. /\ op' = Free /\ tried' = tried
        /\ \/ service' = [service EXCEPT !.state = "FAILED"]
           \/ service' = [service EXCEPT !.state = "OFFLINE"]
        /\ wish' \in {wish, "disconnect"}
    BY <1>3 DEF Dropped, set_failure
  <2>2. service' \in Service /\ op' \in Op
    BY <1>0, <2>1, ServiceMoves, OpMoves DEF Typed, State
  <2> QED
    BY <1>0, <1>1, <2>1, <2>2 DEF Typed
<1>4. CASE op.call = "shutdown"
  <2>1. op' = [op EXCEPT !.pc = "cancel"] /\ UNCHANGED <<service, wish, tried>>
    BY <1>4 DEF Dropped
  <2>2. op' \in Op
    BY <1>0, <2>1, OpMoves, Places DEF Typed
  <2> QED
    BY <1>0, <1>1, <2>1, <2>2 DEF Typed
<1> QED
  BY <1>2, <1>3, <1>4 DEF IInv, Rest, Calling, Dropped

LEMMA DisconnectTypes ==
  ASSUME IInv,
         \/ Dropped \/ Disconnect \/ Forget \/ ExpectEvent \/ Drop \/ Offline \/ Undo
  PROVE  Typed'
<1>0. Typed
  BY TypedIsTypeOK DEF IInv
<1>1. CASE Dropped
  BY <1>1, DroppedTypes
<1>2. CASE Disconnect
  BY <1>0, <1>2, OpKept, Places DEF Disconnect, Typed
<1>3. CASE Forget
  <2>1. op' \in Op
    BY <1>0, <1>3, OpKept, Places DEF Forget, Typed
  <2>2. wifi' \in Wifi
    BY <1>0, <1>3, WifiMoves DEF Forget, Typed
  <2> QED
    BY <1>0, <1>3, <2>1, <2>2 DEF Forget, Typed
<1>4. CASE ExpectEvent
  <2>1. op' \in Op
    BY <1>0, <1>4, OpKept, Places DEF ExpectEvent, Typed
  <2>2. wifi' \in Wifi
    BY <1>0, <1>4, WifiMoves DEF ExpectEvent, Typed
  <2> QED
    BY <1>0, <1>4, <2>1, <2>2 DEF ExpectEvent, Typed
<1>5. CASE Drop
  <2>1. PICK result \in Result :
          esp_wifi_disconnect(result) /\ op' = [op EXCEPT !.pc = "offline", !.result = result]
    BY <1>5 DEF Drop, Result
  <2>2. op' \in Op
    BY <1>0, <2>1, OpMoves DEF Typed
  <2>3. events' \in Seq(EventName) /\ link' \in {"idle", "joining", "joined"}
    BY <1>0, <2>1, EventLists DEF esp_wifi_disconnect, EventName, Typed
  <2> QED
    BY <1>0, <1>5, <2>2, <2>3 DEF Drop, Typed
<1>6. CASE Offline
  <2>1. op' \in Op
    BY <1>0, <1>6, OpKept, Places DEF Offline, Typed
  <2>2. wifi' \in Wifi /\ pending' \in BOOLEAN
    BY <1>0, <1>6, StateKept DEF Offline, Typed, WifiState
  <2> QED
    BY <1>0, <1>6, <2>1, <2>2 DEF Offline, Typed
<1>7. CASE Undo
  <2>1. op' \in Op
    BY <1>0, <1>7, OpKept, Places DEF Undo, Typed
  <2>2. \E b \in BOOLEAN : wifi' = [wifi EXCEPT !.dropping = b]
    BY <1>0, <1>7, WifiMoves DEF Undo, Typed
  <2>3. wifi' \in Wifi
    BY <1>0, <2>2, WifiMoves DEF Typed
  <2> QED
    BY <1>0, <1>7, <2>1, <2>3 DEF Undo, Typed
<1> QED
  BY <1>1, <1>2, <1>3, <1>4, <1>5, <1>6, <1>7

(* ... of its connect, ... *)
LEMMA ConnectTypes ==
  ASSUME IInv,
         \/ Connect \/ Starting \/ Remember \/ Announce \/ Clear \/ Connecting \/ Join
         \/ Failed \/ Refused
  PROVE  Typed'
<1>0. Typed
  BY TypedIsTypeOK DEF IInv
<1>1. CASE Connect
  BY <1>0, <1>1, OpKept, Places DEF Connect, Typed
<1>2. CASE Starting
  BY <1>0, <1>2, OpKept, Places DEF Starting, Typed
<1>3. CASE Remember
  <2>1. op' \in Op
    BY <1>0, <1>3, OpKept, Places DEF Remember, Typed
  <2>2. wifi' \in Wifi
    BY <1>0, <1>3, WifiMoves DEF Remember, Typed
  <2> QED
    BY <1>0, <1>3, <2>1, <2>2 DEF Remember, Typed
<1>4. CASE Announce
  <2>1. op' \in Op
    BY <1>0, <1>4, OpMoves DEF Announce, Typed
  <2>2. wifi' \in Wifi /\ pending' \in BOOLEAN
    BY <1>0, <1>4, StateKept DEF Announce, Typed, WifiState
  <2> QED
    BY <1>0, <1>4, <2>1, <2>2 DEF Announce, Typed
<1>5. CASE Clear
  <2>1. op' \in Op
    BY <1>0, <1>5, OpKept, Places DEF Clear, Typed
  <2>2. wifi' \in Wifi
    BY <1>0, <1>5, WifiMoves DEF Clear, Typed
  <2> QED
    BY <1>0, <1>5, <2>1, <2>2 DEF Clear, Typed
<1>6. CASE Connecting
  <2>1. op' \in Op
    BY <1>0, <1>6, OpKept, Places DEF Connecting, Typed
  <2>2. wifi' \in Wifi /\ pending' \in BOOLEAN
    BY <1>0, <1>6, StateKept DEF Connecting, Typed, WifiState
  <2> QED
    BY <1>0, <1>6, <2>1, <2>2 DEF Connecting, Typed
<1>7. CASE Join
  <2>1. op' = Free \/ op' = [op EXCEPT !.pc = "failed"]
    BY <1>7 DEF Join
  <2>2. Free \in Op /\ [op EXCEPT !.pc = "failed"] \in Op
    BY <1>0, OpMoves, Places DEF Typed
  <2>3. link' \in {"idle", "joining", "joined"}
    BY <1>0, <1>7 DEF Join, esp_wifi_connect, Typed
  <2>4. op' \in Op
    BY <2>1, <2>2
  <2> QED
    BY <1>0, <1>7, <2>3, <2>4 DEF Join, Typed
<1>8. CASE Failed
  <2>1. op' \in Op
    BY <1>0, <1>8, OpKept, Places DEF Failed, Typed
  <2>2. wifi' \in Wifi /\ pending' \in BOOLEAN
    BY <1>0, <1>8, StateKept DEF Failed, Typed, WifiState
  <2> QED
    BY <1>0, <1>8, <2>1, <2>2 DEF Failed, Typed
<1>9. CASE Refused
  <2>1. service' \in Service /\ op' \in Op
    BY <1>0, <1>9, ServiceMoves, OpMoves DEF Refused, set_failure, Typed, State
  <2> QED
    BY <1>0, <1>9, <2>1 DEF Refused, Typed
<1> QED
  BY <1>1, <1>2, <1>3, <1>4, <1>5, <1>6, <1>7, <1>8, <1>9

(* ... of its shutdown, ... *)
LEMMA ShutdownTypes ==
  ASSUME IInv,
         \/ CancelStartup \/ Unload
  PROVE  Typed'
<1>0. Typed
  BY TypedIsTypeOK DEF IInv
<1>1. CASE CancelStartup
  <2>1. op' \in Op
    BY <1>0, <1>1, OpKept, Places DEF CancelStartup, Typed
  <2>2. wifi' \in Wifi
    BY <1>0, <1>1, WifiMoves DEF CancelStartup, Typed
  <2> QED
    BY <1>0, <1>1, <2>1, <2>2 DEF CancelStartup, Typed
<1>2. CASE Unload
  <2>1. service' \in Service
    BY <1>0, <1>2, ServiceMoves DEF Unload, Typed
  <2>2. op' \in Op
    BY <1>0, <1>2, OpKept, Places DEF Unload, Typed
  <2>3. wifi' \in Wifi
    BY <1>0, <1>2, WifiMoves DEF Unload, Typed
  <2> QED
    BY <1>0, <1>2, <2>1, <2>2, <2>3, EventLists DEF Unload, UnloadDriver, EventName, Typed
<1> QED
  BY <1>1, <1>2

(* ... of the start-up task, ... *)
LEMMA StartupTypes ==
  ASSUME IInv,
         \/ Reset \/ Look \/ DriverFails \/ DriverStarts \/ ClearAtStart \/ Publish
         \/ LookAgain \/ GiveUp \/ TakeQueued \/ ConnectQueued \/ JoinQueued
         \/ NothingQueued \/ StartupFailed \/ Finish
  PROVE  Typed'
<1>0. Typed
  BY TypedIsTypeOK DEF IInv
<1>1. CASE Reset
  BY <1>0, <1>1 DEF Reset, Boots, Typed
<1>2. CASE Look
  BY <1>0, <1>2 DEF Look, Boots, Typed
<1>3. CASE DriverFails
  BY <1>0, <1>3 DEF DriverFails, Boots, Typed
<1>4. CASE DriverStarts
  <2>1. wifi' \in Wifi /\ pending' \in BOOLEAN
    BY <1>0, <1>4, StateKept DEF DriverStarts, Typed, WifiState
  <2> QED
    BY <1>0, <1>4, <2>1 DEF DriverStarts, Boots, Typed
<1>5. CASE ClearAtStart
  <2>1. wifi' \in Wifi
    BY <1>0, <1>5, WifiMoves DEF ClearAtStart, Typed
  <2> QED
    BY <1>0, <1>5, <2>1 DEF ClearAtStart, Boots, Typed
<1>6. CASE Publish
  <2>1. wifi' \in Wifi
    BY <1>0, <1>6, WifiMoves DEF Publish, Typed
  <2> QED
    BY <1>0, <1>6, <2>1 DEF Publish, Boots, Typed
<1>7. CASE LookAgain
  BY <1>0, <1>7 DEF LookAgain, Boots, Typed
<1>8. CASE GiveUp
  <2>1. wifi' \in Wifi
    BY <1>0, <1>8, WifiMoves DEF GiveUp, Typed
  <2> QED
    BY <1>0, <1>8, <2>1, EventLists DEF GiveUp, Boots, UnloadDriver, EventName, Typed
<1>9. CASE TakeQueued
  BY <1>0, <1>9 DEF TakeQueued, Boots, Typed
<1>10. CASE ConnectQueued
  <2>1. wifi' \in Wifi /\ pending' \in BOOLEAN
    BY <1>0, <1>10, StateKept DEF ConnectQueued, Typed, WifiState
  <2> QED
    BY <1>0, <1>10, <2>1 DEF ConnectQueued, Boots, Typed
<1>11. CASE JoinQueued
  BY <1>0, <1>11 DEF JoinQueued, esp_wifi_connect, Boots, Typed
<1>12. CASE NothingQueued
  <2>1. wifi' \in Wifi /\ pending' \in BOOLEAN
    BY <1>0, <1>12, StateKept DEF NothingQueued, Typed, WifiState
  <2> QED
    BY <1>0, <1>12, <2>1 DEF NothingQueued, Boots, Typed
<1>13. CASE StartupFailed
  <2>1. wifi' \in Wifi /\ pending' \in BOOLEAN
    BY <1>0, <1>13, StateKept DEF StartupFailed, Typed, WifiState
  <2> QED
    BY <1>0, <1>13, <2>1 DEF StartupFailed, Boots, Typed
<1>14. CASE Finish
  BY <1>0, <1>14 DEF Finish, Boots, Typed
<1> QED
  BY <1>1, <1>2, <1>3, <1>4, <1>5, <1>6, <1>7, <1>8, <1>9, <1>10, <1>11, <1>12, <1>13, <1>14

(* ... and of the station and its events. *)
LEMMA EventTypes ==
  ASSUME IInv,
         \/ AttemptEnds \/ LinkLost \/ Deliver \/ Store
  PROVE  Typed'
<1>0. Typed
  BY TypedIsTypeOK DEF IInv
<1>1. CASE AttemptEnds
  <2>1. /\ link' \in {"idle", "joined"}
        /\ \E e \in EventName : events' = Append(events, e)
    BY <1>1 DEF AttemptEnds, Report, EventName
  <2>2. events' \in Seq(EventName)
    BY <1>0, <2>1, EventLists DEF EventName, Typed
  <2>3. UNCHANGED <<service, timer, op, wish, tried, calls, pending, wifi, boot, handler>>
    BY <1>1 DEF AttemptEnds, Report
  <2> QED
    BY <1>0, <2>1, <2>2, <2>3 DEF Typed
<1>2. CASE LinkLost
  <2>1. /\ link' \in {"idle", "joined"}
        /\ \E e \in EventName : events' = Append(events, e)
    BY <1>2 DEF LinkLost, Report, EventName
  <2>2. events' \in Seq(EventName)
    BY <1>0, <2>1, EventLists DEF EventName, Typed
  <2> QED
    BY <1>0, <1>2, <2>1, <2>2 DEF LinkLost, Report, Typed
<1>3. CASE Deliver
  <2>1. events' \in Seq(EventName)
    BY <1>0, <1>3, EventLists DEF Deliver, EventName, Typed
  <2>2. wifi' \in Wifi
    BY <1>0, <1>3, WifiMoves DEF Deliver, Typed
  <2>3. handler' \in {"idle", "OFFLINE", "FAILED", "ONLINE"}
    BY <1>3 DEF Deliver
  <2> QED
    BY <1>0, <1>3, <2>1, <2>2, <2>3 DEF Deliver, Typed
<1>4. CASE Store
  <2>1. wifi' \in Wifi /\ pending' \in BOOLEAN
    BY <1>0, <1>4, StateKept DEF Store, Typed, WifiState
  <2> QED
    BY <1>0, <1>4, <2>1 DEF Store, Typed
<1> QED
  BY <1>1, <1>2, <1>3, <1>4

-----------------------------------------------------------------------------
(* Every step keeps the rest: those of an update, ... *)
LEMMA ApplyInv ==
  ASSUME IInv, Apply
  PROVE  Rest'
<1> USE DEF IInv, Rest
<1> DEFINE polled == IF op.asked THEN TimerSeen(wifi.state) ELSE timer
<1>0. /\ service \in Service /\ op \in Op /\ op.pc = "apply"
      /\ UNCHANGED <<wifi, boot, link, events, handler, wish, tried, calls>>
  BY TypedIsTypeOK DEF Typed, Apply
<1>1. /\ service'.attempts = service.attempts /\ service'.suppressed = service.suppressed
      /\ service'.state = "CONNECTING" => "CONNECTING" \in {service.state, wifi.state}
  BY <1>0 DEF Apply, Seen, Service
<1>2. /\ timer' = (IF polled = "due" THEN "off" ELSE polled)
      /\ op' = IF polled = "due" THEN [op EXCEPT !.pc = "attempt"] ELSE Free
  BY DEF Apply
<1>3. wish # "connect" => polled = "off"
  <2>1. wish # "connect" => timer = "off"
    BY DEF Retries
  <2>2. wish # "connect" => service.suppressed \/ service.state # "CONNECTING"
    BY DEF Untouched
  <2> QED
    BY <2>1, <2>2 DEF TimerSeen
<1> HIDE DEF polled
<1>4. /\ op'.pc = (IF polled = "due" THEN "attempt" ELSE "free")
      /\ op'.call = IF polled = "due" THEN op.call ELSE "none"
  BY <1>0, <1>2 DEF Op, Free
<1>5. Counted' /\ Untouched'
  BY <1>0, <1>1, <1>3, <1>4 DEF Counted, Untouched
<1>6. Retries' /\ Wanted' /\ Calling' /\ Joined'
  BY <1>0, <1>2, <1>3, <1>4 DEF Retries, Wanted, Calling, Joined
<1> QED
  BY <1>5, <1>6

LEMMA AttemptInv ==
  ASSUME IInv, Attempt
  PROVE  Rest'
<1> USE DEF IInv, Rest
<1>0. /\ service \in Service /\ op \in Op /\ op.pc = "attempt" /\ wish = "connect"
      /\ UNCHANGED <<timer, pending, wifi, boot, link, events, handler, wish, calls>>
      /\ tried = service.attempts /\ service.attempts \in 0 .. Attempts
  BY TypedIsTypeOK DEF Typed, Attempt, Retries, Counted, Service
<1>1. service'.attempts = tried'
  <2>1. CASE service.attempts < Attempts
    BY <1>0, <2>1 DEF Attempt, perform_attempt, Service
  <2>2. CASE ~(service.attempts < Attempts)
    BY <1>0, <2>2 DEF Attempt, perform_attempt, set_failure, Service
  <2> QED
    BY <2>1, <2>2
<1>2. op' = Free \/ op' = [op EXCEPT !.pc = "connect"]
  BY DEF Attempt, perform_attempt
<1>3. /\ op'.pc \in {"connect", "free"}
      /\ op'.pc # "free" => op'.call = op.call
  BY <1>0, <1>2 DEF Op, Free
<1> QED
  BY <1>0, <1>1, <1>3 DEF Counted, Untouched, Retries, Wanted, Calling, Joined

(* ... of a call whose platform has disconnected, ... *)
LEMMA DroppedInv ==
  ASSUME IInv, Dropped
  PROVE  Rest'
<1> USE DEF IInv, Rest
<1>0. /\ service \in Service /\ op \in Op /\ op.pc = "dropped"
      /\ op.call \in {"connect", "disconnect", "shutdown"}
      /\ UNCHANGED <<timer, pending, wifi, boot, link, events, handler, calls>>
  BY TypedIsTypeOK DEF Typed, Dropped, Calling
<1>1. CASE op.call = "connect"
  <2>1. /\ service'.attempts = 0 /\ tried' = 0 /\ op'.pc = "attempt" /\ op'.call = "connect"
        /\ wish = "connect" /\ wish' = wish
    BY <1>0, <1>1 DEF Dropped, Service, Op, Wanted
  <2> QED
    BY <1>0, <2>1 DEF Counted, Untouched, Retries, Wanted, Calling, Joined
<1>2. CASE op.call = "disconnect"
  <2>1. /\ service'.attempts = service.attempts /\ tried' = tried /\ op' = Free
        /\ service'.suppressed = service.suppressed
        /\ wish # "connect" /\ wish' # "connect"
    BY <1>0, <1>2 DEF Dropped, set_failure, Service, Wanted
  <2>2. service.suppressed
    BY <1>0, <2>1 DEF Untouched
  <2> QED
    BY <1>0, <2>1, <2>2 DEF Counted, Untouched, Retries, Wanted, Calling, Joined, Free
<1>3. CASE op.call = "shutdown"
  <2>1. UNCHANGED <<service, wish, tried>> /\ op'.pc = "cancel" /\ op'.call = "shutdown"
    BY <1>0, <1>3 DEF Dropped, Op
  <2> QED
    BY <1>0, <2>1 DEF Counted, Untouched, Retries, Wanted, Calling, Joined
<1> QED
  BY <1>0, <1>1, <1>2, <1>3

(* ... of an update as a whole, ... *)
LEMMA UpdateInv ==
  ASSUME IInv,
         \/ UpdateBegin \/ Apply \/ Attempt \/ Tick
  PROVE  Rest'
<1> USE AttemptsAssumption
        DEF IInv, TypeOK, Rest, Counted, Untouched, Retries, Wanted, Calling, Joined,
            Step, Boots, set_wifi_state
<1>1. CASE UpdateBegin
  BY <1>1 DEF UpdateBegin, Free
<1>2. CASE Apply
  BY <1>2, ApplyInv
<1>3. CASE Attempt
  BY <1>3, AttemptInv
<1>4. CASE Tick
  BY <1>4 DEF Tick
<1> QED
  BY <1>1, <1>2, <1>3, <1>4

(* ... of an explicit call, ... *)
LEMMA CallInv ==
  ASSUME IInv,
         \/ network_service_connect \/ network_service_disconnect \/ network_service_shutdown
  PROVE  Rest'
<1> USE AttemptsAssumption
        DEF IInv, TypeOK, Rest, Counted, Untouched, Retries, Wanted, Calling, Joined,
            Step, Boots, set_wifi_state
<1>1. CASE network_service_connect
  BY <1>1 DEF network_service_connect, Free
<1>2. CASE network_service_disconnect
  BY <1>2 DEF network_service_disconnect, Free
<1>3. CASE network_service_shutdown
  BY <1>3 DEF network_service_shutdown, Free
<1> QED
  BY <1>1, <1>2, <1>3

(* ... of the platform's disconnect, ... *)
LEMMA DisconnectInv ==
  ASSUME IInv,
         \/ Dropped \/ Disconnect \/ Forget \/ ExpectEvent \/ Drop \/ Offline \/ Undo
  PROVE  Rest'
<1> USE AttemptsAssumption
        DEF IInv, TypeOK, Rest, Counted, Untouched, Retries, Wanted, Calling, Joined,
            Step, Boots, set_wifi_state
<1>1. CASE Dropped
  BY <1>1, DroppedInv
<1>2. CASE Disconnect
  BY <1>2 DEF Disconnect
<1>3. CASE Forget
  BY <1>3 DEF Forget
<1>4. CASE ExpectEvent
  BY <1>4 DEF ExpectEvent
<1>5. CASE Drop
  BY <1>5 DEF Drop, esp_wifi_disconnect
<1>6. CASE Offline
  BY <1>6 DEF Offline
<1>7. CASE Undo
  BY <1>7 DEF Undo
<1> QED
  BY <1>1, <1>2, <1>3, <1>4, <1>5, <1>6, <1>7

(* ... of its connect, ... *)
LEMMA ConnectInv ==
  ASSUME IInv,
         \/ Connect \/ Starting \/ Remember \/ Announce \/ Clear \/ Connecting \/ Join
         \/ Failed \/ Refused
  PROVE  Rest'
<1> USE AttemptsAssumption
        DEF IInv, TypeOK, Rest, Counted, Untouched, Retries, Wanted, Calling, Joined,
            Step, Boots, set_wifi_state
<1>1. CASE Connect
  BY <1>1 DEF Connect
<1>2. CASE Starting
  BY <1>2 DEF Starting
<1>3. CASE Remember
  BY <1>3 DEF Remember
<1>4. CASE Announce
  BY <1>4 DEF Announce, Free
<1>5. CASE Clear
  BY <1>5 DEF Clear
<1>6. CASE Connecting
  BY <1>6 DEF Connecting
<1>7. CASE Join
  BY <1>7 DEF Join, esp_wifi_connect, Free
<1>8. CASE Failed
  BY <1>8 DEF Failed
<1>9. CASE Refused
  BY <1>9 DEF Refused, Free, set_failure
<1> QED
  BY <1>1, <1>2, <1>3, <1>4, <1>5, <1>6, <1>7, <1>8, <1>9

(* ... of its shutdown, ... *)
LEMMA ShutdownInv ==
  ASSUME IInv,
         \/ CancelStartup \/ Unload
  PROVE  Rest'
<1> USE AttemptsAssumption
        DEF IInv, TypeOK, Rest, Counted, Untouched, Retries, Wanted, Calling, Joined,
            Step, Boots, set_wifi_state
<1>1. CASE CancelStartup
  BY <1>1 DEF CancelStartup
<1>2. CASE Unload
  BY <1>2 DEF Unload, UnloadDriver
<1> QED
  BY <1>1, <1>2

(* ... of the start-up task, ... *)
LEMMA StartupInv ==
  ASSUME IInv,
         \/ Reset \/ Look \/ DriverFails \/ DriverStarts \/ ClearAtStart \/ Publish
         \/ LookAgain \/ GiveUp \/ TakeQueued \/ ConnectQueued \/ JoinQueued
         \/ NothingQueued \/ StartupFailed \/ Finish
  PROVE  Rest'
<1> USE AttemptsAssumption
        DEF IInv, TypeOK, Rest, Counted, Untouched, Retries, Wanted, Calling, Joined,
            Step, Boots, set_wifi_state
<1>1. CASE Reset
  BY <1>1 DEF Reset
<1>2. CASE Look
  BY <1>2 DEF Look
<1>3. CASE DriverFails
  BY <1>3 DEF DriverFails
<1>4. CASE DriverStarts
  BY <1>4 DEF DriverStarts
<1>5. CASE ClearAtStart
  BY <1>5 DEF ClearAtStart
<1>6. CASE Publish
  BY <1>6 DEF Publish
<1>7. CASE LookAgain
  BY <1>7 DEF LookAgain
<1>8. CASE GiveUp
  BY <1>8 DEF GiveUp, UnloadDriver
<1>9. CASE TakeQueued
  BY <1>9 DEF TakeQueued
<1>10. CASE ConnectQueued
  BY <1>10 DEF ConnectQueued
<1>11. CASE JoinQueued
  BY <1>11 DEF JoinQueued, esp_wifi_connect
<1>12. CASE NothingQueued
  BY <1>12 DEF NothingQueued
<1>13. CASE StartupFailed
  BY <1>13 DEF StartupFailed
<1>14. CASE Finish
  BY <1>14 DEF Finish
<1> QED
  BY <1>1, <1>2, <1>3, <1>4, <1>5, <1>6, <1>7, <1>8, <1>9, <1>10, <1>11, <1>12, <1>13, <1>14

(* ... and of the station and its events. *)
LEMMA EventInv ==
  ASSUME IInv,
         \/ AttemptEnds \/ LinkLost \/ Deliver \/ Store
  PROVE  Rest'
<1> USE AttemptsAssumption
        DEF IInv, TypeOK, Rest, Counted, Untouched, Retries, Wanted, Calling, Joined,
            Step, Boots, set_wifi_state
<1>1. CASE AttemptEnds
  BY <1>1 DEF AttemptEnds, Report
<1>2. CASE LinkLost
  BY <1>2 DEF LinkLost, Report
<1>3. CASE Deliver
  BY <1>3 DEF Deliver
<1>4. CASE Store
  BY <1>4 DEF Store
<1> QED
  BY <1>1, <1>2, <1>3, <1>4

-----------------------------------------------------------------------------
(* The inductive invariant *)
LEMMA InitInv == Init => IInv
<1> SUFFICES ASSUME Init PROVE IInv
  OBVIOUS
<1>1. 0 \in 0 .. Attempts /\ 1 \in 0 .. Attempts /\ 0 \in 0 .. MaxCalls
  BY AttemptsAssumption, MaxCallsAssumption
<1>2. TypeOK
  <2>1. Free \in Op /\ [Free EXCEPT !.pc = "connect", !.call = "update"] \in Op
    BY Places DEF Free, Op, CallName, Result
  <2>2. op \in Op
    BY <2>1 DEF Init
  <2>3. service \in Service
    BY <1>1 DEF Init, Service, State
  <2>4. tried \in 0 .. Attempts
    BY <1>1 DEF Init
  <2>5. wifi \in Wifi
    BY DEF Init, Wifi, WifiState
  <2> QED
    BY <1>1, <2>2, <2>3, <2>4, <2>5, TypedIsTypeOK DEF Init, Typed
<1>3. Rest
  BY DEF Init, Free, Rest, Counted, Untouched, Retries, Wanted, Calling, Joined
<1> QED
  BY <1>2, <1>3 DEF IInv

LEMMA StepInv == IInv /\ [Next]_vars => IInv'
<1> SUFFICES ASSUME IInv, [Next]_vars PROVE IInv'
  OBVIOUS
<1>0. Typed' /\ Rest' => IInv'
  BY TypedIsTypeOK DEF IInv, Typed, TypeOK, State, Service, CallName, Result, Op, WifiState,
     Wifi, EventName
<1>1. CASE Next
  <2>1. CASE Update \/ Tick
    BY <1>0, <2>1, UpdateTypes, UpdateInv DEF Update
  <2>2. CASE Call
    BY <1>0, <2>2, CallTypes, CallInv DEF Call
  <2>3. CASE Operation
    BY <1>0, <2>3, DisconnectTypes, ConnectTypes, ShutdownTypes, DisconnectInv, ConnectInv,
       ShutdownInv DEF Operation
  <2>4. CASE Startup
    BY <1>0, <2>4, StartupTypes, StartupInv DEF Startup
  <2>5. CASE AttemptEnds \/ LinkLost \/ Events
    BY <1>0, <2>5, EventTypes, EventInv DEF Events
  <2> QED
    BY <1>1, <2>1, <2>2, <2>3, <2>4, <2>5 DEF Next
<1>2. CASE UNCHANGED vars
  BY <1>2 DEF vars, IInv, TypeOK, Rest, Counted, Untouched, Retries, Wanted, Calling, Joined
<1> QED
  BY <1>1, <1>2

THEOREM Invariance == Spec => []IInv
<1>1. IInv /\ [Next]_vars => IInv'
  BY StepInv
<1> QED
  BY <1>1, InitInv, PTL DEF Spec

(* The service asks the platform for no more connections than it may try since
   the last explicit request, and for none that nobody wants any more. *)
THEOREM AttemptsAreWanted == Spec => []OnlyWantedAttempts
<1>1. IInv => OnlyWantedAttempts
  BY AttemptsAssumption DEF IInv, TypeOK, Rest, Retries, OnlyWantedAttempts
<1> QED
  BY <1>1, Invariance, PTL

(* After a shutdown no task and no event touches the state of the platform. *)
THEOREM NobodyIsLeft == Spec => QuietAfterShutdown
<1> DEFINE Left == op.pc = "down" => UNCHANGED <<wifi, pending, handler>>
<1>1. ASSUME IInv, [Next]_vars
      PROVE  Left
  <2> SUFFICES ASSUME op.pc = "down" PROVE UNCHANGED <<wifi, pending, handler>>
    OBVIOUS
  <2>1. boot = "finished" /\ handler = "idle" /\ events = <<>>
    BY <1>1 DEF IInv, Rest, Joined
  <2>2. CASE Update \/ Call \/ Operation
    BY <2>2 DEF Update, UpdateBegin, Apply, Attempt, Call, network_service_connect,
       network_service_disconnect, network_service_shutdown, Operation, Dropped, Disconnect,
       Forget, ExpectEvent, Drop, Offline, Undo, Connect, Starting, Remember, Announce, Clear,
       Connecting, Join, Failed, Refused, CancelStartup, Unload, Step
  <2>3. CASE Startup
    BY <2>1, <2>3 DEF Startup, Reset, Look, DriverFails, DriverStarts, ClearAtStart, Publish,
       LookAgain, GiveUp, TakeQueued, ConnectQueued, JoinQueued, NothingQueued, StartupFailed,
       Finish, Boots
  <2>4. CASE Tick \/ AttemptEnds \/ LinkLost
    BY <2>4 DEF Tick, AttemptEnds, LinkLost, Report
  <2>5. CASE Events
    BY <2>1, <2>5 DEF Events, Deliver, Store
  <2>6. CASE UNCHANGED vars
    BY <2>6 DEF vars
  <2> QED
    BY <1>1, <2>2, <2>3, <2>4, <2>5, <2>6 DEF Next
<1> HIDE DEF Left
<1>2. IInv /\ [Next]_vars => [Left]_vars
  BY <1>1
<1> QED
  BY <1>2, Invariance, PTL DEF Spec, QuietAfterShutdown, Left
====
