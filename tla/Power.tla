-------------------------------- MODULE Power --------------------------------
(***************************************************************************)
(* The power manager of the kernel (kernel/power.c): inactivity, the three *)
(* dimming stages of the display, and the coordinated suspend and resume   *)
(* of registered participants with its rollback. It is driven by passes of *)
(* the runtime thread (kernel_runtime_update, kernel/runtime.c), while any *)
(* thread may ask for a suspend and participants answer on threads of      *)
(* their own. A pass is split at the calls it makes; the fields under the  *)
(* manager's mutex are the ones other threads touch between two of them.   *)
(***************************************************************************)
EXTENDS Integers, SequencesExt

CONSTANTS
  Setups,         \* what the system may be started with, see Setup
  Policies,       \* the policies given at start and by set_policy
  TimeLimit,      \* UINT64_MAX: saturated deadlines and POWER ... DEADLINE_NONE
  MaxTime         \* bound: the clock stops here

(* deps: the participants in the order of registration, each with the sequence
   of those it depends on, 0 for a missing one; suspends: bound on the suspends
   started; faulty: writes to the display may fail. *)
Setup ==
  [deps : Seq(Seq(Nat)), suspends : Nat, faulty : BOOLEAN]

PolicyRecord ==
  [active : Nat, dim : Nat, idleAfter : Nat, screenOffAfter : Nat,
   panelOffAfter : Nat, suspendAfter : Nat, automatic : BOOLEAN]

policy_ok(policy) ==
  /\ policy.screenOffAfter = 0 \/ policy.screenOffAfter >= policy.idleAfter
  /\ policy.panelOffAfter = 0 \/ (/\ policy.screenOffAfter # 0
                                  /\ policy.panelOffAfter >= policy.screenOffAfter)

ASSUME SetupsAssumption ==
  Setups \subseteq Setup
  /\ \A s \in Setups : \A p \in DOMAIN s.deps : s.deps[p] \in Seq(0 .. Len(s.deps))
ASSUME PoliciesAssumption ==
  Policies \subseteq PolicyRecord /\ \A policy \in Policies : policy_ok(policy)
ASSUME TimeAssumption ==
  TimeLimit \in Nat /\ MaxTime \in Nat /\ MaxTime < TimeLimit

VARIABLES
  now,        \* platform_time_ms
  setup,      \* the participants registered, and this run's bounds
  order,      \* dependency_order
  walk,       \* power_manager_finalize: marks, nested calls of visit, its loop
  available,  \* suspend_available
  state,      \* status.state
  phase,      \* what drive does next
  cursor,     \* how many participants that phase is done with
  suspended,  \* the participants suspended so far, in that order
  generation, \* status.generation
  last,       \* last_activity_ms
  policy,     \* status.policy
  inhibited,  \* dim_inhibitors # 0
  panicked,   \* the process system panicked
  display,    \* what was asked of the display, what is believed, what it is
  requested,  \* suspend_requested
  expected,   \* the token of the answer waited for
  answer,     \* completion_ready and completion_result
  part,       \* the participants themselves; "failed": its last callback, or its
              \* answer to it, was a failure, and what it is in is its own affair
  wake,       \* the platform has a wake cause to collect
  notified,   \* the POWER event is pending
  call        \* the pass of the runtime thread

clock == <<now, last, policy>>
graph == <<setup, order, available, walk>>
transition == <<phase, cursor, suspended, generation>>
completion == <<expected, answer>>
vars == <<now, setup, order, available, walk, state, phase, cursor, suspended,
          generation, last, policy, inhibited, panicked, display, requested,
          expected, answer, part, wake, notified, call>>

deps == setup.deps
Count == Len(deps)
Participants == 1 .. Count
MaxGeneration == setup.suspends
Faulty == setup.faulty

States == {"ACTIVE", "IDLE", "SUSPENDING", "SUSPENDED", "RESUMING", "SHUTTING_DOWN"}
Between == {"SUSPENDING", "SUSPENDED", "RESUMING"}
Operations == {"suspend", "resume"}
Tokens == [generation : Nat, participant : Nat, operation : Operations]

TypeOK ==
  /\ now \in 0 .. MaxTime /\ last \in 0 .. MaxTime
  /\ setup \in Setups /\ order \in Seq(Participants) /\ available \in BOOLEAN
  /\ walk \in [mark : [Participants -> 0 .. 2],
               path : Seq([of : Participants, next : Nat \ {0}]), root : 1 .. Count + 1]
  /\ state \in States
  /\ phase \in {"NONE", "SUSPEND", "WAIT_SUSPEND", "SLEEP", "RESUME", "WAIT_RESUME"}
  /\ cursor \in 0 .. Count /\ suspended \in Seq(Participants)
  /\ Len(suspended) <= Count
  /\ generation \in 0 .. MaxGeneration
  /\ policy \in Policies
  /\ inhibited \in BOOLEAN /\ panicked \in BOOLEAN
  /\ display \in [desired : Nat, brightness : Nat, brightnessValid : BOOLEAN,
                  enabled : BOOLEAN, enabledValid : BOOLEAN, screenOff : BOOLEAN,
                  panelOff : BOOLEAN, lamp : Nat, panel : BOOLEAN]
  /\ requested \in BOOLEAN /\ wake \in BOOLEAN /\ notified \in BOOLEAN
  /\ expected \in Tokens
  /\ answer \in {"none", "success", "failure"}
  /\ part \in [Participants -> {"up", "stopping", "down", "starting", "failed"}]
  /\ call \in [pc : {"finalize", "none", "inhibit", "take", "deadline", "wake", "start", "drive",
                     "done"},
               first : BOOLEAN, deadline : BOOLEAN, power : BOOLEAN,
               active : BOOLEAN, request : BOOLEAN]

-----------------------------------------------------------------------------
(* The display. A write that fails may or may not have reached the panel.    *)

add(a, b) == IF a + b > TimeLimit THEN TimeLimit ELSE a + b

Done(d) == [ok |-> TRUE, to |-> d]
Failed(d) == [ok |-> FALSE, to |-> d]

set_brightness(d, brightness) ==
  LET wanted == [d EXCEPT !.desired = brightness]
      unknown == [wanted EXCEPT !.brightnessValid = FALSE]
  IN IF d.brightnessValid /\ d.brightness = brightness THEN {Done(wanted)}
     ELSE {Done([wanted EXCEPT !.brightness = brightness,
                               !.brightnessValid = TRUE, !.lamp = brightness])}
          \cup {Failed([unknown EXCEPT !.lamp = l]) :
                  l \in IF Faulty THEN {d.lamp, brightness} ELSE {}}

set_panel(d, enabled) ==
  IF d.enabledValid /\ d.enabled = enabled THEN {Done(d)}
  ELSE {Done([d EXCEPT !.enabled = enabled, !.enabledValid = TRUE, !.panel = enabled])}
       \cup {Failed([d EXCEPT !.enabledValid = FALSE, !.panel = e]) :
               e \in IF Faulty THEN {d.panel, enabled} ELSE {}}

(* Mutant: the panel is switched off first. *)
set_display_panel_first(d, brightness, enabled) ==
  LET wanted == [d EXCEPT !.desired = brightness]
  IN UNION {IF r.ok THEN {s.to : s \in set_brightness(r.to, IF enabled THEN brightness ELSE 0)}
            ELSE {r.to} : r \in set_panel(wanted, enabled)}

(* The backlight is out before the panel is switched off, and the panel on
   before the backlight. *)
set_display(d, brightness, enabled) ==
  LET wanted == [d EXCEPT !.desired = brightness]
  IN IF enabled
     THEN UNION {IF r.ok THEN {s.to : s \in set_brightness(r.to, brightness)}
                 ELSE {r.to} : r \in set_panel(wanted, TRUE)}
     ELSE UNION {IF r.ok THEN {s.to : s \in set_panel(r.to, FALSE)}
                 ELSE {r.to} : r \in set_brightness(wanted, 0)}

restore_display(d, q) ==
  set_display([d EXCEPT !.screenOff = FALSE, !.panelOff = FALSE], q.active, TRUE)

idle_brightness(q) == IF q.dim < q.active THEN q.dim ELSE q.active

apply_idle_display(d, q) ==
  LET off(after) == after # 0 /\ now >= add(last, after)
  IN set_display([d EXCEPT !.screenOff = off(q.screenOffAfter),
                           !.panelOff = off(q.panelOffAfter)],
                 IF off(q.screenOffAfter) THEN 0 ELSE idle_brightness(q),
                 ~off(q.panelOffAfter))

RestoreDisplay == display' \in restore_display(display, policy)
ApplyIdleDisplay == display' \in apply_idle_display(display, policy)

power_manager_next_deadline ==
  LET due(enabled, after) == IF enabled THEN {add(last, after)} ELSE {}
      stages == due(~display.screenOff /\ policy.screenOffAfter # 0, policy.screenOffAfter)
                \cup due(~display.panelOff /\ policy.panelOffAfter # 0, policy.panelOffAfter)
                \cup due(policy.automatic, policy.suspendAfter)
  IN IF inhibited THEN TimeLimit
     ELSE IF state = "ACTIVE" THEN add(last, policy.idleAfter)
     ELSE IF state = "IDLE" THEN Min(stages \cup {TimeLimit})
     ELSE TimeLimit

-----------------------------------------------------------------------------
NoCall == [pc |-> "none", first |-> FALSE, deadline |-> FALSE, power |-> FALSE,
           active |-> FALSE, request |-> FALSE]

NoToken == [generation |-> 0, participant |-> 0, operation |-> "suspend"]

(* power_manager_init, and the participants that are registered then. *)
Init ==
  /\ now = 0 /\ last = 0
  /\ setup \in Setups
  /\ order = <<>> /\ available = TRUE
  /\ walk = [mark |-> [p \in Participants |-> 0], path |-> <<>>, root |-> 1]
  /\ state = "ACTIVE" /\ phase = "NONE" /\ cursor = 0
  /\ suspended = <<>> /\ generation = 0
  /\ policy \in Policies
  /\ inhibited = FALSE /\ panicked = FALSE
  /\ display \in restore_display(
                   [desired |-> 0, brightness |-> 0, brightnessValid |-> FALSE,
                    enabled |-> FALSE, enabledValid |-> FALSE, screenOff |-> FALSE,
                    panelOff |-> FALSE, lamp |-> 0, panel |-> FALSE], policy)
  /\ requested = FALSE
  /\ expected = NoToken /\ answer = "none"
  /\ part = [p \in Participants |-> "up"]
  /\ wake = FALSE /\ notified = FALSE
  /\ call = [NoCall EXCEPT !.pc = "finalize"]

Goto(pc) == call' = [call EXCEPT !.pc = pc]

-----------------------------------------------------------------------------
(* power_manager_finalize: visit puts a participant behind all it depends on.
   walk.path holds the calls of visit that have not returned, each with the
   dependency it looks at next; one that fails makes those around it fail. *)

Finalizing ==
  /\ call.pc = "finalize"
  /\ UNCHANGED <<clock, setup, state, transition, inhibited, panicked, display,
                 requested, completion, part, wake, notified>>

BackToLoop(w) == IF w.path = <<>> THEN [w EXCEPT !.root = @ + 1] ELSE w

visit(p, callers) ==
  IF p = 0 \/ walk.mark[p] = 1
  THEN /\ walk' = [walk EXCEPT !.path = <<>>, !.root = @ + 1]
       /\ available' = FALSE
  ELSE /\ walk' = IF walk.mark[p] = 2 THEN BackToLoop([walk EXCEPT !.path = callers])
                  ELSE [walk EXCEPT !.mark[p] = 1,
                                    !.path = Append(callers, [of |-> p, next |-> 1])]
       /\ UNCHANGED available

VisitNext ==
  /\ Finalizing /\ walk.path = <<>> /\ walk.root <= Count
  /\ visit(walk.root, <<>>)
  /\ UNCHANGED <<order, call>>

VisitDependency ==
  /\ Finalizing /\ walk.path # <<>>
  /\ LET top == Last(walk.path)
     IN /\ top.next <= Len(deps[top.of])
        /\ visit(deps[top.of][top.next],
                 Append(Front(walk.path), [top EXCEPT !.next = @ + 1]))
  /\ UNCHANGED <<order, call>>

VisitReturns ==
  /\ Finalizing /\ walk.path # <<>>
  /\ LET top == Last(walk.path)
     IN /\ top.next > Len(deps[top.of])
        /\ walk' = BackToLoop([walk EXCEPT !.mark[top.of] = 2, !.path = Front(@)])
        /\ order' = Append(order, top.of)
  /\ UNCHANGED <<available, call>>

Finalized ==
  /\ Finalizing /\ walk.path = <<>> /\ walk.root > Count
  /\ Goto("none")
  /\ UNCHANGED <<order, available, walk>>

-----------------------------------------------------------------------------
(* One pass of kernel_runtime_update. In the middle of a transition the
   manager alone is updated; when that ended the transition, the pass goes on
   with the same events. *)

Tick ==
  /\ call.pc = "none" /\ now < MaxTime
  /\ now' = now + 1
  /\ UNCHANGED <<last, policy, graph, state, transition, inhibited, panicked,
                 display, requested, completion, part, wake, notified, call>>

BeginPass ==
  /\ call.pc = "none"
  /\ state # "SHUTTING_DOWN"
  /\ \E deadline \in BOOLEAN :
       /\ now >= power_manager_next_deadline => deadline
       /\ call' = [NoCall EXCEPT !.pc = IF state \in Between THEN "take" ELSE "inhibit",
                                 !.first = state \in Between,
                                 !.deadline = deadline, !.power = notified]
  /\ notified' = FALSE
  /\ UNCHANGED <<clock, graph, state, transition, inhibited, panicked, display,
                 requested, completion, part, wake>>

(* power_manager_set_dim_inhibitors. *)
SetInhibited(wanted) ==
  /\ inhibited' = wanted
  /\ IF wanted THEN RestoreDisplay ELSE UNCHANGED display
  /\ last' = IF inhibited /\ ~wanted THEN now ELSE last
  /\ state' = IF (wanted \/ inhibited) /\ state = "IDLE" THEN "ACTIVE" ELSE state

(* The services are sampled. A contact counts only until the panel is to be
   off; the keyboard always does. *)
Inhibit ==
  /\ call.pc = "inhibit"
  /\ \E key, held, touch, contact \in BOOLEAN :
       LET touches == ~display.panelOff
       IN /\ SetInhibited(panicked \/ held \/ (contact /\ touches))
          /\ call' = [call EXCEPT !.pc = "take",
                                  !.active = key \/ (touch /\ touches)]
          /\ notified' = (notified \/ key \/ (touch /\ touches))
  /\ UNCHANGED <<now, policy, graph, transition, panicked, requested, completion,
                 part, wake>>

(* power_manager_update: what was asked for is taken, activity first. *)
Take ==
  /\ call.pc = "take"
  /\ requested' = FALSE
  /\ call' = [call EXCEPT !.pc = "deadline", !.request = requested, !.active = FALSE]
  /\ last' = IF call.active THEN now ELSE last
  /\ state' = IF call.active /\ state = "IDLE" THEN "ACTIVE" ELSE state
  /\ IF call.active /\ state \in {"ACTIVE", "IDLE"}
     THEN RestoreDisplay
     ELSE UNCHANGED display
  /\ UNCHANGED <<now, policy, graph, transition, inhibited, panicked, completion,
                 part, wake, notified>>

(* Mutant: the deadline of any service dims the display. *)
DeadlineOfAny ==
  /\ call.pc = "deadline"
  /\ LET due == call.deadline /\ state \in {"ACTIVE", "IDLE"}
     IN /\ state' = IF due THEN "IDLE" ELSE state
        /\ IF due THEN ApplyIdleDisplay ELSE UNCHANGED display
        /\ call' = [call EXCEPT !.pc = "wake"]
  /\ UNCHANGED <<clock, graph, transition, inhibited, panicked, requested,
                 completion, part, wake, notified>>

(* Mutant: a stage is entered when its deadline has passed, not when it is due. *)
DeadlineLate ==
  /\ call.pc = "deadline"
  /\ LET due == call.deadline /\ now > power_manager_next_deadline
                /\ state \in {"ACTIVE", "IDLE"}
     IN /\ state' = IF due THEN "IDLE" ELSE state
        /\ IF due THEN ApplyIdleDisplay ELSE UNCHANGED display
        /\ call' = [call EXCEPT !.pc = "wake"]
  /\ UNCHANGED <<clock, graph, transition, inhibited, panicked, requested,
                 completion, part, wake, notified>>

Deadline ==
  /\ call.pc = "deadline"
  /\ LET reached == call.deadline /\ now >= power_manager_next_deadline
         due == reached /\ state \in {"ACTIVE", "IDLE"}
     IN /\ state' = IF due THEN "IDLE" ELSE state
        /\ IF due THEN ApplyIdleDisplay ELSE UNCHANGED display
        /\ call' = [call EXCEPT !.pc = "wake",
                      !.request = @ \/ (/\ due /\ policy.automatic
                                        /\ now >= add(last, policy.suspendAfter))]
  /\ UNCHANGED <<clock, graph, transition, inhibited, panicked, requested,
                 completion, part, wake, notified>>

begin_resume ==
  /\ state' = "RESUMING"
  /\ phase' = "RESUME"
  /\ cursor' = 0
  /\ UNCHANGED <<suspended, generation>>

CollectWake ==
  /\ call.pc = "wake"
  /\ Goto("start")
  /\ IF state = "SUSPENDED" /\ call.power /\ wake
     THEN wake' = FALSE /\ begin_resume
     ELSE UNCHANGED <<state, transition, wake>>
  /\ UNCHANGED <<clock, graph, inhibited, panicked, display, requested, completion,
                 part, notified>>

(* start: refused by a broken graph, an inhibitor or a blocked participant. It
   drives the transition itself, and power_manager_update drives it again. *)
Start ==
  /\ call.pc = "start"
  /\ \E blocked \in SUBSET Participants :
       LET starts == /\ call.request /\ state \in {"ACTIVE", "IDLE"}
                     /\ available /\ ~inhibited /\ blocked = {}
                     /\ generation < MaxGeneration
       IN /\ call' = [call EXCEPT !.pc = "drive", !.request = starts]
          /\ IF starts
             THEN /\ generation' = generation + 1
                  /\ state' = "SUSPENDING"
                  /\ phase' = "SUSPEND"
                  /\ cursor' = 0
                  /\ suspended' = <<>>
             ELSE UNCHANGED <<state, transition>>
  /\ UNCHANGED <<clock, graph, inhibited, panicked, display, requested, completion,
                 part, wake, notified>>

-----------------------------------------------------------------------------
(* drive: one turn of its loop. *)

Turn(p) == phase = p /\ call.pc = "drive"

Return == call' = [call EXCEPT !.pc = IF call.request THEN "drive" ELSE "done",
                               !.request = FALSE]

token(p, operation) ==
  [generation |-> generation, participant |-> p, operation |-> operation]

(* Mutant: participants are suspended in the order they can be resumed in. *)
Suspendable(i) == order[i + 1]

NextToSuspend(i) == order[Count - i]

SuspendNext ==
  /\ Turn("SUSPEND") /\ cursor < Count
  /\ LET p == NextToSuspend(cursor)
     IN /\ expected' = token(p, "suspend")
        /\ answer' = "none"
        /\ \/ /\ part' = [part EXCEPT ![p] = "down"]
              /\ suspended' = Append(suspended, p)
              /\ cursor' = cursor + 1
              /\ UNCHANGED <<state, phase, generation, call>>
           \/ /\ part' = [part EXCEPT ![p] = "stopping"]
              /\ phase' = "WAIT_SUSPEND"
              /\ Return
              /\ UNCHANGED <<state, cursor, suspended, generation>>
           \/ /\ part' = [part EXCEPT ![p] = "failed"]
              /\ begin_resume
              /\ UNCHANGED call
  /\ UNCHANGED <<clock, graph, inhibited, panicked, display, requested, wake, notified>>

(* platform_power_prepare_sleep and platform_power_enter_light_sleep. *)
Sleep ==
  /\ Turn("SUSPEND") /\ cursor = Count
  /\ \/ /\ state' = "SUSPENDED"
        /\ phase' = "SLEEP"
        /\ Return
        /\ UNCHANGED <<cursor, suspended, generation>>
     \/ begin_resume /\ UNCHANGED call
  /\ UNCHANGED <<clock, graph, inhibited, panicked, display, requested, completion,
                 part, wake, notified>>

NextToResume(i) == suspended[Len(suspended) - i]

(* A participant that fails to resume, at once or by its answer, is recorded in
   status.failure and passed over: those that depend on it are resumed too. *)
ResumeNext ==
  /\ Turn("RESUME") /\ cursor < Len(suspended)
  /\ LET p == NextToResume(cursor)
     IN /\ expected' = token(p, "resume")
        /\ answer' = "none"
        /\ \/ /\ \E result \in {"up", "failed"} : part' = [part EXCEPT ![p] = result]
              /\ cursor' = cursor + 1
              /\ UNCHANGED <<phase, call>>
           \/ /\ part' = [part EXCEPT ![p] = "starting"]
              /\ phase' = "WAIT_RESUME"
              /\ Return
              /\ UNCHANGED cursor
  /\ UNCHANGED <<clock, graph, state, suspended, generation, inhibited, panicked,
                 display, requested, wake, notified>>

finish ==
  /\ Turn("RESUME") /\ cursor = Len(suspended)
  /\ state' = "ACTIVE"
  /\ phase' = "NONE"
  /\ cursor' = 0
  /\ suspended' = <<>>
  /\ RestoreDisplay
  /\ Return
  /\ UNCHANGED <<clock, graph, generation, inhibited, panicked, requested,
                 completion, part, wake, notified>>

Consume ==
  /\ call.pc = "drive" /\ phase \in {"WAIT_SUSPEND", "WAIT_RESUME"}
  /\ answer # "none"
  /\ answer' = "none"
  /\ IF phase = "WAIT_SUSPEND" /\ answer = "failure"
     THEN begin_resume
     ELSE /\ phase' = IF phase = "WAIT_SUSPEND" THEN "SUSPEND" ELSE "RESUME"
          /\ suspended' = IF phase = "WAIT_SUSPEND"
                          THEN Append(suspended, expected.participant) ELSE suspended
          /\ cursor' = cursor + 1
          /\ UNCHANGED <<state, generation>>
  /\ UNCHANGED <<clock, graph, inhibited, panicked, display, requested, expected,
                 part, wake, notified, call>>

NothingToDrive ==
  /\ call.pc = "drive"
  /\ \/ phase \in {"NONE", "SLEEP"}
     \/ phase \in {"WAIT_SUSPEND", "WAIT_RESUME"} /\ answer = "none"
  /\ Return
  /\ UNCHANGED <<clock, graph, state, transition, inhibited, panicked, display,
                 requested, completion, part, wake, notified>>

(* A first update that ended the transition is followed by a second; the rest
   of the pass may find the process system panicked. *)
EndUpdate ==
  /\ call.pc = "done"
  /\ IF call.first /\ state \notin Between
     THEN /\ call' = [call EXCEPT !.pc = "inhibit", !.first = FALSE]
          /\ UNCHANGED <<clock, state, inhibited, panicked, display>>
     ELSE /\ call' = NoCall
          /\ \/ UNCHANGED <<clock, state, inhibited, panicked, display>>
             \/ /\ state \notin Between
                /\ panicked' = TRUE
                /\ SetInhibited(TRUE)
                /\ UNCHANGED <<now, policy>>
  /\ UNCHANGED <<graph, transition, requested, completion, part, wake, notified>>

-----------------------------------------------------------------------------
(* Other calls of the runtime thread. *)

SetPolicy(q) ==
  /\ call.pc = "none" /\ state # "SHUTTING_DOWN"
  /\ policy' = q
  /\ LET idle == now >= add(last, q.idleAfter)
     IN IF inhibited
        THEN display' \in restore_display(display, q) /\ UNCHANGED state
        ELSE IF state \in {"ACTIVE", "IDLE"}
        THEN /\ state' = IF idle THEN "IDLE" ELSE "ACTIVE"
             /\ display' \in IF idle THEN apply_idle_display(display, q)
                                     ELSE restore_display(display, q)
        ELSE UNCHANGED <<state, display>>
  /\ UNCHANGED <<now, last, graph, transition, inhibited, panicked, requested,
                 completion, part, wake, notified, call>>

power_manager_begin_shutdown ==
  /\ call.pc = "none" /\ state # "SHUTTING_DOWN"
  /\ state' = "SHUTTING_DOWN"
  /\ phase' = "NONE"
  /\ UNCHANGED <<clock, graph, cursor, suspended, generation, inhibited, panicked,
                 display, requested, completion, part, wake, notified, call>>

-----------------------------------------------------------------------------
(* Other threads. *)

power_manager_request_suspend ==
  /\ generation < MaxGeneration
  /\ ~requested
  /\ requested' = TRUE
  /\ notified' = TRUE
  /\ UNCHANGED <<clock, graph, state, transition, inhibited, panicked, display,
                 completion, part, wake, call>>

(* Mutant: the generation of an answer is not looked at. *)
expects_any_generation(t) ==
  t.participant = expected.participant /\ t.operation = expected.operation

expects(t) == t = expected

(* Mutant: the runtime thread is not told of the answer. *)
complete_silently(t, result) ==
  /\ answer' = IF answer = "none" /\ expects(t) THEN result ELSE answer
  /\ UNCHANGED notified

power_manager_complete(t, result) ==
  /\ answer' = IF answer = "none" /\ expects(t) THEN result ELSE answer
  /\ notified' = TRUE

Answer(p) ==
  /\ part[p] \in {"stopping", "starting"}
  /\ \E result \in {"success", "failure"} :
       /\ power_manager_complete(
            token(p, IF part[p] = "stopping" THEN "suspend" ELSE "resume"), result)
       /\ part' = [part EXCEPT ![p] = IF result = "failure" THEN "failed"
                                      ELSE IF @ = "stopping" THEN "down" ELSE "up"]
  /\ UNCHANGED <<clock, graph, state, transition, inhibited, panicked, display,
                 requested, expected, wake, call>>

(* A participant answers again, to this or to an earlier transition. *)
AnswerAgain(p) ==
  /\ \E g \in 1 .. generation, operation \in Operations,
       result \in {"success", "failure"} :
       LET t == [generation |-> g, participant |-> p, operation |-> operation]
       IN /\ t = expected => part[p] \notin {"stopping", "starting"}
          /\ power_manager_complete(t, result)
  /\ UNCHANGED <<clock, graph, state, transition, inhibited, panicked, display,
                 requested, expected, part, wake, call>>

(* The platform was armed before the manager became suspended. *)
Wake ==
  /\ state = "SUSPENDED"
  /\ wake' = TRUE
  /\ notified' = TRUE
  /\ UNCHANGED <<clock, graph, state, transition, inhibited, panicked, display,
                 requested, completion, part, call>>

-----------------------------------------------------------------------------
Pass ==
  \/ VisitNext \/ VisitDependency \/ VisitReturns \/ Finalized
  \/ BeginPass \/ Inhibit \/ Take \/ Deadline \/ CollectWake \/ Start
  \/ SuspendNext \/ Sleep \/ ResumeNext \/ finish \/ Consume \/ NothingToDrive
  \/ EndUpdate

Next ==
  \/ Pass \/ Tick
  \/ \E q \in Policies : SetPolicy(q)
  \/ power_manager_begin_shutdown
  \/ power_manager_request_suspend
  \/ \E p \in Participants : Answer(p) \/ AnswerAgain(p)
  \/ Wake

(* The runtime thread goes on with a pass, and begins one for a POWER event or
   for the manager's own deadline; a participant that said PENDING answers. *)
Woken == notified \/ now >= power_manager_next_deadline

Fairness ==
  /\ WF_vars((call.pc = "none" => Woken) /\ Pass)
  /\ \A p \in UNION {DOMAIN s.deps : s \in Setups} :
       WF_vars(p \in Participants /\ Answer(p))

Spec == Init /\ [][Next]_vars

FairSpec == Spec /\ Fairness

-----------------------------------------------------------------------------
(* Properties *)

(* A participant is on its way down, down or on its way up only while every
   participant that depends on it is down: "Participants are ordered once by stable
   dependency names" (agents/architecture.md), the reverse of the order for the way
   down, and the way up again for those that did go down. It says nothing of one
   that has failed: a failed resume is recorded and passed over, and what depends on
   it is resumed on top of it (power.c:392, 461). *)
DependentsFirst ==
  \A p, q \in Participants :
    available /\ q \in Range(deps[p]) /\ part[q] \in {"stopping", "down", "starting"}
      => part[p] = "down"

(* Light sleep finds every participant down, whatever late or repeated answers
   arrived: "asynchronous completions carry a transition generation so stale
   replies cannot advance current state" (agents/architecture.md). Outside a
   transition, rollbacks included, none of them is down or on its way: each has
   come up or has said that it failed, which does not keep the manager from
   becoming active (power.c:374). *)
AllOrNone ==
  /\ state = "SUSPENDED" => \A p \in Participants : part[p] = "down"
  /\ state \in {"ACTIVE", "IDLE"} => \A p \in Participants : part[p] \in {"up", "failed"}

(* "Backlight must reach zero before panel disable; panel must enable before
   brightness restoration" (agents/architecture.md): whatever write fails, the
   backlight never lights a panel that is off. *)
NoLightOnDarkPanel == display.lamp # 0 => display.panel

(* "All deadlines share last physical activity": no stage is entered before its
   own interval of inactivity, whoever's deadline woke the runtime; and "held
   input, fullscreen/media ownership, and panic inhibit idle blanking". *)
DimmingIsEarned ==
  /\ inhibited /\ state # "SHUTTING_DOWN" =>
       state # "IDLE" /\ ~display.screenOff /\ ~display.panelOff
  /\ state = "IDLE" =>
       /\ now >= add(last, policy.idleAfter)
       /\ display.screenOff => now >= add(last, policy.screenOffAfter)
       /\ display.panelOff => now >= add(last, policy.panelOffAfter)

(* No failed write or refused suspend leaves a deadline in the past that would
   wake the runtime thread again and again: "No off retry deadline is added
   after failure". *)
NoSpinning == []<>(state = "SHUTTING_DOWN" \/ now < power_manager_next_deadline)

(* A transition comes to its end, and a wake cause is collected, although its
   event may come at any moment after the platform was armed. *)
TransitionEnds ==
  /\ (state \in {"SUSPENDING", "RESUMING"}) ~>
       (state \in {"ACTIVE", "IDLE", "SUSPENDED", "SHUTTING_DOWN"})
  /\ (state = "SUSPENDED" /\ wake) ~> (state # "SUSPENDED")
=============================================================================
