----------------------------- MODULE NativeTask -----------------------------
(***************************************************************************)
(* How TabOS stops a native program on the Tab5 and takes back what it     *)
(* used: the guarded call gates, the stop handshake and the compute worker *)
(* of platform/esp32p4/application_task.c, the request / reply protocol of *)
(* the socket, echo and TLS workers a gate may be blocked in               *)
(* (platform/posix/socket.c, network.c, tls.c), and the order in which     *)
(* elf_release_resources tears a program down (loader/elf_application.c).  *)
(*                                                                         *)
(* Program n is the one at depth n of the foreground stack. Its task runs  *)
(* on one of two cores: a suspension asked for by the runtime thread takes *)
(* effect only when the other core switches the task out.                  *)
(***************************************************************************)
EXTENDS Integers

CONSTANTS
  Depth,       \* how many programs are nested
  MaxCalls,    \* bound: call gates entered by each program
  Concurrent   \* TRUE: a program may use a service while its child runs

ASSUME DepthAssumption == Depth \in Nat \ {0}
ASSUME MaxCallsAssumption == MaxCalls \in Nat
ASSUME ConcurrentAssumption == Concurrent \in BOOLEAN

Programs == 1 .. Depth
Nobody == 0       \* the worker mutex is free, the worker has no request
Runtime == -1     \* the runtime thread holds the worker mutex

VARIABLES
  pc,        \* where the task of each program is
  sched,     \* how the scheduler holds it
  stop,      \* stop_requested
  gate,      \* gate_depth
  outcome,   \* what the last service call returned
  calls,     \* history: gates entered so far
  mark,      \* history: gates entered, or about to be, at the stop request
  lock,      \* owner of the worker mutex
  worker,    \* the worker's request, its owner and answer
  cancelled, \* socket_cancel_requested, network_.. and tls_cancel_requested
  job,       \* the compute worker of each program
  rt         \* the runtime thread: what it does, and to which program

tasks == <<pc, sched, stop, gate, outcome, calls, mark>>
service == <<lock, worker, cancelled>>
vars == <<pc, sched, stop, gate, outcome, calls, mark, lock, worker, cancelled,
          job, rt>>

WorkerSteps == {"lock", "clear", "ask", "send", "reply", "give"}

GateSteps == WorkerSteps \cup {"body", "wait", "leave"}

JobRecord ==
  [task : {"absent", "waiting", "running", "deleted"},
   sched : {"ready", "stopping", "suspended"}, ready : BOOLEAN,
   submitted : BOOLEAN, pending : BOOLEAN, complete : BOOLEAN,
   kind : {"pure", "calling"}, result : {"ok", "eperm"}, count : Nat]

TypeOK ==
  /\ pc \in [Programs -> {"none", "guest", "checked", "left", "parked",
                          "finished", "deleted"} \cup GateSteps]
  /\ sched \in [Programs -> {"ready", "stopping", "suspended"}]
  /\ stop \in [Programs -> BOOLEAN]
  /\ gate \in [Programs -> {0, 1}]
  /\ outcome \in [Programs -> {"none", "ok", "cancelled"}]
  /\ calls \in [Programs -> Nat]
  /\ mark \in [Programs -> Nat]
  /\ lock \in Programs \cup {Nobody, Runtime}
  /\ worker \in [state : {"idle", "busy", "closing", "done", "cancelled"},
                 owner : Programs \cup {Nobody, Runtime}]
  /\ cancelled \in BOOLEAN
  /\ job \in [Programs -> JobRecord]
  /\ rt \in [pc : {"idle", "suspend", "confirm", "depth", "cancel", "resume",
                   "compute", "join", "destroy", "sockets", "dispose",
                   "closing"},
             target : Programs]

NoJob ==
  [task |-> "absent", sched |-> "ready", ready |-> FALSE, submitted |-> FALSE,
   pending |-> FALSE, complete |-> FALSE, kind |-> "pure", result |-> "ok",
   count |-> 0]

IdleWorker == [state |-> "idle", owner |-> Nobody]

Init ==
  /\ pc = [p \in Programs |-> "none"]
  /\ sched = [p \in Programs |-> "ready"]
  /\ stop = [p \in Programs |-> FALSE]
  /\ gate = [p \in Programs |-> 0]
  /\ outcome = [p \in Programs |-> "none"]
  /\ calls = [p \in Programs |-> 0]
  /\ mark = [p \in Programs |-> 0]
  /\ lock = Nobody
  /\ worker = IdleWorker
  /\ cancelled = FALSE
  /\ job = [p \in Programs |-> NoJob]
  /\ rt = [pc |-> "idle", target |-> 1]

-----------------------------------------------------------------------------
(* The task of program p. *)

Live(p) == pc[p] \notin {"none", "deleted"}

Top(p) == Live(p) /\ \A q \in Programs : q > p => ~Live(q)

(* A task asked to suspend runs until its core switches it out. *)
Runs(p) == sched[p] # "suspended"

Moves(p, from, to) == Runs(p) /\ pc[p] = from /\ pc' = [pc EXCEPT ![p] = to]

(* park_if_stopping: a task that sees the request suspends itself, for good. *)
ParkOr(p, from, to) ==
  /\ Moves(p, from, IF stop[p] THEN "parked" ELSE to)
  /\ sched' = [sched EXCEPT ![p] = IF stop[p] THEN "suspended" ELSE @]

(* gate_enter looks at the request first and counts the gate next. *)
GateEnter(p) ==
  /\ ParkOr(p, "guest", "checked")
  /\ UNCHANGED <<stop, gate, outcome, calls, mark, service, job, rt>>

(* A program that executes a child waits, in plain gates, until the child is
   cleaned up; one that spawned its child may go on with its own work. *)
MayServe(p) == Concurrent \/ (Top(p) /\ (rt.pc = "idle" \/ rt.target = p))

GateCount(p) ==
  /\ calls[p] < MaxCalls
  /\ \E call \in {"body", "lock", "wait"} :
       /\ call # "body" => MayServe(p)
       /\ Moves(p, "checked", call)
  /\ gate' = [gate EXCEPT ![p] = @ + 1]
  /\ calls' = [calls EXCEPT ![p] = @ + 1]
  /\ outcome' = [outcome EXCEPT ![p] = "none"]
  /\ UNCHANGED <<sched, stop, mark, service, job, rt>>

(* A gate that neither blocks nor uses a worker. *)
PlainCall(p) ==
  /\ Moves(p, "body", "leave")
  /\ UNCHANGED <<sched, stop, gate, outcome, calls, mark, service, job, rt>>

(* submit_request of a worker: take its mutex, forget the cancellation of an
   earlier operation, look at the stop request, send, receive, give back. *)
TakeLock(p) ==
  /\ lock = Nobody
  /\ Moves(p, "lock", "clear")
  /\ lock' = p
  /\ UNCHANGED <<sched, stop, gate, outcome, calls, mark, worker, cancelled, job, rt>>

ClearCancel(p) ==
  /\ Moves(p, "clear", "ask")
  /\ cancelled' = FALSE
  /\ UNCHANGED <<sched, stop, gate, outcome, calls, mark, lock, worker, job, rt>>

SubmitRefused(p) ==
  /\ stop[p]
  /\ Moves(p, "ask", "give")
  /\ outcome' = [outcome EXCEPT ![p] = "cancelled"]
  /\ UNCHANGED <<sched, stop, gate, calls, mark, service, job, rt>>

(* A stop that is asked for after this look finds the request on its way. *)
SubmitChecked(p) ==
  /\ ~stop[p]
  /\ Moves(p, "ask", "send")
  /\ UNCHANGED <<sched, stop, gate, outcome, calls, mark, service, job, rt>>

(* xQueueSend; a close is submitted whether or not the program is stopped. *)
Submit(p) ==
  /\ \E request \in {[from |-> "send", state |-> "busy"],
                      [from |-> "ask", state |-> "closing"]} :
       /\ Moves(p, request.from, "reply")
       /\ worker' = [state |-> request.state, owner |-> p]
  /\ UNCHANGED <<sched, stop, gate, outcome, calls, mark, lock, cancelled, job, rt>>

(* Mutant: a caller asked to stop gives up its reply. *)
TakeReplyOrStop(p) ==
  /\ worker.state \in {"done", "cancelled"} \/ stop[p]
  /\ Moves(p, "reply", "give")
  /\ outcome' = [outcome EXCEPT
                   ![p] = IF worker.state = "done" THEN "ok" ELSE "cancelled"]
  /\ worker' = IF worker.state = "busy" THEN worker ELSE IdleWorker
  /\ UNCHANGED <<sched, stop, gate, calls, mark, lock, cancelled, job, rt>>

TakeReply(p) ==
  /\ worker.state \in {"done", "cancelled"}
  /\ Moves(p, "reply", "give")
  /\ outcome' = [outcome EXCEPT
                   ![p] = IF worker.state = "done" THEN "ok" ELSE "cancelled"]
  /\ worker' = IdleWorker
  /\ UNCHANGED <<sched, stop, gate, calls, mark, lock, cancelled, job, rt>>

GiveLock(p) ==
  /\ Moves(p, "give", "leave")
  /\ lock' = Nobody
  /\ UNCHANGED <<sched, stop, gate, outcome, calls, mark, worker, cancelled, job, rt>>

(* gate_leave: the gate is given up before the request is looked at again. *)
GateLeave(p) ==
  /\ Moves(p, "leave", "left")
  /\ gate' = [gate EXCEPT ![p] = @ - 1]
  /\ UNCHANGED <<sched, stop, outcome, calls, mark, service, job, rt>>

Park(p) ==
  /\ ParkOr(p, "left", "guest")
  /\ UNCHANGED <<stop, gate, outcome, calls, mark, service, job, rt>>

(* The entry function returned: finished is visible to the runtime before the
   task has suspended itself. *)
Return(p) ==
  /\ Moves(p, "guest", "finished")
  /\ UNCHANGED <<sched, stop, gate, outcome, calls, mark, service, job, rt>>

SelfSuspend(p) ==
  /\ pc[p] = "finished"
  /\ Runs(p)
  /\ sched' = [sched EXCEPT ![p] = "suspended"]
  /\ UNCHANGED <<pc, stop, gate, outcome, calls, mark, service, job, rt>>

SwitchOut(p) ==
  /\ sched[p] = "stopping"
  /\ sched' = [sched EXCEPT ![p] = "suspended"]
  /\ UNCHANGED <<pc, stop, gate, outcome, calls, mark, service, job, rt>>

-----------------------------------------------------------------------------
(* The compute worker of a program. *)

Submitted(j, kind) ==
  [j EXCEPT !.task = IF @ = "absent" THEN "waiting" ELSE @,
            !.pending = TRUE, !.complete = FALSE, !.submitted = TRUE,
            !.ready = TRUE, !.kind = kind, !.count = @ + 1]

(* platform_riscv32_compute_submit: the worker task is made at the first use,
   and the call changes nothing when that fails, when a job is pending, or when
   the program is being stopped. *)
ComputeSubmit(p) ==
  /\ MayServe(p)
  /\ ~stop[p] /\ ~job[p].pending
  /\ job[p].count < MaxCalls
  /\ Moves(p, "body", "leave")
  /\ \E kind \in {"pure", "calling"} :
       job' = [job EXCEPT ![p] = Submitted(@, kind)]
  /\ UNCHANGED <<sched, stop, gate, outcome, calls, mark, service, rt>>

(* Mutant: a wait does not ask whether the job is complete. *)
ComputeWaitEarly(p) ==
  /\ Moves(p, "wait", "leave")
  /\ job' = [job EXCEPT ![p].pending = FALSE]
  /\ outcome' = [outcome EXCEPT ![p] = "ok"]
  /\ UNCHANGED <<sched, stop, gate, calls, mark, service, rt>>

(* platform_riscv32_compute_wait returns at once when nothing is pending, and
   otherwise consumes the result of the job; a stop ends the wait, and leaves
   the job pending. *)
ComputeWait(p) ==
  /\ job[p].pending => job[p].complete
  /\ Moves(p, "wait", "leave")
  /\ job' = [job EXCEPT ![p].pending = FALSE]
  /\ outcome' = [outcome EXCEPT ![p] = "ok"]
  /\ UNCHANGED <<sched, stop, gate, calls, mark, service, rt>>

ComputeWaitCancelled(p) ==
  /\ job[p].pending /\ ~job[p].complete /\ stop[p]
  /\ Moves(p, "wait", "leave")
  /\ outcome' = [outcome EXCEPT ![p] = "cancelled"]
  /\ UNCHANGED <<sched, stop, gate, calls, mark, service, job, rt>>

ComputeRuns(p) == job[p].sched # "suspended"

ComputeStart(p) ==
  /\ job[p].task = "waiting" /\ ComputeRuns(p) /\ job[p].ready
  /\ job' = [job EXCEPT ![p].ready = FALSE, ![p].submitted = FALSE,
                        ![p].task = IF job[p].submitted THEN "running" ELSE @]
  /\ UNCHANGED <<tasks, service, rt>>

(* A callback that enters a call gate is thrown out of it: EPERM. *)
ComputeFinish(p) ==
  /\ job[p].task = "running" /\ ComputeRuns(p)
  /\ job' = [job EXCEPT ![p].task = "waiting", ![p].complete = TRUE,
                        ![p].result = IF job[p].kind = "pure" THEN "ok" ELSE "eperm"]
  /\ UNCHANGED <<tasks, service, rt>>

ComputeSwitchOut(p) ==
  /\ job[p].sched = "stopping"
  /\ job' = [job EXCEPT ![p].sched = "suspended"]
  /\ UNCHANGED <<tasks, service, rt>>

-----------------------------------------------------------------------------
(* The worker: an operation ends when the network lets it, which may be never;
   between short polls it looks at the cancellation flag. *)

WorkerDone ==
  /\ worker.state = "busy"
  /\ worker' = [worker EXCEPT !.state = "done"]
  /\ UNCHANGED <<tasks, lock, cancelled, job, rt>>

(* A close is not polled: it ends. *)
WorkerCloses ==
  /\ worker.state = "closing"
  /\ worker' = [worker EXCEPT !.state = "done"]
  /\ UNCHANGED <<tasks, lock, cancelled, job, rt>>

WorkerCancelled ==
  /\ worker.state = "busy" /\ cancelled
  /\ worker' = [worker EXCEPT !.state = "cancelled"]
  /\ UNCHANGED <<tasks, lock, cancelled, job, rt>>

-----------------------------------------------------------------------------
(* The runtime thread. *)

Runtimes(from, to) == rt.pc = from /\ rt' = [rt EXCEPT !.pc = to]

(* platform_riscv32_step makes the task of the next program. The program below
   asked for it from a plain gate, with no compute job left, or spawned it. *)
Start(p) ==
  /\ rt.pc = "idle"
  /\ pc[p] = "none"
  /\ p > 1 => /\ Top(p - 1) /\ ~stop[p - 1]
              /\ Concurrent \/ (~job[p - 1].pending
                                /\ pc[p - 1] \notin WorkerSteps \cup {"wait"})
  /\ pc' = [pc EXCEPT ![p] = "guest"]
  /\ UNCHANGED <<sched, stop, gate, outcome, calls, mark, service, job, rt>>

(* platform_riscv32_stop of the top program, which returned, asked to exit,
   faulted or is terminated. *)
BeginStop(p) ==
  /\ rt.pc = "idle"
  /\ Top(p)
  /\ rt' = [pc |-> "suspend", target |-> p]
  /\ stop' = [stop EXCEPT ![p] = TRUE]
  /\ mark' = [mark EXCEPT ![p] = calls[p] + IF pc[p] = "checked" THEN 1 ELSE 0]
  /\ UNCHANGED <<pc, sched, gate, outcome, calls, service, job>>

Suspend ==
  /\ Runtimes("suspend", "confirm")
  /\ \E held \in {"stopping", "suspended"} :
       sched' = [sched EXCEPT ![rt.target] = IF Runs(rt.target) THEN held ELSE @]
  /\ UNCHANGED <<pc, stop, gate, outcome, calls, mark, service, job>>

(* eTaskGetState: no core runs the task any more. *)
Confirm ==
  /\ sched[rt.target] = "suspended"
  /\ Runtimes("confirm", "depth")
  /\ UNCHANGED <<tasks, service, job>>

(* Mutant: a suspended task is taken for a stopped one. *)
AnyDepth ==
  /\ Runtimes("depth", "compute")
  /\ UNCHANGED <<tasks, service, job>>

ReadDepth ==
  /\ Runtimes("depth", IF gate[rt.target] = 0 THEN "compute" ELSE "cancel")
  /\ UNCHANGED <<tasks, service, job>>

(* Mutant: the operation a gate is blocked in is not cancelled. *)
NoCancel ==
  /\ Runtimes("cancel", "resume")
  /\ UNCHANGED <<tasks, service, job>>

(* elf_cancel_execution. *)
Cancel ==
  /\ Runtimes("cancel", "resume")
  /\ cancelled' = TRUE
  /\ UNCHANGED <<tasks, lock, worker, job>>

Resume ==
  /\ Runtimes("resume", "suspend")
  /\ sched' = [sched EXCEPT ![rt.target] = "ready"]
  /\ UNCHANGED <<pc, stop, gate, outcome, calls, mark, service, job>>

(* Mutant: the compute task is left running. *)
LeaveCompute ==
  /\ Runtimes("compute", "destroy")
  /\ UNCHANGED <<tasks, service, job>>

SuspendCompute ==
  /\ Runtimes("compute", "join")
  /\ \E held \in {"stopping", "suspended"} :
       job' = [job EXCEPT ![rt.target].sched =
                 IF job[rt.target].task = "absent" THEN "suspended" ELSE held]
  /\ UNCHANGED <<tasks, service>>

JoinCompute ==
  /\ job[rt.target].sched = "suspended"
  /\ Runtimes("join", "destroy")
  /\ UNCHANGED <<tasks, service, job>>

(* platform_riscv32_destroy: its own stop finds the task stopped already. *)
Destroy ==
  /\ Runtimes("destroy", "sockets")
  /\ pc' = [pc EXCEPT ![rt.target] = "deleted"]
  /\ job' = [job EXCEPT ![rt.target].task = "deleted"]
  /\ UNCHANGED <<sched, stop, gate, outcome, calls, mark, service>>

(* platform_network_socket_operations_suspend waits for the worker mutex, the
   sockets are disposed of, and it is given back. *)
SuspendSockets ==
  /\ lock = Nobody
  /\ Runtimes("sockets", "dispose")
  /\ lock' = Runtime
  /\ UNCHANGED <<tasks, worker, cancelled, job>>

Dispose ==
  /\ Runtimes("dispose", "idle")
  /\ lock' = Nobody
  /\ UNCHANGED <<tasks, worker, cancelled, job>>

(* platform_tls_close of a connection the program left open: the runtime thread
   sends a close and waits for the reply as a gate would, before it gives the
   sockets' mutex back. The TLS worker has a mutex of its own, which it takes
   the same way; one close stands for all. *)
CloseTls ==
  /\ Runtimes("dispose", "closing")
  /\ cancelled' = FALSE
  /\ worker' = [state |-> "closing", owner |-> Runtime]
  /\ UNCHANGED <<tasks, lock, job>>

TlsClosed ==
  /\ worker.state = "done"
  /\ Runtimes("closing", "idle")
  /\ worker' = IdleWorker
  /\ lock' = Nobody
  /\ UNCHANGED <<tasks, cancelled, job>>

-----------------------------------------------------------------------------
GuestStep(p) == GateEnter(p) \/ GateCount(p) \/ Return(p)

GateStep(p) ==
  \/ PlainCall(p) \/ TakeLock(p) \/ ClearCancel(p) \/ SubmitRefused(p)
  \/ SubmitChecked(p) \/ Submit(p) \/ TakeReply(p) \/ GiveLock(p) \/ GateLeave(p) \/ Park(p)
  \/ ComputeSubmit(p) \/ ComputeWait(p) \/ ComputeWaitCancelled(p)

ComputeStep(p) == ComputeStart(p) \/ ComputeFinish(p)

RuntimeStep ==
  \/ Suspend \/ Confirm \/ ReadDepth \/ Cancel \/ Resume
  \/ SuspendCompute \/ JoinCompute \/ Destroy \/ SuspendSockets \/ Dispose
  \/ CloseTls \/ TlsClosed

Next ==
  \/ \E p \in Programs :
       \/ GuestStep(p) \/ GateStep(p) \/ SelfSuspend(p) \/ SwitchOut(p)
       \/ ComputeStep(p) \/ ComputeSwitchOut(p)
       \/ Start(p) \/ BeginStop(p)
  \/ WorkerDone \/ WorkerCloses \/ WorkerCancelled
  \/ RuntimeStep

(* The runtime thread and the two cores go on, a worker polls its flag, and a
   task inside a gate advances although it is suspended again and again: each
   resumption leaves it a tick. Guest code owes nothing. *)
Fairness ==
  /\ WF_vars(RuntimeStep)
  /\ WF_vars(WorkerCloses) /\ WF_vars(WorkerCancelled)
  /\ \A p \in Programs : /\ WF_vars(SwitchOut(p))
                         /\ WF_vars(ComputeSwitchOut(p))
                         /\ SF_vars(GateStep(p))

Spec == Init /\ [][Next]_vars

FairSpec == Spec /\ Fairness

-----------------------------------------------------------------------------
(* Properties *)

(* "Teardown [...] may delete only when gate depth is zero" (architecture.md):
   what a deleted program leaves behind holds no lock, no worker request and no
   reply that the next program could take for its own. And "gate exit parks
   permanently; no subsequent guest call can start" (application_task.c): after
   the request a program enters at most the gate whose check it had passed. *)
NothingLeftBehind ==
  \A p \in Programs :
    /\ pc[p] = "deleted" => gate[p] = 0 /\ lock # p /\ worker.owner # p
    /\ stop[p] => calls[p] <= mark[p]

(* The reply of a worker always belongs to the holder of its mutex, and only a
   program being stopped is answered ECANCELED: the flag an earlier teardown
   raised does not reach the next program. *)
ReplyForHolder ==
  /\ worker.state # "idle" => lock = worker.owner
  /\ \A p \in Programs : outcome[p] = "cancelled" => stop[p]

(* From the moment the stop is seen complete, neither the task nor the compute
   worker of the program takes a step, on any core: its code, stack and heap
   can be freed. And "the suspended task cannot mutate its handles while
   cancellation is issued": it does not move between the confirmation and its
   resumption either. *)
StoppedIsStill ==
  /\ [][\A p \in Programs :
          (rt.target = p /\ rt.pc \in {"destroy", "sockets", "dispose", "closing"}) =>
            /\ pc'[p] \in {pc[p], "deleted"} /\ gate'[p] = 0
            /\ job'[p].task = "running" => job[p].task = "running"
            /\ job'[p].complete = job[p].complete]_vars
  /\ [][rt.pc \in {"depth", "cancel"} => pc'[rt.target] = pc[rt.target]]_vars

(* A compute job is waited for before its result is consumed, and the result is
   that of the job submitted last. *)
ComputeAnswers ==
  [][\A p \in Programs :
       job[p].pending /\ ~job'[p].pending =>
         /\ job[p].complete
         /\ job[p].result = IF job[p].kind = "pure" THEN "ok" ELSE "eperm"]_vars

(* "Process cleanup interrupts blocked socket operations [...], waits for the
   active backend operation to return, and disposes every owned socket"
   (docs/networking.md): a teardown that began comes to its end. *)
CleanupCompletes ==
  \A p \in Programs : (rt.target = p /\ rt.pc = "suspend") ~> (rt.pc = "idle")
=============================================================================
