------------------------------ MODULE Process ------------------------------
(***************************************************************************)
(* The nested foreground processes of TabOS: the process table and the     *)
(* foreground stack of process/process.c, the console session a process    *)
(* owns (console/console.c), the update step of a filesystem ELF program   *)
(* on the runtime thread and the exec / exit call gates its own task uses  *)
(* (loader/elf_application.c), and the tabos_exec / tabos_spawn /          *)
(* tabos_waitpid loops of the SDK (sdk/lib/process.c).                     *)
(*                                                                         *)
(* Two kinds of actors interleave: the runtime thread, whose update is cut *)
(* at every atomic flag it exchanges with a program (variable rt), and one *)
(* task per live program, which keeps running (polling) while its process  *)
(* is blocked behind a child.                                              *)
(***************************************************************************)
EXTENDS Integers

CONSTANTS
  Capacity,    \* KERNEL_PROCESS_CAPACITY: process slots and stack entries
  MaxId,       \* bound: no program is launched once this process id is used
  Programs,    \* program paths an application may ask for
  Statuses,    \* exit statuses an application may choose
  Overlap      \* TRUE: a program may call tabos_exec before waiting for the
               \* program it spawned

ASSUME CapacityAssumption == Capacity \in Nat \ {0}
ASSUME MaxIdAssumption == MaxId \in Nat
ASSUME ProgramsAssumption == Programs # {} /\ "none" \notin Programs
ASSUME StatusesAssumption == Statuses # {} /\ Statuses \subseteq Int
ASSUME OverlapAssumption == Overlap \in BOOLEAN

NoSlot == -1
Slot == 0 .. Capacity - 1
FaultStatus == 5          \* what elf_update reports for an execution fault
Failure == -1             \* entry failure, or the console cannot be shown
InvalidResult == 3        \* TABOS_APP_RESULT_INVALID
StartFailed == 4          \* TABOS_APP_RESULT_START_FAILED
NoOutcome == "none"       \* no program was launched yet for a request

VARIABLES
  proc,      \* processes[]: the record of each slot
  stack,     \* foreground_stack[]: process ids
  depth,     \* foreground_depth
  nextId,    \* next_process_id
  fg,        \* foreground_process: a slot or NoSlot
  console,   \* slot whose session holds foreground_token, or NoSlot
  app,       \* loader_elf_application_t of each slot and its task
  rt,        \* where the runtime thread is in kernel_application_system_update
  ctx,       \* the context that update captured
  event,     \* PLATFORM_RUNTIME_EVENT_APPLICATION is pending
  phase,     \* "boot", "up", "stopping", "down"
  story      \* history: the program last run for each slot, and how it ended

table == <<proc, stack, depth, nextId, fg, console>>
vars == <<proc, stack, depth, nextId, fg, console, app, rt, ctx, event,
          phase, story>>

Causes == {"none", "exit", "return", "fault", "forced"}

ProcessRecord ==
  [state : {"free", "running", "blocked", "panicked"}, id : Nat,
   parent : Nat \cup {-1}, exitRequested : BOOLEAN, exitStatus : Int,
   cause : Causes, childValid : BOOLEAN, childStatus : Int, owned : BOOLEAN]

AppRecord ==
  [task : {"none", "running", "returned"}, returned : Int,
   execRequested : BOOLEAN, inFlight : BOOLEAN, ready : BOOLEAN,
   execStatus : Int, path : Programs \cup {"none"}, exitFlag : BOOLEAN,
   exitValue : Int, call : {"idle", "exec", "wait", "exited"},
   want : Programs \cup {"none"}, spawned : BOOLEAN]

StoryRecord == [program : Programs \cup {"none"}, ended : BOOLEAN, status : Int]

TypeOK ==
  /\ proc \in [Slot -> ProcessRecord]
  /\ stack \in [Slot -> Nat]
  /\ depth \in 0 .. Capacity
  /\ nextId \in Nat
  /\ fg \in Slot \cup {NoSlot}
  /\ console \in Slot \cup {NoSlot}
  /\ app \in [Slot -> AppRecord]
  /\ rt \in {"idle", "take", "exec", "exit", "step", "returned", "tail"}
  /\ ctx \in Slot \cup {NoSlot}
  /\ event \in BOOLEAN
  /\ phase \in {"boot", "up", "stopping", "down"}
  /\ story \in [Slot -> StoryRecord]

FreeProcess ==
  [state |-> "free", id |-> 0, parent |-> -1, exitRequested |-> FALSE,
   exitStatus |-> 0, cause |-> "none", childValid |-> FALSE,
   childStatus |-> 0, owned |-> FALSE]

FreeApp ==
  [task |-> "none", returned |-> 0, execRequested |-> FALSE,
   inFlight |-> FALSE, ready |-> FALSE, execStatus |-> 0, path |-> "none",
   exitFlag |-> FALSE, exitValue |-> 0, call |-> "idle", want |-> "none",
   spawned |-> FALSE]

NoStory == [program |-> "none", ended |-> FALSE, status |-> 0]

NewProcess(id, parent) ==
  [FreeProcess EXCEPT !.state = "running", !.id = id, !.parent = parent,
                      !.owned = TRUE]

(* kernel_application_system_init, run before the console is given out. *)
Init ==
  /\ proc = [s \in Slot |-> FreeProcess]
  /\ stack = [s \in Slot |-> 0]
  /\ depth = 0
  /\ nextId = 0
  /\ fg = NoSlot
  /\ console = NoSlot
  /\ app = [s \in Slot |-> FreeApp]
  /\ rt = "idle"
  /\ ctx = NoSlot
  /\ event = FALSE
  /\ phase = "boot"
  /\ story = [s \in Slot |-> NoStory]

-----------------------------------------------------------------------------
(* Searching the table, and the console session of a slot. *)

Live(t) == {s \in Slot : t[s].state # "free"}

LowestOf(S) == CHOOSE s \in S : \A r \in S : s <= r

(* Mutant: the last free slot is handed out. *)
LastFreeSlot ==
  IF Slot = Live(proc) THEN NoSlot
  ELSE CHOOSE s \in Slot \ Live(proc) : \A r \in Slot \ Live(proc) : r <= s

free_process_slot ==
  IF Slot = Live(proc) THEN NoSlot ELSE LowestOf(Slot \ Live(proc))

find_process(t, id) ==
  LET found == {s \in Live(t) : t[s].id = id}
  IN IF found = {} THEN NoSlot ELSE LowestOf(found)

(* tabos_console_release leaves a session that does not own the console alone. *)
ReleasedConsole(owner, s) == IF owner = s THEN NoSlot ELSE owner

(* Mutant: a parent that did not get the console back runs on. *)
ResumedUnshown(p, status, shown) ==
  [p EXCEPT !.state = "running", !.childStatus = status, !.childValid = TRUE,
            !.owned = shown]

(* The parent record after finish_child_process gave it back the foreground;
   shown tells whether tabos_console_acquire succeeded. *)
Resumed(p, status, shown) ==
  [p EXCEPT
     !.state = IF shown \/ p.id # 0 THEN "running" ELSE "panicked",
     !.childStatus = status,
     !.childValid = TRUE,
     !.owned = shown,
     !.exitStatus = IF shown THEN @ ELSE Failure,
     !.exitRequested = IF shown THEN @ ELSE p.id # 0]

Panicked(p) == [p EXCEPT !.state = "panicked", !.exitRequested = FALSE]

(* finish_child_process and destroy_process for the foreground child: the
   program is stopped and unloaded, its console released, the stack popped and
   the parent resumed. presented is the outcome of display_present in
   tabos_console_acquire. *)
FinishForeground(presented) ==
  LET freed == [proc EXCEPT ![fg] = FreeProcess]
      d == IF depth > 0 THEN depth - 1 ELSE 0
      parent == IF d > 0 THEN find_process(freed, stack[d - 1]) ELSE NoSlot
      unowned == ReleasedConsole(console, fg)
      shown == presented /\ unowned = NoSlot
      status == proc[fg].exitStatus
  IN /\ depth' = d
     /\ fg' = parent
     /\ app' = [app EXCEPT ![fg] = FreeApp]
     /\ IF parent = NoSlot
        THEN /\ proc' = freed
             /\ console' = unowned
             /\ UNCHANGED event
        ELSE /\ proc' = [freed EXCEPT ![parent] = Resumed(@, status, shown)]
             /\ console' = IF shown THEN parent ELSE unowned
             /\ event' = TRUE
     /\ story' = [s \in Slot |->
                    IF s = fg THEN NoStory
                    ELSE IF s = parent
                    THEN [story[s] EXCEPT !.ended = TRUE, !.status = status]
                    ELSE story[s]]
     /\ UNCHANGED <<stack, nextId, phase>>

-----------------------------------------------------------------------------
(* Launching process 0, and shutdown. *)

LaunchRoot ==
  /\ phase = "boot"
  /\ LET s == free_process_slot
     IN /\ proc' = [proc EXCEPT ![s] = NewProcess(0, -1)]
        /\ fg' = s
        /\ console' = s
  /\ stack' = [stack EXCEPT ![0] = 0]
  /\ depth' = 1
  /\ nextId' = 1
  /\ event' = TRUE
  /\ phase' = "up"
  /\ UNCHANGED <<app, rt, ctx, story>>

(* The console cannot be shown or the entry callback fails: nothing stays
   loaded and kernel_runtime_start gives up. *)
LaunchRootFails ==
  /\ phase = "boot"
  /\ nextId' = 1
  /\ phase' = "down"
  /\ UNCHANGED <<proc, stack, depth, fg, console, app, rt, ctx, event, story>>

(* The runtime loop was asked to stop; the slots are then destroyed from the
   highest to the lowest while the programs not yet stopped keep running. *)
BeginShutdown ==
  /\ phase = "up"
  /\ rt = "idle"
  /\ phase' = "stopping"
  /\ UNCHANGED <<table, app, rt, ctx, event, story>>

(* Mutant: the slots are destroyed in ascending order. *)
DestroyLowest ==
  /\ phase = "stopping"
  /\ Live(proc) # {}
  /\ LET s == LowestOf(Live(proc))
     IN /\ proc' = [proc EXCEPT ![s] = FreeProcess]
        /\ app' = [app EXCEPT ![s] = FreeApp]
        /\ console' = ReleasedConsole(console, s)
        /\ story' = [story EXCEPT ![s] = NoStory]
  /\ UNCHANGED <<stack, depth, nextId, fg, rt, ctx, event, phase>>

DestroyHighest ==
  /\ phase = "stopping"
  /\ Live(proc) # {}
  /\ LET s == CHOOSE s \in Live(proc) : \A r \in Live(proc) : r <= s
     IN /\ proc' = [proc EXCEPT ![s] = FreeProcess]
        /\ app' = [app EXCEPT ![s] = FreeApp]
        /\ console' = ReleasedConsole(console, s)
        /\ story' = [story EXCEPT ![s] = NoStory]
  /\ UNCHANGED <<stack, depth, nextId, fg, rt, ctx, event, phase>>

EndShutdown ==
  /\ phase = "stopping"
  /\ Live(proc) = {}
  /\ fg' = NoSlot
  /\ depth' = 0
  /\ phase' = "down"
  /\ UNCHANGED <<proc, stack, nextId, console, app, rt, ctx, event, story>>

-----------------------------------------------------------------------------
(* kernel_application_system_update, on the runtime thread. *)

(* platform_runtime_wait_until takes every pending event, then the update runs.
   It also runs without an APPLICATION event, when input arrives. *)
BeginUpdate ==
  /\ phase = "up"
  /\ rt = "idle"
  /\ event' = FALSE
  /\ ctx' = fg
  /\ rt' = IF proc[fg].state = "running" /\ ~proc[fg].exitRequested
           THEN "take" ELSE "tail"
  /\ UNCHANGED <<table, app, phase, story>>

(* Mutant: the parent's own exit status is taken. *)
TakeOwnStatus ==
  /\ rt = "take"
  /\ rt' = "exec"
  /\ IF proc[ctx].childValid
     THEN /\ proc' = [proc EXCEPT ![ctx].childValid = FALSE]
          /\ app' = [app EXCEPT ![ctx].execStatus = proc[ctx].exitStatus,
                                ![ctx].ready = TRUE]
     ELSE UNCHANGED <<proc, app>>
  /\ UNCHANGED <<stack, depth, nextId, fg, console, ctx, event, phase, story>>

(* elf_update: a finished child's status becomes the answer to the exec. *)
TakeChildStatus ==
  /\ rt = "take"
  /\ rt' = "exec"
  /\ IF proc[ctx].childValid
     THEN /\ proc' = [proc EXCEPT ![ctx].childValid = FALSE]
          /\ app' = [app EXCEPT ![ctx].execStatus = proc[ctx].childStatus,
                                ![ctx].ready = TRUE]
     ELSE UNCHANGED <<proc, app>>
  /\ UNCHANGED <<stack, depth, nextId, fg, console, ctx, event, phase, story>>

NoExecRequest ==
  /\ rt = "exec"
  /\ ~app[ctx].execRequested
  /\ rt' = "exit"
  /\ UNCHANGED <<table, app, ctx, event, phase, story>>

(* The answer elf_update stores for a launch that did not succeed. *)
Unlaunched(result) ==
  /\ app' = [app EXCEPT ![ctx].execRequested = FALSE,
                        ![ctx].execStatus = -(100 + result),
                        ![ctx].ready = TRUE]
  /\ story' = [story EXCEPT ![ctx] = [program |-> app[ctx].path, ended |-> TRUE,
                                      status |-> -(100 + result)]]
  /\ rt' = "exit"

(* loader_elf_application_create fails, or no slot is left. *)
LaunchRejected ==
  /\ rt = "exec"
  /\ app[ctx].execRequested
  /\ \/ Unlaunched(InvalidResult)
     \/ /\ free_process_slot = NoSlot \/ depth >= Capacity
        /\ Unlaunched(StartFailed)
  /\ UNCHANGED <<table, ctx, event, phase>>

CanLaunch ==
  /\ rt = "exec"
  /\ app[ctx].execRequested
  /\ free_process_slot # NoSlot
  /\ depth < Capacity
  /\ nextId <= MaxId

(* launch_child_descriptor: the parent blocks and gives up the console. *)
LaunchChild ==
  /\ CanLaunch
  /\ ReleasedConsole(console, ctx) = NoSlot
  /\ LET s == free_process_slot
     IN /\ proc' = [proc EXCEPT ![ctx].state = "blocked", ![ctx].owned = FALSE,
                                ![s] = NewProcess(nextId, proc[ctx].id)]
        /\ fg' = s
        /\ console' = s
        /\ app' = [app EXCEPT ![ctx].execRequested = FALSE, ![s] = FreeApp]
        /\ story' = [story EXCEPT
                       ![ctx] = [NoStory EXCEPT !.program = app[ctx].path],
                       ![s] = NoStory]
  /\ stack' = [stack EXCEPT ![depth] = nextId]
  /\ depth' = depth + 1
  /\ nextId' = nextId + 1
  /\ event' = TRUE
  /\ rt' = "tail"
  /\ UNCHANGED <<ctx, phase>>

(* The child's console or its entry callback fails: finish_child_process
   unwinds it at once and elf_update discards the status it left. *)
LaunchFails(presented) ==
  /\ CanLaunch
  /\ LET shown == presented /\ ReleasedConsole(console, ctx) = NoSlot
         parent == [proc[ctx] EXCEPT !.state = "blocked", !.owned = FALSE]
     IN /\ proc' = [proc EXCEPT ![ctx] =
                      [Resumed(parent, Failure, shown) EXCEPT !.childValid = FALSE]]
        /\ console' = IF shown THEN ctx ELSE ReleasedConsole(console, ctx)
  /\ Unlaunched(StartFailed)
  /\ stack' = [stack EXCEPT ![depth] = nextId]
  /\ nextId' = nextId + 1
  /\ event' = TRUE
  /\ UNCHANGED <<depth, fg, ctx, phase>>

(* kernel_process_fail for the foreground process. *)
Fail(cause, status) ==
  /\ proc' = [proc EXCEPT ![fg].cause = cause, ![fg].exitRequested = TRUE,
                          ![fg].exitStatus = status]
  /\ event' = TRUE
  /\ UNCHANGED <<stack, depth, nextId, fg, console>>

(* elf_update hands a requested exit to tabos_app_request_exit. *)
TakeExit ==
  /\ rt = "exit"
  /\ app[ctx].exitFlag
  /\ app' = [app EXCEPT ![ctx].exitFlag = FALSE]
  /\ proc' = [proc EXCEPT ![ctx].cause = IF @ = "none" THEN "exit" ELSE @,
                          ![ctx].exitRequested = TRUE,
                          ![ctx].exitStatus = app[ctx].exitValue]
  /\ event' = TRUE
  /\ rt' = "tail"
  /\ UNCHANGED <<stack, depth, nextId, fg, console, ctx, phase, story>>

NoExit ==
  /\ rt = "exit"
  /\ ~app[ctx].exitFlag
  /\ rt' = "step"
  /\ UNCHANGED <<table, app, ctx, event, phase, story>>

(* platform_riscv32_step creates the task, or finds it running or returned. *)
Step ==
  /\ rt = "step"
  /\ app' = IF app[ctx].task = "none"
            THEN [app EXCEPT ![ctx].task = "running"] ELSE app
  /\ rt' = IF app[ctx].task = "returned" THEN "returned" ELSE "tail"
  /\ UNCHANGED <<table, ctx, event, phase, story>>

(* The task cannot be created, or the interpreter meets an invalid access. *)
StepFaults ==
  /\ rt = "step"
  /\ app[ctx].task # "returned"
  /\ Fail("fault", FaultStatus)
  /\ rt' = "tail"
  /\ UNCHANGED <<app, ctx, phase, story>>

(* The entry function returned: unless the program asked to exit meanwhile,
   its value is the exit status. *)
Returned ==
  /\ rt = "returned"
  /\ IF app[ctx].exitFlag THEN UNCHANGED <<table, event>>
     ELSE Fail("return", app[ctx].returned)
  /\ rt' = "tail"
  /\ UNCHANGED <<app, ctx, phase, story>>

(* The end of kernel_application_system_update. *)
Tail ==
  /\ rt = "tail"
  /\ rt' = "idle"
  /\ ctx' = NoSlot
  /\ IF ~proc[ctx].exitRequested
     THEN UNCHANGED <<table, app, event, phase, story>>
     ELSE IF proc[fg].id = 0
     THEN /\ proc' = [proc EXCEPT ![fg] = Panicked(@)]
          /\ UNCHANGED <<stack, depth, nextId, fg, console, app, event, phase, story>>
     ELSE \E presented \in BOOLEAN : FinishForeground(presented)

(* kernel_process_force_terminate, between two updates. *)
ForceTerminate(status) ==
  /\ phase = "up"
  /\ rt = "idle"
  /\ Fail("forced", status)
  /\ UNCHANGED <<app, rt, ctx, phase, story>>

-----------------------------------------------------------------------------
(* The task of the program in slot s, which runs whatever its process state. *)

CanCall(s, calls) ==
  /\ proc[s].state # "free"
  /\ app[s].task = "running"
  /\ app[s].call \in calls

(* Mutant: a request in flight is not recognised. *)
ElfExecAgain(a, p) ==
  IF a.ready THEN [a EXCEPT !.ready = FALSE, !.inFlight = FALSE]
  ELSE [a EXCEPT !.inFlight = TRUE, !.execRequested = TRUE, !.path = p]

(* The exec call gate. A stored answer is returned to whichever call comes
   next, a request in flight is reported pending, and otherwise program p is
   requested. A call refused for its arguments changes nothing. *)
ElfExec(a, p) ==
  IF a.ready THEN [a EXCEPT !.ready = FALSE, !.inFlight = FALSE]
  ELSE IF a.inFlight THEN a
  ELSE [a EXCEPT !.inFlight = TRUE, !.execRequested = TRUE, !.path = p]

ElfExecNotifies(a) == ~a.ready /\ ~a.inFlight

(* One turn of the tabos_exec loop. *)
AppExec(s, p) ==
  /\ CanCall(s, {"idle", "exec"})
  /\ IF app[s].call = "exec" THEN p = app[s].want
                             ELSE Overlap \/ ~app[s].spawned
  /\ app' = [app EXCEPT ![s] = [ElfExec(@, p) EXCEPT
                !.call = IF app[s].ready THEN "idle" ELSE "exec", !.want = p]]
  /\ event' = (event \/ ElfExecNotifies(app[s]))
  /\ UNCHANGED <<table, rt, ctx, phase, story>>

(* tabos_spawn keeps the path for the wait. A status that was already stored
   is taken for a successful spawn when it is not negative. *)
AppSpawn(s, p) ==
  /\ CanCall(s, {"idle"})
  /\ ~app[s].spawned
  /\ app' = [app EXCEPT ![s] = [ElfExec(@, p) EXCEPT
                !.want = p, !.spawned = app[s].ready => app[s].execStatus >= 0]]
  /\ event' = (event \/ ElfExecNotifies(app[s]))
  /\ UNCHANGED <<table, rt, ctx, phase, story>>

(* One turn of the tabos_waitpid loop. *)
AppWait(s) ==
  /\ CanCall(s, {"idle", "wait"})
  /\ app[s].spawned
  /\ app' = [app EXCEPT ![s] = [ElfExec(@, app[s].want) EXCEPT
                !.call = IF app[s].ready THEN "idle" ELSE "wait",
                !.spawned = ~app[s].ready]]
  /\ event' = (event \/ ElfExecNotifies(app[s]))
  /\ UNCHANGED <<table, rt, ctx, phase, story>>

(* Mutant: the runtime is not notified of an exit. *)
AppExitSilently(s, status) ==
  /\ CanCall(s, {"idle"})
  /\ app' = [app EXCEPT ![s].exitValue = status, ![s].exitFlag = TRUE,
                        ![s].call = "exited"]
  /\ UNCHANGED <<table, rt, ctx, event, phase, story>>

(* _exit, or the end of main in crt0: the status is published, then the flag. *)
AppExit(s, status) ==
  /\ CanCall(s, {"idle"})
  /\ app' = [app EXCEPT ![s].exitValue = status, ![s].exitFlag = TRUE,
                        ![s].call = "exited"]
  /\ event' = TRUE
  /\ UNCHANGED <<table, rt, ctx, phase, story>>

(* The entry function returns: after request_exit in crt0, with the same
   status, or with a status of its own when the ABI versions differ. *)
AppReturn(s, status) ==
  /\ CanCall(s, {"idle", "exited"})
  /\ app[s].call = "exited" => status = app[s].exitValue
  /\ app' = [app EXCEPT ![s].task = "returned", ![s].returned = status]
  /\ event' = TRUE
  /\ UNCHANGED <<table, rt, ctx, phase, story>>

-----------------------------------------------------------------------------
Boot == LaunchRoot \/ LaunchRootFails

ShutDown == BeginShutdown \/ DestroyHighest \/ EndShutdown

LaunchStep ==
  LaunchRejected \/ LaunchChild \/ \E presented \in BOOLEAN : LaunchFails(presented)

UpdateStep ==
  \/ TakeChildStatus \/ NoExecRequest \/ LaunchStep
  \/ TakeExit \/ NoExit \/ Step \/ StepFaults \/ Returned \/ Tail

AppStep(s) ==
  \/ \E p \in Programs : AppExec(s, p) \/ AppSpawn(s, p)
  \/ AppWait(s)
  \/ \E status \in Statuses : AppExit(s, status) \/ AppReturn(s, status)

Stopped == phase = "down" /\ UNCHANGED vars

Next ==
  \/ Boot
  \/ ShutDown
  \/ BeginUpdate
  \/ UpdateStep
  \/ \E status \in Statuses : ForceTerminate(status)
  \/ \E s \in Slot : AppStep(s)
  \/ Stopped

(* platform_run loops until shutdown: it wakes for a pending event and then
   finishes the update it began. Programs owe nothing. *)
Fairness ==
  /\ WF_vars(event /\ BeginUpdate)
  /\ WF_vars(UpdateStep)

Spec == Init /\ [][Next]_vars

FairSpec == Spec /\ Fairness

-----------------------------------------------------------------------------
(* Properties *)

(* The foreground stack is the chain of parents. While the system is up the
   process in slot k is the one at depth k, process 0 at the bottom is never
   unloaded, the top of the stack is the foreground process and every process
   below it is BLOCKED: what finish_child_process relies on when it looks the
   parent up by id, and kernel_application_system_shutdown when it destroys
   slots in reverse order. *)
ForegroundChain ==
  phase = "up" =>
    /\ depth >= 1
    /\ Live(proc) = 0 .. depth - 1
    /\ fg = depth - 1
    /\ proc[0].id = 0
    /\ proc[fg].state # "blocked"
    /\ \A s \in 0 .. depth - 1 :
         /\ stack[s] = proc[s].id
         /\ s < depth - 1 => proc[s].state = "blocked"
         /\ s > 0 => proc[s].parent = proc[s - 1].id
         /\ \A r \in 0 .. depth - 1 : r < s => proc[r].id < proc[s].id

(* The console belongs to the foreground process: a program can be running in
   the foreground without it only when it is already being terminated for that
   reason, and a process that lost it is not believed to own it. *)
ConsoleFollowsForeground ==
  /\ \A s \in Slot : proc[s].owned <=> console = s
  /\ phase = "up" => /\ console \in {fg, NoSlot}
                     /\ proc[fg].state = "running" /\ console = NoSlot
                          => proc[fg].exitRequested

(* An exec that was accepted is in exactly one place: requested, running as a
   child, finished with its status on the process, or answered. It is never
   lost and never answered twice, whatever fails during the launch. *)
ExecAccounted ==
  phase = "up" =>
    \A s \in Live(proc) :
      /\ app[s].inFlight <=> \/ app[s].execRequested
                             \/ proc[s].state = "blocked"
                             \/ proc[s].childValid
                             \/ app[s].ready
      /\ ~(app[s].execRequested /\ proc[s].state = "blocked")
      /\ ~(app[s].execRequested /\ proc[s].childValid)
      /\ ~(app[s].execRequested /\ app[s].ready)
      /\ ~(proc[s].state = "blocked" /\ proc[s].childValid)
      /\ ~(proc[s].state = "blocked" /\ app[s].ready)
      /\ ~(proc[s].childValid /\ app[s].ready)

(* "Function returns child's exit status after cleanup and parent restoration"
   (docs/applications.md): the status a call returns is how the program it
   named ended, and the caller is then the foreground process. *)
ExecReturnsChildStatus ==
  [][\A s \in Slot :
       app[s].ready /\ proc'[s].state # "free" /\ ~app'[s].ready =>
         /\ story[s] = [program |-> app'[s].want, ended |-> TRUE,
                        status |-> app[s].execStatus]
         /\ phase = "up" => fg = s]_vars

(* A process is unloaded with the status it ended with: the one given to exit,
   which a return racing with it cannot replace, the returned one, or the
   kernel's own for a fault or a lost console. *)
EndsAsItEnded ==
  [][\A s \in Slot :
       (phase = "up" /\ proc[s].state # "free" /\ proc'[s].state = "free") =>
         /\ proc[s].cause = "exit" =>
              app[s].call = "exited" /\ proc[s].exitStatus = app[s].exitValue
         /\ proc[s].cause = "return" =>
              app[s].call # "exited" /\ proc[s].exitStatus = app[s].returned
         /\ proc[s].cause = "fault" => proc[s].exitStatus = FaultStatus
         /\ proc[s].cause = "none" => proc[s].exitStatus = Failure]_vars

(* A process is unloaded only after its children, in shutdown too. *)
ChildrenFirst ==
  [][\A s \in Slot :
       proc[s].state # "free" /\ proc'[s].state = "free" =>
         \A r \in Slot : proc'[r].state # "free" => proc'[r].parent # proc[s].id]_vars

(* Where the call of the program in slot s is, while calls are served: its child
   is in the next slot. *)
CallAt(s) ==
  LET p == app[s].want
      answer(v) == [at |-> "answered", program |-> p, status |-> v]
  IN IF phase # "up" \/ ~app[s].inFlight THEN [at |-> "idle"]
     ELSE IF proc[s].state = "blocked"
     THEN [at |-> "running", program |-> p, child |-> s + 1]
     ELSE IF app[s].ready THEN answer(app[s].execStatus)
     ELSE IF proc[s].childValid THEN answer(proc[s].childStatus)
     ELSE [at |-> "asked", program |-> p]

Exec ==
  INSTANCE ExecCall WITH
    Caller <- Slot, Program <- Programs,
    Refusal <- {-(100 + result) : result \in {InvalidResult, StartFailed}},
    loaded <- IF phase = "up" THEN Live(proc) ELSE {},
    call <- [s \in Slot |-> CallAt(s)],
    status <- [s \in Slot |-> proc[s].exitStatus],
    closed <- phase \in {"stopping", "down"}

(* Every status is true, of a process that ended and of a call that returns, and
   every call goes the way ExecCall describes: refused, or served by a child that
   is unloaded in the step that answers it, and about one program throughout. *)
StatusesAreTrue == ExecReturnsChildStatus /\ EndsAsItEnded /\ Exec!Spec

(* A program that asked to exit is honoured: it leaves the foreground, or it is
   process 0 and the system panics; and the status of a finished child reaches
   the exec call of its parent. Only runtime events wake the thread, so a
   notification missing on the way would leave either waiting. *)
ProgramsAreServed ==
  \A s \in Slot :
    /\ (fg = s /\ app[s].call = "exited" /\ phase = "up")
         ~> (fg # s \/ proc[s].state # "running" \/ phase # "up")
    /\ (proc[s].childValid /\ proc[s].state = "running" /\ phase = "up")
         ~> (app[s].ready \/ proc[s].state # "running" \/ phase # "up")
=============================================================================
