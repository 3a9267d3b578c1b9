# TabOS in TLA+

TabOS is a small operating system for the M5Stack Tab5: an ESP32-P4 with two
cores runs the kernel and native RISC-V programs, an ESP32-C6 beside it is the
Wi-Fi station. This directory models the parts of it whose correctness depends
on the order in which threads, callbacks and events meet, checks them with TLC
on small instances, and proves theorems about them with TLAPS for every
instance.

## 1. The system

| Component | State it keeps | Operations | What is hard | What makes it correct |
| --- | --- | --- | --- | --- |
| Nested processes (`process/process.c`, the ELF update and gates of `loader/elf_application.c`, `sdk/lib/process.c`) | process table, foreground stack, per-program exec and exit flags | launch, update, exit, fail, shutdown; exec / spawn / wait of a program | the runtime thread and each program exchange atomic flags; a parent's task runs while its process is blocked | the stack is the chain of parents; each status reaches the call it is for; children end first |
| Native execution (`platform/esp32p4/application_task.c`) | stop flag, gate depth, task and compute worker | call gates, stop, compute submit / wait | suspension takes effect late on the other core; a stopped task must hold nothing | a stopped program never runs again and leaves no lock behind; teardown ends |
| Network workers (`platform/posix/socket.c`, `network.c`, `tls.c`) | mutex, request and response queue, cancel flag | submit, execute, cancel | cancellation races submission | an answer belongs to who asked |
| Power manager (`kernel/power.c`) | participants, transition, expected completion, display stages | suspend, complete, resume, rollback, update, activity, inhibitors | participants answer late, twice or never; wake-ups at any time; display writes fail | dependency order, all or none, dark panel never lit, no busy loop |
| Wi-Fi (`net/network.c`, `platform/esp32p4/runtime.c`, `wifi_startup.c`, `wifi_driver.c`) | service status and retry timer, driver state, queued request | connect, disconnect, update, events, shutdown | four threads, no common lock | attempts only while wanted; settled; silent after shutdown |
| Runtime loop (`kernel/runtime.c`, `platform/esp32p4/runtime.c`) | event bits, deadlines | notify, wait, update, start, shutdown | lost wake-ups; early return of an update; unwinding of a failed start | no event lost, no work started twice |
| Camera (`camera/camera.c`, `platform/esp32p4/camera.c`) | stream, frame pool, leases, capture worker | open, submit, acquire, release, close, remove, shut down | the worker captures while the stream is leased from, stopped and opened again | leased frames are stable, losses counted, order kept; stops end and join the worker |
| Audio (`audio/audio.c`, `platform/esp32p4/audio.c`) | streams, format, route, codecs, worker, headphone monitor | open, write, reconfigure, route, close | the mutex is released while hardware is reconfigured | one reconfiguration at a time; the hardware is what the open streams need |
| Input and pointer (`input/input.c`, `platform/esp32p4/keyboard.c`, `pointer/pointer.c`, `platform/esp32p4/pointer.c`) | bounded queues, generation, contacts, interrupt flags, bindings, repeat timer | interrupt, drain, push, read, repeat, foreground switch, resynchronise | overflow between a press and its release; an interrupt during a drain | what was seen to start is seen to end, or the reader is told that it missed something; nothing stays in a controller |
| Device registry (`kernel/device_registry.c`, `hardware_devices.c`) | devices, handles, event queues | register, open, poll, remove | stale handles, overflow | a handle never reaches another device |
| Console, terminal, graphics (`console/`, `graphics/`, `platform/esp32p4/display.c`, the graphics gates of `loader/elf_application.c`) | sessions, text grid, foreground token; two scanout buffers, deferred drawing, a display worker | acquire, write, present, release; fill, blit, present, submit, borrow, wait, close | two buffers scanned by hardware, drawing deferred to a worker without a lock, a program's memory read after its gate has returned | the panel gets whole frames; what is scanned is not drawn on; the worker and the program never draw at once |
| ELF loader and call-gate services (`loader/`) | image, handle tables of a program | load, relocate, wait gate, files | limits of the file format; wait with several sources | nothing outside the image is touched |
| File system and storage (`fs/`, `platform/posix/storage.c`) | mounts, open files | open, read, rename with backup | a step of the rename failing | old or new contents, never neither |
| Configuration, boot report, registry (`net/config.c`, `kernel/power_config.c`, ...) | parsed values | parse, load | - | accepted values are in range |
| Time (`time/`) | wall clock, SNTP state | start, stop, set | - | valid before it is used |
| Tab5 drivers, host platform, targets, SDK, applications, tests | hardware, wrappers | - | - | outside this project except where a model uses them |

**How they interact.** One *runtime thread* loops: it waits for an event bit or
the nearest deadline and runs `kernel_runtime_update`, which in turn updates
power, input, network and then `kernel_application_system_update`, the
foreground program's step. A *native program* has a task of its own and reaches
the kernel through call gates; gates that block hand a request to a *worker*
task. The *driver's event task* and the Wi-Fi *start-up task* store state and
notify the runtime. When a child ends, the runtime thread tears its execution
down (NativeTask) and returns the foreground and the exit status to the parent
(Process). Power and the network service are passes of the same thread.

## 2. Modules

| Module | Models | Used by |
| --- | --- | --- |
| `ExecCall` | abstract: what the exec gate promises to the program that calls it | `Process` (refinement) |
| `Process` | nested processes, exec / exit protocol, console ownership | `MCProcess`, `ProcessProofs` |
| `ProcessProofs` | invariants and action properties of `Process` and the refinement of `ExecCall`, proved | - |
| `NativeTask` | call gates, stop handshake, worker protocol, compute worker, teardown order | `MCNativeTask`, `NativeTaskProofs` |
| `NativeTaskProofs` | invariants and action properties of `NativeTask`, proved | - |
| `Power` | power manager: finalization, transitions and display stages | `MCPower`, `PowerProofs` |
| `PowerProofs` | invariants of `Power`, proved | - |
| `Network` | Wi-Fi service, platform, start-up task, events | `MCNetwork`, `NetworkProofs` |
| `NetworkProofs` | an invariant and an action property of `Network`, proved | - |
| `Camera` | stream, pool and leases, capture worker, start / stop / resume | `MCCamera`, `CameraProofs` |
| `CameraProofs` | an invariant and two action properties of `Camera`, proved | - |
| `Delivery` | abstract: what the wake primitive promises to those who notify | `EventLoop` (refinement); `Touch` relies on it |
| `EventLoop` | notify, wait, run and stop of the Tab5's runtime loop | `MCEventLoop`, `InputProofs` |
| `InputProofs` | invariants of `Keyboard`, of `Touch` and of `EventLoop`, and the refinement of `Delivery`, proved | - |
| `PointerPromise` | what the pointer service promises its readers and the power manager, and the state that speaks of | `Touch` |
| `Touch` | touch interrupt, bounded drain, contact matching, pointer service, its readers, the dimming inhibitor | `MCTouch`, `InputProofs` |
| `Audio` | audio service, codecs, audio worker, output route and headphone monitor | `MCAudio`, `AudioProofs` |
| `AudioProofs` | invariants of `Audio`, proved | - |
| `Display` | a program's graphics commands, the overlay, the driver's deferred drawing, its worker, buffers and panel, the terminal in the same buffers | `MCDisplay`, `DisplayProofs` |
| `DisplayProofs` | invariants and an action property of `Display`, proved | - |
| `KeyPromise` | what a generation of the input service promises a program, and the state that speaks of | `Keyboard` |
| `Keyboard` | keyboard interrupt, bounded drain, matrix translation, input queue with generations and repeat, its readers as the console changes hands | `MCKeyboard`, `InputProofs` |

Definitions keep the source's names where they stand for one function
(`free_process_slot`, `power_manager_complete`, `perform_attempt`). A function
that another thread can interleave with is split where that thread can observe
it, and each piece is an action named for what it does; a variable (`rt`,
`call`, `op`, `boot`, `handler`) holds the place in the code. Code that runs
under a lock, or on the only thread that touches its data, is one action.
Definitions marked "Mutant" are the faulty variants each property is tried on;
no specification uses them.

### Process
`proc` is `processes[]`, `stack` / `depth` the foreground stack, `app` the flags
of `loader_elf_application_t` shared with the program's task, `rt` and `ctx` the
runtime thread's place in `kernel_application_system_update` and the context it
captured at line 168. An update is `BeginUpdate`, then `TakeChildStatus`, the
exchange of the exec flag (`NoExecRequest` or one of the launches), of the exit
flag (`NoExit` or `TakeExit`), the step (`Step`, `StepFaults`, `Returned`) and
the `Tail` that ends the foreground process when the captured context asked for
it. A program's side is `AppExec`, `AppSpawn`, `AppWait` (each one pass of the
SDK's loop through `elf_exec`), `AppExit` and `AppReturn`. Launches fail at
every place the code lets them. `story` is history: what was last run for each
slot and how it ended. Arguments, paths as text, and the graphics and compute
checks of `elf_exec` are left out; the latter refuse a request and change nothing.
Programs keep to the SDK: an exec call is repeated until it is answered. With
`Overlap = FALSE` a program waits for what it spawned before it calls
`tabos_exec` again; `Overlap = TRUE` drops that.

`ExecCall` is the same from the caller's side: a call is asked for, then refused or
running with a child in a place of its own, then answered, and returns. It is
about one program throughout, and what answers it is the step that unloads the
child, with the exit status the child had. The refinement (`CallAt`) reads the
place of a call off the flags of `elf_exec`, the process state and the status on
the process record; what only the kernel sees in between (the status moving from
the record to the program) is a stutter. Calls are served until the runtime is
told to stop (`Close`).

### NativeTask
`pc`, `sched`, `stop`, `gate` are one program's task, how the scheduler holds it,
`stop_requested` and `gate_depth`. `sched` separates a suspension that was
requested from one that took effect, which is what `eTaskGetState` in the stop
loop is for. `lock`, `worker`, `cancelled` are one worker with its mutex, its
queues and cancel flag: the socket, echo/resolve and TLS workers are three
copies of one protocol, and a gate uses one at a time. `rt` walks
`platform_riscv32_stop` and `elf_release_resources`, where it is a client of the
TLS worker itself when a connection was left open (`CloseTls`). Program n + 1 is the child
of program n; with `Concurrent = FALSE` a program uses no service while its
child runs.

### Power
It begins with `power_manager_finalize`, the depth-first search that orders the
participants: `walk` holds the marks, the calls of `visit` that have not returned,
each with the dependency it looks at next, and the index of the loop around them.
`VisitNext`, `VisitDependency` and `VisitReturns` are the call from that loop, the
next turn of the innermost call and its return, so that no recursive definition
stands between the model and its proofs. A pass (`call`) is the power part of
`kernel_runtime_update` followed by `power_manager_update`, cut at each
participant and platform call. `part` is what each participant believes,
`expected` and `answer` the completion under the manager's mutex, `display` the
panel and backlight. Participants answer at once,
later, with a stale or repeated token, or fail; one whose last callback or answer
was a failure is "failed", in suspend and resume alike, until it is asked again,
and a failed resume is recorded and passed over as `drive` does. `platform_power_*`
outcomes are external choices. `setup` is one of the systems in `Setups` - the graph of participants,
how many suspends are asked for, whether the display may fail - chosen once. A
single policy is in force at a time and may be replaced.

### Network
`service`, `timer`, `op` are the service and whoever holds `operation_mutex`;
`wifi` the platform's variables, `boot` the start-up task, `link` the station,
`events` and `handler` the driver's events on their way and being stored.
`set_wifi_state` stores a state and raises a flag; the two atomics are one
action because the reader clears the flag before it reads the state, so a reader
between them only reads again. Names, passwords, addresses and text are left out,
as is `state_mutex`, whose sections are written by the holder of
`operation_mutex` only.

### Camera
`stream` and `frames` are the open stream (at most one, `open_count`) and its
pool, changed under `camera_mutex` in one action each. `op` is the holder of
`pipeline_mutex` and its place in `platform_camera_start`, `_stop`, `_resume` or
`_shutdown`; `worker` is the place in `camera_worker` and `capture_one_frame`,
which never take that mutex. `signal` holds the worker's notification and the
semaphores `capture_idle` and `capture_exited`, `capture` the atomic flags, the
device and the format the driver was set to. The driver is external: a picture,
an error, a flagged or a missed one at any time. `Crash` is what may follow once
the buffers are released under a worker that processes one. `seen` is history:
pictures submitted and acquired. An application that was stopped in a gate
finishes it first (NativeTask), so `CloseOwner` finds it between two calls.

### Delivery and EventLoop
`Delivery` says what a driver, a service or a program may rely on when it calls
`platform_runtime_notify`: bits coalesce, but until the loop is told to stop
each of them reaches an update that begins afterwards. `EventLoop` is how
`platform/esp32p4/runtime.c:346-430` keeps it: `bits`, `task`, `token` are
`runtime_events`, the published task handle and FreeRTOS' notification value;
`who` is where each notifying thread is between its `atomic_fetch_or`, its load
of the task and the give; `loop` is where the runtime thread is between its
exchange of the bits, its look at the deadline, the wait and the update. A
request for a system action stops the loop. The refinement maps the bits to
`owed` and those the wait has returned to `inHand`.

### Touch
`line`, `edge`, `flag` are the controller's interrupt line, its handler and
`touch_interrupt_pending`; `owed` is the POINTER bit as `Delivery` promises it.
`at` is the runtime thread: exchange of the flag, look at the line, up to
`Passes` reads, the events of each (`todo`), the re-arming of what is still
pending, and the part of `kernel_runtime_update` that tells the power manager.
`Matching`, `Reconciled`, `Events` say what `reconcile_points` does with a
report: nearest contact first, in the order of the points; `Select` is a loop
that submits only some of the contacts. `stream` holds a
program's queue and contacts, changed under the service's lock in one action;
opening is two, because the test for a device precedes the lock. `believed` and
`lost` are history: what a reader believes is down, and the releases that
emptying a queue dropped; they are the reader's side, and the properties about it
are in `PointerPromise`, where `BelievedAfter` is what a reader makes of a queue.

### Audio
`stream`, `reconfiguring`, `hardware_active`, `active_sample_rate`, `ready`,
`error` are the service; `codec`, `hardware`, `running`, `active`, `worker` the
platform and its audio task; `monitor` the flags of the headphone monitor and
the tasks that poll or leave; `route` what was asked for and what is on. `call`
is each program's place in a call, `job` what the call is: `Decide`, `Reopen`,
`Close` are the sections under the service's mutex, everything between is done
with it released. Every platform step may fail where the source tests for it.

### Display
`front`, `pending` and `fencing` are `scanout`: which buffer is shown, whether a
frame has been handed to the panel and not fenced, and who waits for that.
`chosen`, `scanning` are the panel driver's; `vsync` is the binary semaphore its
refresh callback gives. `draw` gathers the driver's drawing state: the two
buffers' pixels, what each overlay covered (`saved`), whether the back buffer
holds the last picture (`direct_prepared`), and the full clear that is put off.
`staged` and `cover` are a blit and an overlay left to the worker, `work`,
`succeeded`, `notified`, `done` its job. `queue` is the program's command queue,
`source` its bitmap, `None` once it is freed. `pc` and `goal` are where the
program's thread is in which gate (after its end: the runtime thread in
`elf_release_resources`), where the worker is, and where whoever presents the
terminal is; `holder` and `console` are the console lock and its
`graphics_active`. A picture is two regions, what the overlay covers and the
rest, and a drawing operation says which of them it paints: that is all the
properties tell apart. `lent`, `canvas`, `overlay`, `shown` are history: whose
turn the bitmap is by the SDK's rule, what the program has drawn, and what the
panel was last handed. Left out: opening graphics when they are open, graphics in
a nested program (refused while the parent has them), and the time-outs of the
panel and the PPA, which abort the system. A refresh may end at any moment, and
the terminal be presented whenever the console lock is free, as in the code; two
history variables remember the coincidences that are too much for it: `early`
says that the last refresh ended while a frame was between the drain of old signals
and its choice, `met` that an `elf_graphics_open` and a presentation of the
terminal have been in the driver together. The properties name them as
exceptions, and section 5 says what happens in them.

### Keyboard
`fifo`, `status` and `armed` are the controller: reports, the interrupt status
and its enable; `edge`, `flag`, `owed` the handler, `keyboard_interrupt_pending`
and the INPUT bit. `at`, `pass`, `left` are the runtime thread's place in the end
of `tab5_keyboard_init`, in `tab5_keyboard_poll` and the drain, and in the part
of `kernel_runtime_update` that tells the power manager and repeats the held key.
`pressed`, `latch`, `binding` are the matrix and what `submit_matrix_event` keeps
of Sym; `todo` its events that are not submitted yet, `left` the reports a pass has
counted, up to `MaxEvents`, and not read. `input` is the queue with
its generation and the held key, `down` is `power_keys`. `Code` maps a key to the
code programs see. The controller is external: it is taken to leave its status
set, when that is cleared, for reports that came after they were counted. `view`
is a program that keeps to `docs/sdk.md`: it takes events of the generation it
knows, and a snapshot when it learns of another; `KnownAfter`, in `KeyPromise`,
is what it will have learned with the queue read. Changes of the console are made
by the runtime thread between updates of the keyboard.

## 3. What TLC checks

| Run | Bounds | Shows |
| --- | --- | --- |
| `process` | 3 slots, 2 launches after the root, one program, one status | the foreground stack is the chain of parents; the console is the foreground's; an exec request is in exactly one place; the status returned is the named child's and `Process` implements `ExecCall`; exit beats a racing return; children end first; exits are honoured and statuses delivered |
| `native_task` | 2 programs, 2 gates each, one TLS connection to close | nothing locked after a teardown; a stopped program is still; a reply is for who holds the service, and only a stopped program sees a cancellation; compute answers; every cleanup ends |
| `power` | 2 participants in a chain, in a cycle, with a missing dependency, 2 suspends; none with a failing display, 1 suspend; two policies | order, all or none but for what failed, end of transitions, wake-ups; no light on a dark panel, inhibitors, idle time, no busy loop |
| `network` | 3 attempts, 2 explicit calls | limits and wish, settling of the service's and the start-up task's attempts, link loss, silence after shutdown |
| `network_disconnect` | 1 explicit call | *violation*: a disconnect during start-up is overtaken |
| `camera` | 3 frames, 4 pictures, 2 streams, encoded or not | leases stable, order, drops exact, a released frame is used, stops end |
| `camera_join` | the same | *violation*: a stop can release the buffers while the worker uses them |
| `event_loop` | 2 notifying threads, 2 bits | no lost wake-up, a stop ends the loop, `EventLoop` implements `Delivery`, its fairness included |
| `touch` | 1 program and no foreground, 2 contacts, a queue of 3, 2 passes, 3 changes of the panel | a reader who has read everything believes only in contacts that are down, unless a release was dropped; the background gets nothing; the dimming inhibitor follows the contacts; the last report is not left in the controller |
| `display` | a queue of 1, one failure, two regions, 2 fills and a blit; to the end of the first coincidence | no two of program, worker and terminal are in the driver, but an open and the terminal, and a completion is joined once; nothing reads a freed bitmap; until those meet, the panel gets what the program has drawn, whole, and nothing writes to the buffer that is scanned but after a refresh between drain and choice |
| `keyboard` | 2 keys of one code, one with its own and Sym, a queue of 2, 2 passes of up to 2 reports, 3 key moves, 1 repeat, 1 acquisition | a program whose generation is current knows the keys that are down, each on the layer of its press, and no other but a second key of the same code; when the fingers rest, so do the service and the power manager, with nothing left in the controller |
| `audio` | 2 programs, 2 rates, 2 monitors | hardware and streams agree, reconfigurations exclude each other, every open stream is played, a reconfiguration ends |

**Why these bounds are enough to meet the interesting cases.** Three slots give
a full table, a refused launch and two levels of unwinding; two programs are the
one being torn down and the one that inherits the worker, or holds it; two gates
let a program be stopped in a nested gate and before another. Two
participants are the least with an order, two transitions the least with a stale
token of an earlier one; a clock of five instants passes all three display
stages and their restart, and with participants (`EachStageOnce`) one of four passes
all three. Three attempts are the source's own
`NETWORK_AUTOCONNECT_ATTEMPTS`; two explicit calls are a connect overtaken by a
disconnect and the reverse. Three frames are the source's own
`CAMERA_FRAME_CAPACITY`, four pictures overflow them, and a second stream meets
what the first one left in the worker's semaphore. Two notifying threads and two
bits are a notification overtaken by another and two that coalesce. A queue of three over
two contacts has, as the source's 64 over 5, room for every cancellation and
one event more; three changes are a contact, its end and an overflow or a
foreground switch between them; two passes are the least of which one is not the
last. Two programs at two rates are an opener and a closer, and a
stream that does not fit; two monitors are what two programs can start. With room
for one graphics command (the source has 64) the second one executes the first,
and a present drains it: commands meet in the driver's state, where a deferred
clear and a staged blit wait, not in the queue. One failure is a refused frame or
a lost PPA, after which the next frames must come right; a blit the PPA does not
take is the one it has failed. The constraint `CoincidencesEnd` of `MCDisplay` stops at
the end of a meeting of an open with a presentation of the terminal, because from
there on `FrameIsWhole` and `BackIsNotScanned` claim nothing, and at the fence of a
frame hit by an early refresh, because the next refresh leads back to states reached
without it. All four properties are proved without the constraint. An input queue of two
overflows at the second key; three moves are a press, a layer changed
under it and its release, two keys of one code of which one is released, a
report after each of two passes, or one more than a pass reads. `KInTheLead`
cuts down what is the same whichever key it is tried with. `MaxId`,
`MaxFrames`, `MaxOpens`, `MaxCalls`, `MaxTime`, `MaxTouches`, `MaxMonitors`,
`MaxFaults`, `MaxTaps`, `MaxRepeats`, `MaxSwitches` and `setup.suspends` are
bounds of the models and appear as guards; the code has no such limits, and
beyond them only launches, calls, time or suspends stop, never an answer. For
that reason, and because a shut-down system stops, deadlock is not checked for
NativeTask, Power, Network, Camera and Keyboard; it is for Process, where `Stopped` is the only
state allowed to stay, for EventLoop, whose loop has ended then or has been
told nothing, for Touch, Audio and Display, where somebody can always open, close
or draw.
The type invariants of Process, EventLoop, Touch, Keyboard, Audio, Camera and Power
are proved; the
others state the ranges of the variables for the reader and hold in the instances
of the runs.

**Fairness.** It is stated for what the code keeps running, never for what
programs or peers choose. *Process*: `platform_run` starts an update for a
pending event and finishes it. *NativeTask*: the runtime thread, the worker and
the scheduler's switch go on; a task inside a gate gets strong fairness, since the
stop loop suspends and resumes it for ever with a tick in between. *Power*: a
pass starts for its event or deadline and finishes; a participant that said
PENDING answers in the end (the source has no time-out of its own). *Network*:
each thread finishes what it began, the runtime is woken by the flag's event and
the timer, and an association attempt ends with an event. *Camera*: a call that
began goes on, and so does the worker, since `VIDIOC_DQBUF` returns with a
picture, at the driver's own limit or when streaming is turned off; the sensor
owes no picture and the application no call. *EventLoop*: the scheduler runs the
loop and lets a thread finish a notification it began; nobody has to notify.
*Touch*: the runtime thread goes on, is woken by the bit as `Delivery` promises
(proved safe and checked live by `event_loop`), and an interrupt handler that was entered
returns; fingers and programs owe nothing. *Audio*: a call goes on, codec
transfers and the monitor's delay return; no program has to call. *Keyboard*: as
Touch. *Display* has no liveness property: that a completion of the worker is
there for the gate that waits, once, is stated as safety (`OneDrawer`).

**The violations** are disagreements with the documentation, quoted in
`PROJECT.json` under "findings". In short: (1) `platform_network_disconnect` tests
`wifi_initialized` before it clears the queued request, and the start-up task can
publish and take the request in between; (2) the worker gives `capture_idle` at
the end of every pass, and a stop that finds the answer of an earlier pass there
does not wait for the worker.

Each property of a passing run is also tried on a variant of the code
("mutants"): one dropped guard, swapped order or lost notification that it must
catch.

## 4. What is proved

**Processes.** `ProcessProofs` proves, for every capacity, every set of programs and statuses, every bound on ids and both values of
`Overlap`:

| Theorem | Statement |
| --- | --- |
| `Invariance` | `Spec => []IInv` |
| `TypeCorrect` | `Spec => []TypeOK` |
| `StackIsTheChain` | `Spec => []ForegroundChain` |
| `ConsoleIsForegrounds` | `Spec => []ConsoleFollowsForeground` |
| `ExecNeverLost` | `Spec => []ExecAccounted` |
| `ChildrenEndFirst` | `Spec => ChildrenFirst` |
| `EndingsAreTrue` | `Spec => EndsAsItEnded` |
| `ProcessImplementsExecCall` | `~Overlap`: `Spec => Exec!Spec` |
| `StatusesTold` | `~Overlap`: `Spec => StatusesAreTrue` |

The assumptions are the ones named in `Process`: a positive capacity, non-empty
sets, "none" not a program. **The argument.** No single invariant is inductive.
`ForegroundChain` needs `FreshIds` (ids of live processes are below
`next_process_id`) so that the lookup of a parent by id finds it, and
`UpdateContext` (between the steps of an update the captured context is the
foreground, and running) so that the launch and the tail act on the process that
asked. `ExecAccounted` needs both, since a launch moves a request from the
program to the stack and the end of a child moves it on to the parent's record.
`ConsoleFollowsForeground` needs the chain to know that the resumed parent is the
one given the console. `BootClean` covers the states before the root is
launched. `IInv` is the conjunction; frame lemmas (`ChainFrame`,
`ConsoleFrame`, `ExecFrame`) state what a step may change without disturbing a
part, and one lemma per action (`LaunchChildInv`, `FinishInv`, `TailInv`, ...)
does the rest. `ChildrenFirst` is about steps, those of shutdown included, when
the stack no longer says anything: it needs `Lineage`, that a parent sits in a
lower slot than its children and that the slots in use have no gap. While the
system is up this follows from `ForegroundChain`; each slot freed in shutdown
keeps it. `StepLineage` shows that no other step changes an id or a parent.

`StatusesAreTrue` has three parts and two invariants next to `IInv`.
`Endings` ties the cause of an end to the program's flags: a program that called
exit has its flag up until the update has made it the cause (`EndOf`), a process
waiting for its child has asked for nothing, and while an update serves a program
nothing has ended that program yet (`Unended`, which the kernel's own ends, taken
only between updates, leave alone). That is why a return that races with an exit
cannot replace its status. `Stories` follows an exec from the request to the
answer: the request in flight is for the program the call in progress names
(`CallOf`), the status on the parent's record is how that program ended
(`ChildOf`), and so is the answer stored for the call (`AnswerOf`). `CallOf` is
what an exec made between a spawn and its wait breaks, hence `~Overlap`; `Endings`
needs no such assumption. A caller that finds an answer is in the foreground
because `ExecAccounted` says it is not blocked and the chain that only its top is
not. Lemmas named `...Effect` say once what each action does to the records, so
that neither invariant is concerned with how a record is updated. The refinement
needs `IInv` and `Stories` and no more: `ExecAccounted` makes the place of a call
unique, `CallOf` keeps the program it is about, and that the child sits in the next
slot is the chain again. Each abstract action has a lemma that says what must be
known of the one or two calls it moves (`Asks`, `Begins`, `Finishes`, ...), each
action of `Process` one that picks it (`LaunchChildCarried`, `TailCarried`, ...).

**Native tasks.** `NativeTaskProofs` proves, for any nesting depth and any number
of gate calls:

| Theorem | Statement |
| --- | --- |
| `Invariance` | `Spec => []IInv` |
| `CleanTeardown` | `Spec => []NothingLeftBehind` |
| `RepliesArriveHome` | `~Concurrent`: `Spec => []ReplyForHolder` |
| `StaysStopped` | `Spec => StoppedIsStill` |
| `JobsAreAnswered` | `Spec => ComputeAnswers` |

`Counted`, `Held` and `Owned` tie the gate depth, the worker mutex and the
worker's request to the place of the one program they belong to. `Marked` counts
the gate whose check was passed before the stop as one still to come.
`Stopping` is what makes the teardown safe: what the runtime thread may rely on
at each of its places - that the task is suspended, then that it is in no gate,
then that its compute worker is suspended, then that it is deleted - although
the task has been resumed and suspended again in between. `Alone` is the part
that needs `~Concurrent`: only the top program is served, so a cancellation
reaches nobody else; `Chain` (programs start one on top of the other) is why the
program torn down is the top one. `TaskStillness` and `ComputeStillness` say
that a step is of one program and that a suspended task takes none, which
`StillStep` joins with `Stopping`.

**Wi-Fi.** `NetworkProofs` proves, for any number of attempts and of explicit
calls:

| Theorem | Statement |
| --- | --- |
| `Invariance` | `Spec => []IInv` |
| `AttemptsAreWanted` | `Spec => []OnlyWantedAttempts` |
| `NobodyIsLeft` | `Spec => QuietAfterShutdown` |

The history variables `wish` and `tried` say what was asked for last and how
often the platform was called since. That an attempt is still wanted is not
inductive: a failure that was polled while somebody disconnects might start the
retry timer again. `Untouched` is the strengthening: without a wish, as long as
reports are not suppressed, neither the service nor the platform nor the start-up
task is connecting, so a reported failure ended no attempt and starts no retry;
`Wanted` says which explicit call has changed the wish. `Joined` keeps what the
shutdown has waited for.

**The runtime loop.** `InputProofs` proves, for any set of notifying threads
and any set of bits that has SHUTDOWN and not DEADLINE:

| Theorem | Statement |
| --- | --- |
| `Invariance` | `Spec => []IInv` (with the type invariant) |
| `WakeupsAreKept` | `Spec => []NoLostWakeup` |
| `LoopImplementsDelivery` | `Spec => Promise!Safety` |

`NoLostWakeup` speaks of a loop that waits; one step earlier the loop has decided
to and has not looked again, so `WakeupOnItsWay` says it from the look on, and
`TaskIsPublished` says that a notification that reads the task then finds it.
`HandsFree` says where the loop holds no bits, which makes an exchange of the
code a `Collect` of `Delivery`; each step maps to one step or a stutter. The
fairness of `Delivery` is checked by the run `event_loop` (`KeepsThePromise`).

**The keyboard.** `InputProofs` proves, for any keys and codes, any programs,
any capacity of the queue and any number of passes:

| Theorem | Statement |
| --- | --- |
| `KeysInvariance` | `Keys!Spec => []KeysInv` (with the type invariant) |
| `GenerationsTell` | `Keys!Spec => []GenerationTellsAll` |

`Keys` is an instance of `Keyboard` and `Pad` below one of `Touch`, so that one
module can speak of both; the properties come from `KeyPromise` and
`PointerPromise`, which they extend. The hypothesis `Constants` of each is the
ASSUME of that module, which TLC evaluates in the runs. A program must be right about every queue that leads from
what it knows to now, and the events of a queue were made at different times.
`Knows` therefore relates what is known to four things at once - the codes that
are down, the keys that hold them, their layers and the shared codes - and
`KnowsDown` and `KnowsUp` say that one event keeps them in step. The step in
between is the hard one: the translator has recorded a release, forgets the
binding only with its submission, and the service still takes the code for down.
`Holding` counts such a key until its event is submitted, and `TodoIsTrue` says
that a release is submitted alone. `HeldIsDown` makes a repeat a second DOWN of
what is known already, and `GenerationsGrow` that an event dropped by a full
queue, a change of the foreground or a reset leaves nobody with the current
generation but who has read a snapshot since.

**The touch panel.** `InputProofs` proves, for any number of contacts, any set of
reports, any programs, any capacity that holds a cancellation of each contact and
any number of passes:

| Theorem | Statement |
| --- | --- |
| `TouchInvariance` | `Pad!Spec => []TouchInv` (with the type invariant) |
| `NoneStuck` | `Pad!Spec => []NoOtherStuckContact` |
| `DisplayFollows` | `Pad!Spec => []PowerFollows` |

`Sound` relates a stream, what its reader believes and what was lost. That there
is nothing wrong but what was lost is kept only because no event about a lost
contact is queued (an event about it repairs it, an emptied queue has none), and
because cancellations never outgrow a queue. `PowerFollows` speaks of the end of a
drain; within one the service has what the last report says but for the contacts
about which an event is still to be submitted (`PowerIsKept`), so `EventsTell`
says that a report submits a DOWN for exactly the contacts that land and an UP
for exactly those that leave, however the points are matched, and `CancelsTell`
that a failed read cancels all that were down.

**Facts about data.** What a reader makes of a queue and what a loop over the
contacts submits are recursive functions, and a recursive function is one only if
it is shown to exist. `SetInduction` is induction with a set for the predicate,
from the well-foundedness of `<` on the naturals, which needs no operator as a
parameter; with it `LearningExists` and `SelectingExists` build the functions
length by length, and `LearningAgrees` compares them. What the invariants use of
them is stated once: what an event at either end of a queue does
(`KnownAfterAppend`, `KnownAfterHead`, `BelievedAppend`, `BelievedHead`) and that
`Select` has the members it should (`SelectSelects`).

**Audio.** `AudioProofs` proves, for any programs, any rates and any number of
monitors:

| Theorem | Statement |
| --- | --- |
| `Invariance` | `Spec => []IInv` (with the type invariant) |
| `Exclusion` | `Spec => []ReconfiguresAlone` |
| `HardwareIsStreams` | `Spec => []HardwareFollowsStreams` |
| `StreamsAreServed` | `Spec => []NobodyUnserved` |

`ReconfiguresAlone` is kept only because the service's own flags say the truth:
`Exclusive` (the flag is set exactly while a call starts or stops) and `Streams`
(`hardware_active` is that a stream is open, none is open during a start or a
stop, and a change of route belongs to an open one), hence a last close finds
nobody routing. On top of that `Starting`, `Ending` and `Settled` follow the
codecs and the worker through the places of a start, of a stop and between them,
and `Served` says that a ready service has its worker. `StartStep` and
`RouteStep` reduce a step of one thread to its own progress, because the others
are outside, or because a change of route touches neither codecs nor worker.

**Display.** `DisplayProofs` proves, for any regions, colours, commands, command capacity and number of failures:

| Theorem | Statement |
| --- | --- |
| `Invariance` | `Spec => []IInv` |
| `DrawersTakeTurns` | `Spec => []OneDrawer` |
| `GuestMemoryIsThere` | `Spec => []GuestMemoryOutlivesReaders` |
| `ScannedIsNotWritten` | `Spec => BackIsNotScanned` |
| `ShownFramesAreWhole` | `Spec => []FrameIsWhole` |

`OneDrawer` is kept because of who may start to draw: `Sharing` relates the
places of the program's thread and of the terminal to `graphics_active` and the
console lock, and `StaysAtFence` says that the program's thread does not leave a
point where it waits for a refresh before it has had it. A bitmap is read only
after a blit was staged or queued; `Drained` and `Unstaged` say when neither is
there, `Loaded` that a program that has been freed has no thread in a gate. None of
them needs a panel that keeps still or an open that waits for the terminal.
`BackIsNotScanned` rests on `PanelFollows`, that with no frame pending the panel
scans the front buffer, and that a signal taken while one is pending is of a refresh
that came after it, unless that refresh was `early`. `OneIsBusy` says that as long as
no open has met a presentation two actors are never at points where they wait for the
panel, draw or submit, so the wait of one is not undone by another; the lemmas
`PaintBack` to `UncoverBack` say that each drawing operation leaves the front buffer
alone. `ScanInv` puts these together, for as long as nobody has met, and `FrameIsWhole`
builds on it; it speaks of the buffer given to the panel and not of what the panel
scans, so an early refresh does not disturb it.
`FrameInv` adds what follows a picture through the driver. `Covering`, `Borrowing`
and `Lending` say when a staged blit has its overlay decided and when its bitmap
may still be read in the program's memory. `Drawn` has the value: while a frame is
drawn, `canvas` is the driver's logical picture under the staged blit (`Sound`); when
it is finished, the back buffer holds it with its overlay and nothing deferred
(`Ready`); while a gate waits for the panel it is the last frame without its overlay
(`Settled`); and the terminal is handed over only when it is on the back buffer
(`OnTerminal`). One lemma per drawing operation (`PaintDraws` to `UncoverDraws`) says
what it does to the logical picture; the fallbacks of a refused PPA operation and the
copy of a saved overlay are among its cases.

**Power.** `PowerProofs` proves, for any participants and dependencies, any
policies, any number of suspends and a display that may or may not fail:

| Theorem | Statement |
| --- | --- |
| `Invariance` | `Spec => []IInv` |
| `TypeCorrect` | `Spec => []TypeOK` |
| `OrderIsSound` | `Spec => []SoundOrder` |
| `DependentsGoFirst` | `Spec => []DependentsFirst` |
| `SleepIsComplete` | `Spec => []AllOrNone` |
| `PanelIsLitFirst` | `Spec => []NoLightOnDarkPanel` |
| `StagesAreEarned` | `Spec => []DimmingIsEarned` |

The assumptions are those named in `Power`: dependencies name participants or
nothing, policies are the ones `policy_ok` accepts, and the clock stays below
`UINT64_MAX`. **The argument.** `Ordering` is the invariant of the depth-first
search. `Nested` says that the open calls of `visit` are of different
participants, all marked 1, and that what a call has dealt with is in the order
already, but for the one dependency whose call is above it; `Sorted` that the
order holds exactly the participants marked 2, once, behind all they depend on;
`Looped` that, as long as nothing failed, everything below the loop's index is
done. When the loop ends every participant is marked 2, so the order is a
bijection and has the length of the table: `SoundOrder`. `Turns` then follows a
transition along that order: `InTurn(m, here)` says that the last m of it are down,
the one before them is in one of given states, and the rest are risen, that is up or
failed. Each phase fixes m
and that state from `cursor`, `suspended` and `answer`, so at most one participant
is on its way at a time, and the token waited for names it and no other: that is
why a repeated answer, which cannot carry the token of a participant still on its
way, changes nothing. Rollback needs `Stacked`, that what was suspended so far is
the end of the order, backwards. `Halfway` is what is left of it when a shutdown
breaks a transition off. Of the display, `Belief` says that a value the manager
holds valid is the panel's; the two orders of `set_display` keep it whichever
write fails. `DimmingIsEarned` is inductive on top of the types, since a deadline
under an inhibitor is `UINT64_MAX`, which the clock does not reach.

**Camera.** `CameraProofs` proves, for any number of frames, pictures and streams
and both kinds of format:

| Theorem | Statement |
| --- | --- |
| `Invariance` | `Spec => []IInv` |
| `TypeCorrect` | `Spec => []TypeOK` |
| `LossesAreCounted` | `Spec => []DropsAreExact` |
| `OrderIsKept` | `Spec => InOrder` |
| `LeasesAreStable` | `Spec => LeasedIsStable` |

`DropsAreExact` counts, and a submission that finds no empty frame gives up the
oldest ready one, so `Accounted` has the inequality that holds of faulted streams
as well, and the lemmas say how the number of ready frames changes when one of them
is filled, replaced or leased. `InOrder` needs `Sequenced` (ready pictures are
later than the last one acquired, and no two have one number) and, for encoded
streams, `Gapless`: they are all the later ones, so the oldest of them is the next.
That there is an oldest rests on `LeastNatural`, the least element of a set of
naturals, taken from the well-foundedness of the strict subset ordering, since
the library's induction theorems are out of the provers' reach. `LeasedIsStable`
follows from `Apart` (a frame is ready or leased, never both).

`Spec`, without fairness, is enough for all of them. Only model-checked: what
needs fairness - every liveness property, and with them the part of the refinement
of `Delivery` that promises progress (`KeepsThePromise`) - which is out of the
provers' reach. Every safety invariant and every action property that a passing run
checks is proved, `ReplyForHolder`, `StatusesAreTrue` and the refinement of
`ExecCall` under the condition in their tables.

## 5. Not modelled

See the components table: rendering and text formats, parsers, register-level
drivers, the host platform and the applications. The *device registry* is one
table under one mutex with generation-tagged handles, and its unit tests reach
it; what it does together with the drivers is an event bit like any other
(`Delivery`). *Storage* forwards to file systems whose behaviour on a loss of power the
source does not state. The *inside of an update* is in the models of the services
that run in it; `EventLoop` takes it as a step. Of *start-up and its unwinding*
only what precedes the loop (notifications, a stop) is in `EventLoop`.

What the code does that its documentation or its neighbours would not suggest,
met while modelling or found by TLC, and without a run of its own:

- A program that spawns a child and calls `tabos_exec` before it has waited for it
  may take the child's answer for the one of its exec: `elf_exec` does not compare
  the path of a ready answer with the one asked for
  (`loader/elf_application.c:2205`). With `Overlap = TRUE` TLC finds
  `StatusesAreTrue` violated.
- Cleanup interrupts only the sockets of the program that ends, while the worker's
  mutex may be held by its parent in an operation of its own
  (`loader/elf_application.c:2517`): with `Concurrent = TRUE` `CleanupCompletes` is
  violated.
- The program's thread asks for the next frame after it has drained old signals;
  a refresh that ends between the drain and the choice
  (`platform/esp32p4/display.c:196`) gives a signal for the old buffer, which the
  fence takes for the new one, although `display_completion.h:13-14` says that the
  back buffer "cannot become writable until completion releases the previous front
  buffer", and `docs/graphics-api.md:115-119` speaks likewise. The interval is a few instructions, the refresh some milliseconds.
  Without the exception `early` TLC finds `BackIsNotScanned` violated.
- `elf_graphics_open` calls `platform_graphics_begin` before it tells the console
  (`loader/elf_application.c:1947`), whose cursor may be blinking on the other core
  through the same driver, which has no lock: two threads then fence, drain and
  exchange the same two buffers. Without the exception `met` TLC finds
  `BackIsNotScanned` and `FrameIsWhole` violated, and `OneDrawer` without the one it
  makes for `platform_graphics_begin`. The properties name both coincidences as
  exceptions, and say that nothing else goes wrong.
- When an asynchronous frame has failed, the next command finds the failure when it
  joins the worker and is drawn into the logical framebuffer instead, which is not
  shown (`loader/elf_application.c:1971-1982`): a command is lost without a word if
  `elf_graphics_capabilities` or a full queue comes first.
- Keys of the Tab5's matrix may share a code: '1' and '!' both have 0x1e in
  `base_mapping` (`platform/esp32p4/keyboard.c:46-52`), and `power_keys` counts
  codes, so releasing one clears the other while it is held, where `docs/sdk.md:144`
  speaks of "authoritative physical pressed keys", and `agents/power.md:90` of held
  keys as "temporary dim/suspend inhibitors". `GenerationTellsAll` and `KeysSettle`
  allow for exactly the keys that share a code (`SharedCodes`): a program may go on
  believing in the second one, the service may have lost it.
- `input_wait_ready` is called by nobody: a wait for the keyboard alone polls every
  10 ms (`loader/elf_application.c:1405`, `:1447`), where `docs/input.md:131-133` says
  "empty infinite waits create no periodic application work".
- `device_registry_remove` keeps the slot and the name of a removed device in use
  for ever (`kernel/device_registry.c`).
- `platform_network_connect` stores CONNECTING for a queued request after it has
  queued it, outside the lock (`platform/esp32p4/runtime.c:242-252`). If the start-up
  task has looked for a request and finished just before, the state stays CONNECTING
  with nobody to serve it. If it takes the request in between, joins, and the outcome
  is stored first, CONNECTING is stored last and stays, of a link that is up or an
  attempt that has failed. `StatusFollows` therefore speaks of the start-up task's
  attempt unless a connect call is on its way to that store (`Queueing`); without
  that, TLC finds it violated.
- A disconnect that the queued request has overtaken (the run `network_disconnect`)
  has suppressed retries (`net/network.c:165`), so when the overtaking attempt fails
  the service does not look at the failure, and its status stays CONNECTING:
  `StatusFollows` ends its interest in the attempt with the wish.
- A participant whose resume fails is recorded in `status.failure` and passed over
  (`kernel/power.c:392-398`, `:461-464`): those that depend on it are resumed on top
  of it, and the manager becomes ACTIVE with it not up. `DependentsFirst` says nothing
  of a participant that has failed, and `AllOrNone` allows for it.
- A connect that clears `wifi_disconnect_requested` before the event of an earlier
  disconnect arrives takes that event for a failure of its own (`runtime.c:267`).
- A child that exits with `INT_MIN`, the marker `TABOS_ELF_EXEC_PENDING`, makes
  `tabos_exec` (`sdk/lib/process.c:24`) poll on and launch it again; the statuses
  of `Process` exclude the marker.
- The cancel flag of a worker is global (`platform/posix/native_socket.inc:6`): the
  teardown of a child can cancel an operation of its parent.
- Emptying a pointer queue, on an overflow, a change of focus or the loss of the
  device, drops events that were not read (`pointer/pointer.c`). A release among
  them leaves its reader with a contact it believes down, although
  `docs/pointer.md:47-49` has every active contact cancelled: the service no
  longer counts it as active. `NoOtherStuckContact` is true with exactly that
  exception, `lost`.
- `pointer_service_open` tests for a device before it takes the lock; a stream
  installed after `pointer_service_remove_device` never hangs up.
- A touch fault ends with the device offline, where `docs/pointer.md:26-27` speaks
  of a fault.
- Two programs that route to the speaker at once can start two headphone
  monitors, since the flag is read and written without a lock
  (`platform/esp32p4/audio.c:154-160`). A last close waits for one of them, so
  the jack may be polled after it, where `docs/audio.md` says that without
  streams it is not; `HardwareFollowsStreams` leaves the monitors out for that
  reason. A change of route away from the speaker may wait for a monitor that
  another program has started meanwhile, for as long as that one stays.
- An update that returns early in a power transition has consumed its event bits
  (`kernel/runtime.c:493`), and `begin_shutdown` in the middle of one leaves
  participants suspended (`kernel/power.c:602`). Both are latent: only tests call
  `power_manager_request_suspend`.

A continuation would model the device registry and the mounting of storage.
